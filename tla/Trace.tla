------------------------------- MODULE Trace -------------------------------
(***************************************************************************)
(* Reading a Trace: Store.GetTrace, orderTraceProjections and              *)
(* ValidateTraceResponseV1, through the Router's handler and the Control   *)
(* Plane's.  The rows come into being as module Lifecycle says, which      *)
(* Ledger implements; what is added is what the read looks at, the Trace   *)
(* and the creation time.  A child has its parent's Trace and root Task    *)
(* and is created no earlier than it (Append), and a root has a Trace of   *)
(* its own, which the gateway generated for the request.  Identifiers are  *)
(* numbers in their byte order.                                            *)
(***************************************************************************)
EXTENDS Lifecycle, Naturals, Sequences, SequencesExt

CONSTANTS
    Times,                      \* creation times, in microseconds
    MetadataLimit               \* rows in an answer of metadataLimit bytes

VARIABLE row                    \* Trace and creation time of every Invocation

traceVars == <<status, parent, row>>

Init ==
    /\ LifecycleInit
    /\ row = [i \in Invocations |-> [trace |-> NoParent, at |-> 0]]

\* A root's Trace is named after it.
CreateRow(i, p) ==
    /\ Create(i, p)
    /\ \E at \in Times :
         /\ p # NoParent => at >= row[p].at
         /\ row' = [row EXCEPT ![i] = [trace |-> IF p = NoParent THEN i ELSE row[p].trace, at |-> at]]

Next ==
    \E i \in Invocations :
      \/ \E p \in (Invocations \cup {NoParent}) \ {i} : CreateRow(i, p)
      \/ \E s \in Statuses : Advance(i, s) /\ UNCHANGED row
-----------------------------------------------------------------------------
(* The read.  Its one statement sees one committed state.                  *)

TraceRows(t) == {i \in Invocations : status[i] # "none" /\ row[i].trace = t}

\* ORDER BY created_at, invocation_id.
ByCreation(rows) ==
    SetToSortSeq(rows, LAMBDA i, j : row[i].at < row[j].at \/ (row[i].at = row[j].at /\ i < j))

\* One pass over what is left: a root, or a row whose parent was emitted, in
\* this pass or before, is emitted.
Pass(acc) ==
    FoldLeft(LAMBDA a, i : IF parent[i] = NoParent \/ \E k \in DOMAIN a.ordered : a.ordered[k] = parent[i]
                           THEN [a EXCEPT !.ordered = Append(@, i)]
                           ELSE [a EXCEPT !.remaining = Append(@, i)],
             [ordered |-> acc.ordered, remaining |-> <<>>], acc.remaining)

\* Mutant: a single pass.
orderInOnePass(values) == Pass([ordered |-> <<>>, remaining |-> values])

\* Passes until nothing is left; a pass that emits nothing is an error, and so
\* as many passes as rows are enough.
orderTraceProjections(values) ==
    FoldLeft(LAMBDA acc, i : Pass(acc), [ordered |-> <<>>, remaining |-> values], values)

ValidateTraceResponseV1(t, rows) ==
    /\ rows # <<>>
    /\ \A k \in DOMAIN rows :
         /\ row[rows[k]].trace = t
         /\ \A j \in 1 .. k - 1 : rows[j] # rows[k]
         /\ parent[rows[k]] # NoParent => \E j \in 1 .. k - 1 : rows[j] = parent[rows[k]]

GetTrace(t) ==
    LET found == TraceRows(t)
        read == orderTraceProjections(ByCreation(found))
    IN IF found = {} THEN [error |-> "ErrNotFound"]
       ELSE IF read.remaining # <<>> \/ ~ValidateTraceResponseV1(t, read.ordered)
       THEN [error |-> "ErrDependency"]
       ELSE [invocations |-> read.ordered]

serveTraceRead(t) ==
    LET result == GetTrace(t)
    IN IF result = [error |-> "ErrNotFound"] THEN [status |-> 404]
       ELSE IF "error" \in DOMAIN result \/ ~ValidateTraceResponseV1(t, result.invocations)
       THEN [status |-> 503]
       ELSE [status |-> 200, invocations |-> result.invocations]

\* The Control Plane reads one byte more than metadataLimit of the answer. A
\* refusal is always shorter; an answer with a row for each Invocation may not be.
Oversized(rows) == Len(rows) > MetadataLimit

getTrace(t) ==
    LET response == serveTraceRead(t)
    IN IF response.status = 404 THEN [error |-> "NOT_FOUND"]
       ELSE IF \/ response.status # 200
               \/ Oversized(response.invocations)
               \/ ~ValidateTraceResponseV1(t, response.invocations)
       THEN [error |-> "DEPENDENCY_ERROR"]
       ELSE [invocations |-> response.invocations]
-----------------------------------------------------------------------------
\* A Trace that has a row can be read as long as its answer is within
\* metadataLimit: the read shows each of its Invocations once, a parent before its
\* children, whatever the creation times and identifiers, and in the order of
\* creation if every child of the Trace was created later than its parent, as the
\* dispatch handlers see to. Above the limit every read fails, and none shows a
\* part of the Trace.
TraceIsExact ==
    \A t \in Invocations : TraceRows(t) # {} =>
      LET read == getTrace(t)
          seq == read.invocations
          later == \A i \in TraceRows(t) : parent[i] # NoParent => row[i].at > row[parent[i]].at
      IN IF Cardinality(TraceRows(t)) > MetadataLimit THEN read = [error |-> "DEPENDENCY_ERROR"]
         ELSE
         /\ "invocations" \in DOMAIN read
         /\ ToSet(seq) = TraceRows(t) /\ Len(seq) = Cardinality(TraceRows(t))
         /\ \A j, k \in DOMAIN seq : j < k => parent[seq[j]] # seq[k]
         /\ later => seq = ByCreation(TraceRows(t))
=============================================================================
