------------------------------- MODULE Ledger -------------------------------
(***************************************************************************)
(* The Invocation Ledger (apps/a2a-router/internal/ledger/store.go with    *)
(* the validators of contracts/runtime_contracts_validation.go): a table   *)
(* of projections, one row per Invocation, and a table of immutable        *)
(* events. Append validates a candidate event against both tables and, in  *)
(* one transaction, inserts the event and inserts or updates the row.      *)
(*                                                                         *)
(* Identifiers are abstract. The context of an Invocation keeps the fields *)
(* that the code compares with another Invocation; the Card version, the   *)
(* release provenance and the capability are only ever compared with the   *)
(* same Invocation's own events and go with them. Latency and payload      *)
(* sizes are left out.                                                     *)
(***************************************************************************)
EXTENDS Integers, Sequences, FiniteSets

CONSTANTS Invocations,  \* Invocation identifiers
          NoParent,     \* parent of a root Invocation
          Contexts,     \* contexts candidates may carry
          ErrorCodes,   \* Platform Error v4 codes
          Times,        \* timestamps candidates may carry, in microseconds
          MaxEvents     \* bound: events per Invocation

VARIABLES rows,         \* ledger.invocations: the projection of each Invocation
          events        \* ledger.invocation_events, per Invocation by sequence

ledgerVars == <<rows, events>>

NoCode == ""
NoChunk == -1
NoRow == [status |-> "none"]

Terminal == {"succeeded", "failed", "canceled", "timed_out"}

Statuses == {"pending", "routing", "running"} \cup Terminal

EventTypes == {"created", "routing", "started", "stream"} \cup Terminal

\* The code only compares contexts field by field, so any set of records with
\* these fields will do.
ASSUME ContextsAssumption ==
  /\ NoParent \notin Invocations
  /\ \A c \in Contexts :
       /\ c.parent \in Invocations \cup {NoParent}
       /\ DOMAIN c = {"parent", "root", "trace", "workspace", "caller", "target"}

ASSUME CodesAssumption ==
  /\ {"TIMEOUT", "CANCELED"} \subseteq ErrorCodes
  /\ NoCode \notin ErrorCodes

ASSUME TimesAssumption == Times \subseteq Nat /\ MaxEvents \in Nat

Event == [invocation : Invocations, sequence : Nat, type : EventTypes,
          status : Statuses, at : Times, code : ErrorCodes \cup {NoCode},
          chunk : Nat \cup {NoChunk}, ctx : Contexts]

Row == [ctx : Contexts, status : Statuses, code : ErrorCodes \cup {NoCode},
        createdAt : Times, updatedAt : Times]

LedgerTypeOK ==
  /\ rows \in [Invocations -> Row \cup {NoRow}]
  /\ events \in [Invocations -> Seq(Event)]

LedgerInit ==
  /\ rows = [i \in Invocations |-> NoRow]
  /\ events = [i \in Invocations |-> <<>>]

-----------------------------------------------------------------------------
(* Validation *)

isRuntimeTerminalStatus(s) == s \in Terminal

statusOfType(t) ==
  CASE t = "created" -> "pending"
    [] t \in {"started", "stream"} -> "running"
    [] OTHER -> t

\* The Event 0.3 schema: the status, the error code and the chunk index that
\* go with each event type.
ValidateInvocationEventV03(e) ==
  /\ e.status = statusOfType(e.type)
  /\ e.chunk # NoChunk <=> e.type = "stream"
  /\ e.type = "canceled" => e.code = "CANCELED"
  /\ e.type = "timed_out" => e.code = "TIMEOUT"
  /\ e.type = "failed" => e.code \in ErrorCodes \ {"CANCELED", "TIMEOUT"}
  /\ e.type \notin {"canceled", "timed_out", "failed"} => e.code = NoCode

FailureFromPending(from, type, to) ==
  \/ from = "pending" /\ type \in {"routing", "failed", "canceled", "timed_out"} /\ to = type
  \/ from = "routing" /\ type = "started" /\ to = "running"
  \/ from = "routing" /\ type \in {"failed", "canceled", "timed_out"} /\ to = type
  \/ from = "running" /\ type = "stream" /\ to = "running"
  \/ from = "running" /\ type \in Terminal /\ to = type

validRuntimeTransition(from, type, to) ==
  \/ from = "pending" /\ type \in {"routing", "canceled", "timed_out"} /\ to = type
  \/ from = "routing" /\ type = "started" /\ to = "running"
  \/ from = "routing" /\ type \in {"failed", "canceled", "timed_out"} /\ to = type
  \/ from = "running" /\ type = "stream" /\ to = "running"
  \/ from = "running" /\ type \in Terminal /\ to = type

nextChunkIndex(h) == Cardinality({k \in 1 .. Len(h) : h[k].type = "stream"})

\* RuntimeInvocationSequenceValidator.Accept after it accepted history h.
SequenceAccept(h, e) ==
  /\ ValidateInvocationEventV03(e)
  /\ e.sequence = Len(h)
  /\ IF h = <<>>
     THEN e.type = "created" /\ e.status = "pending"
     ELSE /\ ~isRuntimeTerminalStatus(h[Len(h)].status)
          /\ h[Len(h)].ctx = e.ctx /\ h[Len(h)].invocation = e.invocation
          /\ validRuntimeTransition(h[Len(h)].status, e.type, e.status)
  /\ e.type = "stream" => e.chunk = nextChunkIndex(h)

SequenceValid(h) ==
  \A k \in 1 .. Len(h) : SequenceAccept(SubSeq(h, 1, k - 1), h[k])

ValidateInvocationDetailResponseV1(i, row, h) ==
  /\ h # <<>>
  /\ SequenceValid(h)
  /\ \A k \in 1 .. Len(h) : h[k].ctx = row.ctx /\ h[k].invocation = i
  /\ row.status = h[Len(h)].status

\* Mutants: the caller is not compared with the parent's target; the parent's
\* status is not looked at.
CorrelationWithoutCaller(p, row, e) ==
  /\ row.status = "running"
  /\ e.type = "created" /\ e.status = "pending" /\ e.sequence = 0
  /\ e.ctx.parent = p /\ e.invocation # p
  /\ e.ctx.root = row.ctx.root
  /\ e.ctx.trace = row.ctx.trace
  /\ e.ctx.workspace = row.ctx.workspace

CorrelationWithoutStatus(p, row, e) ==
  /\ e.type = "created" /\ e.status = "pending" /\ e.sequence = 0
  /\ e.ctx.parent = p /\ e.invocation # p
  /\ e.ctx.root = row.ctx.root
  /\ e.ctx.trace = row.ctx.trace
  /\ e.ctx.workspace = row.ctx.workspace
  /\ e.ctx.caller = row.ctx.target

ValidateNestedInvocationCorrelation(p, row, e) ==
  /\ row.status = "running"
  /\ e.type = "created" /\ e.status = "pending" /\ e.sequence = 0
  /\ e.ctx.parent = p /\ e.invocation # p
  /\ e.ctx.root = row.ctx.root
  /\ e.ctx.trace = row.ctx.trace
  /\ e.ctx.workspace = row.ctx.workspace
  /\ e.ctx.caller = row.ctx.target

-----------------------------------------------------------------------------
(* Append *)

validateCandidate(e) ==
  /\ ValidateInvocationEventV03(e)
  /\ e.sequence = 0 => SequenceAccept(<<>>, e)

\* Append of a created event: the parent's row is locked and checked, and the
\* primary key admits one row per Invocation.
AcceptsCreated(e) ==
  LET p == e.ctx.parent
  IN /\ p # NoParent =>
          /\ rows[p] # NoRow
          /\ ValidateNestedInvocationCorrelation(p, rows[p], e)
          /\ e.at >= rows[p].updatedAt
     /\ rows[e.invocation] = NoRow

\* Append of a later event: the Invocation's own row is locked, its committed
\* history is replayed, and the event has to be the next of that history.
AcceptsNext(e) ==
  LET row == rows[e.invocation]
      h == events[e.invocation]
  IN /\ row # NoRow
     /\ e.at >= row.updatedAt
     /\ ValidateInvocationDetailResponseV1(e.invocation, row, h)
     /\ row.createdAt = h[1].at
     /\ row.updatedAt = h[Len(h)].at
     /\ row.code = h[Len(h)].code
     /\ SequenceAccept(h, e)

Accepts(e) ==
  /\ validateCandidate(e)
  /\ IF e.sequence = 0 THEN AcceptsCreated(e) ELSE AcceptsNext(e)

insertProjection(e) ==
  [ctx |-> e.ctx, status |-> e.status, code |-> NoCode,
   createdAt |-> e.at, updatedAt |-> e.at]

\* Mutant: the error code is not written.
UpdateWithoutCode(row, e) ==
  [row EXCEPT !.status = e.status, !.updatedAt = e.at]

updateProjection(row, e) ==
  [row EXCEPT !.status = e.status, !.code = e.code, !.updatedAt = e.at]

\* The effect of a committed append: the event and its projection together.
Commit(e) ==
  /\ events' = [events EXCEPT ![e.invocation] = Append(@, e)]
  /\ rows' = [rows EXCEPT ![e.invocation] =
                IF e.sequence = 0 THEN insertProjection(e)
                                  ELSE updateProjection(@, e)]

LedgerAppend(e) == Accepts(e) /\ Commit(e)

lifecycleEvent(i, s, t, at, code, chunk, ctx) ==
  [invocation |-> i, sequence |-> s, type |-> t, status |-> statusOfType(t),
   at |-> at, code |-> code, chunk |-> chunk, ctx |-> ctx]

\* What a caller can offer, within the bounds of the model. Append validates a
\* candidate on its own before it touches the database.
Candidates ==
  {e \in {lifecycleEvent(i, s, t, at, code, chunk, ctx) :
            i \in Invocations, s \in 0 .. MaxEvents - 1, t \in EventTypes, at \in Times,
            code \in ErrorCodes \cup {NoCode}, chunk \in NoChunk .. MaxEvents - 4,
            ctx \in Contexts} : validateCandidate(e)}

\* Any caller may offer any event. A refused or failed append changes nothing.
LedgerNext == \E e \in Candidates : LedgerAppend(e)

LedgerSpec == LedgerInit /\ [][LedgerNext]_ledgerVars

-----------------------------------------------------------------------------
(* Properties *)

\* The two tables never disagree: the committed history of every Invocation
\* replays, and its row is what the last event left. An Append therefore never
\* meets stored state it has to refuse (the "validate committed projection",
\* "validate projection state" and "validate committed lifecycle" failures of
\* Append), and a read never fails validation.
ProjectionIsReplay ==
  \A i \in Invocations :
    IF rows[i] = NoRow
    THEN events[i] = <<>>
    ELSE /\ ValidateInvocationDetailResponseV1(i, rows[i], events[i])
         /\ rows[i].createdAt = events[i][1].at
         /\ rows[i].updatedAt = events[i][Len(events[i])].at
         /\ rows[i].code = events[i][Len(events[i])].code

\* Lineage is sound: the parent of every nested Invocation exists, got as far
\* as running, shares root Task, Trace and Workspace with it, was targeted at
\* the Agent that called, and was created no later than it.
LineageSound ==
  \A i \in Invocations : rows[i] # NoRow /\ rows[i].ctx.parent # NoParent =>
    LET p == rows[i].ctx.parent
    IN /\ rows[p] # NoRow
       /\ rows[p].status \in {"running"} \cup Terminal
       /\ Len(events[p]) >= 3
       /\ rows[p].ctx.root = rows[i].ctx.root
       /\ rows[p].ctx.trace = rows[i].ctx.trace
       /\ rows[p].ctx.workspace = rows[i].ctx.workspace
       /\ rows[p].ctx.target = rows[i].ctx.caller
       /\ rows[p].createdAt <= rows[i].createdAt

\* The history is append-only: an event, once committed, is never changed or
\* dropped, and nothing follows a terminal event (first terminal wins).
AppendOnly ==
  \A i \in Invocations :
    /\ Len(events'[i]) >= Len(events[i])
    /\ SubSeq(events'[i], 1, Len(events[i])) = events[i]
    /\ rows[i].status \in Terminal => rows'[i] = rows[i] /\ events'[i] = events[i]

HistoryAppendOnly == [][AppendOnly]_ledgerVars

\* A nested Invocation comes into being only in a state where its parent is
\* running: a parent that terminates first makes Append refuse the child.
ChildNeedsRunningParent ==
  \A i \in Invocations :
    rows[i] = NoRow /\ rows'[i] # NoRow /\ rows'[i].ctx.parent # NoParent =>
      rows[rows'[i].ctx.parent].status = "running"

ChildUnderRunningParent == [][ChildNeedsRunningParent]_ledgerVars

\* The Ledger implements the abstract lifecycle.
Abstract == INSTANCE Lifecycle WITH
  status <- [i \in Invocations |-> rows[i].status],
  parent <- [i \in Invocations |-> IF rows[i] = NoRow THEN NoParent ELSE rows[i].ctx.parent]

ImplementsLifecycle == Abstract!LifecycleSpec
=============================================================================
