------------------------------ MODULE LedgerTx ------------------------------
(***************************************************************************)
(* Append and the reads of the Ledger store as the PostgreSQL transactions *)
(* they are, statement by statement. Module Ledger makes an append one     *)
(* step; here the statements of several sessions interleave, and only the  *)
(* row locks (FOR UPDATE), the primary key and the unique event sequence   *)
(* stand between them. Statements run at READ COMMITTED: each sees what is *)
(* committed when it runs. The two reads run at REPEATABLE READ: all their *)
(* statements see the state of the first one.                              *)
(***************************************************************************)
EXTENDS Ledger

CONSTANTS Sessions,     \* database sessions that append
          Readers,      \* database sessions that read one Invocation
          NoSession,    \* holder of a free lock
          MaxOpen       \* bound: transactions open at the same time

ASSUME SessionsAssumption == NoSession \notin Sessions

VARIABLES tx,           \* the transaction of every appending session
          lock,         \* holder of the row lock (or pending key) of each Invocation
          read          \* the read transaction of every reader

txVars == <<rows, events, tx, lock, read>>

NoTx == [phase |-> "idle"]
NoRead == [phase |-> "idle"]

TxState ==
  {NoTx}
  \cup [phase : {"lockParent", "insertProjection", "lockProjection", "insertEvent",
                 "updateProjection", "commit"},
        event : Event]
  \cup [phase : {"readEvents"}, event : Event, row : Row]

TxInit ==
  /\ LedgerInit
  /\ tx = [s \in Sessions |-> NoTx]
  /\ lock = [i \in Invocations |-> NoSession]
  /\ read = [r \in Readers |-> NoRead]

\* Locks of session s are released when its transaction ends.
Release(s) == [i \in Invocations |-> IF lock[i] = s THEN NoSession ELSE lock[i]]

-----------------------------------------------------------------------------
(* Append, one statement at a time *)

\* Validation needs no database; the transaction begins after it.
TxBegin(s, e) ==
  /\ tx[s] = NoTx
  /\ validateCandidate(e)
  /\ tx' = [tx EXCEPT ![s] =
       [event |-> e,
        phase |-> IF e.sequence > 0 THEN "lockProjection"
                  ELSE IF e.ctx.parent = NoParent THEN "insertProjection"
                  ELSE "lockParent"]]
  /\ UNCHANGED <<rows, events, lock, read>>

\* Mutant: the parent is read without FOR UPDATE.
ReadParentUnlocked(s) ==
  LET e == tx[s].event
      p == e.ctx.parent
  IN /\ tx[s].phase = "lockParent"
     /\ rows[p] # NoRow
     /\ ValidateNestedInvocationCorrelation(p, rows[p], e)
     /\ e.at >= rows[p].updatedAt
     /\ tx' = [tx EXCEPT ![s] = [phase |-> "insertProjection", event |-> e]]
     /\ UNCHANGED <<rows, events, lock, read>>

\* SELECT ... FOR UPDATE of the parent, and the checks on what it returned.
TxLockParent(s) ==
  LET e == tx[s].event
      p == e.ctx.parent
  IN /\ tx[s].phase = "lockParent"
     /\ rows[p] # NoRow
     /\ lock[p] \in {NoSession, s}
     /\ ValidateNestedInvocationCorrelation(p, rows[p], e)
     /\ e.at >= rows[p].updatedAt
     /\ lock' = [lock EXCEPT ![p] = s]
     /\ tx' = [tx EXCEPT ![s] = [phase |-> "insertProjection", event |-> e]]
     /\ UNCHANGED <<rows, events, read>>

\* INSERT of the row: refused when the key is committed, blocked while another
\* transaction has an uncommitted insert of the same key.
TxInsertProjection(s) ==
  LET e == tx[s].event
      i == e.invocation
  IN /\ tx[s].phase = "insertProjection"
     /\ rows[i] = NoRow
     /\ lock[i] \in {NoSession, s}
     /\ lock' = [lock EXCEPT ![i] = s]
     /\ tx' = [tx EXCEPT ![s] = [phase |-> "insertEvent", event |-> e]]
     /\ UNCHANGED <<rows, events, read>>

\* Mutant: the row is read without FOR UPDATE.
ReadProjectionUnlocked(s) ==
  LET e == tx[s].event
      i == e.invocation
  IN /\ tx[s].phase = "lockProjection"
     /\ rows[i] # NoRow
     /\ e.at >= rows[i].updatedAt
     /\ tx' = [tx EXCEPT ![s] = [phase |-> "readEvents", event |-> e, row |-> rows[i]]]
     /\ UNCHANGED <<rows, events, lock, read>>

\* SELECT ... FOR UPDATE of the Invocation's own row.
TxLockProjection(s) ==
  LET e == tx[s].event
      i == e.invocation
  IN /\ tx[s].phase = "lockProjection"
     /\ rows[i] # NoRow
     /\ lock[i] \in {NoSession, s}
     /\ e.at >= rows[i].updatedAt
     /\ lock' = [lock EXCEPT ![i] = s]
     /\ tx' = [tx EXCEPT ![s] = [phase |-> "readEvents", event |-> e, row |-> rows[i]]]
     /\ UNCHANGED <<rows, events, read>>

\* SELECT of the history, its validation against the row read before, and the
\* replay that has to accept the candidate.
TxReadEvents(s) ==
  LET e == tx[s].event
      row == tx[s].row
      h == events[e.invocation]
  IN /\ tx[s].phase = "readEvents"
     /\ ValidateInvocationDetailResponseV1(e.invocation, row, h)
     /\ row.createdAt = h[1].at
     /\ row.updatedAt = h[Len(h)].at
     /\ row.code = h[Len(h)].code
     /\ SequenceAccept(h, e)
     /\ tx' = [tx EXCEPT ![s] = [phase |-> "insertEvent", event |-> e]]
     /\ UNCHANGED <<rows, events, lock, read>>

\* Phases in which session t holds an uncommitted INSERT of its event.
Written == {"updateProjection", "commit"}

\* Mutant: the event is inserted outside the transaction.
InsertEventAlone(s) ==
  LET e == tx[s].event
  IN /\ tx[s].phase = "insertEvent"
     /\ events' = [events EXCEPT ![e.invocation] = Append(@, e)]
     /\ tx' = [tx EXCEPT ![s] = [phase |-> "updateProjection", event |-> e]]
     /\ UNCHANGED <<rows, lock, read>>

\* INSERT of the event, which nobody else sees before the commit. The unique
\* index on (invocation_id, sequence) refuses a second event with this sequence
\* and makes the session wait for another that is about to commit one.
TxInsertEvent(s) ==
  LET e == tx[s].event
  IN /\ tx[s].phase = "insertEvent"
     /\ \A k \in 1 .. Len(events[e.invocation]) :
          events[e.invocation][k].sequence # e.sequence
     /\ \A t \in Sessions \ {s} : tx[t].phase \in Written =>
          \/ tx[t].event.invocation # e.invocation
          \/ tx[t].event.sequence # e.sequence
     /\ tx' = [tx EXCEPT ![s] =
          [phase |-> IF e.sequence > 0 THEN "updateProjection" ELSE "commit", event |-> e]]
     /\ UNCHANGED <<rows, events, lock, read>>

\* UPDATE of the row, which nobody else sees before the commit either.
TxUpdateProjection(s) ==
  /\ tx[s].phase = "updateProjection"
  /\ tx' = [tx EXCEPT ![s] = [phase |-> "commit", event |-> tx[s].event]]
  /\ UNCHANGED <<rows, events, lock, read>>

\* COMMIT takes effect whether or not the caller learns of it.
TxCommit(s) ==
  /\ tx[s].phase = "commit"
  /\ Commit(tx[s].event)
  /\ tx' = [tx EXCEPT ![s] = NoTx]
  /\ lock' = Release(s)
  /\ UNCHANGED read

\* A refused check, a database failure or an expired context, before or after
\* any statement, ends the transaction with nothing written.
TxRollback(s) ==
  /\ tx[s] # NoTx
  /\ tx' = [tx EXCEPT ![s] = NoTx]
  /\ lock' = Release(s)
  /\ UNCHANGED <<rows, events, read>>

-----------------------------------------------------------------------------
(* GetInvocation and GetInvocationByParentID *)

\* The first statement fixes the snapshot of the transaction.
ReadProjection(r, i) ==
  /\ read[r] = NoRead
  /\ rows[i] # NoRow
  /\ read' = [read EXCEPT ![r] =
       [phase |-> "events", invocation |-> i, row |-> rows[i], snapshot |-> events[i]]]
  /\ UNCHANGED <<rows, events, tx, lock>>

\* Mutant: the read runs at READ COMMITTED.
ReadCommittedEvents(r) ==
  /\ read[r].phase = "events"
  /\ read' = [read EXCEPT ![r] =
       [phase |-> "validate", invocation |-> read[r].invocation, row |-> read[r].row,
        history |-> events[read[r].invocation]]]
  /\ UNCHANGED <<rows, events, tx, lock>>

\* The second statement reads the history in that snapshot.
ReadEvents(r) ==
  /\ read[r].phase = "events"
  /\ read' = [read EXCEPT ![r] =
       [phase |-> "validate", invocation |-> read[r].invocation, row |-> read[r].row,
        history |-> read[r].snapshot]]
  /\ UNCHANGED <<rows, events, tx, lock>>

ReadReturns(r) ==
  /\ read[r].phase = "validate"
  /\ read' = [read EXCEPT ![r] = NoRead]
  /\ UNCHANGED <<rows, events, tx, lock>>

-----------------------------------------------------------------------------

TxAppendStep(s) ==
  \/ TxLockParent(s)
  \/ TxInsertProjection(s)
  \/ TxLockProjection(s)
  \/ TxReadEvents(s)
  \/ TxInsertEvent(s)
  \/ TxUpdateProjection(s)
  \/ TxCommit(s)
  \/ TxRollback(s)

\* Bound: a session begins with an event that is the next one at that moment,
\* as the Router's handlers do; others may commit before it takes its lock.
\* Ledger covers the candidates that are ahead or behind from the start.
Timely(e) == e.sequence = Len(events[e.invocation])

\* Transactions beyond the bound wait for a connection.
Connection ==
  Cardinality({s \in Sessions : tx[s] # NoTx}) + Cardinality({r \in Readers : read[r] # NoRead})
    < MaxOpen

TxNext ==
  \/ \E s \in Sessions :
       \/ \E e \in Candidates : Timely(e) /\ Connection /\ TxBegin(s, e)
       \/ TxAppendStep(s)
  \/ \E r \in Readers :
       \/ \E i \in Invocations : Connection /\ ReadProjection(r, i)
       \/ ReadEvents(r)
       \/ ReadReturns(r)

TxSpec == TxInit /\ [][TxNext]_txVars

-----------------------------------------------------------------------------
(* Properties *)

TxTypeOK ==
  /\ LedgerTypeOK
  /\ tx \in [Sessions -> TxState]
  /\ lock \in [Invocations -> Sessions \cup {NoSession}]
  /\ DOMAIN read = Readers

\* A transaction that passed its last check can still be committed: nothing
\* another session commits between a check and the commit invalidates what
\* Append checked, neither the parent's status nor the Invocation's history.
ChecksStillHold ==
  \A s \in Sessions :
    tx[s].phase \in {"insertEvent", "updateProjection", "commit"} => Accepts(tx[s].event)

\* A read never returns a row and a history that disagree, and therefore never
\* fails with "validate stored Invocation detail", although appends commit
\* between its two statements.
ReadsAreConsistent ==
  \A r \in Readers : read[r].phase = "validate" =>
    ValidateInvocationDetailResponseV1(read[r].invocation, read[r].row, read[r].history)

\* Appends are atomic: however the statements of the sessions interleave, each
\* change of the two tables is one Append of module Ledger, of the event a
\* committing session carries, accepted in the very state it is applied to.
AtomicAppend ==
  \E s \in Sessions : tx[s].phase = "commit" /\ LedgerAppend(tx[s].event)

AppendsAreAtomic == [][AtomicAppend]_ledgerVars
=============================================================================
