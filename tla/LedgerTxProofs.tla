--------------------------- MODULE LedgerTxProofs ---------------------------
(***************************************************************************)
(* Append is atomic, for any number of sessions and Invocations: the row   *)
(* locks and the primary key keep what a transaction checked true until it *)
(* commits. The interleaved transactions therefore implement module        *)
(* Ledger, and all that is proved of the Ledger holds of them.             *)
(***************************************************************************)
EXTENDS LedgerTx, LedgerProofs

\* What the transaction of session s checked of the parent, and that it holds
\* the parent's row lock.
ParentChecked(s, e) ==
  LET p == e.ctx.parent
  IN p # NoParent =>
       /\ lock[p] = s
       /\ rows[p] # NoRow
       /\ ValidateNestedInvocationCorrelation(p, rows[p], e)
       /\ e.at >= rows[p].updatedAt

\* What session s has established by the phase it is in.
SessionInv(s) ==
  LET e == tx[s].event
      i == e.invocation
  IN /\ tx[s] # NoTx => e \in Candidates
     /\ tx[s].phase = "lockParent" => e.sequence = 0 /\ e.ctx.parent # NoParent
     /\ tx[s].phase = "insertProjection" => e.sequence = 0 /\ ParentChecked(s, e)
     /\ tx[s].phase = "lockProjection" => e.sequence # 0
     /\ tx[s].phase = "readEvents" =>
          /\ e.sequence # 0
          /\ lock[i] = s
          /\ rows[i] # NoRow /\ tx[s].row = rows[i]
          /\ e.at >= rows[i].updatedAt
     /\ tx[s].phase \in {"insertEvent", "updateProjection", "commit"} =>
          /\ lock[i] = s
          /\ Accepts(e)
          /\ e.sequence = 0 => ParentChecked(s, e)

TxInv == TxTypeOK /\ \A s \in Sessions : SessionInv(s)

-----------------------------------------------------------------------------

\* The event a session carries is an Event, and so is every candidate.
LEMMA CarriedEvent ==
  ASSUME TxTypeOK, NEW s \in Sessions, tx[s] # NoTx
  PROVE  /\ tx[s].event \in Event
         /\ tx[s].event.invocation \in Invocations
         /\ tx[s].event.ctx.parent \in Invocations \cup {NoParent}
<1>1. tx[s].event \in Event
  BY Zenon DEF TxTypeOK, TxState
<1> QED
  BY <1>1, ContextsAssumption, Zenon DEF Event

LEMMA CandidatesAreEvents ==
  ASSUME NEW e \in Candidates
  PROVE  e \in Event /\ validateCandidate(e)
  BY CandidateIsEvent DEF Candidates

\* Whether a candidate is accepted depends on its own row and history and on
\* its parent's row alone.
LEMMA AcceptsDepends ==
  ASSUME NEW e \in Event,
         rows'[e.invocation] = rows[e.invocation],
         events'[e.invocation] = events[e.invocation],
         e.sequence = 0 /\ e.ctx.parent # NoParent =>
           rows'[e.ctx.parent] = rows[e.ctx.parent],
         Accepts(e)
  PROVE  Accepts(e)'
<1>1. validateCandidate(e)'
  BY Zenon DEF Accepts, validateCandidate, ValidateInvocationEventV03, SequenceAccept,
         nextChunkIndex
<1>2. CASE e.sequence = 0
  <2>1. AcceptsCreated(e)'
    BY <1>2, Zenon DEF Accepts, AcceptsCreated, ValidateNestedInvocationCorrelation
  <2> QED
    BY <1>1, <1>2, <2>1, Zenon DEF Accepts
<1>3. CASE e.sequence # 0
  <2>0. AcceptsNext(e)
    BY <1>3, Zenon DEF Accepts
  <2>1. AcceptsNext(e)'
    <3> SUFFICES LET row == rows'[e.invocation]
                     h == events'[e.invocation]
                 IN /\ row # NoRow
                    /\ e.at >= row.updatedAt
                    /\ ValidateInvocationDetailResponseV1(e.invocation, row, h)
                    /\ row.createdAt = h[1].at
                    /\ row.updatedAt = h[Len(h)].at
                    /\ row.code = h[Len(h)].code
                    /\ SequenceAccept(h, e)
      BY Zenon DEF AcceptsNext, ValidateInvocationDetailResponseV1, SequenceValid,
             SequenceAccept, ValidateInvocationEventV03, nextChunkIndex
    <3> QED
      BY <2>0, Zenon DEF AcceptsNext
  <2> QED
    BY <1>1, <1>3, <2>1, Zenon DEF Accepts
<1> QED
  BY <1>2, <1>3, Zenon

\* A session that takes no step keeps what it established, when the rows it
\* holds the locks of do not change and stay locked.
LEMMA SessionFrame ==
  ASSUME TxTypeOK, NEW s \in Sessions, SessionInv(s), tx'[s] = tx[s],
         \A j \in Invocations : lock[j] = s =>
           lock'[j] = s /\ rows'[j] = rows[j] /\ events'[j] = events[j]
  PROVE  SessionInv(s)'
<1> DEFINE e == tx[s].event
<1>1. CASE tx[s] = NoTx
  BY <1>1 DEF SessionInv, NoTx
<1>2. CASE tx[s] # NoTx
  <2>1. e \in Event /\ e.invocation \in Invocations /\ e.ctx.parent \in Invocations \cup {NoParent}
    BY <1>2, CarriedEvent, Zenon
  <2>2. ParentChecked(s, e) => ParentChecked(s, e)'
    BY <2>1, ZenonT(60) DEF ParentChecked, ValidateNestedInvocationCorrelation
  <2>3. tx[s].phase \in {"insertEvent", "updateProjection", "commit"} => Accepts(e)'
    <3> SUFFICES ASSUME tx[s].phase \in {"insertEvent", "updateProjection", "commit"}
                 PROVE  Accepts(e)'
      BY Zenon
    <3>1. lock[e.invocation] = s /\ Accepts(e) /\ (e.sequence = 0 => ParentChecked(s, e))
      BY Zenon DEF SessionInv
    <3>2. e.sequence = 0 /\ e.ctx.parent # NoParent => lock[e.ctx.parent] = s
      BY <3>1, Zenon DEF ParentChecked
    <3> QED
      BY <2>1, <3>1, <3>2, AcceptsDepends, Zenon
  <2>4. e \in Candidates => (e \in Candidates)'
    BY Zenon
  <2> QED
    BY <1>2, <2>1, <2>2, <2>3, <2>4, Zenon DEF SessionInv
<1> QED
  BY <1>1, <1>2, Zenon

-----------------------------------------------------------------------------
(* One lemma per action: the types, and what the acting session establishes *)

LEMMA BeginKeeps ==
  ASSUME TxInv, NEW t \in Sessions, NEW c \in Candidates, TxBegin(t, c)
  PROVE  TxTypeOK' /\ SessionInv(t)'
<1>1. c \in Event /\ validateCandidate(c)
  BY CandidatesAreEvents, Zenon
<1>2. tx'[t].event = c /\ tx'[t].phase = IF c.sequence > 0 THEN "lockProjection"
                  ELSE IF c.ctx.parent = NoParent THEN "insertProjection"
                  ELSE "lockParent"
  BY Zenon DEF TxBegin, TxInv, TxTypeOK
<1>3. TxTypeOK'
  BY <1>1, Zenon DEF TxInv, TxTypeOK, LedgerTypeOK, TxBegin, TxState
<1>4. c.sequence \in Nat
  BY <1>1, Zenon DEF Event
<1>5. SessionInv(t)'
  BY <1>1, <1>2, <1>4 DEF SessionInv, ParentChecked
<1> QED
  BY <1>3, <1>5, Zenon

LEMMA LockParentKeeps ==
  ASSUME TxInv, NEW t \in Sessions, TxLockParent(t)
  PROVE  TxTypeOK' /\ SessionInv(t)'
<1> DEFINE e == tx[t].event
<1>1. tx[t] # NoTx
  BY DEF TxLockParent, NoTx
<1>2. e \in Event /\ e.ctx.parent \in Invocations \cup {NoParent}
  BY <1>1, CarriedEvent, Zenon DEF TxInv
<1>3. e \in Candidates /\ e.sequence = 0 /\ e.ctx.parent # NoParent
  BY <1>1, Zenon DEF TxInv, SessionInv, TxLockParent
<1>4. tx'[t] = [phase |-> "insertProjection", event |-> e]
  BY Zenon DEF TxLockParent, TxInv, TxTypeOK
<1>5. TxTypeOK'
  BY <1>2, <1>3, Zenon DEF TxInv, TxTypeOK, LedgerTypeOK, TxLockParent, TxState
<1>6. ParentChecked(t, e)'
  BY <1>2, <1>3, Zenon DEF ParentChecked, TxLockParent, TxInv, TxTypeOK,
                    ValidateNestedInvocationCorrelation
<1>7. SessionInv(t)'
  BY <1>3, <1>4, <1>6 DEF SessionInv
<1> QED
  BY <1>5, <1>7, Zenon

LEMMA InsertProjectionKeeps ==
  ASSUME TxInv, NEW t \in Sessions, TxInsertProjection(t)
  PROVE  TxTypeOK' /\ SessionInv(t)'
<1>1. tx[t] # NoTx
  BY DEF TxInsertProjection, NoTx
<1>2. PICK e \in Event : e = tx[t].event /\ e.invocation \in Invocations
  BY <1>1, CarriedEvent, Zenon DEF TxInv
<1>3. e \in Candidates /\ e.sequence = 0 /\ ParentChecked(t, e)
  BY <1>1, <1>2, Zenon DEF TxInv, SessionInv, TxInsertProjection
<1>4. tx'[t] = [phase |-> "insertEvent", event |-> e]
  BY <1>2, Zenon DEF TxInsertProjection, TxInv, TxTypeOK
<1>5. TxTypeOK'
  BY <1>2, Zenon DEF TxInv, TxTypeOK, LedgerTypeOK, TxInsertProjection, TxState
<1>6. lock'[e.invocation] = t /\ \A j \in Invocations : lock[j] = t => lock'[j] = t
  BY <1>2, Zenon DEF TxInsertProjection, TxInv, TxTypeOK
<1>7. rows' = rows /\ events' = events
  BY Zenon DEF TxInsertProjection
<1>8. Accepts(e)
  <2>1. AcceptsCreated(e)
    BY <1>2, <1>3, Zenon DEF AcceptsCreated, ParentChecked, TxInsertProjection
  <2> QED
    BY <1>3, <2>1, CandidatesAreEvents, Zenon DEF Accepts
<1>9. Accepts(e)'
  BY <1>2, <1>7, <1>8, AcceptsDepends, Zenon
<1>10. e.ctx.parent \in Invocations \cup {NoParent}
  BY <1>2, ContextsAssumption, Zenon DEF Event
<1>11. ParentChecked(t, e)'
  BY <1>3, <1>6, <1>7, <1>10, Zenon DEF ParentChecked, ValidateNestedInvocationCorrelation
<1>12. SessionInv(t)'
  BY <1>3, <1>4, <1>6, <1>9, <1>11 DEF SessionInv
<1> QED
  BY <1>5, <1>12, Zenon

LEMMA LockProjectionKeeps ==
  ASSUME TxInv, NEW t \in Sessions, TxLockProjection(t)
  PROVE  TxTypeOK' /\ SessionInv(t)'
<1> DEFINE e == tx[t].event
<1>1. tx[t] # NoTx
  BY DEF TxLockProjection, NoTx
<1>2. e \in Event /\ e.invocation \in Invocations
  BY <1>1, CarriedEvent, Zenon DEF TxInv
<1>3. e \in Candidates /\ e.sequence # 0
  BY <1>1, Zenon DEF TxInv, SessionInv, TxLockProjection
<1>4. tx'[t] = [phase |-> "readEvents", event |-> e, row |-> rows[e.invocation]]
  BY Zenon DEF TxLockProjection, TxInv, TxTypeOK
<1>5. rows[e.invocation] \in Row
  BY <1>2, Zenon DEF TxInv, TxTypeOK, LedgerTypeOK, TxLockProjection
<1>6. TxTypeOK'
  BY <1>2, <1>5, Zenon DEF TxInv, TxTypeOK, LedgerTypeOK, TxLockProjection, TxState
<1>7. lock'[e.invocation] = t
  BY <1>2, Zenon DEF TxLockProjection, TxInv, TxTypeOK
<1>8. SessionInv(t)'
  BY <1>3, <1>4, <1>7 DEF SessionInv, TxLockProjection
<1> QED
  BY <1>6, <1>8, Zenon

LEMMA ReadEventsKeeps ==
  ASSUME TxInv, NEW t \in Sessions, TxReadEvents(t)
  PROVE  TxTypeOK' /\ SessionInv(t)'
<1>1. tx[t] # NoTx
  BY DEF TxReadEvents, NoTx
<1>2. PICK e \in Event : e = tx[t].event /\ e.invocation \in Invocations
  BY <1>1, CarriedEvent, Zenon DEF TxInv
<1>3. /\ e \in Candidates /\ e.sequence # 0 /\ lock[e.invocation] = t
      /\ rows[e.invocation] # NoRow /\ tx[t].row = rows[e.invocation]
      /\ e.at >= rows[e.invocation].updatedAt
  BY <1>1, <1>2, Zenon DEF TxInv, SessionInv, TxReadEvents
<1>4. tx'[t] = [phase |-> "insertEvent", event |-> e]
  BY <1>2, Zenon DEF TxReadEvents, TxInv, TxTypeOK
<1>5. TxTypeOK'
  BY <1>2, Zenon DEF TxInv, TxTypeOK, LedgerTypeOK, TxReadEvents, TxState
<1>6. rows' = rows /\ events' = events /\ lock' = lock
  BY Zenon DEF TxReadEvents
<1>7. Accepts(e)
  <2>1. AcceptsNext(e)
    BY <1>2, <1>3, Zenon DEF AcceptsNext, TxReadEvents
  <2> QED
    BY <1>3, <2>1, CandidatesAreEvents, Zenon DEF Accepts
<1>8. Accepts(e)'
  BY <1>2, <1>6, <1>7, AcceptsDepends, Zenon
<1>9. SessionInv(t)'
  BY <1>3, <1>4, <1>6, <1>8 DEF SessionInv
<1> QED
  BY <1>5, <1>9, Zenon

\* The two writes are seen by nobody else and change nothing that was checked.
LEMMA WritesKeep ==
  ASSUME TxInv, NEW t \in Sessions, TxInsertEvent(t) \/ TxUpdateProjection(t)
  PROVE  TxTypeOK' /\ SessionInv(t)'
<1>1. tx[t] # NoTx /\ tx[t].phase \in {"insertEvent", "updateProjection"}
  BY DEF TxInsertEvent, TxUpdateProjection, NoTx
<1>2. PICK e \in Event : e = tx[t].event /\ e.invocation \in Invocations
  BY <1>1, CarriedEvent, Zenon DEF TxInv
<1>3. /\ e \in Candidates /\ lock[e.invocation] = t /\ Accepts(e)
      /\ e.sequence = 0 => ParentChecked(t, e)
  BY <1>1, <1>2, Zenon DEF TxInv, SessionInv
<1>4. PICK phase \in {"updateProjection", "commit"} :
        tx' = [tx EXCEPT ![t] = [phase |-> phase, event |-> e]]
  BY <1>2, Zenon DEF TxInsertEvent, TxUpdateProjection
<1>5. rows' = rows /\ events' = events /\ lock' = lock /\ read' = read
  BY Zenon DEF TxInsertEvent, TxUpdateProjection
<1>6. TxTypeOK'
  BY <1>2, <1>4, <1>5, Zenon DEF TxInv, TxTypeOK, LedgerTypeOK, TxState
<1>7. tx'[t] = [phase |-> phase, event |-> e]
  BY <1>4, Zenon DEF TxInv, TxTypeOK
<1>8. Accepts(e)'
  BY <1>2, <1>3, <1>5, AcceptsDepends, Zenon
<1>9. e.sequence = 0 => ParentChecked(t, e)'
  BY <1>3, <1>5, Zenon DEF ParentChecked, ValidateNestedInvocationCorrelation
<1>10. SessionInv(t)'
  BY <1>3, <1>5, <1>7, <1>8, <1>9 DEF SessionInv, NoTx
<1> QED
  BY <1>6, <1>10, Zenon

\* A commit is an append of module Ledger.
LEMMA CommitIsAppend ==
  ASSUME TxInv, NEW t \in Sessions, TxCommit(t)
  PROVE  /\ tx[t].event \in Event /\ tx[t].event \in Candidates
         /\ lock[tx[t].event.invocation] = t
         /\ LedgerAppend(tx[t].event)
<1>1. tx[t] # NoTx
  BY DEF TxCommit, NoTx
<1> QED
  BY <1>1, CarriedEvent, Zenon DEF TxInv, SessionInv, TxCommit, LedgerAppend

\* The end of a transaction frees its locks and leaves the session idle.
LEMMA EndKeeps ==
  ASSUME TxInv, NEW t \in Sessions, LedgerTypeOK', UNCHANGED read,
         tx' = [tx EXCEPT ![t] = NoTx], lock' = Release(t)
  PROVE  TxTypeOK' /\ SessionInv(t)'
<1>1. TxTypeOK'
  BY Zenon DEF TxInv, TxTypeOK, Release, TxState
<1>2. tx'[t] = NoTx
  BY Zenon DEF TxInv, TxTypeOK
<1> QED
  BY <1>1, <1>2 DEF SessionInv, NoTx

\* A step of session t touches neither another session's transaction nor the
\* rows another session has locked.
LEMMA OthersKeep ==
  ASSUME TxInv, NEW t \in Sessions,
         (\E c \in Candidates : TxBegin(t, c)) \/ TxAppendStep(t),
         NEW s \in Sessions \ {t}
  PROVE  SessionInv(s)'
<1>1. tx'[s] = tx[s]
  BY Zenon DEF TxInv, TxTypeOK, TxBegin, TxAppendStep, TxLockParent, TxInsertProjection,
         TxLockProjection, TxReadEvents, TxInsertEvent, TxUpdateProjection, TxCommit, TxRollback
<1>2. ASSUME NEW j \in Invocations, lock[j] = s
      PROVE  lock'[j] = s
  BY <1>2, SessionsAssumption, Zenon
     DEF TxInv, TxTypeOK, TxBegin, TxAppendStep, TxLockParent, TxInsertProjection,
         TxLockProjection, TxReadEvents, TxInsertEvent, TxUpdateProjection, TxCommit, TxRollback,
         Release
<1>3. ASSUME NEW j \in Invocations, lock[j] = s
      PROVE  rows'[j] = rows[j] /\ events'[j] = events[j]
  <2>1. CASE TxCommit(t)
    <3>1. /\ tx[t].event \in Event /\ lock[tx[t].event.invocation] = t
          /\ LedgerAppend(tx[t].event)
      BY <2>1, CommitIsAppend, Zenon
    <3>2. j # tx[t].event.invocation
      BY <1>3, <3>1, Zenon
    <3> QED
      BY <3>1, <3>2, AppendEffect, Zenon DEF TxInv, TxTypeOK
  <2>2. CASE ~TxCommit(t)
    BY <2>2, Zenon DEF TxBegin, TxAppendStep, TxLockParent, TxInsertProjection,
                TxLockProjection, TxReadEvents, TxInsertEvent, TxUpdateProjection, TxRollback
  <2> QED
    BY <2>1, <2>2, Zenon
<1> QED
  BY <1>1, <1>2, <1>3, SessionFrame, Zenon DEF TxInv

\* Every step of an appending session keeps the invariant.
LEMMA SessionStepKeeps ==
  ASSUME TxInv, NEW t \in Sessions,
         (\E c \in Candidates : TxBegin(t, c)) \/ TxAppendStep(t)
  PROVE  TxInv'
<1>1. TxTypeOK' /\ SessionInv(t)'
  <2>1. CASE \E c \in Candidates : TxBegin(t, c)
    BY <2>1, BeginKeeps, Zenon
  <2>2. CASE TxLockParent(t)
    BY <2>2, LockParentKeeps, Zenon
  <2>3. CASE TxInsertProjection(t)
    BY <2>3, InsertProjectionKeeps, Zenon
  <2>4. CASE TxLockProjection(t)
    BY <2>4, LockProjectionKeeps, Zenon
  <2>5. CASE TxReadEvents(t)
    BY <2>5, ReadEventsKeeps, Zenon
  <2>6. CASE TxCommit(t)
    <3>1. tx[t].event \in Event /\ LedgerAppend(tx[t].event)
      BY <2>6, CommitIsAppend, Zenon
    <3>2. LedgerTypeOK'
      BY <3>1, AppendKeepsType, Zenon DEF TxInv, TxTypeOK
    <3> QED
      BY <2>6, <3>2, EndKeeps, Zenon DEF TxCommit
  <2>7. CASE TxRollback(t)
    <3>1. LedgerTypeOK'
      BY <2>7, Zenon DEF TxRollback, TxInv, TxTypeOK, LedgerTypeOK
    <3> QED
      BY <2>7, <3>1, EndKeeps, Zenon DEF TxRollback
  <2>8. CASE TxInsertEvent(t) \/ TxUpdateProjection(t)
    BY <2>8, WritesKeep, Zenon
  <2> QED
    BY <2>1, <2>2, <2>3, <2>4, <2>5, <2>6, <2>7, <2>8, Zenon DEF TxAppendStep
<1>2. \A s \in Sessions : SessionInv(s)'
  BY <1>1, OthersKeep, Zenon
<1> QED
  BY <1>1, <1>2, Zenon DEF TxInv

\* Reads, and steps that change nothing, keep it as well.
LEMMA ReadStepKeeps ==
  ASSUME TxInv, UNCHANGED <<rows, events, tx, lock>>, DOMAIN read' = Readers
  PROVE  TxInv'
<1>1. TxTypeOK'
  BY Zenon DEF TxInv, TxTypeOK, LedgerTypeOK
<1>2. ASSUME NEW s \in Sessions PROVE SessionInv(s)'
  BY SessionFrame, Zenon DEF TxInv
<1> QED
  BY <1>1, <1>2, Zenon DEF TxInv

LEMMA TxInvInit ==
  ASSUME TxInit
  PROVE  TxInv
<1>1. TxTypeOK
  BY DEF TxInit, LedgerInit, TxTypeOK, LedgerTypeOK, TxState
<1> QED
  BY <1>1, Zenon DEF TxInit, TxInv, SessionInv, NoTx

LEMMA TxInvStep ==
  ASSUME TxInv, [TxNext]_txVars
  PROVE  TxInv'
<1>1. ASSUME NEW t \in Sessions, (\E c \in Candidates : TxBegin(t, c)) \/ TxAppendStep(t)
      PROVE  TxInv'
  BY <1>1, SessionStepKeeps, Zenon
<1>2. ASSUME NEW r \in Readers,
             (\E i \in Invocations : ReadProjection(r, i)) \/ ReadEvents(r) \/ ReadReturns(r)
      PROVE  TxInv'
  <2>1. DOMAIN read' = Readers
    BY <1>2, Zenon DEF TxInv, TxTypeOK, ReadProjection, ReadEvents, ReadReturns
  <2> QED
    BY <1>2, <2>1, ReadStepKeeps, Zenon DEF ReadProjection, ReadEvents, ReadReturns
<1>3. CASE UNCHANGED txVars
  BY <1>3, ReadStepKeeps, Zenon DEF txVars, TxInv, TxTypeOK
<1> QED
  BY <1>1, <1>2, <1>3, Zenon DEF TxNext

-----------------------------------------------------------------------------

\* What the transactions establish phase by phase is invariant.
THEOREM TxInvariant == TxSpec => []TxInv
  BY TxInvInit, TxInvStep, PTL DEF TxSpec

\* Between the checks of Append and its commit nothing invalidates them.
THEOREM ChecksAlwaysHold == TxSpec => []ChecksStillHold
<1>1. TxInv => ChecksStillHold
  BY Zenon DEF TxInv, SessionInv, ChecksStillHold
<1> QED
  BY <1>1, TxInvariant, PTL

\* A step changes the tables only by committing an append the Ledger accepts.
LEMMA StepIsAtomicAppend ==
  ASSUME TxInv, [TxNext]_txVars, ~ UNCHANGED ledgerVars
  PROVE  \E s \in Sessions : /\ tx[s].phase = "commit"
                             /\ tx[s].event \in Candidates
                             /\ LedgerAppend(tx[s].event)
<1>1. PICK t \in Sessions : TxCommit(t)
  BY Zenon DEF TxNext, txVars, ledgerVars, TxBegin, TxAppendStep, TxLockParent,
         TxInsertProjection, TxLockProjection, TxReadEvents, TxInsertEvent, TxUpdateProjection,
         TxRollback,
         ReadProjection, ReadEvents, ReadReturns
<1>2. tx[t].phase = "commit"
  BY <1>1, Zenon DEF TxCommit
<1> QED
  BY <1>1, <1>2, CommitIsAppend, Zenon

\* Append is atomic, whatever the interleaving of its statements.
THEOREM AppendsAlwaysAtomic == TxSpec => AppendsAreAtomic
<1>1. TxInv /\ [TxNext]_txVars => [AtomicAppend]_ledgerVars
  BY StepIsAtomicAppend, Zenon DEF AtomicAppend
<1> QED
  BY <1>1, TxInvariant, PTL DEF TxSpec, AppendsAreAtomic

\* The interleaved transactions implement the Ledger.
THEOREM TxImplementsLedger == TxSpec => LedgerSpec
<1>1. TxInit => LedgerInit
  BY Zenon DEF TxInit
<1>2. TxInv /\ [TxNext]_txVars => [LedgerNext]_ledgerVars
  BY StepIsAtomicAppend, Zenon DEF LedgerNext
<1> QED
  BY <1>1, <1>2, TxInvariant, PTL DEF TxSpec, LedgerSpec

-----------------------------------------------------------------------------
(* The reads *)

\* The row a reader holds agrees with the history of its snapshot.
ReadInv ==
  \A r \in Readers :
    /\ read[r].phase = "events" =>
         ValidateInvocationDetailResponseV1(read[r].invocation, read[r].row, read[r].snapshot)
    /\ read[r].phase = "validate" =>
         ValidateInvocationDetailResponseV1(read[r].invocation, read[r].row, read[r].history)

\* Agreement of a row and a history does not depend on the state.
LEMMA ReadInvStep ==
  ASSUME TxInv, ProjectionIsReplay, ReadInv, [TxNext]_txVars
  PROVE  ReadInv'
<1> SUFFICES ASSUME NEW r \in Readers
             PROVE  /\ read'[r].phase = "events" =>
                         ValidateInvocationDetailResponseV1(read'[r].invocation,
                           read'[r].row, read'[r].snapshot)
                    /\ read'[r].phase = "validate" =>
                         ValidateInvocationDetailResponseV1(read'[r].invocation,
                           read'[r].row, read'[r].history)
  BY Zenon DEF ReadInv, ValidateInvocationDetailResponseV1, SequenceValid, SequenceAccept,
         ValidateInvocationEventV03, nextChunkIndex
<1>0. DOMAIN read = Readers
  BY Zenon DEF TxInv, TxTypeOK
<1>1. CASE read' = read
  BY <1>1, Zenon DEF ReadInv
<1>2. ASSUME NEW q \in Readers, NEW i \in Invocations, ReadProjection(q, i)
      PROVE  /\ r # q => read'[r] = read[r]
             /\ read'[q] = [phase |-> "events", invocation |-> i,
                            row |-> rows[i], snapshot |-> events[i]]
             /\ ValidateInvocationDetailResponseV1(i, rows[i], events[i])
  BY <1>0, <1>2, Zenon DEF ReadProjection, ProjectionIsReplay, TxInv, TxTypeOK
<1>3. ASSUME NEW q \in Readers, ReadEvents(q)
      PROVE  /\ r # q => read'[r] = read[r]
             /\ read'[q] = [phase |-> "validate", invocation |-> read[q].invocation,
                            row |-> read[q].row, history |-> read[q].snapshot]
             /\ read[q].phase = "events"
  BY <1>0, <1>3, Zenon DEF ReadEvents, TxInv, TxTypeOK
<1>4. ASSUME NEW q \in Readers, ReadReturns(q)
      PROVE  (r # q => read'[r] = read[r]) /\ read'[q] = NoRead
  BY <1>0, <1>4, Zenon DEF ReadReturns, TxInv, TxTypeOK
<1>5. CASE \E q \in Readers, i \in Invocations : ReadProjection(q, i)
  <2>1. PICK q \in Readers, i \in Invocations : ReadProjection(q, i)
    BY <1>5, Zenon
  <2>2. CASE r = q
    <3>0. read'[r] = [phase |-> "events", invocation |-> i,
                      row |-> rows[i], snapshot |-> events[i]]
      BY <1>2, <2>1, <2>2, Zenon
    <3>1. /\ read'[r].phase = "events" /\ read'[r].invocation = i
          /\ read'[r].row = rows[i] /\ read'[r].snapshot = events[i]
      BY <3>0
    <3> QED
      BY <1>2, <2>1, <3>1, Zenon
  <2>3. CASE r # q
    BY <1>2, <2>1, <2>3, Zenon DEF ReadInv
  <2> QED
    BY <2>2, <2>3, Zenon
<1>6. CASE \E q \in Readers : ReadEvents(q)
  <2>1. PICK q \in Readers : ReadEvents(q)
    BY <1>6, Zenon
  <2>2. CASE r = q
    <3>0. /\ read'[r] = [phase |-> "validate", invocation |-> read[r].invocation,
                         row |-> read[r].row, history |-> read[r].snapshot]
          /\ read[r].phase = "events"
      BY <1>3, <2>1, <2>2, Zenon
    <3>1. /\ read'[r].phase = "validate" /\ read'[r].invocation = read[r].invocation
          /\ read'[r].row = read[r].row /\ read'[r].history = read[r].snapshot
          /\ read[r].phase = "events"
      BY <3>0
    <3> QED
      BY <3>1, Zenon DEF ReadInv
  <2>3. CASE r # q
    BY <1>3, <2>1, <2>3, Zenon DEF ReadInv
  <2> QED
    BY <2>2, <2>3, Zenon
<1>7. CASE \E q \in Readers : ReadReturns(q)
  BY <1>4, <1>7 DEF ReadInv, NoRead
<1> QED
  BY <1>1, <1>5, <1>6, <1>7, Zenon
     DEF TxNext, txVars, TxBegin, TxAppendStep, TxLockParent, TxInsertProjection,
         TxLockProjection, TxReadEvents, TxInsertEvent, TxUpdateProjection, TxCommit, TxRollback

\* A read never returns a row and a history that disagree.
THEOREM ReadsAlwaysConsistent == TxSpec => []ReadsAreConsistent
<1>1. TxInit => ReadInv
  BY DEF TxInit, ReadInv, NoRead
<1>2. TxInv /\ ProjectionIsReplay /\ ReadInv /\ [TxNext]_txVars => ReadInv'
  BY ReadInvStep, Zenon
<1>3. ReadInv => ReadsAreConsistent
  BY Zenon DEF ReadInv, ReadsAreConsistent
<1> QED
  BY <1>1, <1>2, <1>3, TxInvariant, TxImplementsLedger, ProjectionAlwaysReplays, PTL
     DEF TxSpec
=============================================================================
