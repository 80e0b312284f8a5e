---------------------------- MODULE LedgerProofs ----------------------------
(***************************************************************************)
(* Proofs about module Ledger, for every set of Invocations, contexts,     *)
(* error codes and timestamps and for histories of any length.             *)
(***************************************************************************)
EXTENDS Ledger, SequenceTheorems, TLAPS

\* The strengthening that makes the properties of the Ledger inductive: the
\* creation time of a row never exceeds its last update.
TimesOrdered ==
  \A i \in Invocations : rows[i] # NoRow => rows[i].createdAt <= rows[i].updatedAt

LedgerInv == LedgerTypeOK /\ ProjectionIsReplay /\ TimesOrdered /\ LineageSound

-----------------------------------------------------------------------------
(* Histories *)

\* Appending leaves every proper prefix of a history as it was.
LEMMA PrefixOfAppend ==
  ASSUME NEW S, NEW h \in Seq(S), NEW e \in S, NEW k \in 0 .. Len(h)
  PROVE  SubSeq(Append(h, e), 1, k) = SubSeq(h, 1, k)
<1>1. Append(h, e) = h \o <<e>>
  BY AppendIsConcat, Zenon
<1>2. <<e>> \in Seq(S)
  OBVIOUS
<1>3. CASE k = 0
  BY <1>3, SubSeqEmpty
<1>4. CASE k # 0
  BY <1>1, <1>2, <1>4, SubSeqOfConcat1
<1> QED
  BY <1>3, <1>4, Zenon

\* The events of an extended history.
LEMMA ElementsOfAppend ==
  ASSUME NEW S, NEW h \in Seq(S), NEW e \in S
  PROVE  /\ Append(h, e) \in Seq(S)
         /\ Append(h, e) # <<>>
         /\ Len(Append(h, e)) = Len(h) + 1
         /\ \A k \in 1 .. Len(h) : Append(h, e)[k] = h[k]
         /\ Append(h, e)[Len(h) + 1] = e
  BY AppendProperties

\* A valid history extended by an event its validator accepts is valid.
LEMMA AcceptKeepsValid ==
  ASSUME NEW h \in Seq(Event), NEW e \in Event,
         SequenceValid(h), SequenceAccept(h, e)
  PROVE  SequenceValid(Append(h, e))
<1> DEFINE g == Append(h, e)
<1> SUFFICES ASSUME NEW k \in 1 .. Len(g)
             PROVE  SequenceAccept(SubSeq(g, 1, k - 1), g[k])
  BY Zenon DEF SequenceValid
<1>1. Len(g) = Len(h) + 1 /\ Len(h) \in Nat
  BY ElementsOfAppend
<1>2. CASE k = Len(h) + 1
  <2>1. SubSeq(g, 1, k - 1) = SubSeq(h, 1, Len(h))
    BY <1>1, <1>2, PrefixOfAppend
  <2>2. SubSeq(h, 1, Len(h)) = h
    BY SubSeqFull, Zenon
  <2>3. g[k] = e
    BY <1>2, ElementsOfAppend, Zenon
  <2> QED
    BY <2>1, <2>2, <2>3, Zenon
<1>3. CASE k # Len(h) + 1
  <2>1. k \in 1 .. Len(h) /\ k - 1 \in 0 .. Len(h)
    BY <1>1, <1>3
  <2>2. SubSeq(g, 1, k - 1) = SubSeq(h, 1, k - 1)
    BY <2>1, PrefixOfAppend, Zenon
  <2>3. g[k] = h[k]
    BY <2>1, ElementsOfAppend
  <2> QED
    BY <2>1, <2>2, <2>3, Zenon DEF SequenceValid
<1> QED
  BY <1>2, <1>3, Zenon

\* A valid history reaches running only through created, routing and started,
\* so it has at least three events when its last status is running.
LEMMA RunningNeedsThree ==
  ASSUME NEW h \in Seq(Event), SequenceValid(h), h # <<>>,
         h[Len(h)].status = "running"
  PROVE  Len(h) >= 3
<1>1. Len(h) \in Nat /\ Len(h) >= 1
  BY LenProperties, EmptySeq
<1>2. h[1].status = "pending"
  <2>1. SequenceAccept(SubSeq(h, 1, 0), h[1])
    BY <1>1 DEF SequenceValid
  <2>2. SubSeq(h, 1, 0) = <<>>
    BY SubSeqEmpty
  <2> QED
    BY <2>1, <2>2, Zenon DEF SequenceAccept
<1>3. Len(h) # 2
  <2> SUFFICES ASSUME Len(h) = 2 PROVE FALSE
    BY Zenon
  <2>1. SequenceAccept(SubSeq(h, 1, 1), h[2])
    BY DEF SequenceValid
  <2> DEFINE g == SubSeq(h, 1, 1)
  <2>2. Len(g) = 1 /\ g[1] = h[1] /\ g # <<>>
    BY SubSeqProperties, ElementOfSeq
  <2>3. validRuntimeTransition(h[1].status, h[2].type, h[2].status)
    <3> HIDE DEF g
    <3> QED BY <2>1, <2>2, Zenon DEF SequenceAccept, g
  <2> QED
    BY <1>2, <2>3, Zenon DEF validRuntimeTransition
<1>4. Len(h) # 1
  BY <1>2, Zenon
<1>5. \A n \in Nat : n >= 1 /\ n # 1 /\ n # 2 => n >= 3
  OBVIOUS
<1> QED
  BY <1>1, <1>3, <1>4, <1>5, Zenon

-----------------------------------------------------------------------------
(* One append *)

\* What an offered event is, whatever its fields: a member of Event whose
\* status is the one of its type.
LEMMA CandidateIsEvent ==
  ASSUME NEW i \in Invocations, NEW s \in 0 .. MaxEvents - 1, NEW t \in EventTypes,
         NEW at \in Times, NEW code \in ErrorCodes \cup {NoCode},
         NEW chunk \in NoChunk .. MaxEvents - 4, NEW ctx \in Contexts
  PROVE  lifecycleEvent(i, s, t, at, code, chunk, ctx) \in Event
<1>1. statusOfType(t) \in Statuses
  BY Zenon DEF statusOfType, EventTypes, Statuses, Terminal
<1>2. s \in Nat /\ chunk \in Nat \cup {NoChunk}
  BY TimesAssumption DEF NoChunk
<1> QED
  BY <1>1, <1>2, Zenon DEF lifecycleEvent, Event

\* A committed append keeps both tables typed.
LEMMA AppendKeepsType ==
  ASSUME LedgerTypeOK, NEW e \in Event, LedgerAppend(e)
  PROVE  LedgerTypeOK'
<1>1. events' \in [Invocations -> Seq(Event)]
  BY ElementsOfAppend, Zenon DEF LedgerTypeOK, LedgerAppend, Commit, Event
<1>2. CASE e.sequence = 0
  <2>1. insertProjection(e) \in Row
    BY Zenon DEF insertProjection, Row, Event
  <2> QED
    BY <1>1, <1>2, <2>1, Zenon DEF LedgerTypeOK, LedgerAppend, Commit, Event
<1>3. CASE e.sequence # 0
  <2>1. rows[e.invocation] \in Row
    BY <1>3, Zenon DEF LedgerTypeOK, LedgerAppend, Accepts, AcceptsNext, Event
  <2>2. updateProjection(rows[e.invocation], e) \in Row
    BY <2>1, Zenon DEF updateProjection, Row, Event
  <2> QED
    BY <1>1, <1>3, <2>2, Zenon DEF LedgerTypeOK, LedgerAppend, Commit, Event
<1> QED
  BY <1>2, <1>3, Zenon

\* The tables of the Invocation an append is for, and of every other one.
LEMMA AppendEffect ==
  ASSUME LedgerTypeOK, NEW e \in Event, LedgerAppend(e)
  PROVE  /\ e.invocation \in Invocations
         /\ events'[e.invocation] = Append(events[e.invocation], e)
         /\ rows'[e.invocation] = IF e.sequence = 0
                                  THEN insertProjection(e)
                                  ELSE updateProjection(rows[e.invocation], e)
         /\ \A j \in Invocations \ {e.invocation} :
              rows'[j] = rows[j] /\ events'[j] = events[j]
  BY Zenon DEF LedgerTypeOK, LedgerAppend, Commit, Event

\* The row an append leaves, field by field, and that it is a row.
LEMMA AppendedRow ==
  ASSUME LedgerTypeOK, NEW e \in Event, LedgerAppend(e)
  PROVE  LET i == e.invocation
         IN /\ rows'[i] \in Row /\ rows'[i] # NoRow
            /\ rows'[i].status = e.status
            /\ rows'[i].updatedAt = e.at
            /\ e.sequence = 0 => /\ rows[i] = NoRow
                                 /\ rows'[i].ctx = e.ctx
                                 /\ rows'[i].createdAt = e.at
                                 /\ rows'[i].code = NoCode
            /\ e.sequence # 0 => /\ rows[i] \in Row /\ rows[i] # NoRow
                                 /\ rows'[i].ctx = rows[i].ctx
                                 /\ rows'[i].createdAt = rows[i].createdAt
                                 /\ rows'[i].code = e.code
<1> DEFINE i == e.invocation
<1>0. \A r \in Row : r # NoRow
  BY DEF Row, NoRow, Statuses, Terminal
<1>1. CASE e.sequence = 0
  <2>1. rows'[i] = insertProjection(e)
    BY <1>1, AppendEffect, Zenon
  <2>2. insertProjection(e) \in Row
    BY Zenon DEF insertProjection, Row, Event
  <2>3. rows[i] = NoRow
    BY <1>1, Zenon DEF LedgerAppend, Accepts, AcceptsCreated
  <2> QED
    BY <1>0, <1>1, <2>1, <2>2, <2>3 DEF insertProjection
<1>2. CASE e.sequence # 0
  <2>1. rows'[i] = updateProjection(rows[i], e)
    BY <1>2, AppendEffect, Zenon
  <2>2. rows[i] \in Row
    BY <1>2, Zenon DEF LedgerTypeOK, LedgerAppend, Accepts, AcceptsNext, Event
  <2>3. updateProjection(rows[i], e) \in Row
    BY <2>2, Zenon DEF updateProjection, Row, Event
  <2> QED
    BY <1>0, <1>2, <2>1, <2>2, <2>3, Zenon DEF updateProjection, Row
<1> QED
  BY <1>1, <1>2, Zenon

\* The history an append extends: empty for a created event, and otherwise a
\* valid one that agrees with the row.
LEMMA AppendExtends ==
  ASSUME LedgerTypeOK, ProjectionIsReplay, NEW e \in Event, LedgerAppend(e)
  PROVE  LET i == e.invocation
             h == events[i]
         IN /\ h \in Seq(Event)
            /\ SequenceAccept(h, e)
            /\ e.sequence = 0 => h = <<>>
            /\ e.sequence # 0 => /\ ValidateInvocationDetailResponseV1(i, rows[i], h)
                                 /\ rows[i].createdAt = h[1].at
                                 /\ e.at >= rows[i].updatedAt
<1> DEFINE i == e.invocation
           h == events[i]
<1>1. i \in Invocations /\ h \in Seq(Event)
  BY Zenon DEF LedgerTypeOK, Event
<1>2. CASE e.sequence = 0
  <2>1. rows[i] = NoRow
    BY <1>2, Zenon DEF LedgerAppend, Accepts, AcceptsCreated
  <2>2. h = <<>>
    BY <1>1, <2>1, Zenon DEF ProjectionIsReplay
  <2>3. SequenceAccept(<<>>, e)
    BY <1>2, Zenon DEF LedgerAppend, Accepts, validateCandidate
  <2> QED
    BY <1>1, <1>2, <2>2, <2>3, Zenon
<1>3. CASE e.sequence # 0
  BY <1>1, <1>3, Zenon DEF LedgerAppend, Accepts, AcceptsNext
<1> QED
  BY <1>2, <1>3, Zenon

\* The row and the history of the Invocation that was appended to agree again.
LEMMA AppendKeepsDetail ==
  ASSUME LedgerTypeOK, ProjectionIsReplay, NEW e \in Event, LedgerAppend(e)
  PROVE  LET i == e.invocation
         IN /\ ValidateInvocationDetailResponseV1(i, rows'[i], events'[i])
            /\ rows'[i].createdAt = events'[i][1].at
            /\ rows'[i].updatedAt = events'[i][Len(events'[i])].at
            /\ rows'[i].code = events'[i][Len(events'[i])].code
<1> DEFINE i == e.invocation
           h == events[i]
           g == events'[i]
<1>1. /\ h \in Seq(Event) /\ Len(h) \in Nat
      /\ g = Append(h, e)
      /\ SequenceAccept(h, e)
  BY AppendEffect, AppendExtends
<1>2. /\ g # <<>> /\ Len(g) = Len(h) + 1 /\ g[Len(g)] = e
      /\ \A k \in 1 .. Len(h) : g[k] = h[k]
  BY <1>1, ElementsOfAppend
<1>3. SequenceValid(h)
  <2>1. CASE e.sequence = 0
    <3>1. h = <<>>
      BY <2>1, AppendExtends, Zenon
    <3> QED
      BY <3>1 DEF SequenceValid
  <2>2. CASE e.sequence # 0
    BY <2>2, AppendExtends, Zenon DEF ValidateInvocationDetailResponseV1
  <2> QED
    BY <2>1, <2>2, Zenon
<1>4. SequenceValid(g)
  BY <1>1, <1>3, AcceptKeepsValid, Zenon
<1>5. rows'[i].status = e.status /\ rows'[i].updatedAt = e.at
  BY AppendedRow, Zenon
<1>6. CASE e.sequence = 0
  <2>1. h = <<>> /\ Len(h) = 0
    BY <1>6, AppendExtends
  <2>2. rows'[i].ctx = e.ctx /\ rows'[i].createdAt = e.at /\ rows'[i].code = NoCode
    BY <1>6, AppendedRow, Zenon
  <2>3. e.code = NoCode
    BY <1>1, <2>1, Zenon DEF SequenceAccept, ValidateInvocationEventV03
  <2>4. \A k \in 1 .. Len(g) : g[k] = e
    BY <1>2, <2>1
  <2> HIDE DEF g
  <2> QED
    BY <1>2, <1>4, <1>5, <2>1, <2>2, <2>3, <2>4 DEF ValidateInvocationDetailResponseV1, g
<1>7. CASE e.sequence # 0
  <2>1. /\ ValidateInvocationDetailResponseV1(i, rows[i], h)
        /\ rows[i].createdAt = h[1].at
    BY <1>7, AppendExtends, Zenon
  <2>2. /\ rows'[i].ctx = rows[i].ctx
        /\ rows'[i].createdAt = rows[i].createdAt
        /\ rows'[i].code = e.code
    BY <1>7, AppendedRow, Zenon
  <2>3. h # <<>> /\ Len(h) >= 1 /\ \A k \in 1 .. Len(h) : h[k].ctx = rows[i].ctx /\ h[k].invocation = i
    BY <1>1, <2>1, EmptySeq DEF ValidateInvocationDetailResponseV1
  <2>4. e.ctx = rows[i].ctx
    BY <1>1, <2>3 DEF SequenceAccept
  <2>5. \A k \in 1 .. Len(g) : g[k].ctx = rows'[i].ctx /\ g[k].invocation = i
    BY <1>1, <1>2, <2>2, <2>3, <2>4
  <2>6. g[1] = h[1]
    BY <1>2, <2>3
  <2> QED
    BY <1>2, <1>4, <1>5, <2>1, <2>2, <2>5, <2>6, Zenon DEF ValidateInvocationDetailResponseV1
<1> QED
  BY <1>6, <1>7, Zenon

-----------------------------------------------------------------------------
(* The invariant *)

\* A committed append keeps the lineage of every Invocation sound.
LEMMA AppendKeepsLineage ==
  ASSUME LedgerInv, NEW e \in Event, LedgerAppend(e)
  PROVE  LineageSound'
<1> USE DEF LedgerInv
<1> DEFINE i == e.invocation
<1>1. LedgerTypeOK' /\ i \in Invocations
  BY AppendKeepsType, AppendEffect, Zenon
<1> SUFFICES ASSUME NEW j \in Invocations, rows'[j] # NoRow, rows'[j].ctx.parent # NoParent
             PROVE  LET p == rows'[j].ctx.parent
                    IN /\ rows'[p] # NoRow
                       /\ rows'[p].status \in {"running"} \cup Terminal
                       /\ Len(events'[p]) >= 3
                       /\ rows'[p].ctx.root = rows'[j].ctx.root
                       /\ rows'[p].ctx.trace = rows'[j].ctx.trace
                       /\ rows'[p].ctx.workspace = rows'[j].ctx.workspace
                       /\ rows'[p].ctx.target = rows'[j].ctx.caller
                       /\ rows'[p].createdAt <= rows'[j].createdAt
  BY Zenon DEF LineageSound
<1> DEFINE p == rows'[j].ctx.parent
           Linked(r, t) == /\ r # NoRow
                           /\ r.status \in {"running"} \cup Terminal
                           /\ r.ctx.root = t.ctx.root
                           /\ r.ctx.trace = t.ctx.trace
                           /\ r.ctx.workspace = t.ctx.workspace
                           /\ r.ctx.target = t.ctx.caller
                           /\ r.createdAt <= t.createdAt
<1>2. p \in Invocations
  <2>1. rows'[j] \in Row
    BY <1>1, Zenon DEF LedgerTypeOK
  <2> QED
    BY <2>1, ContextsAssumption, Zenon DEF Row
<1>3. Linked(rows[p], rows'[j]) /\ Len(events[p]) >= 3
  <2>1. CASE j = i /\ e.sequence = 0
    <3>1. rows'[j].ctx = e.ctx /\ rows'[j].createdAt = e.at
      BY <2>1, AppendedRow, Zenon
    <3>2. /\ rows[p] # NoRow
          /\ ValidateNestedInvocationCorrelation(p, rows[p], e)
          /\ e.at >= rows[p].updatedAt
      BY <2>1, <3>1, Zenon DEF LedgerAppend, Accepts, AcceptsCreated
    <3>3. rows[p] \in Row /\ rows[p].createdAt <= rows[p].updatedAt
      BY <1>2, <3>2, Zenon DEF LedgerTypeOK, TimesOrdered
    <3>4. rows[p].createdAt <= e.at
      <4>1. rows[p].createdAt \in Nat /\ rows[p].updatedAt \in Nat
        BY <3>3, TimesAssumption, Zenon DEF Row
      <4>2. e.at \in Nat
        BY TimesAssumption, Zenon DEF Event
      <4> QED
        BY <3>2, <3>3, <4>1, <4>2
    <3>5. Len(events[p]) >= 3
      <4>1. ValidateInvocationDetailResponseV1(p, rows[p], events[p])
        BY <1>2, <3>2, Zenon DEF ProjectionIsReplay
      <4>2. events[p] \in Seq(Event)
        BY <1>2, Zenon DEF LedgerTypeOK
      <4> QED
        BY <3>2, <4>1, <4>2, RunningNeedsThree, Zenon
           DEF ValidateInvocationDetailResponseV1, ValidateNestedInvocationCorrelation
    <3> QED
      BY <3>1, <3>2, <3>4, <3>5, Zenon DEF ValidateNestedInvocationCorrelation
  <2>2. CASE ~(j = i /\ e.sequence = 0)
    <3>1. /\ rows[j] # NoRow
          /\ rows'[j].ctx = rows[j].ctx
          /\ rows'[j].createdAt = rows[j].createdAt
      <4>1. CASE j = i
        BY <2>2, <4>1, AppendedRow, Zenon
      <4>2. CASE j # i
        BY <4>2, AppendEffect, Zenon
      <4> QED
        BY <4>1, <4>2, Zenon
    <3> QED
      BY <3>1, Zenon DEF LineageSound
  <2> QED
    BY <2>1, <2>2, Zenon
<1>4. CASE p # i
  BY <1>2, <1>3, <1>4, AppendEffect, Zenon
<1>5. CASE p = i
  <2>1. e.sequence # 0
    BY <1>3, <1>5, AppendedRow, Zenon
  <2>2. /\ rows'[p] # NoRow
        /\ rows'[p].ctx = rows[p].ctx
        /\ rows'[p].createdAt = rows[p].createdAt
        /\ rows'[p].status = e.status
    BY <1>5, <2>1, AppendedRow, Zenon
  <2>3. events[p] \in Seq(Event) /\ events'[p] = Append(events[p], e)
    BY <1>2, <1>5, AppendEffect, Zenon DEF LedgerTypeOK
  <2>4. Len(events'[p]) >= 3
    <3>1. Len(events[p]) \in Nat
      BY <2>3, LenProperties, Zenon
    <3>2. Len(events'[p]) = Len(events[p]) + 1
      BY <2>3, ElementsOfAppend
    <3> QED
      BY <1>3, <3>1, <3>2
  <2>5. e.status \in {"running"} \cup Terminal
    <3>1. /\ SequenceAccept(events[p], e) /\ events[p] # <<>>
          /\ events[p][Len(events[p])].status = rows[p].status
      BY <1>5, <2>1, AppendExtends, Zenon DEF ValidateInvocationDetailResponseV1
    <3>2. validRuntimeTransition(rows[p].status, e.type, e.status)
      BY <3>1, Zenon DEF SequenceAccept
    <3> QED
      BY <1>3, <3>2, Zenon DEF validRuntimeTransition, Terminal
  <2> QED
    BY <1>3, <2>2, <2>4, <2>5, Zenon
<1> QED
  BY <1>4, <1>5, Zenon

\* A committed append keeps the whole invariant.
LEMMA AppendKeepsInv ==
  ASSUME LedgerInv, NEW e \in Event, LedgerAppend(e)
  PROVE  LedgerInv'
<1> USE DEF LedgerInv
<1>1. LedgerTypeOK'
  BY AppendKeepsType, Zenon
<1>2. ProjectionIsReplay'
  <2> SUFFICES ASSUME NEW j \in Invocations
               PROVE  IF rows'[j] = NoRow
                      THEN events'[j] = <<>>
                      ELSE /\ ValidateInvocationDetailResponseV1(j, rows'[j], events'[j])
                           /\ rows'[j].createdAt = events'[j][1].at
                           /\ rows'[j].updatedAt = events'[j][Len(events'[j])].at
                           /\ rows'[j].code = events'[j][Len(events'[j])].code
    BY Zenon DEF ProjectionIsReplay, ValidateInvocationDetailResponseV1, SequenceValid,
           SequenceAccept, ValidateInvocationEventV03, nextChunkIndex
  <2>1. CASE j = e.invocation
    BY <2>1, AppendKeepsDetail, AppendedRow, Zenon
  <2>2. CASE j # e.invocation
    <3>1. rows'[j] = rows[j] /\ events'[j] = events[j]
      BY <2>2, AppendEffect, Zenon
    <3> QED
      BY <3>1, Zenon DEF ProjectionIsReplay
  <2> QED
    BY <2>1, <2>2, Zenon
<1>3. TimesOrdered'
  <2> SUFFICES ASSUME NEW j \in Invocations, rows'[j] # NoRow
               PROVE  rows'[j].createdAt <= rows'[j].updatedAt
    BY Zenon DEF TimesOrdered
  <2>1. CASE j # e.invocation
    BY <2>1, AppendEffect DEF TimesOrdered
  <2>2. CASE j = e.invocation /\ e.sequence = 0
    <3>1. e.at \in Nat
      BY TimesAssumption, Zenon DEF Event
    <3> QED
      BY <2>2, <3>1, AppendedRow
  <2>3. CASE j = e.invocation /\ e.sequence # 0
    <3>1. rows[j] \in Row /\ rows[j].createdAt <= rows[j].updatedAt
      BY <2>3, AppendedRow, Zenon DEF TimesOrdered
    <3>2. e.at >= rows[j].updatedAt /\ e.at \in Nat
      BY <2>3, AppendExtends, TimesAssumption, Zenon DEF Event
    <3>3. rows'[j].createdAt = rows[j].createdAt /\ rows'[j].updatedAt = e.at
      BY <2>3, AppendedRow, Zenon
    <3>4. rows[j].createdAt \in Nat /\ rows[j].updatedAt \in Nat
      BY <3>1, TimesAssumption, Zenon DEF Row
    <3> QED
      BY <3>1, <3>2, <3>3, <3>4
  <2> QED
    BY <2>1, <2>2, <2>3, Zenon
<1>4. LineageSound'
  BY AppendKeepsLineage, Zenon
<1> QED
  BY <1>1, <1>2, <1>3, <1>4, Zenon

\* Every step of the Ledger is a committed append of some event.
LEMMA StepIsAppend ==
  ASSUME LedgerNext
  PROVE  \E e \in Event : LedgerAppend(e)
  BY CandidateIsEvent DEF LedgerNext, Candidates

\* The three facts that make LedgerInv an invariant of the Ledger.
LEMMA InvInit ==
  ASSUME LedgerInit
  PROVE  LedgerInv
<1>1. LedgerTypeOK
  BY DEF LedgerInit, LedgerTypeOK
<1>2. ProjectionIsReplay /\ TimesOrdered /\ LineageSound
  BY Zenon DEF LedgerInit, ProjectionIsReplay, TimesOrdered, LineageSound
<1> QED
  BY <1>1, <1>2, Zenon DEF LedgerInv

LEMMA InvStep ==
  ASSUME LedgerInv, [LedgerNext]_ledgerVars
  PROVE  LedgerInv'
<1>1. CASE LedgerNext
  BY <1>1, StepIsAppend, AppendKeepsInv, Zenon
<1>2. CASE UNCHANGED ledgerVars
  <2>1. rows' = rows /\ events' = events
    BY <1>2, Zenon DEF ledgerVars
  <2>2. ProjectionIsReplay'
    <3> SUFFICES ASSUME NEW j \in Invocations
                 PROVE  IF rows'[j] = NoRow
                        THEN events'[j] = <<>>
                        ELSE /\ ValidateInvocationDetailResponseV1(j, rows'[j], events'[j])
                             /\ rows'[j].createdAt = events'[j][1].at
                             /\ rows'[j].updatedAt = events'[j][Len(events'[j])].at
                             /\ rows'[j].code = events'[j][Len(events'[j])].code
      BY Zenon DEF ProjectionIsReplay, ValidateInvocationDetailResponseV1, SequenceValid,
             SequenceAccept, ValidateInvocationEventV03, nextChunkIndex
    <3> QED
      BY <2>1, Zenon DEF LedgerInv, ProjectionIsReplay
  <2>3. LedgerTypeOK' /\ TimesOrdered' /\ LineageSound'
    BY <2>1, Zenon DEF LedgerInv, LedgerTypeOK, TimesOrdered, LineageSound
  <2> QED
    BY <2>2, <2>3, Zenon DEF LedgerInv
<1> QED
  BY <1>1, <1>2, Zenon

\* The Ledger keeps its inductive invariant.
THEOREM LedgerInvariant == LedgerSpec => []LedgerInv
<1>1. LedgerInit => LedgerInv
  BY InvInit, Zenon
<1>2. LedgerInv /\ [LedgerNext]_ledgerVars => LedgerInv'
  BY InvStep, Zenon
<1> QED
  BY <1>1, <1>2, PTL DEF LedgerSpec

\* Both tables of the Ledger stay typed, whatever events callers offer.
THEOREM LedgerTyping == LedgerSpec => []LedgerTypeOK
<1>1. LedgerInv => LedgerTypeOK
  BY Zenon DEF LedgerInv
<1> QED
  BY <1>1, LedgerInvariant, PTL

\* The projection of an Invocation is always the replay of its events, so the
\* stored-state checks of Append and of the reads never fail.
THEOREM ProjectionAlwaysReplays == LedgerSpec => []ProjectionIsReplay
<1>1. LedgerInv => ProjectionIsReplay
  BY Zenon DEF LedgerInv
<1> QED
  BY <1>1, LedgerInvariant, PTL

\* Nested Invocations hang below an existing parent that got to running and
\* shares their root Task, Trace and Workspace.
THEOREM LineageAlwaysSound == LedgerSpec => []LineageSound
<1>1. LedgerInv => LineageSound
  BY Zenon DEF LedgerInv
<1> QED
  BY <1>1, LedgerInvariant, PTL

-----------------------------------------------------------------------------
(* Action properties and refinement *)

\* A terminal Invocation accepts no further event.
LEMMA TerminalRefuses ==
  ASSUME LedgerInv, NEW e \in Event, LedgerAppend(e)
  PROVE  rows[e.invocation].status \notin Terminal
<1> DEFINE i == e.invocation
           h == events[i]
<1>1. CASE e.sequence = 0
  <2>1. rows[i] = NoRow
    BY <1>1, AppendedRow, Zenon DEF LedgerInv
  <2> QED
    BY <2>1 DEF NoRow, Terminal
<1>2. CASE e.sequence # 0
  <2>1. /\ SequenceAccept(h, e)
        /\ ValidateInvocationDetailResponseV1(i, rows[i], h)
    BY <1>2, AppendExtends, Zenon DEF LedgerInv
  <2> QED
    BY <2>1, Zenon DEF SequenceAccept, ValidateInvocationDetailResponseV1, isRuntimeTerminalStatus
<1> QED
  BY <1>1, <1>2, Zenon

\* No step changes or drops a committed event, and the first terminal event
\* committed for an Invocation is its last.
THEOREM LedgerAppendOnly == LedgerSpec => HistoryAppendOnly
<1>1. LedgerInv /\ LedgerNext => AppendOnly
  <2> SUFFICES ASSUME LedgerInv, LedgerNext, NEW i \in Invocations
               PROVE  /\ Len(events'[i]) >= Len(events[i])
                      /\ SubSeq(events'[i], 1, Len(events[i])) = events[i]
                      /\ rows[i].status \in Terminal => rows'[i] = rows[i] /\ events'[i] = events[i]
    BY Zenon DEF AppendOnly
  <2>1. PICK e \in Event : LedgerAppend(e)
    BY StepIsAppend, Zenon
  <2>2. events[i] \in Seq(Event) /\ Len(events[i]) \in Nat
    BY DEF LedgerInv, LedgerTypeOK
  <2>3. SubSeq(events[i], 1, Len(events[i])) = events[i]
    BY <2>2, SubSeqFull, Zenon
  <2>4. CASE i = e.invocation
    <3>1. events'[i] = Append(events[i], e)
      BY <2>1, <2>4, AppendEffect, Zenon DEF LedgerInv
    <3>2. Len(events'[i]) = Len(events[i]) + 1
      BY <2>2, <3>1, ElementsOfAppend
    <3>3. SubSeq(events'[i], 1, Len(events[i])) = events[i]
      BY <2>2, <2>3, <3>1, PrefixOfAppend
    <3> QED
      BY <2>1, <2>2, <2>4, <3>2, <3>3, TerminalRefuses
  <2>5. CASE i # e.invocation
    <3>1. rows'[i] = rows[i] /\ events'[i] = events[i]
      BY <2>1, <2>5, AppendEffect, Zenon DEF LedgerInv
    <3> QED
      BY <2>2, <2>3, <3>1
  <2> QED
    BY <2>4, <2>5, Zenon
<1>2. LedgerInv /\ [LedgerNext]_ledgerVars => [AppendOnly]_ledgerVars
  BY <1>1, Zenon
<1> QED
  BY <1>2, LedgerInvariant, PTL DEF LedgerSpec, HistoryAppendOnly

\* A step creates a nested Invocation only while its parent is running.
THEOREM LedgerChildUnderRunningParent == LedgerSpec => ChildUnderRunningParent
<1>1. LedgerInv /\ LedgerNext => ChildNeedsRunningParent
  <2> SUFFICES ASSUME LedgerInv, LedgerNext, NEW i \in Invocations,
                      rows[i] = NoRow, rows'[i] # NoRow, rows'[i].ctx.parent # NoParent
               PROVE  rows[rows'[i].ctx.parent].status = "running"
    BY Zenon DEF ChildNeedsRunningParent
  <2>1. PICK e \in Event : LedgerAppend(e)
    BY StepIsAppend, Zenon
  <2>2. i = e.invocation
    BY <2>1, AppendEffect, Zenon DEF LedgerInv
  <2>3. e.sequence = 0 /\ rows'[i].ctx = e.ctx
    BY <2>1, <2>2, AppendedRow, Zenon DEF LedgerInv
  <2> QED
    BY <2>1, <2>3, Zenon
       DEF LedgerAppend, Accepts, AcceptsCreated, ValidateNestedInvocationCorrelation
<1>2. LedgerInv /\ [LedgerNext]_ledgerVars => [ChildNeedsRunningParent]_ledgerVars
  BY <1>1, Zenon
<1> QED
  BY <1>2, LedgerInvariant, PTL DEF LedgerSpec, ChildUnderRunningParent

\* The Ledger implements the abstract Invocation lifecycle: a created event is
\* a Create, a stream event a stutter, any other event an Advance.
THEOREM LedgerImplementsLifecycle == LedgerSpec => ImplementsLifecycle
<1> DEFINE st == [i \in Invocations |-> rows[i].status]
           pt == [i \in Invocations |-> IF rows[i] = NoRow THEN NoParent ELSE rows[i].ctx.parent]
<1>1. LedgerInit => Abstract!LifecycleInit
  BY DEF LedgerInit, Abstract!LifecycleInit, NoRow
<1>2. LedgerInv /\ LedgerNext => [Abstract!LifecycleNext]_(Abstract!lifecycleVars)
  <2> SUFFICES ASSUME LedgerInv, LedgerNext
               PROVE  [Abstract!LifecycleNext]_(Abstract!lifecycleVars)
    BY Zenon
  <2>1. PICK e \in Event : LedgerAppend(e)
    BY StepIsAppend, Zenon
  <2> DEFINE i == e.invocation
             p == e.ctx.parent
  <2>2. /\ i \in Invocations
        /\ \A j \in Invocations \ {i} : rows'[j] = rows[j]
        /\ rows'[i] # NoRow
        /\ rows'[i].status = e.status
    BY <2>1, AppendEffect, AppendedRow, Zenon DEF LedgerInv
  <2>3. st' = [st EXCEPT ![i] = e.status]
    BY <2>2, Zenon
  <2>4. CASE e.sequence = 0
    <3>1. rows[i] = NoRow /\ rows'[i].ctx = e.ctx /\ e.status = "pending"
      BY <2>1, <2>4, AppendedRow, Zenon
         DEF LedgerInv, LedgerAppend, Accepts, validateCandidate, SequenceAccept
    <3>2. pt' = [pt EXCEPT ![i] = p]
      <4> DEFINE ParentIn(r) == IF r = NoRow THEN NoParent ELSE r.ctx.parent
      <4>1. \A j \in Invocations : ParentIn(rows'[j]) = IF j = i THEN p ELSE ParentIn(rows[j])
        BY <2>2, <3>1, Zenon
      <4> HIDE DEF ParentIn
      <4>2. [j \in Invocations |-> ParentIn(rows'[j])]
              = [[j \in Invocations |-> ParentIn(rows[j])] EXCEPT ![i] = p]
        BY <2>2, <4>1, Zenon
      <4> QED
        BY <4>2, Zenon DEF ParentIn
    <3>3. st[i] = "none"
      BY <2>2, <3>1 DEF NoRow
    <3>4. p # NoParent => p \in Invocations /\ rows[p].status = "running" /\ p # i
      BY <2>1, <2>4, ContextsAssumption, Zenon
         DEF Event, LedgerAppend, Accepts, AcceptsCreated, ValidateNestedInvocationCorrelation
    <3>5. p \in (Invocations \cup {NoParent}) \ {i} /\ (p # NoParent => st[p] = "running")
      BY <2>2, <3>4, ContextsAssumption, Zenon
    <3>6. Abstract!Create(i, p)
      BY <2>3, <3>1, <3>2, <3>3, <3>5, Zenon DEF Abstract!Create
    <3> QED
      BY <2>2, <3>5, <3>6, Zenon DEF Abstract!LifecycleNext
  <2>5. CASE e.sequence # 0
    <3>1. rows[i] # NoRow /\ rows'[i].ctx = rows[i].ctx
      BY <2>1, <2>5, AppendedRow, Zenon DEF LedgerInv
    <3>2. pt' = pt
      BY <2>2, <3>1, Zenon
    <3>3. validRuntimeTransition(rows[i].status, e.type, e.status)
      <4>1. /\ SequenceAccept(events[i], e)
            /\ ValidateInvocationDetailResponseV1(i, rows[i], events[i])
        BY <2>1, <2>5, AppendExtends, Zenon DEF LedgerInv
      <4> QED
        BY <4>1, Zenon DEF SequenceAccept, ValidateInvocationDetailResponseV1
    <3>4. CASE e.status = rows[i].status
      <4>1. st' = st
        BY <2>2, <2>3, <3>4, Zenon
      <4> QED
        BY <3>2, <4>1, Zenon DEF Abstract!lifecycleVars
    <3>5. CASE e.status # rows[i].status
      <4>1. e.status \in Abstract!Successors(rows[i].status) /\ e.status \in Abstract!Statuses
        BY <3>3, <3>5, Zenon DEF validRuntimeTransition, Terminal, Abstract!Successors,
           Abstract!Statuses, Abstract!Terminal
      <4>2. st[i] = rows[i].status
        BY <2>2, Zenon
      <4>3. Abstract!Advance(i, e.status)
        BY <2>3, <3>2, <4>1, <4>2, Zenon DEF Abstract!Advance
      <4> QED
        BY <2>2, <4>1, <4>3, Zenon DEF Abstract!LifecycleNext
    <3> QED
      BY <3>4, <3>5, Zenon
  <2> QED
    BY <2>4, <2>5, Zenon
<1>3. UNCHANGED ledgerVars => UNCHANGED Abstract!lifecycleVars
  BY Zenon DEF ledgerVars, Abstract!lifecycleVars
<1>4. LedgerInv /\ [LedgerNext]_ledgerVars => [Abstract!LifecycleNext]_(Abstract!lifecycleVars)
  BY <1>2, <1>3, Zenon
<1> QED
  BY <1>1, <1>4, LedgerInvariant, PTL DEF LedgerSpec, ImplementsLifecycle, Abstract!LifecycleSpec
=============================================================================
