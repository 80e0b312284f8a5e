--------------------------- MODULE RegistryProofs ---------------------------
(***************************************************************************)
(* Theorems about the registry library: InstanceWatch, for every capacity, *)
(* any set of callers and any number of changes, and Registrar, for any    *)
(* set of calls, any registrations and any number of heartbeats.           *)
(***************************************************************************)
EXTENDS InstanceWatch, TLAPS

CONSTANTS Calls, Registrations, BoundTarget, PortName, TCP, IPv4, IPv6, Replies, MaxBeats

VARIABLES registrar, register, beat, channel, request, once, lease, closer, caller, deletes, server

R == INSTANCE Registrar WITH call <- register

Queues == Seq(Change)

Outcomes == WatchOutcomes \cup {"none"}

Flags == BOOLEAN

Signals == {"none", "open", "closed"}

WatchRecord == [queue : Queues, terminal : Outcomes, deletion : Flags, active : Flags, signal : Signals]

\* The updates of the queue, the outcome and the deletion.
Latched(w, q, t) == [w EXCEPT !.terminal = t, !.queue = q]

Queued(w, q, d) == [w EXCEPT !.queue = q, !.deletion = d]

Taken(w, q) == [w EXCEPT !.queue = q]

Deleted(w, q, d, t) == [w EXCEPT !.queue = q, !.deletion = d, !.terminal = t]

\* What each update of a watch changes and what it leaves alone.
LEMMA NotifyFields ==
  ASSUME NEW w \in WatchRecord
  PROVE  LET n == notifyLocked(w)
         IN /\ n \in WatchRecord
            /\ n.queue = w.queue /\ n.terminal = w.terminal
            /\ n.deletion = w.deletion /\ n.active = w.active
            /\ n.signal = IF w.signal = "none" THEN "none" ELSE "closed"
BY Zenon DEF WatchRecord, Signals, notifyLocked

LEMMA LatchFields ==
  ASSUME NEW w \in WatchRecord, NEW q \in Queues, NEW t \in Outcomes
  PROVE  LET n == Latched(w, q, t)
         IN /\ n \in WatchRecord
            /\ n.queue = q /\ n.terminal = t
            /\ n.deletion = w.deletion /\ n.active = w.active
            /\ n.signal = w.signal
BY Zenon DEF WatchRecord, Latched

LEMMA QueuedFields ==
  ASSUME NEW w \in WatchRecord, NEW q \in Queues, NEW d \in Flags
  PROVE  LET n == Queued(w, q, d)
         IN /\ n \in WatchRecord
            /\ n.queue = q /\ n.terminal = w.terminal
            /\ n.deletion = d /\ n.active = w.active
            /\ n.signal = w.signal
BY Zenon DEF WatchRecord, Queued

LEMMA DeletedFields ==
  ASSUME NEW w \in WatchRecord, NEW q \in Queues, NEW d \in Flags, NEW t \in Outcomes
  PROVE  LET n == Deleted(w, q, d, t)
         IN /\ n \in WatchRecord
            /\ n.queue = q /\ n.terminal = t
            /\ n.deletion = d /\ n.active = w.active
            /\ n.signal = w.signal
BY Zenon DEF WatchRecord, Deleted

LEMMA TakenFields ==
  ASSUME NEW w \in WatchRecord, NEW q \in Queues
  PROVE  LET n == Taken(w, q)
         IN /\ n \in WatchRecord
            /\ n.queue = q /\ n.terminal = w.terminal
            /\ n.deletion = w.deletion /\ n.active = w.active
            /\ n.signal = w.signal
BY Zenon DEF WatchRecord, Taken

LEMMA SignalFields ==
  ASSUME NEW w \in WatchRecord, NEW x \in Signals
  PROVE  LET n == [w EXCEPT !.signal = x]
         IN /\ n \in WatchRecord
            /\ n.queue = w.queue /\ n.terminal = w.terminal
            /\ n.deletion = w.deletion /\ n.active = w.active
            /\ n.signal = x
BY Zenon DEF WatchRecord

LEMMA ActiveFields ==
  ASSUME NEW w \in WatchRecord, NEW a \in Flags
  PROVE  LET n == [w EXCEPT !.active = a]
         IN /\ n \in WatchRecord
            /\ n.queue = w.queue /\ n.terminal = w.terminal
            /\ n.deletion = w.deletion /\ n.active = a
            /\ n.signal = w.signal
BY Zenon DEF WatchRecord

\* The typing of the watch in these terms.
LEMMA RecordTyping ==
  /\ WatchTypeOK => watch \in WatchRecord
  /\ watch' \in WatchRecord =>
       watch' \in [queue : Seq(Change), terminal : WatchOutcomes \cup {"none"}, deletion : BOOLEAN,
                   active : BOOLEAN, signal : {"none", "open", "closed"}]
BY Zenon DEF WatchTypeOK, WatchRecord, Queues, Outcomes, Flags, Signals

\* At most one Next is under way, and it is the one that set nextActive.
OneNext ==
  /\ \A c \in Callers : call[c].pc # "idle" => watch.active
  /\ \A c, d \in Callers : call[c].pc # "idle" /\ call[d].pc # "idle" => c = d

\* A watch with an outcome has an empty queue, and a pending deletion waits at
\* the end of the queue of a watch without one.
Settled ==
  /\ watch.terminal # "none" => watch.queue = <<>> /\ ~watch.deletion
  /\ watch.deletion => watch.queue # <<>> /\ watch.queue[Len(watch.queue)].kind = "target_deleted"

\* Delivered and queued changes are, in this order, the accepted ones.
Aligned ==
  /\ Len(got) <= Len(sent)
  /\ \A k \in 1 .. Len(got) : got[k] = sent[k]
  /\ watch.terminal = "none" =>
       /\ Len(sent) = Len(got) + Len(watch.queue)
       /\ \A k \in 1 .. Len(watch.queue) : watch.queue[k] = sent[Len(got) + k]
  /\ \A k \in 1 .. Len(sent) : sent[k].order = k

\* Where the deletion of the target can be.
DeletionInv ==
  \A k \in 1 .. Len(sent) : sent[k].kind = "target_deleted" =>
    /\ k = Len(sent)
    /\ IF Len(got) = Len(sent) THEN watch.terminal = "closed"
                               ELSE watch.deletion /\ watch.terminal = "none"

WatchInv == WatchTypeOK /\ OneNext /\ Settled /\ NoLostWakeup /\ Aligned /\ DeletionInv

\* The inductive invariant holds initially.
LEMMA InitInv == WatchInit => WatchInv
<1> SUFFICES ASSUME WatchInit PROVE WatchInv OBVIOUS
<1> USE CapacityAssumption, CallersAssumption DEF WatchInit, NewInstanceWatch
<1>1. WatchTypeOK
  BY DEF WatchTypeOK, NoCall, WatchOutcomes, Change
<1>2. OneNext /\ Settled /\ NoLostWakeup
  BY Zenon DEF OneNext, Settled, NoLostWakeup, NoCall
<1>3. Aligned /\ DeletionInv
  BY DEF Aligned, DeletionInv
<1> QED BY <1>1, <1>2, <1>3, Zenon DEF WatchInv

\* A step that changes nothing keeps the invariant.
LEMMA StutterInv == ASSUME WatchInv, UNCHANGED watchVars PROVE WatchInv'
BY DEF watchVars, WatchInv, WatchTypeOK, OneNext, Settled, NoLostWakeup, Aligned, DeletionInv

\* An outcome that is latched while no deletion is pending, with the queue
\* emptied and the waiting Next notified, keeps the invariant.
LEMMA LatchInv ==
  ASSUME WatchInv, NEW err \in WatchOutcomes,
         watch.terminal = "none", ~watch.deletion,
         watch' = notifyLocked([watch EXCEPT !.terminal = err, !.queue = <<>>]),
         UNCHANGED <<call, sent, got, cancels>>
  PROVE  WatchInv'
<1> USE DEF WatchInv
<1>1. /\ watch' \in WatchRecord
      /\ watch'.queue = <<>> /\ watch'.terminal = err /\ watch'.deletion = watch.deletion
      /\ watch'.active = watch.active
      /\ watch'.signal = IF watch.signal = "none" THEN "none" ELSE "closed"
  <2>1. watch \in WatchRecord /\ <<>> \in Queues /\ err \in Outcomes
    BY RecordTyping DEF Queues, Outcomes
  <2>2. watch' = notifyLocked(Latched(watch, <<>>, err))
    BY Zenon DEF Latched
  <2> QED BY <2>1, <2>2, LatchFields, NotifyFields
<1>2. err # "none"
  BY Zenon DEF WatchOutcomes
<1>3. WatchTypeOK'
  BY <1>1, CapacityAssumption, RecordTyping DEF WatchTypeOK
<1>4. OneNext' /\ Settled'
  BY <1>1, <1>2, Zenon DEF OneNext, Settled
<1>5. NoLostWakeup'
  BY <1>1, Zenon DEF NoLostWakeup
<1>6. Aligned'
  BY <1>1, <1>2, Zenon DEF Aligned
<1>7. DeletionInv'
  BY <1>1, <1>2, Zenon DEF DeletionInv, Aligned, WatchTypeOK
<1> QED BY <1>3, <1>4, <1>5, <1>6, <1>7, Zenon

\* Publish keeps the invariant: it is refused, overflows or queues the change.
LEMMA PublishInv ==
  ASSUME WatchInv, NEW kind \in Kinds, PublishChange(kind)
  PROVE  WatchInv'
<1> DEFINE c == [order |-> Len(sent) + 1, kind |-> kind]
<1> USE DEF WatchInv
<1>0. Len(sent) \in Nat /\ Len(got) \in Nat /\ Len(watch.queue) \in Nat /\ Capacity \in Nat
  BY CapacityAssumption DEF WatchTypeOK
<1>1. CASE watch.deletion \/ watch.terminal # "none"
  BY <1>1, StutterInv, Zenon DEF PublishChange, Publish, Accepting, watchVars
<1>2. CASE ~watch.deletion /\ watch.terminal = "none" /\ Len(watch.queue) >= Capacity
  <2>1. watch' = notifyLocked([watch EXCEPT !.terminal = "delivery_overflow", !.queue = <<>>])
    BY <1>2, Zenon DEF PublishChange, Publish
  <2>2. UNCHANGED <<call, sent, got, cancels>>
    BY <1>0, <1>2 DEF PublishChange, Accepting
  <2> QED BY <1>2, <2>1, <2>2, LatchInv, Zenon DEF WatchOutcomes
<1>3. CASE ~watch.deletion /\ watch.terminal = "none" /\ Len(watch.queue) < Capacity
  <2>0. c \in Change /\ c.order = Len(sent) + 1 /\ c.kind = kind
    BY <1>0 DEF Change
  <2> HIDE DEF c
  <2>1. /\ watch' = notifyLocked([watch EXCEPT !.queue = Append(@, c),
                                               !.deletion = (c.kind = "target_deleted")])
        /\ sent' = Append(sent, c)
        /\ UNCHANGED <<call, got, cancels>>
    BY <1>0, <1>3 DEF PublishChange, Publish, Accepting, c
  <2>2. /\ watch' \in WatchRecord
        /\ watch'.queue = Append(watch.queue, c)
        /\ watch'.terminal = watch.terminal
        /\ watch'.deletion = (kind = "target_deleted")
        /\ watch'.active = watch.active
        /\ watch'.signal = IF watch.signal = "none" THEN "none" ELSE "closed"
    <3> DEFINE b == (c.kind = "target_deleted")
               q == Append(watch.queue, c)
    <3>1. watch \in WatchRecord /\ q \in Queues /\ b \in Flags
      BY <2>0, RecordTyping DEF WatchTypeOK, Queues, Flags
    <3>2. watch' = notifyLocked(Queued(watch, q, b))
      BY <2>1, Zenon DEF Queued
    <3>3. b = (kind = "target_deleted")
      BY <2>0, Zenon
    <3> HIDE DEF b, q
    <3>4. /\ watch' \in WatchRecord
          /\ watch'.queue = q /\ watch'.terminal = watch.terminal
          /\ watch'.deletion = b /\ watch'.active = watch.active
          /\ watch'.signal = IF watch.signal = "none" THEN "none" ELSE "closed"
      BY <3>1, <3>2, QueuedFields, NotifyFields
    <3> QED BY <3>3, <3>4, Zenon DEF q
  <2>3. /\ sent' \in Seq(Change) /\ Len(sent') = Len(sent) + 1
        /\ \A k \in 1 .. Len(sent) : sent'[k] = sent[k]
        /\ sent'[Len(sent) + 1] = c
        /\ Len(watch'.queue) = Len(watch.queue) + 1
        /\ \A k \in 1 .. Len(watch.queue) : watch'.queue[k] = watch.queue[k]
        /\ watch'.queue[Len(watch.queue) + 1] = c
    BY <2>0, <2>1, <2>2 DEF WatchTypeOK
  <2>4. WatchTypeOK'
    BY <1>0, <1>3, <2>1, <2>2, <2>3, RecordTyping DEF WatchTypeOK
  <2>5. OneNext' /\ Settled'
    <3>1. OneNext'
      BY <2>1, <2>2, Zenon DEF OneNext
    <3>2. watch'.deletion => watch'.queue[Len(watch'.queue)].kind = "target_deleted"
      BY <2>0, <2>2, <2>3, Zenon
    <3>3. watch'.terminal = "none" /\ watch'.queue # <<>>
      <4>1. Len(watch'.queue) # 0
        BY <1>0, <2>3
      <4>2. watch'.queue # <<>>
        BY <4>1, Len(<<>>) = 0, Zenon
      <4> QED BY <1>3, <2>2, <4>2, Zenon
    <3> QED BY <3>1, <3>2, <3>3, Zenon DEF Settled
  <2>6. NoLostWakeup'
    BY <2>1, <2>2, Zenon DEF NoLostWakeup
  <2>7. Aligned'
    <3>1. /\ Len(got) <= Len(sent) /\ got' = got /\ watch'.terminal = "none"
          /\ Len(sent) = Len(got) + Len(watch.queue)
          /\ \A k \in 1 .. Len(got) : got[k] = sent[k]
          /\ \A k \in 1 .. Len(watch.queue) : watch.queue[k] = sent[Len(got) + k]
          /\ \A k \in 1 .. Len(sent) : sent[k].order = k
      BY <1>3, <2>1, <2>2, Zenon DEF Aligned
    <3>2. Len(got') <= Len(sent') /\ \A k \in 1 .. Len(got') : got'[k] = sent'[k]
      BY <1>0, <2>3, <3>1, SMTT(60)
    <3>3. Len(sent') = Len(got') + Len(watch'.queue)
      BY <1>0, <2>3, <3>1
    <3>4. ASSUME NEW k \in 1 .. Len(watch'.queue)
          PROVE  watch'.queue[k] = sent'[Len(got') + k]
      <4>1. CASE k = Len(watch.queue) + 1
        <5>1. Len(got') + k = Len(sent) + 1
          BY <1>0, <3>1, <4>1
        <5> QED BY <5>1, <4>1, <2>3, Zenon
      <4>2. CASE k \in 1 .. Len(watch.queue)
        <5>1. Len(got) + k \in 1 .. Len(sent)
          BY <1>0, <3>1, <4>2
        <5> QED BY <5>1, <4>2, <2>3, <3>1, Zenon
      <4> QED BY <1>0, <2>3, <4>1, <4>2, SMTT(60)
    <3>5. ASSUME NEW k \in 1 .. Len(sent') PROVE sent'[k].order = k
      BY <1>0, <2>0, <2>3, <3>1, SMTT(60)
    <3> QED BY <3>2, <3>3, <3>4, <3>5, Zenon DEF Aligned
  <2>8. DeletionInv'
    <3>1. \A k \in 1 .. Len(sent) : sent[k].kind # "target_deleted"
      BY <1>3, Zenon DEF DeletionInv
    <3>2. /\ got' = got /\ watch'.terminal = "none" /\ Len(got) <= Len(sent)
      BY <1>3, <2>1, <2>2, Zenon DEF Aligned
    <3>3. ASSUME NEW k \in 1 .. Len(sent'), sent'[k].kind = "target_deleted"
          PROVE  k = Len(sent') /\ watch'.deletion
      <4>1. k = Len(sent) + 1
        BY <1>0, <2>3, <3>1, <3>3
      <4>2. kind = "target_deleted"
        BY <2>0, <2>3, <3>3, <4>1, Zenon
      <4> QED BY <2>2, <2>3, <4>1, <4>2, Zenon
    <3>4. Len(got') # Len(sent')
      BY <1>0, <2>3, <3>2
    <3> QED BY <3>2, <3>3, <3>4, Zenon DEF DeletionInv
  <2> QED BY <2>4, <2>5, <2>6, <2>7, <2>8, Zenon
<1> QED BY <1>0, <1>1, <1>2, <1>3

\* Terminate and Close keep the invariant.
LEMMA TerminateInv ==
  ASSUME WatchInv, NEW err \in WatchOutcomes, Terminate(err)
  PROVE  WatchInv'
<1>1. CASE watch.terminal # "none" \/ watch.deletion
  BY <1>1, StutterInv, Zenon DEF Terminate, terminate, watchVars
<1>2. CASE watch.terminal = "none" /\ ~watch.deletion
  <2>1. /\ watch' = notifyLocked([watch EXCEPT !.terminal = err, !.queue = <<>>])
        /\ UNCHANGED <<call, sent, got, cancels>>
    BY <1>2, Zenon DEF Terminate, terminate
  <2> QED BY <1>2, <2>1, LatchInv, Zenon
<1> QED BY <1>1, <1>2, Zenon

\* The steps of a Next call that deliver nothing keep the invariant: they leave
\* the queue, the outcome and the deletion alone.
LEMMA QuietInv ==
  ASSUME WatchInv, WatchTypeOK', OneNext', NoLostWakeup',
         watch'.queue = watch.queue, watch'.terminal = watch.terminal,
         watch'.deletion = watch.deletion, UNCHANGED <<sent, got>>
  PROVE  WatchInv'
<1> USE DEF WatchInv
<1>1. Settled'
  BY Zenon DEF Settled
<1>2. Aligned'
  BY Zenon DEF Aligned
<1>3. DeletionInv'
  BY Zenon DEF DeletionInv
<1> QED BY <1>1, <1>2, <1>3, Zenon

\* A new Next call keeps the invariant.
LEMMA NextBeginInv ==
  ASSUME WatchInv, NEW c \in Callers, NextBegin(c)
  PROVE  WatchInv'
<1> USE DEF WatchInv
<1>1. /\ watch' \in WatchRecord
      /\ watch'.queue = watch.queue /\ watch'.terminal = watch.terminal
      /\ watch'.deletion = watch.deletion /\ watch'.active /\ watch'.signal = watch.signal
  <2>1. watch \in WatchRecord /\ TRUE \in Flags
    BY RecordTyping, Zenon DEF Flags
  <2> QED BY <2>1, ActiveFields, Zenon DEF NextBegin
<1>2. /\ call' \in [Callers -> [pc : {"idle", "look", "wait", "leave"}, done : BOOLEAN]]
      /\ call'[c].pc = "look" /\ \A d \in Callers \ {c} : call'[d] = call[d]
  BY Zenon DEF NextBegin, WatchTypeOK
<1>3. \A d \in Callers : call[d].pc = "idle"
  BY Zenon DEF NextBegin, OneNext
<1>4. WatchTypeOK'
  BY <1>1, <1>2, RecordTyping, Zenon DEF WatchTypeOK, NextBegin
<1>5. OneNext'
  BY <1>1, <1>2, <1>3 DEF OneNext
<1>6. NoLostWakeup'
  BY <1>1, <1>2, <1>3, Zenon DEF NoLostWakeup
<1> QED BY <1>1, <1>4, <1>5, <1>6, QuietInv, Zenon DEF NextBegin

\* A step of one caller that stays within its call keeps OneNext.
LEMMA OneNextKept ==
  ASSUME WatchInv, NEW c \in Callers, call[c].pc # "idle", watch'.active = watch.active,
         \A d \in Callers \ {c} : call'[d].pc = call[d].pc
  PROVE  OneNext' /\ watch'.active /\ \A d \in Callers \ {c} : call'[d].pc = "idle"
BY Zenon DEF WatchInv, OneNext

\* Waiting on the signal, with nothing to return, keeps the invariant, and so
\* does the end of the wait.
LEMMA SelectInv ==
  ASSUME WatchInv, NEW c \in Callers, call[c].pc # "idle",
         NEW s \in Signals, NEW pc \in {"look", "wait", "leave"},
         watch' = [watch EXCEPT !.signal = s], call' = [call EXCEPT ![c].pc = pc],
         pc = "wait" => s = "open" /\ watch.queue = <<>> /\ watch.terminal = "none",
         UNCHANGED <<sent, got, cancels>>
  PROVE  WatchInv'
<1> USE DEF WatchInv
<1>1. /\ watch' \in WatchRecord
      /\ watch'.queue = watch.queue /\ watch'.terminal = watch.terminal
      /\ watch'.deletion = watch.deletion /\ watch'.active = watch.active /\ watch'.signal = s
  <2>1. watch \in WatchRecord
    BY RecordTyping, Zenon
  <2> QED BY <2>1, SignalFields, Zenon
<1>2. /\ call' \in [Callers -> [pc : {"idle", "look", "wait", "leave"}, done : BOOLEAN]]
      /\ call'[c].pc = pc /\ \A d \in Callers \ {c} : call'[d] = call[d]
  BY Zenon DEF WatchTypeOK
<1>3. WatchTypeOK'
  BY <1>1, <1>2, RecordTyping, Zenon DEF WatchTypeOK
<1>4. OneNext' /\ watch'.active /\ \A d \in Callers \ {c} : call'[d].pc = "idle"
  BY <1>1, <1>2, OneNextKept, Zenon
<1>5. NoLostWakeup'
  BY <1>1, <1>2, <1>4, Zenon DEF NoLostWakeup
<1> QED BY <1>1, <1>3, <1>4, <1>5, QuietInv, Zenon

\* A round of Next that returns without a change keeps the invariant.
LEMMA ReturnInv ==
  ASSUME WatchInv, NEW c \in Callers, call[c].pc = "look",
         call' = [call EXCEPT ![c].pc = "leave"], UNCHANGED <<watch, sent, got, cancels>>
  PROVE  WatchInv'
<1> USE DEF WatchInv
<1>1. /\ call' \in [Callers -> [pc : {"idle", "look", "wait", "leave"}, done : BOOLEAN]]
      /\ call'[c].pc = "leave" /\ \A d \in Callers \ {c} : call'[d] = call[d]
  BY Zenon DEF WatchTypeOK
<1>2. WatchTypeOK'
  BY <1>1, Zenon DEF WatchTypeOK
<1>3. OneNext' /\ \A d \in Callers \ {c} : call'[d].pc = "idle"
  BY <1>1, OneNextKept, Zenon
<1>4. NoLostWakeup'
  BY <1>1, <1>3, Zenon DEF NoLostWakeup
<1> QED BY <1>2, <1>3, <1>4, QuietInv, Zenon

\* Wait, Leave and a cancelled context keep the invariant.
LEMMA WaitInv ==
  ASSUME WatchInv, NEW c \in Callers, Wait(c)
  PROVE  WatchInv'
<1>1. "none" \in Signals
  BY Zenon DEF Signals
<1>2. CASE call' = [call EXCEPT ![c].pc = "look"]
  BY <1>1, <1>2, SelectInv, Zenon DEF Wait
<1>3. CASE call' = [call EXCEPT ![c].pc = "leave"]
  BY <1>1, <1>3, SelectInv, Zenon DEF Wait
<1> QED BY <1>2, <1>3, Zenon DEF Wait

LEMMA LeaveInv ==
  ASSUME WatchInv, NEW c \in Callers, Leave(c)
  PROVE  WatchInv'
<1> USE DEF WatchInv
<1>1. /\ watch' \in WatchRecord
      /\ watch'.queue = watch.queue /\ watch'.terminal = watch.terminal
      /\ watch'.deletion = watch.deletion /\ watch'.signal = watch.signal
  <2>1. watch \in WatchRecord /\ FALSE \in Flags
    BY RecordTyping, Zenon DEF Flags
  <2> QED BY <2>1, ActiveFields, Zenon DEF Leave
<1>2. /\ call' \in [Callers -> [pc : {"idle", "look", "wait", "leave"}, done : BOOLEAN]]
      /\ call'[c].pc = "idle" /\ \A d \in Callers \ {c} : call'[d] = call[d]
  BY Zenon DEF Leave, WatchTypeOK, NoCall
<1>3. \A d \in Callers : call'[d].pc = "idle"
  BY <1>2, Zenon DEF Leave, OneNext
<1>4. WatchTypeOK'
  BY <1>1, <1>2, RecordTyping, Zenon DEF WatchTypeOK, Leave
<1>5. OneNext' /\ NoLostWakeup'
  BY <1>3, Zenon DEF OneNext, NoLostWakeup
<1> QED BY <1>1, <1>4, <1>5, QuietInv, Zenon DEF Leave

LEMMA CancelInv ==
  ASSUME WatchInv, NEW c \in Callers, CancelContext(c)
  PROVE  WatchInv'
<1> USE DEF WatchInv
<1>1. /\ call' \in [Callers -> [pc : {"idle", "look", "wait", "leave"}, done : BOOLEAN]]
      /\ \A d \in Callers : call'[d].pc = call[d].pc
  BY Zenon DEF CancelContext, WatchTypeOK
<1>2. WatchTypeOK'
  BY <1>1, CallersAssumption DEF CancelContext, WatchTypeOK
<1>3. OneNext' /\ NoLostWakeup'
  BY <1>1 DEF CancelContext, OneNext, NoLostWakeup
<1> QED BY <1>2, <1>3, QuietInv, Zenon DEF CancelContext

\* Next returns the head of the queue.
Takes(c) ==
  /\ call[c].pc = "look" /\ watch.queue # <<>>
  /\ watch' = TakeChange(watch)
  /\ got' = Append(got, Head(watch.queue))
  /\ call' = [call EXCEPT ![c].pc = "leave"]
  /\ UNCHANGED <<sent, cancels>>

\* A sequence is empty exactly when its length is zero.
LEMMA EmptyQueue == ASSUME NEW S, NEW q \in Seq(S) PROVE q = <<>> <=> Len(q) = 0
OBVIOUS

\* Two facts about numbers.
LEMMA OneLeft == ASSUME NEW a \in Nat, NEW b \in Nat, a + 1 = a + b PROVE b = 1
OBVIOUS

LEMMA OneLess ==
  ASSUME NEW a \in Nat, NEW b, a # 0, a # 1, b = a - 1 PROVE b \in 1 .. a - 1 /\ b + 1 = a
OBVIOUS

\* What the head of the queue is, and that the deletion is alone in the queue
\* when it is the head.
LEMMA HeadFacts ==
  ASSUME WatchInv, watch.queue # <<>>
  PROVE  /\ watch.terminal = "none"
         /\ Len(watch.queue) \in Nat \ {0} /\ Len(got) \in Nat /\ Len(sent) \in Nat
         /\ Len(sent) = Len(got) + Len(watch.queue)
         /\ Head(watch.queue) \in Change /\ Head(watch.queue) = sent[Len(got) + 1]
         /\ Tail(watch.queue) \in Seq(Change) /\ Len(Tail(watch.queue)) = Len(watch.queue) - 1
         /\ \A k \in 1 .. Len(watch.queue) - 1 : Tail(watch.queue)[k] = watch.queue[k + 1]
         /\ Head(watch.queue).kind = "target_deleted" => watch.deletion /\ Tail(watch.queue) = <<>>
<1> USE DEF WatchInv
<1>1. watch.queue \in Seq(Change) /\ got \in Seq(Change) /\ sent \in Seq(Change)
  BY Zenon DEF WatchTypeOK
<1>2. watch.terminal = "none"
  BY Zenon DEF Settled
<1>3. Len(watch.queue) \in Nat \ {0} /\ Len(got) \in Nat /\ Len(sent) \in Nat
  BY <1>1
<1>4. /\ Head(watch.queue) \in Change /\ Head(watch.queue) = watch.queue[1]
      /\ Tail(watch.queue) \in Seq(Change) /\ Len(Tail(watch.queue)) = Len(watch.queue) - 1
      /\ \A k \in 1 .. Len(watch.queue) - 1 : Tail(watch.queue)[k] = watch.queue[k + 1]
  BY <1>1, <1>3
<1>5. /\ Len(sent) = Len(got) + Len(watch.queue)
      /\ watch.queue[1] = sent[Len(got) + 1]
  BY <1>2, <1>3 DEF Aligned
<1>6. ASSUME Head(watch.queue).kind = "target_deleted"
      PROVE  watch.deletion /\ Tail(watch.queue) = <<>>
  <2>1. Len(got) + 1 \in 1 .. Len(sent) /\ sent[Len(got) + 1].kind = "target_deleted"
    BY <1>3, <1>4, <1>5, <1>6
  <2>2. Len(got) + 1 = Len(sent) /\ Len(got) # Len(sent)
    BY <1>3, <1>5, <2>1 DEF DeletionInv
  <2>3. watch.deletion
    BY <2>1, <2>2, Zenon DEF DeletionInv
  <2>4. Len(watch.queue) = 1
    <3>1. Len(watch.queue) \in Nat /\ Len(got) \in Nat /\ Len(got) + 1 = Len(got) + Len(watch.queue)
      BY <1>3, <1>5, <2>2, Zenon
    <3> QED BY <3>1, OneLeft, Zenon
  <2>5. Len(Tail(watch.queue)) = 0
    BY <1>1, <2>4
  <2> QED BY <1>4, <2>3, <2>5, EmptyQueue, Zenon
<1> QED BY <1>2, <1>3, <1>4, <1>5, <1>6, Zenon

\* What the delivery of a change does to the watch.
LEMMA TakeOutcome ==
  ASSUME WatchInv, NEW c \in Callers, Takes(c)
  PROVE  LET h == Head(watch.queue)
         IN /\ watch' \in WatchRecord /\ watch'.queue = Tail(watch.queue)
            /\ watch'.active = watch.active
            /\ IF h.kind = "target_deleted"
               THEN watch'.terminal = "closed" /\ ~watch'.deletion
               ELSE watch'.terminal = "none" /\ watch'.deletion = watch.deletion
<1> USE DEF WatchInv
<1> DEFINE h == Head(watch.queue)
           t == Tail(watch.queue)
<1>0. watch.queue # <<>> /\ watch \in WatchRecord
  BY RecordTyping, Zenon DEF Takes
<1>1. /\ watch.terminal = "none"
      /\ Len(watch.queue) \in Nat \ {0} /\ Len(got) \in Nat /\ Len(sent) \in Nat
      /\ Len(sent) = Len(got) + Len(watch.queue)
      /\ h \in Change /\ h = sent[Len(got) + 1]
      /\ t \in Seq(Change) /\ Len(t) = Len(watch.queue) - 1
      /\ \A k \in 1 .. Len(watch.queue) - 1 : t[k] = watch.queue[k + 1]
      /\ h.kind = "target_deleted" => watch.deletion /\ t = <<>>
  BY <1>0, HeadFacts, Zenon
<1>2. IF h.kind = "target_deleted"
      THEN watch' = notifyLocked(Deleted(watch, <<>>, FALSE, "closed"))
      ELSE watch' = Taken(watch, t)
  BY <1>1, Zenon DEF Takes, TakeChange, Deleted, Taken
<1> HIDE DEF h, t
<1>3. /\ watch' \in WatchRecord /\ watch'.queue = t /\ watch'.active = watch.active
      /\ IF h.kind = "target_deleted"
         THEN watch'.terminal = "closed" /\ ~watch'.deletion
         ELSE watch'.terminal = "none" /\ watch'.deletion = watch.deletion
  <2>1. CASE h.kind = "target_deleted"
    <3> DEFINE no == FALSE
               w == Deleted(watch, <<>>, no, "closed")
    <3>1. <<>> \in Queues /\ no \in Flags /\ "closed" \in Outcomes
      BY DEF Queues, Flags, Outcomes, WatchOutcomes
    <3> HIDE DEF no
    <3>2. /\ w \in WatchRecord /\ w.queue = <<>> /\ w.active = watch.active
          /\ w.terminal = "closed" /\ w.deletion = no
      BY <1>0, <3>1, DeletedFields
    <3>3. watch' = notifyLocked(w) /\ t = <<>>
      BY <1>1, <1>2, <2>1, Zenon DEF no
    <3> HIDE DEF w
    <3>4. /\ watch' \in WatchRecord /\ watch'.queue = w.queue /\ watch'.active = w.active
          /\ watch'.terminal = w.terminal /\ watch'.deletion = w.deletion
      BY <3>2, <3>3, NotifyFields, Zenon
    <3> QED BY <2>1, <3>2, <3>3, <3>4, Zenon DEF no
  <2>2. CASE h.kind # "target_deleted"
    <3>1. t \in Queues /\ watch' = Taken(watch, t)
      BY <1>1, <1>2, <2>2, Zenon DEF Queues
    <3> QED BY <1>0, <1>1, <2>2, <3>1, TakenFields, Zenon
  <2> QED BY <2>1, <2>2, Zenon
<1> QED BY <1>3, Zenon DEF h, t

\* The delivery of a change keeps the invariant.
LEMMA TakeInv ==
  ASSUME WatchInv, NEW c \in Callers, Takes(c)
  PROVE  WatchInv'
<1> USE DEF WatchInv
<1> DEFINE h == Head(watch.queue)
           t == Tail(watch.queue)
<1>0. watch.queue # <<>> /\ watch \in WatchRecord
  BY RecordTyping, Zenon DEF Takes
<1>1. /\ watch.terminal = "none"
      /\ Len(watch.queue) \in Nat \ {0} /\ Len(got) \in Nat /\ Len(sent) \in Nat
      /\ Len(sent) = Len(got) + Len(watch.queue)
      /\ h \in Change /\ h = sent[Len(got) + 1]
      /\ t \in Seq(Change) /\ Len(t) = Len(watch.queue) - 1
      /\ \A k \in 1 .. Len(watch.queue) - 1 : t[k] = watch.queue[k + 1]
      /\ h.kind = "target_deleted" => watch.deletion /\ t = <<>>
  BY <1>0, HeadFacts, Zenon
<1>3. got' = Append(got, h) /\ sent' = sent
  BY Zenon DEF Takes
<1> HIDE DEF h, t
<1>4. /\ watch' \in WatchRecord /\ watch'.queue = t /\ watch'.active = watch.active
      /\ IF h.kind = "target_deleted"
         THEN watch'.terminal = "closed" /\ ~watch'.deletion
         ELSE watch'.terminal = "none" /\ watch'.deletion = watch.deletion
  BY TakeOutcome, Zenon DEF h, t
<1>5. /\ call' \in [Callers -> [pc : {"idle", "look", "wait", "leave"}, done : BOOLEAN]]
      /\ call'[c].pc = "leave" /\ \A d \in Callers \ {c} : call'[d] = call[d]
      /\ call[c].pc = "look" /\ cancels' = cancels
  BY Zenon DEF WatchTypeOK, Takes
<1>6. /\ got' \in Seq(Change) /\ Len(got') = Len(got) + 1
      /\ \A k \in 1 .. Len(got) : got'[k] = got[k]
      /\ got'[Len(got) + 1] = h
  BY <1>1, <1>3 DEF WatchTypeOK
<1>7. WatchTypeOK'
  BY <1>1, <1>3, <1>4, <1>5, <1>6, RecordTyping, CapacityAssumption DEF WatchTypeOK
<1>8. OneNext' /\ \A d \in Callers \ {c} : call'[d].pc = "idle"
  BY <1>4, <1>5, OneNextKept, Zenon
<1>9. NoLostWakeup'
  BY <1>5, <1>8, Zenon DEF NoLostWakeup
<1>10. Settled'
  <2>1. CASE h.kind = "target_deleted"
    BY <1>1, <1>4, <2>1, Zenon DEF Settled
  <2>2. CASE h.kind # "target_deleted"
    <3>1. ASSUME watch.deletion PROVE t # <<>> /\ t[Len(t)].kind = "target_deleted"
      <4>1. watch.queue[Len(watch.queue)].kind = "target_deleted"
        BY <3>1, Zenon DEF Settled
      <4>2. watch.queue[1] = h
        BY <1>0, <1>1 DEF Aligned
      <4>3. Len(watch.queue) # 1
        BY <2>2, <4>1, <4>2, Zenon
      <4>4. Len(t) \in 1 .. Len(watch.queue) - 1 /\ Len(t) + 1 = Len(watch.queue)
        <5>1. /\ Len(watch.queue) \in Nat /\ Len(watch.queue) # 0
              /\ Len(t) = Len(watch.queue) - 1
          BY <1>1, Zenon
        <5> QED BY <4>3, <5>1, OneLess, Zenon
      <4>5. Len(t) # 0
        BY <4>4
      <4>6. t # <<>>
        BY <4>5, Len(<<>>) = 0, Zenon
      <4> QED BY <1>1, <4>1, <4>4, <4>6, Zenon
    <3> QED BY <1>4, <2>2, <3>1, Zenon DEF Settled
  <2> QED BY <2>1, <2>2, Zenon
<1>11. Aligned'
  <2>1. /\ \A k \in 1 .. Len(got) : got[k] = sent[k]
        /\ \A k \in 1 .. Len(watch.queue) : watch.queue[k] = sent[Len(got) + k]
        /\ \A k \in 1 .. Len(sent) : sent[k].order = k
    BY <1>1, Zenon DEF Aligned
  <2>2. Len(got') <= Len(sent') /\ Len(sent') = Len(got') + Len(watch'.queue)
    BY <1>1, <1>3, <1>4, <1>6
  <2>3. ASSUME NEW k \in 1 .. Len(got') PROVE got'[k] = sent'[k]
    BY <1>1, <1>3, <1>6, <2>1, SMTT(60)
  <2>4. ASSUME NEW k \in 1 .. Len(watch'.queue)
        PROVE  watch'.queue[k] = sent'[Len(got') + k]
    <3>1. /\ k \in 1 .. Len(watch.queue) - 1 /\ k + 1 \in 1 .. Len(watch.queue)
          /\ Len(got') + k = Len(got) + (k + 1)
      BY <1>1, <1>4, <1>6
    <3> QED BY <1>1, <1>3, <1>4, <2>1, <3>1, Zenon
  <2> QED BY <1>3, <2>1, <2>2, <2>3, <2>4, Zenon DEF Aligned
<1>12. DeletionInv'
  <2> SUFFICES ASSUME NEW k \in 1 .. Len(sent), sent[k].kind = "target_deleted"
               PROVE  /\ k = Len(sent)
                      /\ IF Len(got') = Len(sent) THEN watch'.terminal = "closed"
                         ELSE watch'.deletion /\ watch'.terminal = "none"
    BY <1>3, Zenon DEF DeletionInv
  <2>1. k = Len(sent)
    BY Zenon DEF DeletionInv
  <2>2. Len(got) # Len(sent)
    BY <1>1
  <2>3. watch.deletion
    BY <2>2, Zenon DEF DeletionInv
  <2>4. CASE Len(got') = Len(sent)
    <3>1. h = sent[k]
      BY <1>1, <1>6, <2>1, <2>4, Zenon
    <3> QED BY <1>4, <2>1, <2>4, <3>1, Zenon
  <2>5. CASE Len(got') # Len(sent)
    <3>1. Len(t) # 0
      BY <1>1, <1>6, <2>5, SMTT(60)
    <3>2. h.kind # "target_deleted"
      BY <1>1, <3>1, EmptyQueue, Zenon
    <3> QED BY <1>4, <2>1, <2>3, <2>5, <3>2, Zenon
  <2> QED BY <2>4, <2>5, Zenon
<1> QED BY <1>7, <1>8, <1>9, <1>10, <1>11, <1>12, Zenon

\* A round of Next keeps the invariant.
LEMMA LookInv ==
  ASSUME WatchInv, NEW c \in Callers, Look(c)
  PROVE  WatchInv'
<1>1. CASE call' = [call EXCEPT ![c].pc = "leave"] /\ UNCHANGED <<watch, got>>
  BY <1>1, ReturnInv, Zenon DEF Look
<1>2. CASE Takes(c)
  BY <1>2, TakeInv, Zenon
<1>3. CASE /\ watch.queue = <<>> /\ watch.terminal = "none"
           /\ watch' = [watch EXCEPT !.signal = "open"]
           /\ call' = [call EXCEPT ![c].pc = "wait"]
           /\ UNCHANGED got
  <2>1. "open" \in Signals
    BY Zenon DEF Signals
  <2> QED BY <1>3, <2>1, SelectInv, Zenon DEF Look
<1> QED BY <1>1, <1>2, <1>3, Zenon DEF Look, Takes

\* Every step keeps the invariant.
LEMMA StepInv == ASSUME WatchInv, [WatchNext]_watchVars PROVE WatchInv'
<1>1. CASE UNCHANGED watchVars
  BY <1>1, StutterInv, Zenon
<1>2. ASSUME NEW kind \in Kinds, PublishChange(kind) PROVE WatchInv'
  BY <1>2, PublishInv, Zenon
<1>3. ASSUME Terminate("stream_eof") PROVE WatchInv'
  BY <1>3, TerminateInv, Zenon DEF WatchOutcomes
<1>4. ASSUME Close PROVE WatchInv'
  BY <1>4, TerminateInv, Zenon DEF Close, Terminate, WatchOutcomes
<1>5. ASSUME NEW c \in Callers, CallerNext(c) PROVE WatchInv'
  BY <1>5, NextBeginInv, LookInv, WaitInv, LeaveInv, Zenon DEF CallerNext
<1>6. ASSUME NEW c \in Callers, CancelContext(c) PROVE WatchInv'
  BY <1>6, CancelInv, Zenon
<1> QED BY <1>1, <1>2, <1>3, <1>4, <1>5, <1>6, Zenon DEF WatchNext, ProviderNext

\* The inductive invariant holds always.
THEOREM WatchAlwaysInv == WatchSpec => []WatchInv
BY InitInv, StepInv, PTL DEF WatchSpec

\* Typing, the bound of the queue included: localInstanceWatch never holds more
\* than queueCapacity changes.
THEOREM WatchTyping == WatchSpec => []WatchTypeOK
<1>1. WatchInv => WatchTypeOK
  BY Zenon DEF WatchInv
<1> QED BY <1>1, WatchAlwaysInv, PTL

\* No wake-up is lost between the look at the queue and the select of Next.
THEOREM WatchNoLostWakeup == WatchSpec => []NoLostWakeup
<1>1. WatchInv => NoLostWakeup
  BY Zenon DEF WatchInv
<1> QED BY <1>1, WatchAlwaysInv, PTL

\* Two sequences with the same elements at the same places are equal.
LEMMA SameSequence ==
  ASSUME NEW S, NEW a \in Seq(S), NEW b \in Seq(S), Len(a) = Len(b),
         \A k \in 1 .. Len(a) : a[k] = b[k]
  PROVE  a = b
OBVIOUS

\* Publish, Close, Terminate and Next of any number of goroutines never skip,
\* repeat or reorder a change.
THEOREM WatchGapless == WatchSpec => []DeliveryIsGapless
<1>1. ASSUME WatchInv PROVE DeliveryIsGapless
  <2>0. /\ got \in Seq(Change) /\ sent \in Seq(Change) /\ watch.queue \in Seq(Change)
        /\ Len(got) \in Nat /\ Len(sent) \in Nat /\ Len(watch.queue) \in Nat
    BY <1>1 DEF WatchInv, WatchTypeOK
  <2>1. Len(got) <= Len(sent) /\ \A k \in 1 .. Len(got) : got[k] = sent[k]
    BY <1>1, Zenon DEF WatchInv, Aligned
  <2>2. got = SubSeq(sent, 1, Len(got))
    <3> DEFINE p == SubSeq(sent, 1, Len(got))
    <3>1. p \in Seq(Change) /\ Len(p) = Len(got) /\ \A k \in 1 .. Len(got) : p[k] = sent[k]
      BY <2>0, <2>1
    <3> HIDE DEF p
    <3>2. got = p
      BY <2>0, <2>1, <3>1, SameSequence, Zenon
    <3> QED BY <3>2, Zenon DEF p
  <2>3. ASSUME watch.terminal = "none" PROVE sent = got \o watch.queue
    <3> DEFINE p == got \o watch.queue
    <3>1. /\ p \in Seq(Change) /\ Len(p) = Len(got) + Len(watch.queue)
          /\ \A k \in 1 .. Len(p) :
               p[k] = IF k <= Len(got) THEN got[k] ELSE watch.queue[k - Len(got)]
      BY <2>0
    <3> HIDE DEF p
    <3>2. /\ Len(sent) = Len(got) + Len(watch.queue)
          /\ \A k \in 1 .. Len(watch.queue) : watch.queue[k] = sent[Len(got) + k]
      BY <1>1, <2>3, Zenon DEF WatchInv, Aligned
    <3>3. ASSUME NEW k \in 1 .. Len(sent) PROVE sent[k] = p[k]
      <4>1. CASE k <= Len(got)
        BY <2>0, <2>1, <3>1, <3>2, <4>1
      <4>2. CASE ~(k <= Len(got))
        <5>1. k - Len(got) \in 1 .. Len(watch.queue) /\ Len(got) + (k - Len(got)) = k
          BY <2>0, <3>2, <4>2
        <5> QED BY <3>1, <3>2, <4>2, <5>1, Zenon
      <4> QED BY <4>1, <4>2, Zenon
    <3>4. sent = p
      BY <2>0, <3>1, <3>2, <3>3, SameSequence, Zenon
    <3> QED BY <3>4, Zenon DEF p
  <2> QED BY <1>1, <2>1, <2>2, <2>3, Zenon DEF DeliveryIsGapless, WatchInv, Aligned
<1> QED BY <1>1, WatchAlwaysInv, PTL

\* Once Publish has queued the deletion of the target, nothing keeps it from
\* being delivered as the last change.
THEOREM WatchDeletionLast == WatchSpec => []DeletionIsLast
<1>1. ASSUME WatchInv PROVE DeletionIsLast
  <2>1. got = sent <=> Len(got) = Len(sent)
    <3>1. got \in Seq(Change) /\ sent \in Seq(Change) /\ \A k \in 1 .. Len(got) : got[k] = sent[k]
      BY <1>1, Zenon DEF WatchInv, WatchTypeOK, Aligned
    <3> QED BY <3>1, SameSequence, Zenon
  <2> QED BY <1>1, <2>1, Zenon DEF WatchInv, DeletionInv, DeletionIsLast
<1> QED BY <1>1, WatchAlwaysInv, PTL

\* What a step shows the consumer: nothing, the latching of an outcome, or the
\* head of the queue.
Silent == got' = got /\ watch'.terminal = watch.terminal

Latches ==
  /\ watch.terminal = "none" /\ watch'.terminal \in WatchOutcomes
  /\ got' = got

LEMMA StepShows ==
  ASSUME WatchInv, [WatchNext]_watchVars
  PROVE  Silent \/ Latches \/ \E c \in Callers : Takes(c)
<1> USE DEF Silent, Latches
<1>0. watch \in WatchRecord
  BY RecordTyping, Zenon DEF WatchInv
<1>1. CASE UNCHANGED watchVars
  BY <1>1, Zenon DEF watchVars
<1>2. ASSUME NEW err \in WatchOutcomes, watch.terminal = "none", got' = got,
             watch' = notifyLocked([watch EXCEPT !.terminal = err, !.queue = <<>>])
      PROVE  Latches
  <2>1. <<>> \in Queues /\ err \in Outcomes /\ watch' = notifyLocked(Latched(watch, <<>>, err))
    BY <1>2 DEF Queues, Outcomes, Latched
  <2> QED BY <1>0, <1>2, <2>1, LatchFields, NotifyFields
<1>3. ASSUME NEW err \in WatchOutcomes, Terminate(err) PROVE Silent \/ Latches
  BY <1>2, <1>3, Zenon DEF Terminate, terminate
<1>4. ASSUME NEW kind \in Kinds, PublishChange(kind) PROVE Silent \/ Latches
  <2> DEFINE c == [order |-> Len(sent) + 1, kind |-> kind]
             b == (c.kind = "target_deleted")
             q == Append(watch.queue, c)
  <2>1. CASE watch.deletion \/ watch.terminal # "none"
    BY <1>4, <2>1, Zenon DEF PublishChange, Publish
  <2>2. CASE ~watch.deletion /\ watch.terminal = "none" /\ Len(watch.queue) >= Capacity
    BY <1>2, <1>4, <2>2, Zenon DEF PublishChange, Publish, WatchOutcomes
  <2>3. CASE ~watch.deletion /\ watch.terminal = "none" /\ ~(Len(watch.queue) >= Capacity)
    <3>1. watch' = notifyLocked(Queued(watch, q, b)) /\ got' = got
      BY <1>4, <2>3, Zenon DEF PublishChange, Publish, Queued
    <3>2. q \in Queues /\ b \in Flags
      BY DEF WatchInv, WatchTypeOK, Queues, Flags, Change
    <3> HIDE DEF q, b
    <3> QED BY <1>0, <3>1, <3>2, QueuedFields, NotifyFields
  <2> QED BY <2>1, <2>2, <2>3, Zenon
<1>5. ASSUME NEW x \in Signals, watch' = [watch EXCEPT !.signal = x], got' = got PROVE Silent
  BY <1>0, <1>5, SignalFields, Zenon
<1>6. ASSUME NEW a \in Flags, watch' = [watch EXCEPT !.active = a], got' = got PROVE Silent
  BY <1>0, <1>6, ActiveFields, Zenon
<1>7. ASSUME NEW c \in Callers, Look(c) PROVE Silent \/ Takes(c)
  BY <1>5, <1>7, Zenon DEF Look, Takes, Signals
<1>8. ASSUME NEW c \in Callers, NextBegin(c) \/ Leave(c) PROVE Silent
  BY <1>6, <1>8, Zenon DEF NextBegin, Leave, Flags
<1>9. ASSUME NEW c \in Callers, Wait(c) PROVE Silent
  BY <1>5, <1>9, Zenon DEF Wait, Signals
<1>10. ASSUME NEW c \in Callers, CancelContext(c) PROVE Silent
  BY <1>10, Zenon DEF CancelContext
<1>11. "stream_eof" \in WatchOutcomes /\ "closed" \in WatchOutcomes /\ (Close => Terminate("closed"))
  BY Zenon DEF WatchOutcomes, Close, Terminate
<1> HIDE DEF Silent, Latches
<1> QED BY <1>1, <1>3, <1>4, <1>7, <1>8, <1>9, <1>10, <1>11, Zenon
        DEF WatchNext, ProviderNext, CallerNext

\* The first outcome stays: no later Terminate, Close, Publish or Next changes
\* it, accepts a change or delivers one.
THEOREM WatchOutcomeFinal == WatchSpec => OutcomeIsFinal
<1>1. ASSUME WatchInv, WatchInv', [WatchNext]_watchVars PROVE [OutcomeStays]_watchVars
  <2> SUFFICES ASSUME watch.terminal # "none" PROVE OutcomeStays
    BY Zenon DEF OutcomeStays
  <2>1. watch.queue = <<>> /\ ~Latches /\ \A c \in Callers : ~Takes(c)
    BY <1>1, Zenon DEF WatchInv, Settled, Latches, Takes
  <2>2. got' = got /\ watch'.terminal = watch.terminal
    BY <1>1, <2>1, StepShows, Zenon DEF Silent
  <2>3. watch'.queue = <<>>
    BY <1>1, <2>2, Zenon DEF WatchInv, Settled
  <2>4. sent' = sent
    BY <1>1, Zenon DEF WatchNext, ProviderNext, PublishChange, Accepting, Terminate, Close, CallerNext,
                NextBegin, Look, Wait, Leave, CancelContext, watchVars
  <2> QED BY <2>2, <2>3, <2>4, Zenon DEF OutcomeStays
<1> QED BY <1>1, WatchAlwaysInv, PTL DEF WatchSpec, OutcomeIsFinal

\* The watch implements Feed: its consumer sees a numbered sequence without gaps
\* that ends once.
THEOREM WatchImplementsFeed == WatchSpec => ImplementsFeed
<1>1. WatchInit => Consumer!FeedInit
  BY DEF WatchInit, NewInstanceWatch, Consumer!FeedInit
<1>2. ASSUME WatchInv, WatchInv', [WatchNext]_watchVars
      PROVE  [Consumer!FeedNext]_<<got, watch.terminal>>
  <2>1. CASE Silent
    BY <2>1, Zenon DEF Silent
  <2>2. CASE Latches
    BY <2>2, Zenon DEF Latches, Consumer!FeedNext, Consumer!End
  <2>3. ASSUME NEW c \in Callers, Takes(c) PROVE Consumer!FeedNext
    <3> DEFINE h == Head(watch.queue)
    <3>1. /\ watch.terminal = "none" /\ h \in Change /\ got' = Append(got, h)
          /\ Len(got) \in Nat /\ Len(got) + 1 \in 1 .. Len(sent) /\ h = sent[Len(got) + 1]
      BY <1>2, <2>3, HeadFacts DEF Takes
    <3>2. h.order = Len(got) + 1
      BY <1>2, <3>1, Zenon DEF WatchInv, Aligned
    <3>3. h = [order |-> Len(got) + 1, kind |-> h.kind] /\ h.kind \in Kinds
      BY <3>1, <3>2, Zenon DEF Change
    <3>4. IF h.kind = "target_deleted" THEN watch'.terminal = "closed" ELSE watch'.terminal = "none"
      BY <1>2, <2>3, TakeOutcome, Zenon
    <3> HIDE DEF h
    <3>5. CASE h.kind = "target_deleted"
      BY <3>1, <3>3, <3>4, <3>5, Zenon DEF Consumer!FeedNext, Consumer!DeliverDeletion
    <3>6. CASE h.kind # "target_deleted"
      <4>1. h.kind \in {"instances_changed", "state_changed"}
        BY <3>3, <3>6, Zenon DEF Kinds
      <4> QED BY <3>1, <3>3, <3>4, <3>6, <4>1, Zenon DEF Consumer!FeedNext, Consumer!Deliver
    <3> QED BY <3>5, <3>6, Zenon
  <2> QED BY <1>2, <2>1, <2>2, <2>3, StepShows, Zenon
<1> QED BY <1>1, <1>2, WatchAlwaysInv, PTL DEF WatchSpec, ImplementsFeed, Consumer!FeedSpec

-----------------------------------------------------------------------------
(* Self-registration: the inductive invariant *)

Failures == {"closed", "invalid", "canceled", "unavailable", "unauthorized"}

Results == SUBSET Failures

CallSteps == {"idle", "post", "posting", "post failed", "posted", "clean up", "cleaning", "returned"}

BeatSteps == {"none", "select", "beating", "failed", "done"}

OnceSteps == {"no", "waiting", "deleting", "done"}

CallRecord ==
  [pc : CallSteps,
   registration : Registrations \cup {R!NoRegistration}, result : Results]

BeatRecord == [pc : BeatSteps, err : Results, sent : Nat]

ChannelRecord == [stop : Flags, stopped : Flags]

OnceRecord == [pc : OnceSteps, err : Results]

RegistrarRecord == [closed : Flags, registering : Flags, sessions : SUBSET Calls]

CloserRecord == [pc : {"idle", "wait", "next", "closing", "returned"}, todo : SUBSET Calls, result : Results,
                 again : {"idle", "returned"}]

RegTypes ==
  /\ registrar \in RegistrarRecord /\ closer \in CloserRecord
  /\ register \in [Calls -> CallRecord] /\ beat \in [Calls -> BeatRecord]
  /\ channel \in [Calls -> ChannelRecord] /\ once \in [Calls -> OnceRecord]
  /\ request \in [Calls -> {"none", "POST", "PUT", "DELETE"}]
  /\ lease \in [Calls -> Results] /\ deletes \in [Calls -> Nat]
  /\ server = [registered |-> server.registered, late |-> server.late]

\* An outcome that tells its reader that the registration may still be there.
Alarming(err) == err \notin {{}, {"closed"}}

\* The request a session waits for.
Pending(c, b, o) ==
  IF c.pc = "posting" THEN "POST"
  ELSE IF b.pc = "beating" THEN "PUT"
  ELSE IF c.pc = "cleaning" \/ o.pc = "deleting" THEN "DELETE" ELSE "none"

\* One session: its call c of Register, heartbeat b, channels ch, request rq,
\* close o, lease outcome l and DELETEs d; held tells whether the registrar has
\* it among its sessions.
SessionOK(c, b, ch, rq, o, l, d, held) ==
  /\ rq = Pending(c, b, o)
  /\ c.pc = "post failed" => Alarming(c.result)
  /\ (b.pc # "none") <=> (c.pc = "returned" /\ c.result = {})
  /\ held <=> (b.pc # "none" /\ o.pc # "done")
  /\ o.pc # "no" => b.pc # "none"
  /\ ch.stopped = TRUE => b.pc = "done"
  /\ o.pc = "deleting" => b.pc = "done"
  /\ b.pc = "failed" => Alarming(b.err)
  /\ o.pc = "done" => l # {} /\ (b.pc # "done" => o.err = {"canceled"})
  /\ l # {} /\ b.pc = "none" => c.pc = "returned"
  /\ l = {"closed"} /\ b.pc # "none" => o.pc = "done" /\ b.pc = "done"
  /\ d # 0 => /\ d = 1
              /\ \/ b.pc = "done" /\ o.pc \in {"deleting", "done"}
                 \/ b.pc = "none" /\ c.pc \in {"cleaning", "returned"}

SessionAt(i) ==
  SessionOK(register[i], beat[i], channel[i], request[i], once[i], lease[i], deletes[i],
            i \in registrar.sessions)

\* Registrar.Close will close every session there is.
CloserOK ==
  /\ registrar.closed = FALSE <=> closer.pc = "idle"
  /\ closer.pc # "idle" => registrar.sessions \subseteq closer.todo
  /\ \A i \in closer.todo : beat[i].pc # "none"
  /\ closer.pc \in {"next", "closing", "returned"} =>
       \A i \in Calls : register[i].pc \in {"idle", "returned"}
  /\ closer.pc = "returned" => closer.todo = {}

\* Someone was told that the registration may still be there, or will be.
Reported(i) ==
  \/ Alarming(lease[i]) \/ beat[i].pc = "failed"
  \/ register[i].pc \in {"post failed", "returned"} /\ Alarming(register[i].result)

\* Someone still has to withdraw the registration.
Owned(i) == i \in registrar.sessions \/ register[i].pc \in {"posted", "clean up", "cleaning"}

\* Every registered address is owned or reported; what may still arrive is
\* reported.
OrphansOK ==
  /\ \A a \in server.registered : \E i \in Calls : R!Address(i) = a /\ (Owned(i) \/ Reported(i))
  /\ \A x \in server.late : x[1] # "DELETE" => \E i \in Calls : R!Address(i) = x[2] /\ Reported(i)

RegInv == RegTypes /\ (\A i \in Calls : SessionAt(i)) /\ CloserOK /\ OrphansOK

-----------------------------------------------------------------------------
(* Self-registration: steps *)

\* What a step of one session leaves alone of the session j.
Same(j) ==
  /\ register'[j] = register[j] /\ beat'[j] = beat[j] /\ channel'[j] = channel[j]
  /\ request'[j] = request[j] /\ once'[j] = once[j] /\ lease'[j] = lease[j]
  /\ deletes'[j] = deletes[j] /\ (j \in registrar'.sessions <=> j \in registrar.sessions)

\* What a step of the session i may do to the server's addresses.
Answers(i) ==
  /\ R!Address(i)' = R!Address(i) \/ ~(Owned(i) \/ Reported(i))
  /\ Reported(i) => Reported(i)'
  /\ \A a \in server'.registered :
       \/ a \in server.registered /\ (a = R!Address(i) /\ Owned(i) => Owned(i)' \/ Reported(i)')
       \/ a = R!Address(i)' /\ (Owned(i)' \/ Reported(i)')
  /\ \A x \in server'.late : x[1] # "DELETE" =>
       x \in server.late \/ (x[2] = R!Address(i)' /\ Reported(i)')

\* What a step of the session i may do to a registrar that is being closed.
Yields(i) ==
  /\ closer' = closer /\ registrar'.closed = registrar.closed
  /\ closer.pc # "idle" => registrar'.sessions \subseteq registrar.sessions
  /\ beat[i].pc # "none" => beat'[i].pc # "none"
  /\ closer.pc # "idle" /\ register[i].pc \in {"idle", "returned"} =>
       register'[i].pc \in {"idle", "returned"}

\* A step of one session.
LEMMA LocalStep ==
  ASSUME RegInv, NEW i \in Calls, RegTypes', \A j \in Calls \ {i} : Same(j),
         SessionAt(i)', Yields(i) \/ CloserOK', Answers(i)
  PROVE  RegInv'
<1>1. \A j \in Calls : SessionAt(j)'
  <2>1. ASSUME NEW j \in Calls \ {i} PROVE SessionAt(j)'
    BY DEF RegInv, SessionAt, Same
  <2> QED
    BY <2>1, Zenon
<1>2. CloserOK'
  <2> SUFFICES ASSUME Yields(i) PROVE CloserOK'
    BY Zenon
  <2>1. registrar'.closed = registrar.closed /\ closer' = closer
    BY Zenon DEF Yields
  <2>2. closer.todo \subseteq Calls
    BY Zenon DEF RegInv, RegTypes, CloserRecord
  <2>3. \A j \in closer.todo : beat'[j].pc # "none"
    BY <2>2, Zenon DEF RegInv, CloserOK, Yields, Same
  <2>4. closer.pc # "idle" => registrar'.sessions \subseteq closer.todo
    BY Zenon DEF RegInv, CloserOK, Yields
  <2>5. closer.pc \in {"next", "closing", "returned"} =>
          \A j \in Calls : register'[j].pc \in {"idle", "returned"}
    BY Zenon DEF RegInv, CloserOK, Yields, Same
  <2> QED
    BY <2>1, <2>3, <2>4, <2>5, Zenon DEF RegInv, CloserOK
<1>3. OrphansOK'
  <2>1. ASSUME NEW j \in Calls \ {i}
        PROVE  R!Address(j)' = R!Address(j) /\ Owned(j)' = Owned(j) /\ Reported(j)' = Reported(j)
    BY Zenon DEF Same, R!Address, Owned, Reported
  <2>2. ASSUME NEW a \in server'.registered
        PROVE  \E j \in Calls : R!Address(j)' = a /\ (Owned(j)' \/ Reported(j)')
    <3>1. CASE a = R!Address(i)' /\ (Owned(i)' \/ Reported(i)')
      BY <3>1, Zenon
    <3>2. CASE a \in server.registered /\ (a = R!Address(i) /\ Owned(i) => Owned(i)' \/ Reported(i)')
      <4>1. PICK j \in Calls : R!Address(j) = a /\ (Owned(j) \/ Reported(j))
        BY <3>2, Zenon DEF RegInv, OrphansOK
      <4>2. CASE j # i
        BY <2>1, <4>1, <4>2, Zenon
      <4>3. CASE j = i
        BY <3>2, <4>1, <4>3, Zenon DEF Answers
      <4> QED
        BY <4>2, <4>3, Zenon
    <3> QED
      BY <2>2, <3>1, <3>2, Zenon DEF Answers
  <2>3. ASSUME NEW x \in server'.late, x[1] # "DELETE"
        PROVE  \E j \in Calls : R!Address(j)' = x[2] /\ Reported(j)'
    <3>1. CASE x[2] = R!Address(i)' /\ Reported(i)'
      BY <3>1, Zenon
    <3>2. CASE x \in server.late
      <4>1. PICK j \in Calls : R!Address(j) = x[2] /\ Reported(j)
        BY <2>3, <3>2, Zenon DEF RegInv, OrphansOK
      <4>2. CASE j # i
        BY <2>1, <4>1, <4>2, Zenon
      <4>3. CASE j = i
        BY <4>1, <4>3, Zenon DEF Answers
      <4> QED
        BY <4>2, <4>3, Zenon
    <3> QED
      BY <2>3, <3>1, <3>2, Zenon DEF Answers
  <2> QED
    BY <2>2, <2>3, Zenon DEF OrphansOK
<1> QED
  BY <1>1, <1>2, <1>3, Zenon DEF RegInv

\* The outcome of a request: no error exactly when the server applied it.
LEMMA Outcome ==
  ASSUME R!RegistrarConstants, NEW reply \in Replies
  PROVE  /\ R!executeResult(reply) \in Results
         /\ R!executeResult(reply) = {} \/ Alarming(R!executeResult(reply))
         /\ R!executeResult(reply) = {} => R!Effects(reply) = {"applied"}
BY Zenon DEF R!RegistrarConstants, R!executeResult, R!Effects, Results, Failures, Alarming, R!nil

\* What a request that ended did to the server.
LEMMA EndsEffect ==
  ASSUME R!RegistrarConstants, RegTypes, NEW i \in Calls, NEW reply \in Replies, R!Ends(i, reply)
  PROVE  /\ request' = [request EXCEPT ![i] = "none"]
         /\ server' = [registered |-> server'.registered, late |-> server'.late]
         /\ server'.registered \subseteq
              server.registered \cup (IF request[i] = "DELETE" THEN {} ELSE {R!Address(i)})
         /\ server'.late \subseteq server.late \cup {<<request[i], R!Address(i)>>}
         /\ R!executeResult(reply) = {} =>
              /\ server'.late = server.late
              /\ request[i] = "DELETE" => R!Address(i) \notin server'.registered
<1>1. PICK effect \in R!Effects(reply) :
        server' = CASE effect = "applied" ->
                         [server EXCEPT !.registered = R!Applied(request[i], R!Address(i), @)]
                    [] effect = "late" -> [server EXCEPT !.late = @ \cup {<<request[i], R!Address(i)>>}]
                    [] OTHER -> server
  BY Zenon DEF R!Ends
<1>2. server = [registered |-> server.registered, late |-> server.late]
  BY Zenon DEF RegTypes
<1>3. CASE effect = "applied"
  <2>1. server' = [registered |-> R!Applied(request[i], R!Address(i), server.registered), late |-> server.late]
    BY <1>1, <1>2, <1>3, Zenon
  <2> QED
    BY <2>1, Zenon DEF R!Applied, R!Ends
<1>4. CASE effect = "late"
  <2>1. server' = [registered |-> server.registered, late |-> server.late \cup {<<request[i], R!Address(i)>>}]
    BY <1>1, <1>2, <1>4, Zenon
  <2>2. R!executeResult(reply) # {}
    BY <1>4, Outcome
  <2> QED
    BY <2>1, <2>2, Zenon DEF R!Ends
<1>5. CASE effect \notin {"applied", "late"}
  <2>1. server' = server
    BY <1>1, <1>5, Zenon
  <2>2. R!executeResult(reply) # {}
    BY <1>5, Outcome, Zenon
  <2> QED
    BY <1>2, <2>1, <2>2, Zenon DEF R!Ends
<1> QED
  BY <1>3, <1>4, <1>5, Zenon

\* An update of a call of Register.
LEMMA CallUpdate ==
  ASSUME RegTypes, NEW i \in Calls, NEW pc \in CallSteps, NEW res \in Results,
         \/ register' = [register EXCEPT ![i].pc = pc, ![i].result = res]
         \/ register' = [register EXCEPT ![i].pc = pc] /\ res = register[i].result
  PROVE  /\ register' \in [Calls -> CallRecord]
         /\ register'[i].pc = pc /\ register'[i].result = res
         /\ R!Address(i)' = R!Address(i)
         /\ \A j \in Calls \ {i} : register'[j] = register[j]
<1> DEFINE c == register[i]
           n == [c EXCEPT !.pc = pc, !.result = res]
           m == [c EXCEPT !.pc = pc]
<1>1. register \in [Calls -> CallRecord] /\ c \in CallRecord
  BY Zenon DEF RegTypes
<1>2. n \in CallRecord /\ n.pc = pc /\ n.result = res /\ n.registration = c.registration
  BY <1>1, Zenon DEF CallRecord
<1>3. m \in CallRecord /\ m.pc = pc /\ m.result = c.result /\ m.registration = c.registration
  BY <1>1, Zenon DEF CallRecord
<1>4. CASE register' = [register EXCEPT ![i].pc = pc, ![i].result = res]
  <2>1. register' = [register EXCEPT ![i] = n]
    BY <1>4, Zenon
  <2> HIDE DEF n, c
  <2>2. /\ register' \in [Calls -> CallRecord] /\ register'[i] = n
        /\ \A j \in Calls \ {i} : register'[j] = register[j]
    BY <1>1, <1>2, <2>1, Zenon
  <2> QED
    BY <1>2, <2>2, Zenon DEF R!Address, c
<1>5. CASE register' = [register EXCEPT ![i].pc = pc] /\ res = register[i].result
  <2>1. register' = [register EXCEPT ![i] = m]
    BY <1>5, Zenon
  <2> HIDE DEF m, c
  <2>2. /\ register' \in [Calls -> CallRecord] /\ register'[i] = m
        /\ \A j \in Calls \ {i} : register'[j] = register[j]
    BY <1>1, <1>3, <2>1, Zenon
  <2> QED
    BY <1>3, <1>5, <2>2, Zenon DEF R!Address, c
<1> QED
  BY <1>4, <1>5, Zenon

\* An update of a heartbeat.
LEMMA BeatUpdate ==
  ASSUME RegTypes, NEW i \in Calls, NEW pc \in BeatSteps, NEW err \in Results,
         \/ beat' = [beat EXCEPT ![i].err = err, ![i].pc = pc]
         \/ beat' = [beat EXCEPT ![i].pc = pc] /\ err = beat[i].err
         \/ beat' = [beat EXCEPT ![i].pc = pc, ![i].sent = @ + 1] /\ err = beat[i].err
  PROVE  /\ beat' \in [Calls -> BeatRecord]
         /\ beat'[i].pc = pc /\ beat'[i].err = err
         /\ \A j \in Calls \ {i} : beat'[j] = beat[j]
<1> DEFINE b == beat[i]
           k == [b EXCEPT !.err = err, !.pc = pc]
           m == [b EXCEPT !.pc = pc]
           next == b.sent + 1
           n == [b EXCEPT !.pc = pc, !.sent = next]
<1>1. beat \in [Calls -> BeatRecord] /\ b \in BeatRecord
  BY Zenon DEF RegTypes
<1>2. k \in BeatRecord /\ k.pc = pc /\ k.err = err
  BY <1>1, Zenon DEF BeatRecord
<1>3. m \in BeatRecord /\ m.pc = pc /\ m.err = b.err
  BY <1>1, Zenon DEF BeatRecord
<1>4. n \in BeatRecord /\ n.pc = pc /\ n.err = b.err
  <2>1. next \in Nat
    BY <1>1 DEF BeatRecord
  <2> HIDE DEF next
  <2> QED
    BY <1>1, <2>1, Zenon DEF BeatRecord
<1>5. PICK v \in {k, m, n} : beat' = [beat EXCEPT ![i] = v] /\ (v = k \/ err = b.err)
  BY Zenon
<1>6. v \in BeatRecord /\ v.pc = pc /\ v.err = err
  <2> HIDE DEF k, m, n, b
  <2> QED
    BY <1>2, <1>3, <1>4, <1>5, Zenon
<1> HIDE DEF k, m, n, b
<1> QED
  BY <1>1, <1>5, <1>6, Zenon

\* An update of the close of a session.
LEMMA OnceUpdate ==
  ASSUME RegTypes, NEW i \in Calls, NEW pc \in OnceSteps, NEW err \in Results,
         \/ once' = [once EXCEPT ![i] = [pc |-> pc, err |-> err]]
         \/ once' = [once EXCEPT ![i].pc = pc] /\ err = once[i].err
  PROVE  /\ once' \in [Calls -> OnceRecord]
         /\ once'[i].pc = pc /\ once'[i].err = err
         /\ \A j \in Calls \ {i} : once'[j] = once[j]
<1> DEFINE o == once[i]
           k == [pc |-> pc, err |-> err]
           m == [o EXCEPT !.pc = pc]
<1>1. once \in [Calls -> OnceRecord] /\ o \in OnceRecord
  BY Zenon DEF RegTypes
<1>2. k \in OnceRecord /\ k.pc = pc /\ k.err = err
  BY Zenon DEF OnceRecord
<1>3. m \in OnceRecord /\ m.pc = pc /\ m.err = o.err
  BY <1>1, Zenon DEF OnceRecord
<1>4. PICK v \in {k, m} : once' = [once EXCEPT ![i] = v] /\ (v = k \/ err = o.err)
  BY Zenon
<1>5. v \in OnceRecord /\ v.pc = pc /\ v.err = err
  <2> HIDE DEF k, m, o
  <2> QED
    BY <1>2, <1>3, <1>4, Zenon
<1> HIDE DEF k, m, o
<1> QED
  BY <1>1, <1>4, <1>5, Zenon

\* An update of the registrar that leaves it closed or open.
LEMMA RegistrarUpdate ==
  ASSUME RegTypes, NEW x \in Flags, NEW s \in SUBSET Calls,
         \/ registrar' = registrar /\ s = registrar.sessions
         \/ registrar' = [registrar EXCEPT !.registering = x] /\ s = registrar.sessions
         \/ registrar' = [registrar EXCEPT !.registering = x, !.sessions = s]
         \/ registrar' = [registrar EXCEPT !.sessions = s]
  PROVE  registrar' \in RegistrarRecord /\ registrar'.closed = registrar.closed /\ registrar'.sessions = s
BY ZenonT(60) DEF RegTypes, RegistrarRecord

\* A request is sent.
LEMMA SendUpdate ==
  ASSUME RegTypes, NEW i \in Calls, NEW m \in {"POST", "PUT", "DELETE"}, R!Send(i, m)
  PROVE  /\ request' \in [Calls -> {"none", "POST", "PUT", "DELETE"}] /\ deletes' \in [Calls -> Nat]
         /\ request[i] = "none" /\ request'[i] = m
         /\ deletes'[i] = IF m = "DELETE" THEN deletes[i] + 1 ELSE deletes[i]
         /\ \A j \in Calls \ {i} : request'[j] = request[j] /\ deletes'[j] = deletes[j]
BY DEF RegTypes, R!Send

-----------------------------------------------------------------------------
(* Self-registration: Register *)

\* A call of Register, up to its first unlock.
LEMMA RegisterKeeps ==
  ASSUME RegInv, NEW i \in Calls, NEW r \in Registrations, R!Register(i, r)
  PROVE  RegInv'
<1>1. /\ RegTypes /\ SessionAt(i) /\ CloserOK
      /\ register[i].pc = "idle"
      /\ UNCHANGED <<beat, channel, request, once, lease, closer, caller, deletes, server>>
  BY Zenon DEF RegInv, R!Register
<1>2. beat[i].pc = "none" /\ lease[i] = {} /\ once[i].pc = "no" /\ deletes[i] = 0 /\ i \notin registrar.sessions
  BY <1>1, Zenon DEF SessionAt, SessionOK, RegTypes, OnceRecord, OnceSteps
<1>3. ~Owned(i) /\ ~Reported(i)
  BY <1>1, <1>2, Zenon DEF Owned, Reported, Alarming
<1>4. ASSUME NEW err \in Failures,
             register' = [register EXCEPT ![i].pc = "returned", ![i].result = {err}], UNCHANGED registrar
      PROVE  RegInv'
  <2>1. "returned" \in CallSteps /\ {err} \in Results
    BY Zenon DEF CallSteps, Results
  <2>2. /\ register' \in [Calls -> CallRecord]
        /\ register'[i].pc = "returned" /\ register'[i].result = {err}
        /\ R!Address(i)' = R!Address(i)
        /\ \A j \in Calls \ {i} : register'[j] = register[j]
    BY <1>1, <1>4, <2>1, CallUpdate, Zenon
  <2>3. RegTypes' /\ \A j \in Calls \ {i} : Same(j)
    BY <1>1, <1>4, <2>2, Zenon DEF RegTypes, Same
  <2>4. SessionAt(i)'
    BY <1>1, <1>2, <1>4, <2>2, Zenon DEF SessionAt, SessionOK, Pending
  <2>5. Yields(i) /\ Answers(i)
    BY <1>1, <1>3, <1>4, <2>2, Zenon DEF Yields, Answers
  <2> QED
    BY <2>3, <2>4, <2>5, LocalStep, Zenon
<1>5. ASSUME ~registrar.closed,
             register' = [register EXCEPT ![i] = [pc |-> "post", registration |-> r, result |-> {}]],
             registrar' = [registrar EXCEPT !.registering = TRUE]
      PROVE  RegInv'
  <2> DEFINE n == [pc |-> "post", registration |-> r, result |-> {}]
  <2>1. n \in CallRecord /\ n.pc = "post" /\ n.result = {}
    BY Zenon DEF CallRecord, CallSteps, Results
  <2>2. register \in [Calls -> CallRecord]
    BY <1>1, Zenon DEF RegTypes
  <2> HIDE DEF n
  <2>3. /\ register' \in [Calls -> CallRecord]
        /\ register'[i] = n /\ \A j \in Calls \ {i} : register'[j] = register[j]
    BY <1>5, <2>1, <2>2, Zenon DEF n
  <2>4. /\ registrar' \in RegistrarRecord /\ registrar'.closed = registrar.closed
        /\ registrar'.sessions = registrar.sessions
    <3>1. TRUE \in Flags /\ registrar.sessions \in SUBSET Calls
      BY <1>1, Zenon DEF Flags, RegTypes, RegistrarRecord
    <3> QED
      BY <1>1, <1>5, <3>1, RegistrarUpdate, Zenon
  <2>5. RegTypes' /\ \A j \in Calls \ {i} : Same(j)
    BY <1>1, <2>3, <2>4, Zenon DEF RegTypes, Same
  <2>6. SessionAt(i)'
    BY <1>1, <1>2, <2>1, <2>3, <2>4, Zenon DEF SessionAt, SessionOK, Pending
  <2>7. closer.pc = "idle"
    <3>1. registrar.closed \in BOOLEAN
      BY <1>1, Zenon DEF RegTypes, RegistrarRecord, Flags
    <3> QED
      BY <1>1, <1>5, <3>1, Zenon DEF CloserOK
  <2>8. Yields(i) /\ Answers(i)
    BY <1>1, <1>3, <2>4, <2>7, Zenon DEF Yields, Answers
  <2> QED
    BY <2>5, <2>6, <2>8, LocalStep, Zenon
<1>6. "invalid" \in Failures /\ "closed" \in Failures
  BY Zenon DEF Failures
<1> QED
  BY <1>4, <1>5, <1>6, Zenon DEF R!Register, R!Return, R!nil

\* The POST is sent, or the metadata is refused.
LEMMA PostKeeps ==
  ASSUME RegInv, NEW i \in Calls, R!Post(i)
  PROVE  RegInv'
<1>1. /\ RegTypes /\ SessionAt(i)
      /\ register[i].pc = "post"
      /\ UNCHANGED <<registrar, beat, channel, once, lease, closer, caller, server>>
  BY Zenon DEF RegInv, R!Post
<1>2. beat[i].pc = "none" /\ lease[i] = {} /\ once[i].pc = "no" /\ deletes[i] = 0 /\ i \notin registrar.sessions
  BY <1>1, Zenon DEF SessionAt, SessionOK, RegTypes, OnceRecord, OnceSteps
<1>3. ~Owned(i) /\ ~Reported(i)
  BY <1>1, <1>2, Zenon DEF Owned, Reported, Alarming
<1>4. CASE R!Send(i, "POST") /\ register' = [register EXCEPT ![i].pc = "posting"]
  <2>1. "posting" \in CallSteps /\ register[i].result \in Results
    BY <1>1, Zenon DEF CallSteps, RegTypes, CallRecord
  <2>2. /\ register' \in [Calls -> CallRecord]
        /\ register'[i].pc = "posting"
        /\ R!Address(i)' = R!Address(i)
        /\ \A j \in Calls \ {i} : register'[j] = register[j]
    BY <1>1, <1>4, <2>1, CallUpdate, Zenon
  <2>3. /\ request' \in [Calls -> {"none", "POST", "PUT", "DELETE"}] /\ deletes' \in [Calls -> Nat]
        /\ request'[i] = "POST" /\ deletes'[i] = deletes[i]
        /\ \A j \in Calls \ {i} : request'[j] = request[j] /\ deletes'[j] = deletes[j]
    BY <1>1, <1>4, SendUpdate, Zenon
  <2>4. RegTypes' /\ \A j \in Calls \ {i} : Same(j)
    BY <1>1, <2>2, <2>3, Zenon DEF RegTypes, Same
  <2>5. SessionAt(i)'
    BY <1>1, <1>2, <2>2, <2>3, Zenon DEF SessionAt, SessionOK, Pending
  <2>6. Yields(i) /\ Answers(i)
    BY <1>1, <1>3, <2>2, Zenon DEF Yields, Answers
  <2> QED
    BY <2>4, <2>5, <2>6, LocalStep, Zenon
<1>5. CASE /\ register' = [register EXCEPT ![i].pc = "post failed", ![i].result = {"invalid"}]
           /\ UNCHANGED <<request, deletes>>
  <2>1. "post failed" \in CallSteps /\ {"invalid"} \in Results
    BY Zenon DEF CallSteps, Results, Failures
  <2>2. /\ register' \in [Calls -> CallRecord]
        /\ register'[i].pc = "post failed" /\ register'[i].result = {"invalid"}
        /\ R!Address(i)' = R!Address(i)
        /\ \A j \in Calls \ {i} : register'[j] = register[j]
    BY <1>1, <1>5, <2>1, CallUpdate, Zenon
  <2>3. RegTypes' /\ \A j \in Calls \ {i} : Same(j)
    BY <1>1, <1>5, <2>2, Zenon DEF RegTypes, Same
  <2>4. SessionAt(i)'
    BY <1>1, <1>2, <1>5, <2>2, Zenon DEF SessionAt, SessionOK, Pending, Alarming
  <2>5. Yields(i) /\ Answers(i)
    BY <1>1, <1>3, <2>2, Zenon DEF Yields, Answers
  <2> QED
    BY <2>3, <2>4, <2>5, LocalStep, Zenon
<1> QED
  BY <1>4, <1>5, Zenon DEF R!Post

\* The POST ended: an address it may have registered is owned by a call that
\* goes on, or the error is on its way to the caller.
LEMMA PostedKeeps ==
  ASSUME R!RegistrarConstants, RegInv, NEW i \in Calls, R!Posted(i)
  PROVE  RegInv'
<1>1. /\ RegTypes /\ SessionAt(i)
      /\ register[i].pc = "posting"
      /\ UNCHANGED <<registrar, beat, channel, once, lease, closer, caller, deletes>>
  BY Zenon DEF RegInv, R!Posted
<1>2. PICK reply \in Replies :
        /\ R!Ends(i, reply)
        /\ register' = [register EXCEPT ![i].result = R!executeResult(reply),
                                        ![i].pc = IF R!executeResult(reply) = R!nil THEN "posted" ELSE "post failed"]
  BY Zenon DEF R!Posted
<1> DEFINE err == R!executeResult(reply)
           pc == IF err = {} THEN "posted" ELSE "post failed"
<1>3. err \in Results /\ (err = {} \/ Alarming(err))
  BY Outcome, Zenon
<1>4. /\ pc \in CallSteps
      /\ \/ pc = "posted" /\ err = {}
         \/ pc = "post failed" /\ Alarming(err)
  <2> HIDE DEF err
  <2> QED
    BY <1>3, Zenon DEF CallSteps
<1>5. register' = [register EXCEPT ![i].pc = pc, ![i].result = err]
  BY <1>2, Zenon DEF R!nil
<1>6. /\ beat[i].pc = "none" /\ lease[i] = {} /\ once[i].pc = "no" /\ deletes[i] = 0
      /\ i \notin registrar.sessions /\ request[i] = "POST"
  BY <1>1, Zenon DEF SessionAt, SessionOK, RegTypes, OnceRecord, OnceSteps, Pending
<1>7. ~Owned(i) /\ ~Reported(i)
  BY <1>1, <1>6, Zenon DEF Owned, Reported, Alarming
<1>8. /\ request' = [request EXCEPT ![i] = "none"]
      /\ server' = [registered |-> server'.registered, late |-> server'.late]
      /\ server'.registered \subseteq server.registered \cup {R!Address(i)}
      /\ server'.late \subseteq server.late \cup {<<request[i], R!Address(i)>>}
      /\ err = {} => server'.late = server.late
  BY <1>1, <1>2, <1>6, EndsEffect, Zenon
<1> HIDE DEF err, pc
<1>9. /\ register' \in [Calls -> CallRecord]
      /\ register'[i].pc = pc /\ register'[i].result = err
      /\ R!Address(i)' = R!Address(i)
      /\ \A j \in Calls \ {i} : register'[j] = register[j]
  BY <1>1, <1>3, <1>4, <1>5, CallUpdate, Zenon
<1>10. /\ request' \in [Calls -> {"none", "POST", "PUT", "DELETE"}] /\ request'[i] = "none"
       /\ \A j \in Calls \ {i} : request'[j] = request[j]
  BY <1>1, <1>8, Zenon DEF RegTypes
<1>11. RegTypes' /\ \A j \in Calls \ {i} : Same(j)
  BY <1>1, <1>8, <1>9, <1>10, Zenon DEF RegTypes, Same
<1>12. SessionAt(i)'
  BY <1>1, <1>4, <1>6, <1>9, <1>10, Zenon DEF SessionAt, SessionOK, Pending
<1>13. /\ pc = "posted" => Owned(i)'
       /\ pc = "post failed" => Reported(i)'
  BY <1>4, <1>9, Zenon DEF Owned, Reported
<1>14. Yields(i)
  BY <1>1, <1>9, Zenon DEF Yields
<1>15. ASSUME NEW x \in server'.late, x \notin server.late PROVE x[2] = R!Address(i) /\ Reported(i)'
  <2>1. x = <<request[i], R!Address(i)>> /\ err # {}
    BY <1>8, <1>15, Zenon
  <2> QED
    BY <1>4, <1>13, <2>1, Zenon
<1>16. Answers(i)
  BY <1>4, <1>7, <1>8, <1>9, <1>13, <1>15, Zenon DEF Answers
<1> QED
  BY <1>11, <1>12, <1>14, <1>16, LocalStep, Zenon

\* A call of Register whose POST failed returns.
LEMMA PostFailedKeeps ==
  ASSUME RegInv, NEW i \in Calls, R!PostFailed(i)
  PROVE  RegInv'
<1>1. /\ RegTypes /\ SessionAt(i)
      /\ register[i].pc = "post failed"
      /\ registrar' = [registrar EXCEPT !.registering = FALSE]
      /\ register' = [register EXCEPT ![i].pc = "returned", ![i].result = register[i].result]
      /\ UNCHANGED <<beat, channel, request, once, lease, closer, caller, deletes, server>>
  BY Zenon DEF RegInv, R!PostFailed, R!Return
<1>2. "returned" \in CallSteps /\ register[i].result \in Results
  BY <1>1, Zenon DEF CallSteps, RegTypes, CallRecord
<1>3. /\ register' \in [Calls -> CallRecord]
      /\ register'[i].pc = "returned" /\ register'[i].result = register[i].result
      /\ R!Address(i)' = R!Address(i)
      /\ \A j \in Calls \ {i} : register'[j] = register[j]
  BY <1>1, <1>2, CallUpdate, Zenon
<1>4. /\ registrar' \in RegistrarRecord /\ registrar'.closed = registrar.closed
      /\ registrar'.sessions = registrar.sessions
  <2>1. FALSE \in Flags /\ registrar.sessions \in SUBSET Calls
    BY <1>1, Zenon DEF Flags, RegTypes, RegistrarRecord
  <2> QED
    BY <1>1, <2>1, RegistrarUpdate, Zenon
<1>5. RegTypes' /\ \A j \in Calls \ {i} : Same(j)
  BY <1>1, <1>3, <1>4, Zenon DEF RegTypes, Same
<1>6. SessionAt(i)'
  BY <1>1, <1>3, <1>4, Zenon DEF SessionAt, SessionOK, Pending, Alarming
<1>7. Yields(i)
  BY <1>1, <1>3, <1>4, Zenon DEF Yields
<1>8. Answers(i)
  BY <1>1, <1>3, <1>4, Zenon DEF Answers, Owned, Reported
<1> QED
  BY <1>5, <1>6, <1>7, <1>8, LocalStep, Zenon

\* The second critical section of Register.
LEMMA AcceptKeeps ==
  ASSUME RegInv, NEW i \in Calls, R!Accept(i)
  PROVE  RegInv'
<1>1. /\ RegTypes /\ SessionAt(i) /\ CloserOK
      /\ register[i].pc = "posted"
      /\ UNCHANGED <<channel, request, once, lease, closer, caller, deletes, server>>
  BY Zenon DEF RegInv, R!Accept
<1>2. beat[i].pc = "none" /\ lease[i] = {} /\ once[i].pc = "no" /\ deletes[i] = 0 /\ i \notin registrar.sessions
  BY <1>1, Zenon DEF SessionAt, SessionOK, RegTypes, OnceRecord, OnceSteps
<1>3. Owned(i) /\ ~Reported(i)
  BY <1>1, <1>2, Zenon DEF Owned, Reported, Alarming
<1>4. FALSE \in Flags /\ registrar.sessions \in SUBSET Calls /\ registrar.sessions \cup {i} \in SUBSET Calls
  BY <1>1, Zenon DEF Flags, RegTypes, RegistrarRecord
<1>5. CASE /\ registrar' = [registrar EXCEPT !.registering = FALSE]
           /\ register' = [register EXCEPT ![i].pc = "clean up"]
           /\ UNCHANGED beat
  <2>1. "clean up" \in CallSteps /\ register[i].result \in Results
    BY <1>1, Zenon DEF CallSteps, RegTypes, CallRecord
  <2>2. /\ register' \in [Calls -> CallRecord]
        /\ register'[i].pc = "clean up"
        /\ R!Address(i)' = R!Address(i)
        /\ \A j \in Calls \ {i} : register'[j] = register[j]
    BY <1>1, <1>5, <2>1, CallUpdate, Zenon
  <2>3. /\ registrar' \in RegistrarRecord /\ registrar'.closed = registrar.closed
        /\ registrar'.sessions = registrar.sessions
    BY <1>1, <1>4, <1>5, RegistrarUpdate, Zenon
  <2>4. RegTypes' /\ \A j \in Calls \ {i} : Same(j)
    BY <1>1, <1>5, <2>2, <2>3, Zenon DEF RegTypes, Same
  <2>5. SessionAt(i)'
    BY <1>1, <1>2, <1>5, <2>2, <2>3, Zenon DEF SessionAt, SessionOK, Pending
  <2>6. Owned(i)'
    BY <2>2, Zenon DEF Owned
  <2>7. Yields(i) /\ Answers(i)
    BY <1>1, <1>3, <1>5, <2>2, <2>3, <2>6 DEF Yields, Answers
  <2> QED
    BY <2>4, <2>5, <2>7, LocalStep, Zenon
<1>6. CASE /\ ~registrar.closed
           /\ registrar' = [registrar EXCEPT !.registering = FALSE, !.sessions = @ \cup {i}]
           /\ register' = [register EXCEPT ![i].pc = "returned", ![i].result = {}]
           /\ beat' = [beat EXCEPT ![i].pc = "select"]
  <2>1. "returned" \in CallSteps /\ {} \in Results /\ "select" \in BeatSteps /\ beat[i].err \in Results
    BY <1>1, Zenon DEF CallSteps, BeatSteps, Results, RegTypes, BeatRecord
  <2>2. /\ register' \in [Calls -> CallRecord]
        /\ register'[i].pc = "returned" /\ register'[i].result = {}
        /\ R!Address(i)' = R!Address(i)
        /\ \A j \in Calls \ {i} : register'[j] = register[j]
    BY <1>1, <1>6, <2>1, CallUpdate, Zenon
  <2>3. /\ beat' \in [Calls -> BeatRecord] /\ beat'[i].pc = "select"
        /\ \A j \in Calls \ {i} : beat'[j] = beat[j]
    BY <1>1, <1>6, <2>1, BeatUpdate, Zenon
  <2>4. /\ registrar' \in RegistrarRecord /\ registrar'.closed = registrar.closed
        /\ registrar'.sessions = registrar.sessions \cup {i}
    <3>1. registrar' = [registrar EXCEPT !.registering = FALSE, !.sessions = registrar.sessions \cup {i}]
      BY <1>1, <1>6, Zenon DEF RegTypes, RegistrarRecord
    <3> QED
      BY <1>1, <1>4, <3>1, RegistrarUpdate, Zenon
  <2>5. RegTypes' /\ \A j \in Calls \ {i} : Same(j)
    BY <1>1, <2>2, <2>3, <2>4, Zenon DEF RegTypes, Same
  <2>6. channel[i].stopped # TRUE
    BY <1>1, <1>2, Zenon DEF SessionAt, SessionOK
  <2>7. SessionAt(i)'
    BY <1>1, <1>2, <2>2, <2>3, <2>4, <2>6, Zenon DEF SessionAt, SessionOK, Pending
  <2>8. Owned(i)'
    BY <2>4, Zenon DEF Owned
  <2>9. closer.pc = "idle"
    <3>1. registrar.closed \in BOOLEAN
      BY <1>1, Zenon DEF RegTypes, RegistrarRecord, Flags
    <3> QED
      BY <1>1, <1>6, <3>1, Zenon DEF CloserOK
  <2>10. Yields(i) /\ Answers(i)
    BY <1>1, <1>2, <1>3, <2>2, <2>4, <2>8, <2>9 DEF Yields, Answers
  <2> QED
    BY <2>5, <2>7, <2>10, LocalStep, Zenon
<1> QED
  BY <1>5, <1>6, Zenon DEF R!Accept, R!Return, R!nil

\* A registration that came too late is withdrawn.
LEMMA CleanUpKeeps ==
  ASSUME RegInv, NEW i \in Calls, R!CleanUp(i)
  PROVE  RegInv'
<1>1. /\ RegTypes /\ SessionAt(i)
      /\ register[i].pc = "clean up" /\ R!Send(i, "DELETE")
      /\ register' = [register EXCEPT ![i].pc = "cleaning"]
      /\ UNCHANGED <<registrar, beat, channel, once, lease, closer, caller, server>>
  BY Zenon DEF RegInv, R!CleanUp
<1>2. beat[i].pc = "none" /\ lease[i] = {} /\ once[i].pc = "no" /\ deletes[i] = 0 /\ i \notin registrar.sessions
  BY <1>1, Zenon DEF SessionAt, SessionOK, RegTypes, OnceRecord, OnceSteps
<1>3. "cleaning" \in CallSteps /\ register[i].result \in Results
  BY <1>1, Zenon DEF CallSteps, RegTypes, CallRecord
<1>4. /\ register' \in [Calls -> CallRecord]
      /\ register'[i].pc = "cleaning"
      /\ R!Address(i)' = R!Address(i)
      /\ \A j \in Calls \ {i} : register'[j] = register[j]
  BY <1>1, <1>3, CallUpdate, Zenon
<1>5. /\ request' \in [Calls -> {"none", "POST", "PUT", "DELETE"}] /\ deletes' \in [Calls -> Nat]
      /\ request'[i] = "DELETE" /\ deletes'[i] = deletes[i] + 1
      /\ \A j \in Calls \ {i} : request'[j] = request[j] /\ deletes'[j] = deletes[j]
  BY <1>1, SendUpdate, Zenon
<1>6. RegTypes' /\ \A j \in Calls \ {i} : Same(j)
  BY <1>1, <1>4, <1>5, Zenon DEF RegTypes, Same
<1>7. SessionAt(i)'
  <2>1. deletes'[i] = 1
    BY <1>2, <1>5
  <2> QED
    BY <1>1, <1>2, <1>4, <1>5, <2>1, Zenon DEF SessionAt, SessionOK, Pending
<1>8. Owned(i)' /\ ~Reported(i)
  BY <1>1, <1>2, <1>4, Zenon DEF Owned, Reported, Alarming
<1>9. Yields(i) /\ Answers(i)
  BY <1>1, <1>4, <1>8, Zenon DEF Yields, Answers
<1> QED
  BY <1>6, <1>7, <1>9, LocalStep, Zenon

\* The DELETE of such a registration ended: the address is gone, or the error
\* is in what Register returns.
LEMMA CleanedUpKeeps ==
  ASSUME R!RegistrarConstants, RegInv, NEW i \in Calls, R!CleanedUp(i)
  PROVE  RegInv'
<1>1. /\ RegTypes /\ SessionAt(i)
      /\ register[i].pc = "cleaning"
      /\ lease' = [lease EXCEPT ![i] = R!Terminate(lease[i], {"closed"})]
      /\ UNCHANGED <<registrar, beat, channel, once, closer, caller, deletes>>
  BY Zenon DEF RegInv, R!CleanedUp
<1>2. PICK reply \in Replies :
        /\ R!Ends(i, reply)
        /\ register' = [register EXCEPT ![i].pc = "returned", ![i].result = {"closed"} \cup R!executeResult(reply)]
  BY Zenon DEF R!CleanedUp, R!Return
<1> DEFINE err == R!executeResult(reply)
           res == {"closed"} \cup err
<1>3. err \in Results /\ (err = {} \/ Alarming(err))
  BY Outcome, Zenon
<1>4. /\ beat[i].pc = "none" /\ lease[i] = {} /\ once[i].pc = "no"
      /\ i \notin registrar.sessions /\ request[i] = "DELETE"
  BY <1>1, Zenon DEF SessionAt, SessionOK, RegTypes, OnceRecord, OnceSteps, Pending
<1>5. /\ request' = [request EXCEPT ![i] = "none"]
      /\ server' = [registered |-> server'.registered, late |-> server'.late]
      /\ server'.registered \subseteq server.registered
      /\ server'.late \subseteq server.late \cup {<<"DELETE", R!Address(i)>>}
      /\ err = {} => R!Address(i) \notin server'.registered
  BY <1>1, <1>2, <1>4, EndsEffect, Zenon
<1> HIDE DEF err
<1>6. res \in Results /\ res # {} /\ (err # {} => Alarming(res))
  BY <1>3, Zenon DEF Results, Failures, Alarming
<1>7. "returned" \in CallSteps
  BY Zenon DEF CallSteps
<1>8. register' = [register EXCEPT ![i].pc = "returned", ![i].result = res]
  BY <1>2, Zenon DEF err
<1> HIDE DEF res
<1>9. /\ register' \in [Calls -> CallRecord]
      /\ register'[i].pc = "returned" /\ register'[i].result = res
      /\ R!Address(i)' = R!Address(i)
      /\ \A j \in Calls \ {i} : register'[j] = register[j]
  BY <1>1, <1>6, <1>7, <1>8, CallUpdate, Zenon
<1>10. /\ request' \in [Calls -> {"none", "POST", "PUT", "DELETE"}] /\ request'[i] = "none"
       /\ \A j \in Calls \ {i} : request'[j] = request[j]
  BY <1>1, <1>5, Zenon DEF RegTypes
<1>11. /\ lease' \in [Calls -> Results] /\ lease'[i] = {"closed"}
       /\ \A j \in Calls \ {i} : lease'[j] = lease[j]
  BY <1>1, <1>4, Zenon DEF RegTypes, R!Terminate, R!nil, Results, Failures
<1>12. RegTypes' /\ \A j \in Calls \ {i} : Same(j)
  BY <1>1, <1>5, <1>9, <1>10, <1>11, Zenon DEF RegTypes, Same
<1>13. SessionAt(i)'
  BY <1>1, <1>4, <1>6, <1>9, <1>10, <1>11, Zenon DEF SessionAt, SessionOK, Pending
<1>14. ~Reported(i) /\ (err # {} => Reported(i)')
  BY <1>1, <1>4, <1>6, <1>9, Zenon DEF Reported, Alarming
<1>15. Yields(i)
  BY <1>1, <1>9, Zenon DEF Yields
<1>16. \A x \in server'.late : x \in server.late \/ x[1] = "DELETE"
  BY <1>5
<1>17. Answers(i)
  BY <1>5, <1>9, <1>14, <1>16, Zenon DEF Answers
<1> QED
  BY <1>12, <1>13, <1>15, <1>17, LocalStep, Zenon

-----------------------------------------------------------------------------
(* Self-registration: the heartbeat *)

\* What is known of a session whose heartbeat runs.
LEMMA Beating ==
  ASSUME RegInv, NEW i \in Calls, beat[i].pc \in {"select", "beating", "failed"}
  PROVE  /\ RegTypes /\ SessionAt(i)
         /\ register[i].pc = "returned" /\ register[i].result = {} /\ deletes[i] = 0
         /\ once[i].pc # "deleting" /\ lease[i] # {"closed"} /\ channel[i].stopped # TRUE
         /\ i \in registrar.sessions \/ Alarming(lease[i])
         /\ request[i] = IF beat[i].pc = "beating" THEN "PUT" ELSE "none"
<1>1. RegTypes /\ SessionAt(i)
  BY Zenon DEF RegInv
<1> QED
  BY <1>1, Zenon DEF SessionAt, SessionOK, Pending, Alarming

\* A heartbeat is sent.
LEMMA TickKeeps ==
  ASSUME RegInv, NEW i \in Calls, R!Tick(i)
  PROVE  RegInv'
<1>1. /\ beat[i].pc = "select" /\ R!Send(i, "PUT")
      /\ beat' = [beat EXCEPT ![i].pc = "beating", ![i].sent = @ + 1]
      /\ UNCHANGED <<registrar, register, channel, once, lease, closer, caller, server>>
  BY Zenon DEF R!Tick
<1>2. /\ RegTypes /\ SessionAt(i)
      /\ register[i].pc = "returned" /\ register[i].result = {} /\ deletes[i] = 0
      /\ once[i].pc # "deleting" /\ lease[i] # {"closed"} /\ channel[i].stopped # TRUE
  BY <1>1, Beating, Zenon
<1>3. "beating" \in BeatSteps /\ beat[i].err \in Results
  BY <1>2, Zenon DEF BeatSteps, RegTypes, BeatRecord
<1>4. /\ beat' \in [Calls -> BeatRecord] /\ beat'[i].pc = "beating"
      /\ \A j \in Calls \ {i} : beat'[j] = beat[j]
  BY <1>1, <1>2, <1>3, BeatUpdate, ZenonT(60)
<1>5. /\ request' \in [Calls -> {"none", "POST", "PUT", "DELETE"}] /\ deletes' \in [Calls -> Nat]
      /\ request'[i] = "PUT" /\ deletes'[i] = deletes[i]
      /\ \A j \in Calls \ {i} : request'[j] = request[j] /\ deletes'[j] = deletes[j]
  BY <1>1, <1>2, SendUpdate, Zenon
<1>6. RegTypes' /\ \A j \in Calls \ {i} : Same(j)
  BY <1>1, <1>2, <1>4, <1>5, Zenon DEF RegTypes, Same
<1>7. SessionAt(i)'
  BY <1>1, <1>2, <1>4, <1>5, Zenon DEF SessionAt, SessionOK, Pending
<1>8. R!Address(i)' = R!Address(i) /\ Owned(i)' = Owned(i) /\ Reported(i)' = Reported(i)
  BY <1>1, <1>4, Zenon DEF R!Address, Owned, Reported
<1>9. Yields(i) /\ Answers(i)
  BY <1>1, <1>4, <1>8, Zenon DEF Yields, Answers
<1> QED
  BY <1>6, <1>7, <1>9, LocalStep, Zenon

\* The heartbeat ended: what it may have registered is owned by the session, or
\* the error ends the session.
LEMMA BeatenKeeps ==
  ASSUME R!RegistrarConstants, RegInv, NEW i \in Calls, R!Beaten(i)
  PROVE  RegInv'
<1>1. /\ beat[i].pc = "beating"
      /\ UNCHANGED <<registrar, register, channel, once, lease, closer, caller, deletes>>
  BY Zenon DEF R!Beaten
<1>2. PICK reply \in Replies :
        /\ R!Ends(i, reply)
        /\ beat' = [beat EXCEPT ![i].err = R!executeResult(reply),
                                ![i].pc = IF R!executeResult(reply) = R!nil THEN "select" ELSE "failed"]
  BY Zenon DEF R!Beaten
<1> DEFINE err == R!executeResult(reply)
           pc == IF err = {} THEN "select" ELSE "failed"
<1>3. err \in Results /\ (err = {} \/ Alarming(err))
  BY Outcome, Zenon
<1>4. /\ pc \in BeatSteps
      /\ \/ pc = "select" /\ err = {}
         \/ pc = "failed" /\ Alarming(err)
  <2> HIDE DEF err
  <2> QED
    BY <1>3, Zenon DEF BeatSteps
<1>5. beat' = [beat EXCEPT ![i].err = err, ![i].pc = pc]
  BY <1>2, Zenon DEF R!nil
<1>6. /\ RegTypes /\ SessionAt(i)
      /\ register[i].pc = "returned" /\ register[i].result = {} /\ deletes[i] = 0
      /\ once[i].pc # "deleting" /\ lease[i] # {"closed"} /\ channel[i].stopped # TRUE
      /\ i \in registrar.sessions \/ Alarming(lease[i])
      /\ request[i] = "PUT"
  BY <1>1, Beating, Zenon
<1>7. /\ request' = [request EXCEPT ![i] = "none"]
      /\ server' = [registered |-> server'.registered, late |-> server'.late]
      /\ server'.registered \subseteq server.registered \cup {R!Address(i)}
      /\ server'.late \subseteq server.late \cup {<<request[i], R!Address(i)>>}
      /\ err = {} => server'.late = server.late
  BY <1>2, <1>6, EndsEffect, Zenon
<1> HIDE DEF err, pc
<1>8. /\ beat' \in [Calls -> BeatRecord] /\ beat'[i].pc = pc /\ beat'[i].err = err
      /\ \A j \in Calls \ {i} : beat'[j] = beat[j]
  BY <1>3, <1>4, <1>5, <1>6, BeatUpdate, Zenon
<1>9. /\ request' \in [Calls -> {"none", "POST", "PUT", "DELETE"}] /\ request'[i] = "none"
      /\ \A j \in Calls \ {i} : request'[j] = request[j]
  BY <1>6, <1>7, Zenon DEF RegTypes
<1>10. RegTypes' /\ \A j \in Calls \ {i} : Same(j)
  BY <1>1, <1>6, <1>7, <1>8, <1>9, Zenon DEF RegTypes, Same
<1>11. SessionAt(i)'
  BY <1>1, <1>4, <1>6, <1>8, <1>9, Zenon DEF SessionAt, SessionOK, Pending
<1>12. /\ R!Address(i)' = R!Address(i) /\ Owned(i)' = Owned(i)
       /\ Owned(i)' \/ Reported(i)'
       /\ Reported(i) => Reported(i)'
       /\ pc = "failed" => Reported(i)'
  BY <1>1, <1>6, <1>8, Zenon DEF R!Address, Owned, Reported, Alarming
<1>13. Yields(i)
  BY <1>1, <1>4, <1>8, Zenon DEF Yields
<1>14. ASSUME NEW x \in server'.late, x \notin server.late PROVE x[2] = R!Address(i) /\ Reported(i)'
  <2>1. x = <<request[i], R!Address(i)>> /\ err # {}
    BY <1>7, <1>14, Zenon
  <2> QED
    BY <1>4, <1>12, <2>1, Zenon
<1>15. Answers(i)
  BY <1>7, <1>12, <1>14, Zenon DEF Answers
<1> QED
  BY <1>10, <1>11, <1>13, <1>15, LocalStep, Zenon

\* The goroutine of the heartbeat ends: with the error of the heartbeat, which
\* becomes the outcome of the lease, or because it was told to stop.
LEMMA RunEndsKeeps ==
  ASSUME RegInv, NEW i \in Calls, R!BeatFailed(i) \/ R!RunStops(i)
  PROVE  RegInv'
<1>1. /\ beat[i].pc \in {"select", "failed"}
      /\ beat' = [beat EXCEPT ![i].pc = "done"]
      /\ UNCHANGED <<registrar, register, request, once, closer, caller, deletes, server>>
  BY Zenon DEF R!BeatFailed, R!RunStops
<1>2. /\ RegTypes /\ SessionAt(i)
      /\ register[i].pc = "returned" /\ register[i].result = {} /\ deletes[i] = 0
      /\ once[i].pc # "deleting" /\ lease[i] # {"closed"}
      /\ i \in registrar.sessions \/ Alarming(lease[i])
      /\ request[i] = "none"
  BY <1>1, Beating, Zenon
<1>3. "done" \in BeatSteps /\ beat[i].err \in Results
  BY <1>2, Zenon DEF BeatSteps, RegTypes, BeatRecord
<1>4. /\ beat' \in [Calls -> BeatRecord] /\ beat'[i].pc = "done"
      /\ \A j \in Calls \ {i} : beat'[j] = beat[j]
  BY <1>1, <1>2, <1>3, BeatUpdate, Zenon
<1>5. /\ channel' \in [Calls -> ChannelRecord]
      /\ \A j \in Calls \ {i} : channel'[j] = channel[j]
  <2>1. channel \in [Calls -> ChannelRecord] /\ TRUE \in Flags
    BY <1>2, Zenon DEF RegTypes, Flags
  <2>2. CASE R!BeatFailed(i)
    <3> DEFINE n == [stop |-> TRUE, stopped |-> TRUE]
    <3>1. n \in ChannelRecord /\ channel' = [channel EXCEPT ![i] = n]
      BY <2>1, <2>2, Zenon DEF ChannelRecord, R!BeatFailed
    <3> HIDE DEF n
    <3> QED
      BY <2>1, <3>1, Zenon
  <2>3. CASE R!RunStops(i)
    <3> DEFINE n == [channel[i] EXCEPT !.stopped = TRUE]
    <3>1. n \in ChannelRecord
      BY <2>1, Zenon DEF ChannelRecord
    <3>2. channel' = [channel EXCEPT ![i] = n]
      BY <2>3, Zenon DEF R!RunStops
    <3> HIDE DEF n
    <3> QED
      BY <2>1, <3>1, <3>2, Zenon
  <2> QED
    BY <2>2, <2>3, Zenon
<1>6. /\ lease' \in [Calls -> Results] /\ \A j \in Calls \ {i} : lease'[j] = lease[j]
      /\ lease'[i] # {"closed"} /\ (lease[i] # {} => lease'[i] = lease[i])
      /\ beat[i].pc = "failed" => lease'[i] # {}
  <2>1. lease \in [Calls -> Results]
    BY <1>2, Zenon DEF RegTypes
  <2>2. CASE R!BeatFailed(i)
    <3> DEFINE n == R!Terminate(lease[i], beat[i].err)
    <3>1. lease' = [lease EXCEPT ![i] = n] /\ beat[i].pc = "failed"
      BY <2>2, Zenon DEF R!BeatFailed
    <3>2. Alarming(beat[i].err)
      BY <1>2, <3>1, Zenon DEF SessionAt, SessionOK
    <3>3. n \in Results /\ n # {"closed"} /\ n # {} /\ (lease[i] # {} => n = lease[i])
      BY <1>2, <1>3, <2>1, <3>2, Zenon DEF R!Terminate, R!nil, Alarming
    <3> HIDE DEF n
    <3> QED
      BY <2>1, <3>1, <3>3, Zenon
  <2>3. CASE R!RunStops(i)
    BY <1>2, <2>1, <2>3, Zenon DEF R!RunStops
  <2> QED
    BY <2>2, <2>3, Zenon
<1>7. RegTypes' /\ \A j \in Calls \ {i} : Same(j)
  BY <1>1, <1>2, <1>4, <1>5, <1>6, Zenon DEF RegTypes, Same
<1>8. SessionAt(i)'
  BY <1>1, <1>2, <1>4, <1>6, Zenon DEF SessionAt, SessionOK, Pending
<1>9. R!Address(i)' = R!Address(i) /\ Owned(i)' = Owned(i) /\ (Reported(i) => Reported(i)')
  BY <1>1, <1>2, <1>6, Zenon DEF R!Address, Owned, Reported, Alarming
<1>10. Yields(i) /\ Answers(i)
  BY <1>1, <1>4, <1>9, Zenon DEF Yields, Answers
<1> QED
  BY <1>7, <1>8, <1>10, LocalStep, Zenon

-----------------------------------------------------------------------------
(* Self-registration: the close of a session *)

\* The first close of a session closes the stop channel.
LEMMA CloseUpdate ==
  ASSUME RegTypes, NEW i \in Calls, R!Close(i)
  PROVE  /\ once' \in [Calls -> OnceRecord] /\ once'[i].err = once[i].err
         /\ once'[i].pc = IF once[i].pc = "no" THEN "waiting" ELSE once[i].pc
         /\ channel' \in [Calls -> ChannelRecord] /\ channel'[i].stopped = channel[i].stopped
         /\ \A j \in Calls \ {i} : once'[j] = once[j] /\ channel'[j] = channel[j]
<1> DEFINE pc == IF once[i].pc = "no" THEN "waiting" ELSE once[i].pc
<1>1. pc \in OnceSteps /\ once[i].err \in Results
  BY Zenon DEF RegTypes, OnceRecord, OnceSteps
<1>2. once' = [once EXCEPT ![i].pc = pc]
  BY Zenon DEF R!Close
<1> HIDE DEF pc
<1>3. /\ once' \in [Calls -> OnceRecord] /\ once'[i].pc = pc /\ once'[i].err = once[i].err
      /\ \A j \in Calls \ {i} : once'[j] = once[j]
  BY <1>1, <1>2, OnceUpdate, ZenonT(60)
<1>4. /\ channel' \in [Calls -> ChannelRecord] /\ channel'[i].stopped = channel[i].stopped
      /\ \A j \in Calls \ {i} : channel'[j] = channel[j]
  <2> DEFINE n == [channel[i] EXCEPT !.stop = TRUE]
  <2>1. channel \in [Calls -> ChannelRecord] /\ TRUE \in Flags
    BY Zenon DEF RegTypes, Flags
  <2>2. n \in ChannelRecord /\ n.stopped = channel[i].stopped
    BY <2>1, Zenon DEF ChannelRecord
  <2>3. channel' = [channel EXCEPT ![i] = n] \/ channel' = channel
    BY Zenon DEF R!Close
  <2> HIDE DEF n
  <2> QED
    BY <2>1, <2>2, <2>3, Zenon
<1> QED
  BY <1>3, <1>4, Zenon DEF pc

\* A session that is held or has a heartbeat goes on as it was, now to be closed.
LEMMA CloseBegins ==
  ASSUME RegInv, NEW i \in Calls, R!Close(i), beat[i].pc # "none",
         UNCHANGED <<registrar, register, beat, request, lease, deletes, server>>,
         closer' \in CloserRecord, closer' = closer \/ CloserOK'
  PROVE  RegInv'
<1>1. RegTypes /\ SessionAt(i)
  BY Zenon DEF RegInv
<1>2. /\ once' \in [Calls -> OnceRecord] /\ once'[i].err = once[i].err
      /\ once'[i].pc = IF once[i].pc = "no" THEN "waiting" ELSE once[i].pc
      /\ channel' \in [Calls -> ChannelRecord] /\ channel'[i].stopped = channel[i].stopped
      /\ \A j \in Calls \ {i} : once'[j] = once[j] /\ channel'[j] = channel[j]
  BY <1>1, CloseUpdate, Zenon
<1>3. RegTypes' /\ \A j \in Calls \ {i} : Same(j)
  BY <1>1, <1>2, Zenon DEF RegTypes, Same
<1>4. SessionAt(i)'
  <2>1. deletes[i] # 0 => once[i].pc # "no"
    BY <1>1, Zenon DEF SessionAt, SessionOK
  <2> QED
    BY <1>1, <1>2, <2>1, Zenon DEF SessionAt, SessionOK, Pending
<1>5. R!Address(i)' = R!Address(i) /\ Owned(i)' = Owned(i) /\ Reported(i)' = Reported(i)
  BY Zenon DEF R!Address, Owned, Reported
<1>6. Answers(i) /\ (Yields(i) \/ CloserOK')
  BY <1>5, Zenon DEF Yields, Answers
<1> QED
  BY <1>3, <1>4, <1>6, LocalStep, Zenon

\* Lease.Close begins.
LEMMA LeaseCloseKeeps ==
  ASSUME RegInv, NEW i \in Calls, R!LeaseClose(i)
  PROVE  RegInv'
<1>1. /\ register[i].pc = "returned" /\ register[i].result = {} /\ R!Close(i)
      /\ UNCHANGED <<registrar, register, beat, request, lease, closer, deletes, server>>
  BY Zenon DEF R!LeaseClose, R!nil
<1>2. beat[i].pc # "none" /\ closer \in CloserRecord
  BY <1>1, Zenon DEF RegInv, RegTypes, SessionAt, SessionOK
<1> QED
  BY <1>1, <1>2, CloseBegins, Zenon

\* The heartbeat has stopped and the DELETE is sent.
LEMMA WithdrawKeeps ==
  ASSUME RegInv, NEW i \in Calls, R!Withdraw(i)
  PROVE  RegInv'
<1>1. /\ RegTypes /\ SessionAt(i)
      /\ once[i].pc = "waiting" /\ channel[i].stopped /\ R!Send(i, "DELETE")
      /\ once' = [once EXCEPT ![i].pc = "deleting"]
      /\ UNCHANGED <<registrar, register, beat, channel, lease, closer, caller, server>>
  BY Zenon DEF RegInv, R!Withdraw
<1>2. beat[i].pc = "done" /\ deletes[i] = 0
  <2>1. channel[i].stopped \in BOOLEAN
    BY <1>1, Zenon DEF RegTypes, ChannelRecord, Flags
  <2>2. channel[i].stopped = TRUE
    BY <1>1, <2>1, Zenon
  <2> QED
    BY <1>1, <2>2, Zenon DEF SessionAt, SessionOK
<1>3. "deleting" \in OnceSteps /\ once[i].err \in Results
  BY <1>1, Zenon DEF OnceSteps, RegTypes, OnceRecord
<1>4. /\ once' \in [Calls -> OnceRecord] /\ once'[i].pc = "deleting"
      /\ \A j \in Calls \ {i} : once'[j] = once[j]
  BY <1>1, <1>3, OnceUpdate, Zenon
<1>5. /\ request' \in [Calls -> {"none", "POST", "PUT", "DELETE"}] /\ deletes' \in [Calls -> Nat]
      /\ request'[i] = "DELETE" /\ deletes'[i] = deletes[i] + 1
      /\ \A j \in Calls \ {i} : request'[j] = request[j] /\ deletes'[j] = deletes[j]
  BY <1>1, SendUpdate, Zenon
<1>6. RegTypes' /\ \A j \in Calls \ {i} : Same(j)
  BY <1>1, <1>4, <1>5, Zenon DEF RegTypes, Same
<1>7. SessionAt(i)'
  <2>1. deletes'[i] = 1
    BY <1>2, <1>5
  <2> QED
    BY <1>1, <1>2, <1>4, <1>5, <2>1, Zenon DEF SessionAt, SessionOK, Pending
<1>8. R!Address(i)' = R!Address(i) /\ Owned(i)' = Owned(i) /\ Reported(i)' = Reported(i)
  BY <1>1, Zenon DEF R!Address, Owned, Reported
<1>9. Yields(i) /\ Answers(i)
  BY <1>1, <1>8, Zenon DEF Yields, Answers
<1> QED
  BY <1>6, <1>7, <1>9, LocalStep, Zenon

\* What the end of a close writes.
LEMMA EndedUpdate ==
  ASSUME RegTypes, NEW i \in Calls, NEW err \in Results, R!Ended(i, err)
  PROVE  /\ once' \in [Calls -> OnceRecord] /\ once'[i].pc = "done" /\ once'[i].err = err
         /\ \A j \in Calls \ {i} : once'[j] = once[j] /\ lease'[j] = lease[j]
         /\ lease' \in [Calls -> Results]
         /\ lease'[i] = IF lease[i] # {} THEN lease[i] ELSE IF err = {} THEN {"closed"} ELSE err
         /\ registrar' \in RegistrarRecord /\ registrar'.closed = registrar.closed
         /\ registrar'.sessions = registrar.sessions \ {i}
<1>1. "done" \in OnceSteps
  BY Zenon DEF OnceSteps
<1>2. once' = [once EXCEPT ![i] = [pc |-> "done", err |-> err]]
  BY Zenon DEF R!Ended
<1>3. /\ once' \in [Calls -> OnceRecord] /\ once'[i].pc = "done" /\ once'[i].err = err
      /\ \A j \in Calls \ {i} : once'[j] = once[j]
  BY <1>1, <1>2, OnceUpdate, Zenon
<1> DEFINE l == IF lease[i] # {} THEN lease[i] ELSE IF err = {} THEN {"closed"} ELSE err
<1>4. lease \in [Calls -> Results] /\ l \in Results /\ lease' = [lease EXCEPT ![i] = l]
  BY Zenon DEF RegTypes, R!Ended, R!Terminate, R!nil, Results, Failures
<1> HIDE DEF l
<1>5. lease' \in [Calls -> Results] /\ lease'[i] = l /\ \A j \in Calls \ {i} : lease'[j] = lease[j]
  BY <1>4, Zenon
<1>6. /\ registrar' \in RegistrarRecord /\ registrar'.closed = registrar.closed
      /\ registrar'.sessions = registrar.sessions \ {i}
  <2>1. registrar.sessions \ {i} \in SUBSET Calls /\ TRUE \in Flags
    BY Zenon DEF RegTypes, RegistrarRecord, Flags
  <2>2. registrar' = [registrar EXCEPT !.sessions = registrar.sessions \ {i}]
    BY Zenon DEF R!Ended, RegTypes, RegistrarRecord
  <2> QED
    BY <2>1, <2>2, RegistrarUpdate, Zenon
<1> QED
  BY <1>3, <1>5, <1>6, Zenon DEF l

\* The close is given up before the heartbeat has stopped.
LEMMA GiveUpKeeps ==
  ASSUME RegInv, NEW i \in Calls, R!GiveUp(i)
  PROVE  RegInv'
<1>1. /\ RegTypes /\ SessionAt(i)
      /\ once[i].pc = "waiting" /\ R!Ended(i, {"canceled"})
      /\ UNCHANGED <<register, beat, channel, request, closer, caller, deletes, server>>
  BY Zenon DEF RegInv, R!GiveUp
<1>2. {"canceled"} \in Results
  BY Zenon DEF Results, Failures
<1>3. /\ once' \in [Calls -> OnceRecord] /\ once'[i].pc = "done" /\ once'[i].err = {"canceled"}
      /\ \A j \in Calls \ {i} : once'[j] = once[j] /\ lease'[j] = lease[j]
      /\ lease' \in [Calls -> Results]
      /\ lease'[i] = IF lease[i] # {} THEN lease[i] ELSE {"canceled"}
      /\ registrar' \in RegistrarRecord /\ registrar'.closed = registrar.closed
      /\ registrar'.sessions = registrar.sessions \ {i}
  BY <1>1, <1>2, EndedUpdate, Zenon
<1>4. Alarming(lease'[i]) /\ lease'[i] # {} /\ lease'[i] # {"closed"}
  BY <1>1, <1>3, Zenon DEF SessionAt, SessionOK, Alarming
<1>5. RegTypes' /\ \A j \in Calls \ {i} : Same(j)
  BY <1>1, <1>3, Zenon DEF RegTypes, Same
<1>6. SessionAt(i)'
  BY <1>1, <1>3, <1>4, Zenon DEF SessionAt, SessionOK, Pending
<1>7. R!Address(i)' = R!Address(i) /\ Reported(i)'
  BY <1>1, <1>4, Zenon DEF R!Address, Reported
<1>8. Yields(i) /\ Answers(i)
  BY <1>1, <1>3, <1>7, Zenon DEF Yields, Answers
<1> QED
  BY <1>5, <1>6, <1>8, LocalStep, Zenon

\* The DELETE ended: the address is gone, or the lease has the error.
LEMMA WithdrawnKeeps ==
  ASSUME R!RegistrarConstants, RegInv, NEW i \in Calls, R!Withdrawn(i)
  PROVE  RegInv'
<1>1. /\ RegTypes /\ SessionAt(i)
      /\ once[i].pc = "deleting"
      /\ UNCHANGED <<register, beat, channel, closer, caller, deletes>>
  BY Zenon DEF RegInv, R!Withdrawn
<1>2. PICK reply \in Replies : R!Ends(i, reply) /\ R!Ended(i, R!executeResult(reply))
  BY Zenon DEF R!Withdrawn
<1> DEFINE err == R!executeResult(reply)
<1>3. err \in Results /\ (err = {} \/ Alarming(err))
  BY Outcome, Zenon
<1>4. beat[i].pc = "done" /\ register[i].pc = "returned" /\ register[i].result = {} /\ request[i] = "DELETE"
  BY <1>1, Zenon DEF SessionAt, SessionOK, Pending
<1>5. /\ request' = [request EXCEPT ![i] = "none"]
      /\ server' = [registered |-> server'.registered, late |-> server'.late]
      /\ server'.registered \subseteq server.registered
      /\ server'.late \subseteq server.late \cup {<<"DELETE", R!Address(i)>>}
      /\ err = {} => R!Address(i) \notin server'.registered
  BY <1>1, <1>2, <1>4, EndsEffect, Zenon
<1> HIDE DEF err
<1>6. /\ once' \in [Calls -> OnceRecord] /\ once'[i].pc = "done" /\ once'[i].err = err
      /\ \A j \in Calls \ {i} : once'[j] = once[j] /\ lease'[j] = lease[j]
      /\ lease' \in [Calls -> Results]
      /\ lease'[i] = IF lease[i] # {} THEN lease[i] ELSE IF err = {} THEN {"closed"} ELSE err
      /\ registrar' \in RegistrarRecord /\ registrar'.closed = registrar.closed
      /\ registrar'.sessions = registrar.sessions \ {i}
  BY <1>1, <1>2, <1>3, EndedUpdate, Zenon DEF err
<1>7. lease[i] # {"closed"}
  BY <1>1, <1>4, Zenon DEF SessionAt, SessionOK
<1>8. lease'[i] # {} /\ (err # {} => Alarming(lease'[i])) /\ (Alarming(lease[i]) => lease'[i] = lease[i])
  BY <1>3, <1>6, <1>7, Zenon DEF Alarming
<1>9. /\ request' \in [Calls -> {"none", "POST", "PUT", "DELETE"}] /\ request'[i] = "none"
      /\ \A j \in Calls \ {i} : request'[j] = request[j]
  BY <1>1, <1>5, Zenon DEF RegTypes
<1>10. RegTypes' /\ \A j \in Calls \ {i} : Same(j)
  BY <1>1, <1>5, <1>6, <1>9, Zenon DEF RegTypes, Same
<1>11. SessionAt(i)'
  BY <1>1, <1>4, <1>6, <1>8, <1>9, Zenon DEF SessionAt, SessionOK, Pending
<1>12. /\ R!Address(i)' = R!Address(i)
       /\ Reported(i) => Reported(i)'
       /\ err # {} => Reported(i)'
  BY <1>1, <1>8, Zenon DEF R!Address, Reported
<1>13. \A x \in server'.late : x \in server.late \/ x[1] = "DELETE"
  BY <1>5
<1>14. Answers(i)
  BY <1>5, <1>12, <1>13, Zenon DEF Answers
<1>15. Yields(i)
  BY <1>1, <1>6, Zenon DEF Yields
<1> QED
  BY <1>10, <1>11, <1>14, <1>15, LocalStep, Zenon

-----------------------------------------------------------------------------
(* Self-registration: Registrar.Close, and requests that arrive late *)

\* A step that changes no session.
LEMMA StillStep ==
  ASSUME RegInv, UNCHANGED <<register, beat, channel, request, once, lease, deletes, server>>,
         registrar' \in RegistrarRecord, registrar'.sessions = registrar.sessions,
         closer' \in CloserRecord, CloserOK'
  PROVE  RegInv'
<1>1. RegTypes'
  BY Zenon DEF RegInv, RegTypes
<1>2. \A i \in Calls : SessionAt(i)'
  BY Zenon DEF RegInv, SessionAt
<1>3. ASSUME NEW i \in Calls
      PROVE  R!Address(i)' = R!Address(i) /\ Owned(i)' = Owned(i) /\ Reported(i)' = Reported(i)
  BY Zenon DEF R!Address, Owned, Reported
<1>4. OrphansOK'
  BY <1>3, Zenon DEF RegInv, OrphansOK
<1> QED
  BY <1>1, <1>2, <1>4, Zenon DEF RegInv

\* The steps of Registrar.Close.
LEMMA CloserKeeps ==
  ASSUME RegInv, R!RegistrarClose \/ R!RegistrarCloseAgain \/ R!CloserStep
  PROVE  RegInv'
<1>1. RegTypes /\ CloserOK /\ closer \in CloserRecord /\ registrar \in RegistrarRecord
  BY Zenon DEF RegInv, RegTypes
<1>2. ASSUME NEW pc \in {"idle", "wait", "next", "closing", "returned"}
      PROVE  LET n == [closer EXCEPT !.pc = pc]
             IN  n \in CloserRecord /\ n.pc = pc /\ n.todo = closer.todo
  BY <1>1, Zenon DEF CloserRecord
<1>3. CASE R!RegistrarClose
  <2> DEFINE n == [registrar EXCEPT !.closed = TRUE]
             k == [closer EXCEPT !.pc = "wait", !.todo = registrar.sessions]
  <2>1. /\ registrar' = n /\ closer' = k
        /\ UNCHANGED <<register, beat, channel, request, once, lease, deletes, server>>
    BY <1>3, Zenon DEF R!RegistrarClose
  <2>2. TRUE \in Flags
    BY Zenon DEF Flags
  <2>3. n \in RegistrarRecord /\ n.closed = TRUE /\ n.sessions = registrar.sessions
    BY <1>1, <2>2, Zenon DEF RegistrarRecord
  <2>4. registrar.sessions \in SUBSET Calls
    BY <1>1, Zenon DEF RegistrarRecord
  <2>5. k \in CloserRecord /\ k.pc = "wait" /\ k.todo = registrar.sessions
    BY <1>1, <2>4, Zenon DEF CloserRecord
  <2>6. \A i \in registrar.sessions : beat[i].pc # "none"
    BY <2>4, Zenon DEF RegInv, SessionAt, SessionOK
  <2> HIDE DEF n, k
  <2>7. CloserOK'
    BY <2>1, <2>3, <2>5, <2>6, Zenon DEF CloserOK
  <2> QED
    BY <2>1, <2>3, <2>5, <2>7, StillStep, Zenon
<1>4. CASE R!RegistrationsDone \/ R!RegistrarClosed
  <2>1. /\ UNCHANGED <<registrar, register, beat, channel, request, once, lease, deletes, server>>
        /\ \/ /\ closer' = [closer EXCEPT !.pc = "next"] /\ closer.pc = "wait"
              /\ \A i \in Calls : register[i].pc \in {"idle", "returned"}
           \/ closer' = [closer EXCEPT !.pc = "returned"] /\ closer.pc = "next" /\ closer.todo = {}
    BY <1>4, Zenon DEF R!RegistrationsDone, R!RegistrarClosed
  <2>2. /\ closer' \in CloserRecord /\ closer'.todo = closer.todo
        /\ \/ /\ closer'.pc = "next" /\ closer.pc = "wait"
              /\ \A i \in Calls : register[i].pc \in {"idle", "returned"}
           \/ closer'.pc = "returned" /\ closer.pc = "next" /\ closer.todo = {}
    BY <1>2, <2>1, Zenon
  <2>3. CloserOK'
    BY <1>1, <2>1, <2>2, Zenon DEF CloserOK
  <2> QED
    BY <1>1, <2>1, <2>2, <2>3, StillStep, Zenon
<1>5. ASSUME NEW i \in Calls, R!CloseNext(i)
      PROVE  RegInv'
  <2>1. /\ closer.pc = "next" /\ i \in closer.todo /\ R!Close(i)
        /\ closer' = [closer EXCEPT !.pc = "closing"]
        /\ UNCHANGED <<registrar, register, beat, request, lease, deletes, server>>
    BY <1>5, Zenon DEF R!CloseNext
  <2>2. closer' \in CloserRecord /\ closer'.pc = "closing" /\ closer'.todo = closer.todo
    BY <1>2, <2>1, Zenon
  <2>3. CloserOK' /\ beat[i].pc # "none"
    BY <1>1, <2>1, <2>2, Zenon DEF CloserOK
  <2> QED
    BY <2>1, <2>2, <2>3, CloseBegins, Zenon
<1>6. ASSUME NEW i \in Calls, R!ClosedNext(i)
      PROVE  RegInv'
  <2> DEFINE k == [closer EXCEPT !.pc = "next", !.todo = @ \ {i}, !.result = @ \cup once[i].err]
  <2>1. /\ closer.pc = "closing" /\ once[i].pc = "done" /\ closer' = k
        /\ UNCHANGED <<registrar, register, beat, channel, request, once, lease, deletes, server>>
    BY <1>6, Zenon DEF R!ClosedNext
  <2>2. closer.todo \ {i} \in SUBSET Calls /\ closer.result \cup once[i].err \in Results
    BY <1>1, Zenon DEF RegTypes, CloserRecord, OnceRecord, Results
  <2>3. k \in CloserRecord /\ k.pc = "next" /\ k.todo = closer.todo \ {i}
    BY <1>1, <2>2, Zenon DEF CloserRecord
  <2>4. i \notin registrar.sessions
    BY <2>1, Zenon DEF RegInv, SessionAt, SessionOK
  <2> HIDE DEF k
  <2>5. CloserOK'
    BY <1>1, <2>1, <2>3, <2>4, Zenon DEF CloserOK
  <2> QED
    BY <1>1, <2>1, <2>3, <2>5, StillStep, Zenon
<1>7. CASE R!RegistrarCloseAgain
  <2>1. /\ UNCHANGED <<registrar, register, beat, channel, request, once, lease, deletes, server>>
        /\ closer' = [closer EXCEPT !.again = "returned"]
    BY <1>7, Zenon DEF R!RegistrarCloseAgain
  <2>2. closer' \in CloserRecord /\ closer'.pc = closer.pc /\ closer'.todo = closer.todo
    BY <1>1, <2>1, Zenon DEF CloserRecord
  <2>3. CloserOK'
    BY <1>1, <2>1, <2>2, Zenon DEF CloserOK
  <2> QED
    BY <1>1, <2>1, <2>2, <2>3, StillStep, Zenon
<1> QED
  BY <1>3, <1>4, <1>5, <1>6, <1>7, Zenon DEF R!CloserStep

\* A request that the client gave up on arrives.
LEMMA LateArrivalKeeps ==
  ASSUME RegInv, R!LateArrival
  PROVE  RegInv'
<1>1. PICK late \in server.late :
        server' = [registered |-> R!Applied(late[1], late[2], server.registered), late |-> server.late \ {late}]
  BY Zenon DEF R!LateArrival
<1>2. UNCHANGED <<registrar, register, beat, channel, request, once, lease, closer, caller, deletes>>
  BY Zenon DEF R!LateArrival
<1>3. RegTypes' /\ CloserOK' /\ \A i \in Calls : SessionAt(i)'
  BY <1>1, <1>2, Zenon DEF RegInv, RegTypes, CloserOK, SessionAt
<1>4. ASSUME NEW i \in Calls
      PROVE  R!Address(i)' = R!Address(i) /\ Owned(i)' = Owned(i) /\ Reported(i)' = Reported(i)
  BY <1>2, Zenon DEF R!Address, Owned, Reported
<1>5. /\ server'.registered \subseteq server.registered \cup (IF late[1] = "DELETE" THEN {} ELSE {late[2]})
      /\ server'.late \subseteq server.late
  BY <1>1, Zenon DEF R!Applied
<1>6. late[1] # "DELETE" => \E i \in Calls : R!Address(i) = late[2] /\ Reported(i)
  BY Zenon DEF RegInv, OrphansOK
<1>7. \A a \in server'.registered : \E i \in Calls : R!Address(i) = a /\ (Owned(i) \/ Reported(i))
  BY <1>5, <1>6, Zenon DEF RegInv, OrphansOK
<1>8. OrphansOK'
  BY <1>4, <1>5, <1>7, Zenon DEF RegInv, OrphansOK
<1> QED
  BY <1>3, <1>8, Zenon DEF RegInv

-----------------------------------------------------------------------------
(* Self-registration: the theorems *)

\* Nothing is registered at first.
LEMMA RegInvInit == R!RegInit => RegInv
<1> SUFFICES ASSUME R!RegInit PROVE RegInv
  BY Zenon
<1> USE DEF R!RegInit, R!nil
<1>1. /\ registrar \in RegistrarRecord /\ registrar.closed = FALSE /\ registrar.sessions = {}
      /\ closer \in CloserRecord /\ closer.pc = "idle" /\ closer.todo = {}
  BY Zenon DEF RegistrarRecord, CloserRecord, Flags, Results
<1>2. /\ register \in [Calls -> CallRecord]
      /\ \A i \in Calls : register[i].pc = "idle" /\ register[i].result = {}
  BY Zenon DEF CallRecord, CallSteps, Results
<1>3. beat \in [Calls -> BeatRecord] /\ \A i \in Calls : beat[i].pc = "none"
  BY Zenon DEF BeatRecord, BeatSteps, Results
<1>4. channel \in [Calls -> ChannelRecord] /\ \A i \in Calls : channel[i].stopped # TRUE
  BY Zenon DEF ChannelRecord, Flags
<1>5. once \in [Calls -> OnceRecord] /\ \A i \in Calls : once[i].pc = "no"
  BY Zenon DEF OnceRecord, OnceSteps, Results
<1>6. /\ request \in [Calls -> {"none", "POST", "PUT", "DELETE"}] /\ \A i \in Calls : request[i] = "none"
      /\ lease \in [Calls -> Results] /\ \A i \in Calls : lease[i] = {}
      /\ deletes \in [Calls -> Nat] /\ \A i \in Calls : deletes[i] = 0
  BY Zenon DEF Results
<1>7. server.registered = {} /\ server.late = {}
  BY Zenon DEF R!RegInit
<1>8. RegTypes
  BY <1>1, <1>2, <1>3, <1>4, <1>5, <1>6, Zenon DEF RegTypes
<1>9. \A i \in Calls : SessionAt(i)
  BY <1>1, <1>2, <1>3, <1>4, <1>5, <1>6, ZenonT(60) DEF SessionAt, SessionOK, Pending
<1>10. CloserOK /\ OrphansOK
  BY <1>1, <1>7, Zenon DEF CloserOK, OrphansOK
<1> QED
  BY <1>8, <1>9, <1>10, Zenon DEF RegInv

\* Every step keeps the invariant.
LEMMA RegInvStep ==
  ASSUME R!RegistrarConstants, RegInv, [R!RegNext]_R!regVars
  PROVE  RegInv'
<1>1. CASE UNCHANGED R!regVars
  <2>1. UNCHANGED <<registrar, register, beat, channel, request, once, lease, closer, deletes, server>>
    BY <1>1, Zenon DEF R!regVars
  <2>2. closer' \in CloserRecord /\ registrar' \in RegistrarRecord /\ CloserOK'
    BY <2>1, Zenon DEF RegInv, RegTypes, CloserOK
  <2> QED
    BY <2>1, <2>2, StillStep, Zenon
<1>2. ASSUME NEW i \in Calls, R!LeaseClosed(i)
      PROVE  RegInv'
  <2>1. UNCHANGED <<registrar, register, beat, channel, request, once, lease, closer, deletes, server>>
    BY <1>2, Zenon DEF R!LeaseClosed
  <2>2. closer' \in CloserRecord /\ registrar' \in RegistrarRecord /\ CloserOK'
    BY <2>1, Zenon DEF RegInv, RegTypes, CloserOK
  <2> QED
    BY <2>1, <2>2, StillStep, Zenon
<1>3. ASSUME NEW i \in Calls, NEW r \in Registrations, R!Register(i, r)
      PROVE  RegInv'
  BY <1>3, RegisterKeeps, Zenon
<1>4. ASSUME NEW i \in Calls, R!RegisterStep(i)
      PROVE  RegInv'
  BY <1>4, PostKeeps, PostedKeeps, PostFailedKeeps, AcceptKeeps, CleanUpKeeps, CleanedUpKeeps, Zenon
     DEF R!RegisterStep
<1>5. ASSUME NEW i \in Calls, R!Tick(i) \/ R!Beaten(i) \/ R!BeatFailed(i) \/ R!RunStops(i)
      PROVE  RegInv'
  BY <1>5, TickKeeps, BeatenKeeps, RunEndsKeeps, Zenon
<1>6. ASSUME NEW i \in Calls, R!CloseStep(i) \/ R!GiveUp(i) \/ R!LeaseClose(i)
      PROVE  RegInv'
  BY <1>6, WithdrawKeeps, WithdrawnKeeps, GiveUpKeeps, LeaseCloseKeeps, Zenon DEF R!CloseStep
<1> QED
  BY <1>1, <1>2, <1>3, <1>4, <1>5, <1>6, CloserKeeps, LateArrivalKeeps, Zenon DEF R!RegNext

\* The invariant of self-registration: every address that the server has, or may
\* still be told of, is owned by a call or a session that will withdraw it, or
\* is reported to a caller.
THEOREM RegistrarInvariant ==
  ASSUME R!RegistrarConstants PROVE R!RegSpec => []RegInv
<1>1. RegInv /\ [R!RegNext]_R!regVars => RegInv'
  BY RegInvStep, Zenon
<1> QED
  BY <1>1, RegInvInit, PTL DEF R!RegSpec

\* No orphan goes unreported: whatever requests are lost, applied without an
\* answer or delayed, once none is under way an address that is still registered
\* belongs to a session the registrar holds, or to a caller who was given an
\* error.
THEOREM OrphansAreReported ==
  ASSUME R!RegistrarConstants PROVE R!RegSpec => []R!NoSilentOrphan
<1>1. RegInv => R!NoSilentOrphan
  <2> SUFFICES ASSUME RegInv, \A i \in Calls : register[i].pc \in {"idle", "returned"},
                      NEW a \in server.registered
               PROVE  \E i \in Calls :
                        /\ register[i].pc = "returned" /\ R!Address(i) = a
                        /\ i \in registrar.sessions \/ register[i].result \notin {{}, {"closed"}}
                           \/ lease[i] \notin {{}, {"closed"}}
    BY Zenon DEF R!NoSilentOrphan, R!nil
  <2>1. PICK i \in Calls : R!Address(i) = a /\ (Owned(i) \/ Reported(i))
    BY Zenon DEF RegInv, OrphansOK
  <2>2. SessionAt(i)
    BY Zenon DEF RegInv
  <2>3. CASE Owned(i)
    BY <2>1, <2>2, <2>3, Zenon DEF Owned, SessionAt, SessionOK
  <2>4. CASE Reported(i)
    <3>1. beat[i].pc = "failed" => i \in registrar.sessions \/ Alarming(lease[i])
      BY Beating, Zenon
    <3> QED
      BY <2>1, <2>2, <2>4, <3>1, Zenon DEF Reported, Alarming, SessionAt, SessionOK
  <2> QED
    BY <2>1, <2>3, <2>4, Zenon
<1> QED
  BY <1>1, RegistrarInvariant, PTL

\* When Registrar.Close has returned, no Register is under way, no session is
\* left, and a heartbeat that still runs is one whose close was given up with an
\* error.
THEOREM RegistrarCloseIsComplete ==
  ASSUME R!RegistrarConstants PROVE R!RegSpec => []R!CloseIsComplete
<1>1. RegInv => R!CloseIsComplete
  <2> SUFFICES ASSUME RegInv, closer.pc = "returned"
               PROVE  /\ registrar.sessions = {}
                      /\ \A i \in Calls :
                           /\ register[i].pc \in {"idle", "returned"}
                           /\ beat[i].pc # "none" => lease[i] # {}
                           /\ beat[i].pc \in {"select", "beating", "failed"} => once[i].err = {"canceled"}
    BY Zenon DEF R!CloseIsComplete, R!nil
  <2>1. registrar.sessions = {} /\ \A i \in Calls : register[i].pc \in {"idle", "returned"}
    BY Zenon DEF RegInv, CloserOK
  <2> QED
    BY <2>1, Zenon DEF RegInv, SessionAt, SessionOK
<1> QED
  BY <1>1, RegistrarInvariant, PTL

\* A session counts its DELETEs.
LEMMA DeletesGrow ==
  ASSUME RegTypes, NEW i \in Calls, [R!RegNext]_R!regVars, deletes[i] # 0
  PROVE  deletes'[i] # 0
<1>1. deletes \in [Calls -> Nat]
  BY Zenon DEF RegTypes
<1>2. deletes' = deletes \/ \E j \in Calls, m \in {"POST", "PUT", "DELETE"} : R!Send(j, m)
  BY ZenonT(60) DEF R!RegNext, R!regVars, R!Register, R!RegisterStep, R!Post, R!Posted, R!PostFailed, R!Accept,
         R!CleanUp, R!CleanedUp, R!Tick, R!Beaten, R!BeatFailed, R!RunStops, R!CloseStep, R!Withdraw,
         R!Withdrawn, R!GiveUp, R!LeaseClose, R!LeaseClosed, R!RegistrarClose, R!RegistrarCloseAgain, R!CloserStep,
         R!RegistrationsDone, R!RegistrarClosed, R!CloseNext, R!ClosedNext, R!LateArrival
<1>3. ASSUME NEW j \in Calls, NEW m \in {"POST", "PUT", "DELETE"}, R!Send(j, m)
      PROVE  deletes'[i] # 0
  BY <1>1, <1>3 DEF R!Send
<1> QED
  BY <1>2, <1>3, Zenon

\* No withdrawn session speaks again: one that has sent its DELETE sends neither
\* a heartbeat nor another DELETE.
THEOREM QuietAfterWithdrawal ==
  ASSUME R!RegistrarConstants PROVE R!RegSpec => [][R!WithdrawnStaysQuiet]_R!regVars
<1>1. RegInv /\ RegInv' /\ [R!RegNext]_R!regVars => R!WithdrawnStaysQuiet
  <2> SUFFICES ASSUME RegInv, RegInv', [R!RegNext]_R!regVars, NEW i \in Calls, deletes[i] > 0
               PROVE  request'[i] # "PUT" /\ deletes'[i] = 1
    BY Zenon DEF R!WithdrawnStaysQuiet
  <2>1. RegTypes /\ deletes[i] # 0
    BY DEF RegInv
  <2>2. deletes'[i] # 0
    BY <2>1, DeletesGrow, Zenon
  <2>3. SessionAt(i)'
    BY Zenon DEF RegInv
  <2> QED
    BY <2>2, <2>3, Zenon DEF SessionAt, SessionOK, Pending
<1> QED
  BY <1>1, RegistrarInvariant, PTL DEF R!RegSpec
=============================================================================
