--------------------------- MODULE InstanceWatch ----------------------------
(***************************************************************************)
(* One instance watch with its provider and the goroutines that call Next. *)
(* Next takes two kinds of steps: its critical sections and the select in  *)
(* which it waits. Everything else may happen in between.                  *)
(***************************************************************************)
EXTENDS WatchQueue

CONSTANTS Callers,      \* goroutines that call Next
          MaxChanges,   \* bound: changes the provider has
          MaxCancels    \* bound: contexts that are cancelled

ASSUME CallersAssumption == MaxChanges \in Nat /\ MaxCancels \in Nat

VARIABLES watch,
          call,         \* the Next call of each caller
          sent,         \* changes for which Publish returned nil
          got,          \* changes Next returned, in order
          cancels

watchVars == <<watch, call, sent, got, cancels>>

Kinds == {"instances_changed", "state_changed", "target_deleted"}

WatchOutcomes == {"closed", "stream_eof", "delivery_overflow"}

Change == [order : Nat, kind : Kinds]

NoCall == [pc |-> "idle", done |-> FALSE]

WatchInit ==
  /\ watch = NewInstanceWatch
  /\ call = [c \in Callers |-> NoCall]
  /\ sent = <<>>
  /\ got = <<>>
  /\ cancels = 0

-----------------------------------------------------------------------------
(* The provider *)

\* A provider numbers a change after the last one it could publish.
PublishChange(kind) ==
  LET c == [order |-> Len(sent) + 1, kind |-> kind]
  IN /\ Len(sent) < MaxChanges
     /\ watch' = Publish(watch, c)
     /\ sent' = IF Accepting(watch) THEN Append(sent, c) ELSE sent
     /\ UNCHANGED <<call, got, cancels>>

Terminate(err) ==
  /\ watch' = terminate(watch, err)
  /\ UNCHANGED <<call, sent, got, cancels>>

\* Anyone may close the watch, at any time and repeatedly.
Close ==
  /\ watch' = terminate(watch, "closed")
  /\ UNCHANGED <<call, sent, got, cancels>>

-----------------------------------------------------------------------------
(* Next *)

\* A second caller is turned away at once, which changes nothing.
NextBegin(c) ==
  /\ call[c].pc = "idle" /\ ~watch.active
  /\ watch' = [watch EXCEPT !.active = TRUE]
  /\ call' = [call EXCEPT ![c] = [pc |-> "look", done |-> FALSE]]
  /\ UNCHANGED <<sent, got, cancels>>

\* One round of the loop: context, queue, outcome, in this order.
Look(c) ==
  /\ call[c].pc = "look"
  /\ \/ /\ call[c].done
        /\ call' = [call EXCEPT ![c].pc = "leave"]
        /\ UNCHANGED <<watch, got>>
     \/ /\ ~call[c].done /\ watch.queue # <<>>
        /\ watch' = TakeChange(watch)
        /\ got' = Append(got, Head(watch.queue))
        /\ call' = [call EXCEPT ![c].pc = "leave"]
     \/ /\ ~call[c].done /\ watch.queue = <<>> /\ watch.terminal # "none"
        /\ call' = [call EXCEPT ![c].pc = "leave"]
        /\ UNCHANGED <<watch, got>>
     \/ /\ ~call[c].done /\ watch.queue = <<>> /\ watch.terminal = "none"
        /\ watch' = [watch EXCEPT !.signal = "open"]
        /\ call' = [call EXCEPT ![c].pc = "wait"]
        /\ UNCHANGED got
  /\ UNCHANGED <<sent, cancels>>

\* The select: the closed channel leads to another round, the context out.
Wait(c) ==
  /\ call[c].pc = "wait"
  /\ \/ watch.signal = "closed" /\ call' = [call EXCEPT ![c].pc = "look"]
     \/ call[c].done /\ call' = [call EXCEPT ![c].pc = "leave"]
  /\ watch' = [watch EXCEPT !.signal = "none"]
  /\ UNCHANGED <<sent, got, cancels>>

\* The deferred function.
Leave(c) ==
  /\ call[c].pc = "leave"
  /\ watch' = [watch EXCEPT !.active = FALSE]
  /\ call' = [call EXCEPT ![c] = NoCall]
  /\ UNCHANGED <<sent, got, cancels>>

CancelContext(c) ==
  /\ call[c].pc \in {"look", "wait"} /\ ~call[c].done /\ cancels < MaxCancels
  /\ call' = [call EXCEPT ![c].done = TRUE]
  /\ cancels' = cancels + 1
  /\ UNCHANGED <<watch, sent, got>>

-----------------------------------------------------------------------------

ProviderNext ==
  \/ \E kind \in Kinds : PublishChange(kind)
  \/ Terminate("stream_eof")

CallerNext(c) == NextBegin(c) \/ Look(c) \/ Wait(c) \/ Leave(c)

WatchNext ==
  \/ ProviderNext
  \/ Close
  \/ \E c \in Callers : CallerNext(c) \/ CancelContext(c)

WatchSpec == WatchInit /\ [][WatchNext]_watchVars

\* Somebody keeps calling Next, as the loop in WatchSelector.observe does, and a
\* call that is under way is scheduled.
FairWatchSpec ==
  /\ WatchSpec
  /\ WF_watchVars(\E c \in Callers : NextBegin(c))
  /\ \A c \in Callers : WF_watchVars(Look(c) \/ Wait(c) \/ Leave(c))

-----------------------------------------------------------------------------
(* Properties *)

WatchTypeOK ==
  /\ watch \in [queue : Seq(Change), terminal : WatchOutcomes \cup {"none"}, deletion : BOOLEAN,
                active : BOOLEAN, signal : {"none", "open", "closed"}]
  /\ Len(watch.queue) <= Capacity
  /\ call \in [Callers -> [pc : {"idle", "look", "wait", "leave"}, done : BOOLEAN]]
  /\ sent \in Seq(Change) /\ got \in Seq(Change)
  /\ cancels \in 0 .. MaxCancels

\* Nothing is skipped or reordered: what Next has returned so far is the
\* beginning of what Publish accepted, and while the watch has no outcome the
\* rest is in the queue. A cancelled call consumes nothing.
DeliveryIsGapless ==
  /\ Len(got) <= Len(sent) /\ got = SubSeq(sent, 1, Len(got))
  /\ watch.terminal = "none" => sent = got \o watch.queue
  /\ \A k \in 1 .. Len(sent) : sent[k].order = k

\* The deletion of the target is the last change, and it is delivered before
\* closed: neither Close nor Terminate nor a full queue hides it once it is
\* queued.
DeletionIsLast ==
  \A k \in 1 .. Len(sent) : sent[k].kind = "target_deleted" =>
    /\ k = Len(sent)
    /\ IF got = sent THEN watch.terminal = "closed" ELSE watch.deletion /\ watch.terminal = "none"

\* No lost wake-up: a Next whose channel is still open has nothing to return.
NoLostWakeup ==
  \A c \in Callers : call[c].pc = "wait" /\ watch.signal # "closed" =>
    watch.signal = "open" /\ watch.queue = <<>> /\ watch.terminal = "none"

\* The outcome is final, and nothing is delivered or accepted after it.
OutcomeStays ==
  watch.terminal # "none" =>
    watch'.terminal = watch.terminal /\ got' = got /\ sent' = sent /\ watch'.queue = <<>>

OutcomeIsFinal == [][OutcomeStays]_watchVars

\* The consumer sees what Feed describes.
Consumer == INSTANCE Feed WITH
  Outcomes <- WatchOutcomes, feed <- got, outcome <- watch.terminal

ImplementsFeed == Consumer!FeedSpec

\* Every accepted change is delivered, unless the watch ends first.
ChangesArrive ==
  \A n \in 1 .. MaxChanges : (Len(sent) >= n) ~> (Len(got) >= n \/ watch.terminal # "none")

=============================================================================
