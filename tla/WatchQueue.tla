---------------------------- MODULE WatchQueue -----------------------------
(***************************************************************************)
(* registry/watch.go: the bounded queue between a directory provider and   *)
(* the one consumer of an observation. Every operator is a critical        *)
(* section of localInstanceWatch.mu and takes the watch as a record.       *)
(*                                                                         *)
(* A change is its local order and its kind. signal stands for the channel *)
(* of that name as the active Next sees it: "none" when no Next waits,     *)
(* "open" when one waits on the current channel, "closed" when the channel *)
(* it waits on has been closed and replaced.                               *)
(***************************************************************************)
EXTENDS Naturals, Sequences

CONSTANT Capacity       \* queueCapacity

\* NewInstanceWatch refuses a capacity that is not positive.
ASSUME CapacityAssumption == Capacity \in Nat \ {0}

NewInstanceWatch ==
  [queue |-> <<>>, terminal |-> "none", deletion |-> FALSE, active |-> FALSE, signal |-> "none"]

\* Mutant: the channel is replaced and not closed.
NotifyNobody(w) == [w EXCEPT !.signal = "none"]

notifyLocked(w) == [w EXCEPT !.signal = IF @ = "none" THEN "none" ELSE "closed"]

\* Publish returns nil exactly when the change is queued.
Accepting(w) == ~w.deletion /\ w.terminal = "none" /\ Len(w.queue) < Capacity

PublishDropsOldest(w, c) ==
  IF w.deletion \/ w.terminal # "none" THEN w
  ELSE IF Len(w.queue) >= Capacity
  THEN notifyLocked([w EXCEPT !.queue = Append(Tail(@), c)])
  ELSE notifyLocked([w EXCEPT !.queue = Append(@, c), !.deletion = (c.kind = "target_deleted")])

PublishForgetsDeletion(w, c) ==
  IF w.deletion \/ w.terminal # "none" THEN w
  ELSE IF Len(w.queue) >= Capacity
  THEN notifyLocked([w EXCEPT !.terminal = "delivery_overflow", !.queue = <<>>])
  ELSE notifyLocked([w EXCEPT !.queue = Append(@, c)])

\* A full queue latches delivery_overflow and loses what was pending.
Publish(w, c) ==
  IF w.deletion \/ w.terminal # "none" THEN w
  ELSE IF Len(w.queue) >= Capacity
  THEN notifyLocked([w EXCEPT !.terminal = "delivery_overflow", !.queue = <<>>])
  ELSE notifyLocked([w EXCEPT !.queue = Append(@, c), !.deletion = (c.kind = "target_deleted")])

\* The first outcome wins; a pending deletion of the target wins over any.
terminate(w, err) ==
  IF w.terminal # "none" \/ w.deletion THEN w
  ELSE notifyLocked([w EXCEPT !.terminal = err, !.queue = <<>>])

\* Next takes the head of the queue. Taking the deletion closes the watch.
TakeChange(w) ==
  IF Head(w.queue).kind = "target_deleted" /\ w.deletion /\ Tail(w.queue) = <<>>
  THEN notifyLocked([w EXCEPT !.queue = <<>>, !.deletion = FALSE, !.terminal = "closed"])
  ELSE [w EXCEPT !.queue = Tail(@)]
=============================================================================
