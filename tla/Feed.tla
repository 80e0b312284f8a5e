-------------------------------- MODULE Feed --------------------------------
(***************************************************************************)
(* What an instance watch promises its consumer: the changes of one target *)
(* in order and without gaps, until one outcome that stays. The deletion   *)
(* of the target is the last change and comes together with the outcome    *)
(* "closed".                                                               *)
(***************************************************************************)
EXTENDS Naturals, Sequences

CONSTANT Outcomes

VARIABLES feed,         \* changes handed to the consumer
          outcome

Deliver ==
  /\ outcome = "none"
  /\ \E kind \in {"instances_changed", "state_changed"} :
       feed' = Append(feed, [order |-> Len(feed) + 1, kind |-> kind])
  /\ UNCHANGED outcome

DeliverDeletion ==
  /\ outcome = "none"
  /\ feed' = Append(feed, [order |-> Len(feed) + 1, kind |-> "target_deleted"])
  /\ outcome' = "closed"

End ==
  /\ outcome = "none"
  /\ outcome' \in Outcomes
  /\ UNCHANGED feed

FeedInit == feed = <<>> /\ outcome = "none"

FeedNext == Deliver \/ DeliverDeletion \/ End

FeedSpec == FeedInit /\ [][FeedNext]_<<feed, outcome>>
=============================================================================
