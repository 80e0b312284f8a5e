----------------------------- MODULE MCLedgerTx -----------------------------
(* Two sessions append to a parent and its child while a reader reads.       *)
EXTENDS LedgerTx, TLC

CONSTANTS i1, i2, none, s1, s2

MCContexts ==
  {[parent |-> none, root |-> "task", trace |-> "trace", workspace |-> "ws",
    caller |-> "user", target |-> "agentA"],
   [parent |-> i1, root |-> "task", trace |-> "trace", workspace |-> "ws",
    caller |-> "agentA", target |-> "agentB"]}

MCSymmetry == Permutations({s1, s2})
=============================================================================
