------------------------------ MODULE MCLedger ------------------------------
(* Two Invocations: contexts for a root and for a child of it, and contexts  *)
(* of children whose root Task or caller does not match the parent.        *)
EXTENDS Ledger

CONSTANTS i1, i2, none

Context(p, r, t, c, a) ==
  [parent |-> p, root |-> r, trace |-> t, workspace |-> "ws", caller |-> c, target |-> a]

MCContexts ==
  {Context(none, "task1", "trace1", "user", "agentA"),
   Context(i1, "task1", "trace1", "agentA", "agentB"),
   Context(i1, "task2", "trace1", "agentA", "agentA"),
   Context(i2, "task1", "trace1", "agentB", "agentA")}
=============================================================================
