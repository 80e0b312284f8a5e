----------------------------- MODULE MCDispatch -----------------------------
(* One Invocation tree: i1 is a root that targets agentA, i2 a child of it.  *)
(* r1 and r2 dispatch i1 (r2 is a second delivery of the same request), r3   *)
(* is a nested request of agentA, r4 one of an Agent that i1 did not call,    *)
(* and r5 one of agentA with a credential for another Workspace.             *)
EXTENDS Dispatch

CONSTANTS i1, i2, none, r1, r2, r3, r4, r5

MCRootContext == [root |-> "task", trace |-> "trace", workspace |-> "ws"]

MCContexts ==
  {[parent |-> none, root |-> "task", trace |-> "trace", workspace |-> "ws",
    caller |-> "user", target |-> "agentA"],
   [parent |-> i1, root |-> "task", trace |-> "trace", workspace |-> "ws",
    caller |-> "agentA", target |-> "agentB"],
   [parent |-> i1, root |-> "task", trace |-> "trace", workspace |-> "ws",
    caller |-> "agentC", target |-> "agentB"]}

MCCodes ==
  {"TIMEOUT", "CANCELED", "DEPENDENCY_ERROR", "A2A_PROTOCOL_ERROR",
   "AGENT_RESPONSE_TOO_LARGE", "ROUTE_NOT_FOUND", "AGENT_EXECUTION_FAILED"}

MCInvocationOf == [r \in Requests |-> IF r \in {r1, r2} THEN i1 ELSE i2]
MCParentOf == [r \in Requests |-> IF r \in {r1, r2} THEN none ELSE i1]
MCCallerOf ==
  [r \in Requests |-> IF r \in {r1, r2} THEN "user" ELSE IF r = r4 THEN "agentC" ELSE "agentA"]
MCWorkspaceOf == [r \in Requests |-> IF r = r5 THEN "other" ELSE "ws"]
MCTargetOf == [r \in Requests |-> IF r \in {r1, r2} THEN "agentA" ELSE "agentB"]
SingleRequest == {{r1}}
TwoRequests == {{r1, r2}, {r1, r3}, {r1, r4}, {r1, r5}}
=============================================================================
