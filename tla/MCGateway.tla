----------------------------- MODULE MCGateway -----------------------------
(* One request at a time through the gateway and the Router: r1 wants a JSON  *)
(* answer, r2 a result stream.  Their Invocations are their own.             *)
EXTENDS Gateway

CONSTANTS i1, i2, none, r1, r2

MCRootContext == [root |-> "task", trace |-> "trace", workspace |-> "ws"]

MCContexts ==
  {[parent |-> none, root |-> "task", trace |-> "trace", workspace |-> "ws",
    caller |-> "user", target |-> "agentA"]}

MCCodes ==
  {"TIMEOUT", "CANCELED", "DEPENDENCY_ERROR", "A2A_PROTOCOL_ERROR",
   "AGENT_RESPONSE_TOO_LARGE", "ROUTE_NOT_FOUND", "AGENT_EXECUTION_FAILED"}

MCInvocationOf == [r \in Requests |-> IF r = r1 THEN i1 ELSE i2]
MCParentOf == [r \in Requests |-> none]
MCCallerOf == [r \in Requests |-> "user"]
MCWorkspaceOf == [r \in Requests |-> "ws"]
MCTargetOf == [r \in Requests |-> "agentA"]
OneRequest == {{r1}, {r2}}
=============================================================================
