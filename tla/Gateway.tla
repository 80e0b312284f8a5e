------------------------------ MODULE Gateway ------------------------------
(***************************************************************************)
(* The Control Plane's Invocation gateway (gateway/invocation_handler.go,  *)
(* invocation/service.go, invocation/router_client.go) in front of the     *)
(* Router of module Dispatch, and the metadata reads through both          *)
(* (invocation_read_handler.go, api/ledger_handler.go).  A caller's        *)
(* request is authorized, gets its Invocation and root Task identifiers    *)
(* here, is sent to the Router, and the Router's answer is relayed as it   *)
(* comes.  Each side has its own deadline, and the connection between them *)
(* may break at any time.                                                  *)
(*                                                                         *)
(* A body is the sequence of frames the Router wrote (h[r].out); whether a *)
(* frame fits the gateway's own SSE limit is open.                         *)
(***************************************************************************)
EXTENDS Dispatch

CONSTANT MetadataLimit          \* events in the largest detail the gateway passes on

VARIABLE call                   \* the gateway's handler of each root request

gatewayVars == <<dispatchVars, call>>

Gated == {r \in Requests : ~Child(r)}

\* The identifiers of an Invocation are drawn for its request alone, and what an
\* Agent answers is never taken for a refusal of the request itself.
ASSUME GatewayAssumption ==
  /\ \A r \in Gated : \A q \in Requests \ {r} : InvocationOf[q] # InvocationOf[r]
  /\ AgentFailures \cap readRequestErrors = {}
  /\ MetadataLimit \in Nat

\* error is the gateway's own error and ids whether it names the Invocation;
\* got is what was relayed.
NoCall == [pc |-> "idle", sent |-> FALSE, error |-> NoCode, ids |-> FALSE, got |-> <<>>]

GatewayInit ==
  /\ DispatchInit
  /\ call = [r \in Gated |-> NoCall]

-----------------------------------------------------------------------------
(* Before the Router *)

writePreError(r, code) ==
  call' = [call EXCEPT ![r].pc = "done", ![r].error = code]

writeCorrelatedError(r, code) ==
  call' = [call EXCEPT ![r].pc = "done", ![r].error = code, ![r].ids = TRUE]

invokeRequestErrors == {"VALIDATION_ERROR", "PAYLOAD_TOO_LARGE"}

workspaceErrorCodes ==
  {"VALIDATION_ERROR", "FORBIDDEN", "NOT_FOUND", "CONFLICT", "AGENT_NOT_INSTALLED",
   "INSTALLATION_DISABLED", "AGENT_DISABLED", "AGENT_RELEASE_UNPUBLISHED",
   "AGENT_RELEASE_SUSPENDED", "AGENT_RELEASE_REVOKED", "CAPABILITY_NOT_ALLOWED",
   "DEPENDENCY_ERROR", "INTERNAL_ERROR"}

\* Credentials, media type, size, body, Accept header and names are checked.
invoke(r) ==
  /\ call[r].pc = "idle"
  /\ \E w \in Workloads : {q \in Gated : call[q].pc # "idle"} \cup {r} \subseteq w
  /\ \/ \E code \in {"UNAUTHENTICATED", "NOT_ACCEPTABLE"} \cup invokeRequestErrors :
          writePreError(r, code)
     \/ call' = [call EXCEPT ![r].pc = "authorize"]
  /\ UNCHANGED dispatchVars

\* The workspace service grants, refuses or fails.
AuthorizeInvocation(r) ==
  /\ call[r].pc = "authorize"
  /\ \/ \E code \in workspaceErrorCodes : writePreError(r, code)
     \/ call' = [call EXCEPT ![r].pc = "ids"]
  /\ UNCHANGED dispatchVars

\* The identifiers are drawn from the system's random source, which may fail.
NewRoot(r) ==
  /\ call[r].pc = "ids"
  /\ \/ writePreError(r, "INTERNAL_ERROR")
     \/ call' = [call EXCEPT ![r].pc = "dispatch"]
  /\ UNCHANGED dispatchVars

-----------------------------------------------------------------------------
(* The Router *)

\* The request leaves for the Router.  From here on it may be served, late or
\* never.
SendDispatch(r) ==
  /\ call[r].pc = "dispatch"
  /\ call' = [call EXCEPT ![r].pc = "wait", ![r].sent = TRUE]
  /\ UNCHANGED dispatchVars

\* Mutant: the error of the Router client is returned as it is.
DispatchFailsBare(r) ==
  /\ call[r].pc = "wait"
  /\ \E code \in {"TIMEOUT", "DEPENDENCY_ERROR"} : writePreError(r, code)
  /\ UNCHANGED dispatchVars

\* No response: the deadline of the gateway, a caller that left, or a broken
\* connection.  Service.Dispatch tells the deadline from the others.
DispatchFails(r) ==
  /\ call[r].pc = "wait"
  /\ \E code \in {"TIMEOUT", "DEPENDENCY_ERROR"} : writeCorrelatedError(r, code)
  /\ UNCHANGED dispatchVars

\* The Router answers under the request's Trace, except when it refuses a
\* request it has not decoded: then it makes up a Trace of its own.
ownTrace(frame) == frame.code \in readRequestErrors

\* The client takes a response only if it carries the request's Trace; the
\* status is written before anything is relayed.
DispatchAnswered(r) ==
  /\ call[r].pc = "wait" /\ h[r].out # <<>>
  /\ \/ call' = [call EXCEPT ![r].pc = "relay"]
     \/ ownTrace(h[r].out[1]) /\ writeCorrelatedError(r, "DEPENDENCY_ERROR")
  /\ UNCHANGED dispatchVars

-----------------------------------------------------------------------------
(* The relay *)

\* A JSON body is passed on as it is read.
proxyFlushed(r) ==
  /\ call[r].pc = "relay" /\ call[r].got = <<>> /\ h[r].out[1].type # "accepted"
  /\ call' = [call EXCEPT ![r].got = h[r].out]
  /\ UNCHANGED dispatchVars

\* An event of a result stream is read whole, then written and flushed.
proxySSE(r) ==
  /\ call[r].pc = "relay" /\ h[r].out[1].type = "accepted"
  /\ Len(call[r].got) < Len(h[r].out)
  /\ call' = [call EXCEPT ![r].got = Append(@, h[r].out[Len(@) + 1])]
  /\ UNCHANGED dispatchVars

\* The relay stops: at the end of the body, or before it, when a frame is cut,
\* malformed or above the limit, a write to the caller fails, or the deadline
\* ends the request.  The response just ends there; no error frame is added.
RelayStops(r) ==
  /\ call[r].pc = "relay"
  /\ call' = [call EXCEPT ![r].pc = "done"]
  /\ UNCHANGED dispatchVars

-----------------------------------------------------------------------------
(* Metadata reads.  Store.GetInvocation sees one snapshot; the Router and   *)
(* the gateway each validate what they pass on.  A read that fails on its    *)
(* way is a DEPENDENCY_ERROR and tells nothing; it is left out.              *)

Detail(i) == [row |-> rows[i], history |-> events[i]]
ValidDetail(i, d) == ValidateInvocationDetailResponseV1(i, d.row, d.history)

StoreGetInvocation(i) ==
  IF rows[i] = NoRow THEN [error |-> "ErrNotFound"]
  ELSE IF ~ValidDetail(i, Detail(i)) THEN [error |-> "ErrDependency"] ELSE [detail |-> Detail(i)]

ServeInvocationRead(i) ==
  LET result == StoreGetInvocation(i)
  IN IF result = [error |-> "ErrNotFound"] THEN [status |-> 404]
     ELSE IF result = [error |-> "ErrDependency"] \/ ~ValidDetail(i, result.detail)
     THEN [status |-> 503] ELSE [status |-> 200, body |-> result.detail]

\* The size of a body is counted in events, the part of it that grows.
Oversized(d) == Len(d.history) > MetadataLimit

writeRouterResponse(i, response) ==
  IF response.status = 404 THEN [error |-> "NOT_FOUND"]
  ELSE IF response.status # 200 \/ Oversized(response.body) \/ ~ValidDetail(i, response.body)
  THEN [error |-> "DEPENDENCY_ERROR"]
  ELSE [status |-> response.body.row.status, code |-> response.body.row.code]

getInvocation(i) == writeRouterResponse(i, ServeInvocationRead(i))

-----------------------------------------------------------------------------

GatewayStep(r) ==
  \/ AuthorizeInvocation(r)
  \/ NewRoot(r)
  \/ SendDispatch(r)
  \/ DispatchFails(r)
  \/ DispatchAnswered(r)
  \/ proxyFlushed(r)
  \/ proxySSE(r)
  \/ RelayStops(r)

\* The Router serves a root request only after the gateway has sent it.
RouterNext ==
  /\ DispatchNext
  /\ \A r \in Gated : h[r].pc = "idle" /\ h'[r].pc # "idle" => call[r].sent
  /\ UNCHANGED call

GatewayNext ==
  \/ \E r \in Gated : invoke(r) \/ GatewayStep(r)
  \/ RouterNext

GatewaySpec == GatewayInit /\ [][GatewayNext]_gatewayVars

\* A handler goroutine of either side is scheduled, a call to the database
\* returns, and deadline timers fire, so that a gateway stops waiting for the
\* Router. Nobody else is relied on.
FairGatewaySpec ==
  /\ GatewaySpec
  /\ \A r \in Requests :
       WF_gatewayVars(HandlerStep(r) /\ UNCHANGED call)
       /\ WF_gatewayVars(DeadlineExpires(r) /\ UNCHANGED call)
  /\ \A r \in Gated : WF_gatewayVars(GatewayStep(r))

-----------------------------------------------------------------------------
(* Properties *)

\* An answer without identifiers: the gateway's own, or a relayed refusal of
\* the Router's that precedes correlation.
Uncorrelated(r) ==
  \/ call[r].error # NoCode /\ ~call[r].ids
  \/ \E k \in DOMAIN call[r].got : call[r].got[k].code \in readRequestErrors

\* What a caller of the Control Plane has been told about an Invocation, and
\* what it can read there, agree at any later time: an answer that does not name
\* the Invocation means that there is none and will be none, and once the
\* outcome was relayed a read returns that outcome, unless the outcome reports
\* that the database failed.  What is stored fails a read only by its size, and
\* then the read says so instead of showing a part of it.
ToldIsTrue ==
  \A r \in Gated :
    LET read == getInvocation(InvocationOf[r])
        unreadable == Oversized(Detail(InvocationOf[r]))
    IN /\ Uncorrelated(r) => read = [error |-> "NOT_FOUND"]
       /\ read = [error |-> "DEPENDENCY_ERROR"] <=> unreadable
       /\ \A k \in DOMAIN call[r].got :
            LET o == call[r].got[k]
            IN o.type \in Terminal /\ h[r].seq > 0 =>
                 \/ read = [status |-> o.type, code |-> o.code]
                 \/ unreadable
                 \/ o.code = "DEPENDENCY_ERROR" /\ h[r].faulty

\* Every request is answered or given up: no handler of the Router waits
\* forever on the Control Plane, the directory, the Agent or its caller, and no
\* handler of the gateway on the Router, alive or crashed.
EveryoneFinishes ==
  /\ HandlersFinish
  /\ \A r \in Gated : (call[r].pc # "idle") ~> (call[r].pc = "done")
=============================================================================
