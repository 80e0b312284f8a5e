------------------------------ MODULE Dispatch ------------------------------
(***************************************************************************)
(* The Router's dispatch handlers (internal/api/dispatch_handler.go and    *)
(* agent_invocation_handler.go) with the A2A transport they drive, over    *)
(* the Ledger. One handler goroutine serves one HTTP request; handlers,    *)
(* callers, Agents, deadlines, database failures and a crash of the Router *)
(* process interleave. A handler takes one step per call it makes to the   *)
(* outside: Control Plane, Ledger, target selector, Agent, response.       *)
(*                                                                         *)
(* Payloads, headers and sizes are abstract: a frame fits or does not.     *)
(* Timestamps are one instant: terminalOccurredAt and the microsecond      *)
(* offsets keep them non-decreasing, which is all the Ledger asks.         *)
(***************************************************************************)
EXTENDS Ledger

CONSTANTS Requests,       \* HTTP requests the Router serves
          InvocationOf,   \* the Invocation of each request
          ParentOf,       \* the parent a nested request names, or NoParent
          CallerOf,       \* authenticated principal of each request
          WorkspaceOf,    \* Workspace an Agent's credential is bound to
          TargetOf,       \* Agent each request targets
          Workloads,      \* bound: sets of requests that are served together
          Streams,        \* requests with stream = true
          RootContext,    \* Trace, root Task and Workspace of root requests
          AgentFailures,  \* error codes an Agent's answer can map to
          FrameFits,      \* kinds of frames that are known to fit the SSE event limit
          MaxChunks,      \* bound: stream events an Agent sends
          MaxFaults,      \* bound: database failures
          MayCrash        \* whether the Router process may crash

VARIABLES h,              \* handler of each request
          calls,          \* A2A messages sent to the Agent, per Invocation
          faults,         \* database failures so far
          crashed

dispatchVars == <<rows, events, h, calls, faults, crashed>>

\* The context of the Invocation that a request asks for: the Task, Trace and
\* Workspace are those of the tree's root.
RequestContext(r) ==
  [parent |-> ParentOf[r], root |-> RootContext.root, trace |-> RootContext.trace,
   workspace |-> RootContext.workspace, caller |-> CallerOf[r], target |-> TargetOf[r]]

ASSUME DispatchAssumption ==
  /\ InvocationOf \in [Requests -> Invocations]
  /\ ParentOf \in [Requests -> Invocations \cup {NoParent}]
  /\ \A r \in Requests : RequestContext(r) \in Contexts
  /\ Streams \subseteq Requests
  /\ {"TIMEOUT", "CANCELED", "DEPENDENCY_ERROR", "A2A_PROTOCOL_ERROR",
      "AGENT_RESPONSE_TOO_LARGE", "ROUTE_NOT_FOUND", "AGENT_EXECUTION_FAILED"}
       \cup AgentFailures \subseteq ErrorCodes
  /\ 0 \in Times
  /\ MaxChunks \in Nat /\ MaxFaults \in Nat /\ MaxChunks + 4 <= MaxEvents
  /\ FrameFits \subseteq {"accepted", "terminal"} /\ MayCrash \in BOOLEAN

\* err is ctx.Err() of the request's context: NoCode while it is live, then
\* TIMEOUT or CANCELED for good. type and code are the outcome being carried
\* out, seq and sse the next Ledger and result stream sequence, out what was
\* written to the caller. faulty says that the database failed an append of this
\* handler or left its commit in doubt, lost that the instance directory or the
\* caller's connection failed it.
Idle == [pc |-> "idle", err |-> NoCode, type |-> "none", code |-> NoCode, seq |-> 0,
         sse |-> 0, out |-> <<>>, task |-> FALSE, cancels |-> 0, wire |-> TRUE,
         faulty |-> FALSE, lost |-> FALSE, ctx |-> [parent |-> NoParent]]

DispatchInit ==
  /\ LedgerInit
  /\ h = [r \in Requests |-> Idle]
  /\ calls = [i \in Invocations |-> 0]
  /\ faults = 0
  /\ crashed = FALSE

At(r, pc) == h[r].pc = pc
Done(r) == h[r].err # NoCode
Child(r) == ParentOf[r] # NoParent
\* A request comes while only requests of one workload with it have come.
Arrives(r) == \E w \in Workloads : {q \in Requests : ~At(q, "idle")} \cup {r} \subseteq w
Finished == {"idle", "done", "dead"}

Frame(type, seq, chunk, code) == [type |-> type, seq |-> seq, chunk |-> chunk, code |-> code]

-----------------------------------------------------------------------------
(* The Ledger as a handler sees it *)

ledgerEvent(r, type, code, chunk) ==
  lifecycleEvent(InvocationOf[r], h[r].seq, type, 0, code, chunk, h[r].ctx)

\* Append under the request's context succeeds only while that context is live;
\* under terminalLedgerContext it outlives it.
Appended(r, e, grace) ==
  /\ grace \/ ~Done(r)
  /\ LedgerAppend(e)
  /\ UNCHANGED faults

\* Append returns an error: the event is refused, the context is done, or the
\* database fails. A failure, or a context that ends during COMMIT, leaves open
\* whether the event was committed. f says that something other than a refusal
\* or a context that was done from the start is behind it.
AppendFailed(r, e, grace, f) ==
  \/ ~f /\ (~Accepts(e) \/ (~grace /\ Done(r))) /\ UNCHANGED <<rows, events, faults>>
  \/ f /\ ~grace /\ Done(r) /\ LedgerAppend(e) /\ UNCHANGED faults
  \/ /\ f /\ faults < MaxFaults /\ faults' = faults + 1
     /\ UNCHANGED <<rows, events>> \/ LedgerAppend(e)

-----------------------------------------------------------------------------
(* Admission *)

\* Error replies before any Ledger event.
ReplyWith(r, code) ==
  h' = [h EXCEPT ![r].pc = "reply", ![r].type = "failed", ![r].code = code]

\* A body that cannot be read or validated, or is above the limit.
readRequestErrors == {"VALIDATION_ERROR", "PAYLOAD_TOO_LARGE"}

\* A root request is authenticated, read, negotiated and validated.
Serve(r) ==
  /\ At(r, "idle") /\ Arrives(r) /\ ~Child(r) /\ ~crashed
  /\ \/ h' = [h EXCEPT ![r].pc = "resolve", ![r].ctx = RequestContext(r)]
     \/ \E code \in readRequestErrors : ReplyWith(r, code)
  /\ UNCHANGED <<rows, events, calls, faults, crashed>>

readNestedRequestErrors == {"VALIDATION_ERROR", "PAYLOAD_TOO_LARGE"}

\* A nested request is authenticated, read, negotiated and validated.
ServeNested(r) ==
  /\ At(r, "idle") /\ Arrives(r) /\ Child(r) /\ ~crashed
  /\ \/ h' = [h EXCEPT ![r].pc = "parent"]
     \/ \E code \in {"UNAUTHENTICATED", "NOT_ACCEPTABLE"} \cup readNestedRequestErrors :
          ReplyWith(r, code)
  /\ UNCHANGED <<rows, events, calls, faults, crashed>>

\* The code of a failure before the dispatch: a done context explains it.
classifyNestedError(r, fallback) == IF Done(r) THEN h[r].err ELSE fallback

DeriveChildContext(r, parent) ==
  [parent |-> ParentOf[r], root |-> parent.ctx.root, trace |-> parent.ctx.trace,
   workspace |-> parent.ctx.workspace, caller |-> CallerOf[r], target |-> TargetOf[r]]

\* The parent is read from the Ledger, and the child's context derived from what
\* was read. The read may fail, and so may the random source of the child's name.
ReadParent(r) ==
  LET parent == rows[ParentOf[r]]
      running == parent # NoRow /\ parent.status = "running"
      matches == parent.ctx.target = CallerOf[r] /\ parent.ctx.workspace = WorkspaceOf[r]
  IN /\ At(r, "parent")
     /\ \/ ReplyWith(r, classifyNestedError(r, "DEPENDENCY_ERROR"))
        \/ parent = NoRow /\ ReplyWith(r, classifyNestedError(r, "NOT_FOUND"))
        \/ parent # NoRow /\ ~running /\ ReplyWith(r, "CONFLICT")
        \/ running /\ ~matches /\ ReplyWith(r, "FORBIDDEN")
        \/ running /\ matches /\ ReplyWith(r, "DEPENDENCY_ERROR")
        \/ /\ running /\ matches
           /\ h' = [h EXCEPT ![r].pc = "version", ![r].ctx = DeriveChildContext(r, parent)]
     /\ UNCHANGED <<rows, events, calls, faults, crashed>>

\* What an Agent is told of a failure at the Control Plane.
mapControlPlaneCodeToAgentBoundary(code) ==
  CASE code \in {"NOT_FOUND", "AGENT_NOT_INSTALLED"} -> "NOT_FOUND"
    [] code \in {"FORBIDDEN", "INSTALLATION_DISABLED", "AGENT_DISABLED",
                 "CAPABILITY_NOT_ALLOWED"} -> "FORBIDDEN"
    [] code \in {"AGENT_RELEASE_UNPUBLISHED", "AGENT_RELEASE_SUSPENDED", "AGENT_RELEASE_REVOKED",
                 "TIMEOUT", "CANCELED"} -> code
    [] OTHER -> "DEPENDENCY_ERROR"

\* The failures the client takes: with a status, a code and a correlation that go
\* together. Anything else is an error without a code.
installedVersionFailures ==
  {"VALIDATION_ERROR", "UNAUTHENTICATED", "INSTALLATION_DISABLED", "AGENT_DISABLED",
   "AGENT_RELEASE_UNPUBLISHED", "AGENT_RELEASE_SUSPENDED", "AGENT_RELEASE_REVOKED",
   "CAPABILITY_NOT_ALLOWED", "NOT_FOUND", "AGENT_NOT_INSTALLED", "DEPENDENCY_ERROR"}

\* The installed version of the target is asked for.
ResolveInstalledVersion(r) ==
  /\ At(r, "version")
  /\ \/ h' = [h EXCEPT ![r].pc = "resolve"]
     \/ \E code \in installedVersionFailures :
          ReplyWith(r, classifyNestedError(r, mapControlPlaneCodeToAgentBoundary(code)))
  /\ UNCHANGED <<rows, events, calls, faults, crashed>>

\* The context ends first.
VersionInterrupted(r) ==
  /\ At(r, "version") /\ Done(r)
  /\ ReplyWith(r, classifyNestedError(r, "DEPENDENCY_ERROR"))
  /\ UNCHANGED <<rows, events, calls, faults, crashed>>

\* How resolution.Client.Resolve fails: the Control Plane refuses the release, or
\* its answer is missing, too large, malformed or not about this request.
resolutionFailures == {"FORBIDDEN", "DEPENDENCY_ERROR"}

\* The Control Plane answers: the resolution fails, the input is too large for
\* the release, its target is unusable (carried to the Ledger as a failed route),
\* or the dispatch goes on.
Resolve(r) ==
  /\ At(r, "resolve")
  /\ \/ \E code \in resolutionFailures \cup {"PAYLOAD_TOO_LARGE"} : ReplyWith(r, code)
     \/ h' = [h EXCEPT ![r].pc = "initial", ![r].type = "failed", ![r].code = "ROUTE_NOT_FOUND"]
     \/ h' = [h EXCEPT ![r].pc = "initial"]
  /\ UNCHANGED <<rows, events, calls, faults, crashed>>

\* The context ends first. Only a nested request tells cancellation apart here.
ResolveInterrupted(r) ==
  /\ At(r, "resolve") /\ Done(r)
  /\ ReplyWith(r, IF h[r].err = "TIMEOUT" \/ Child(r) THEN h[r].err ELSE "DEPENDENCY_ERROR")
  /\ UNCHANGED <<rows, events, calls, faults, crashed>>

-----------------------------------------------------------------------------
(* The initial events, and terminal events answered with a JSON body *)

\* created, routing and, when the target is usable, started.
InitialTypes(r) ==
  IF h[r].code = "ROUTE_NOT_FOUND" THEN <<"created", "routing">>
                                   ELSE <<"created", "routing", "started">>

\* Mutant: the error of an initial append is ignored.
AppendInitialUnchecked(r) ==
  LET types == InitialTypes(r)
      e == ledgerEvent(r, types[h[r].seq + 1], NoCode, NoChunk)
      next == IF h[r].seq + 1 < Len(types) THEN "initial"
              ELSE IF h[r].code # NoCode THEN "terminal"
              ELSE IF r \in Streams THEN "accept" ELSE "select"
  IN /\ At(r, "initial")
     /\ Appended(r, e, FALSE) \/ \E f \in BOOLEAN : AppendFailed(r, e, FALSE, f)
     /\ h' = [h EXCEPT ![r].pc = next, ![r].seq = @ + 1]
     /\ UNCHANGED <<calls, crashed>>

AppendInitial(r) ==
  LET types == InitialTypes(r)
      e == ledgerEvent(r, types[h[r].seq + 1], NoCode, NoChunk)
      next == IF h[r].seq + 1 < Len(types) THEN "initial"
              ELSE IF h[r].code # NoCode THEN "terminal"
              ELSE IF r \in Streams THEN "accept" ELSE "select"
  IN /\ At(r, "initial")
     /\ \/ Appended(r, e, FALSE) /\ h' = [h EXCEPT ![r].pc = next, ![r].seq = @ + 1]
        \/ \E f \in BOOLEAN :
             /\ AppendFailed(r, e, FALSE, f)
             /\ h' = [h EXCEPT ![r].pc = "initialFailed", ![r].faulty = @ \/ f]
     /\ UNCHANGED <<calls, crashed>>

contextType(err) == IF err = "TIMEOUT" THEN "timed_out" ELSE "canceled"

\* Mutant: the context is not looked at.
InitialFailedAsDependency(r) ==
  /\ At(r, "initialFailed")
  /\ ReplyWith(r, "DEPENDENCY_ERROR")
  /\ UNCHANGED <<rows, events, calls, faults, crashed>>

\* An accepted Invocation whose context is done is terminated at the sequence
\* that failed; otherwise the caller is told of a dependency failure.
InitialFailed(r) ==
  /\ At(r, "initialFailed")
  /\ IF h[r].seq > 0 /\ Done(r)
     THEN h' = [h EXCEPT ![r].pc = "terminal", ![r].type = contextType(h[r].err),
                         ![r].code = h[r].err]
     ELSE ReplyWith(r, "DEPENDENCY_ERROR")
  /\ UNCHANGED <<rows, events, calls, faults, crashed>>

\* Mutant: the error of the terminal append is ignored.
AppendTerminalUnchecked(r) ==
  LET e == ledgerEvent(r, h[r].type, h[r].code, NoChunk)
  IN /\ At(r, "terminal")
     /\ Appended(r, e, TRUE) \/ \E f \in BOOLEAN : AppendFailed(r, e, TRUE, f)
     /\ h' = [h EXCEPT ![r].pc = "reply", ![r].seq = @ + 1]
     /\ UNCHANGED <<calls, crashed>>

\* The terminal event of a request that gets a JSON reply.
AppendTerminal(r) ==
  LET e == ledgerEvent(r, h[r].type, h[r].code, NoChunk)
  IN /\ At(r, "terminal")
     /\ \/ Appended(r, e, TRUE) /\ h' = [h EXCEPT ![r].pc = "reply", ![r].seq = @ + 1]
        \/ \E f \in BOOLEAN :
             /\ AppendFailed(r, e, TRUE, f)
             /\ h' = [h EXCEPT ![r].pc = "reply", ![r].type = "failed",
                               ![r].code = "DEPENDENCY_ERROR", ![r].faulty = @ \/ f]
     /\ UNCHANGED <<calls, crashed>>

Reply(r) ==
  /\ At(r, "reply")
  /\ h' = [h EXCEPT ![r].pc = "done",
                    ![r].out = IF h[r].wire THEN <<Frame(h[r].type, 0, NoChunk, h[r].code)>> ELSE @]
  /\ UNCHANGED <<rows, events, calls, faults, crashed>>

-----------------------------------------------------------------------------
(* The A2A call *)

\* The outcome of a call that ended in error code c.
Outcome(r, c) ==
  [h EXCEPT ![r].pc = IF r \in Streams THEN "finish" ELSE "terminal",
            ![r].type = IF c = "TIMEOUT" THEN "timed_out"
                        ELSE IF c = "CANCELED" THEN "canceled" ELSE "failed",
            ![r].code = c]

\* dispatchErrorCode of a bare context error: only a deadline has a code.
dispatchErrorCode(err) == IF err = "TIMEOUT" THEN "TIMEOUT" ELSE "DEPENDENCY_ERROR"

\* The code of a bare context error that ends the selection: the streaming path
\* classifies it by the context, the other one by the error.
selectErrorCode(r, err) == IF r \in Streams THEN err ELSE dispatchErrorCode(err)

\* The instance directory names a target, fails, or names one that differs in
\* more than its authority. It may fail with a context error of its own while the
\* request's context is live, and that error is passed on bare.
SelectTarget(r) ==
  /\ At(r, "select")
  /\ \/ h' = [h EXCEPT ![r].pc = "call"]
     \/ /\ ~Done(r)
        /\ \E c \in {"DEPENDENCY_ERROR"} \cup {selectErrorCode(r, e) : e \in {"TIMEOUT", "CANCELED"}} :
             h' = [Outcome(r, c) EXCEPT ![r].lost = TRUE]
     \/ h' = Outcome(r, IF r \in Streams /\ Done(r) THEN h[r].err ELSE "A2A_PROTOCOL_ERROR")
  /\ UNCHANGED <<rows, events, calls, faults, crashed>>

SelectInterrupted(r) ==
  /\ At(r, "select") /\ Done(r)
  /\ h' = Outcome(r, selectErrorCode(r, h[r].err))
  /\ UNCHANGED <<rows, events, calls, faults, crashed>>

\* The message leaves for the Agent, unless the context is already done.
CallAgent(r) ==
  /\ At(r, "call") /\ ~Done(r)
  /\ h' = [h EXCEPT ![r].pc = IF r \in Streams THEN "receive" ELSE "wait"]
  /\ calls' = [calls EXCEPT ![InvocationOf[r]] = @ + 1]
  /\ UNCHANGED <<rows, events, faults, crashed>>

\* A JSON answer; the context is looked at once more after a success.
AgentAnswers(r) ==
  /\ At(r, "wait")
  /\ \/ h' = IF Done(r) THEN Outcome(r, dispatchErrorCode(h[r].err))
                        ELSE [h EXCEPT ![r].pc = "terminal", ![r].type = "succeeded"]
     \/ \E c \in AgentFailures : h' = Outcome(r, c)
  /\ UNCHANGED <<rows, events, calls, faults, crashed>>

\* Mutants: the transport waits for the Agent without the request's context; the
\* task is cancelled as soon as the context is done.
CallNotInterrupted(r) ==
  /\ At(r, "call") /\ Done(r)
  /\ h' = Outcome(r, h[r].err)
  /\ UNCHANGED <<rows, events, calls, faults, crashed>>

CallCancelledEarly(r) ==
  /\ h[r].pc \in {"call", "wait", "receive"} /\ Done(r)
  /\ h' = [Outcome(r, h[r].err) EXCEPT ![r].cancels = IF h[r].task THEN @ + 1 ELSE @]
  /\ UNCHANGED <<rows, events, calls, faults, crashed>>

\* The transport gives up when the context is done, in either mode.
CallInterrupted(r) ==
  /\ h[r].pc \in {"call", "wait", "receive"} /\ Done(r)
  /\ h' = Outcome(r, h[r].err)
  /\ UNCHANGED <<rows, events, calls, faults, crashed>>

-----------------------------------------------------------------------------
(* Result streams *)

\* The code of a failed write: the context's if it is done.
streamWriteErrorCode(r, c) == IF Done(r) THEN h[r].err ELSE c

\* resultStreamWriter.Write: a frame above the limit is not written at all; a
\* broken connection loses it.
WriteAccepted(r) ==
  /\ At(r, "accept")
  /\ h' = IF "accepted" \notin FrameFits
          THEN [h EXCEPT ![r].pc = "terminal", ![r].type = "failed",
                         ![r].code = streamWriteErrorCode(r, "AGENT_RESPONSE_TOO_LARGE")]
          ELSE IF ~h[r].wire
          THEN [Outcome(r, streamWriteErrorCode(r, "DEPENDENCY_ERROR"))
                  EXCEPT ![r].sse = 1, ![r].lost = TRUE]
          ELSE [h EXCEPT ![r].pc = "select", ![r].sse = 1,
                         ![r].out = <<Frame("accepted", 0, NoChunk, NoCode)>>]
  /\ UNCHANGED <<rows, events, calls, faults, crashed>>

\* The states a Task can end in. Work in progress is no outcome; a state that
\* asks for more, or that the protocol does not define, is an error.
NoOutcome == <<"none", NoCode>>

MapA2ATaskState(state) ==
  CASE state \in {"submitted", "working"} -> NoOutcome
    [] state = "completed" -> <<"succeeded", NoCode>>
    [] state \in {"failed", "rejected"} -> <<"failed", "AGENT_EXECUTION_FAILED">>
    [] state = "canceled" -> <<"canceled", "CANCELED">>

\* What a valid event says: a message and an artifact nothing, a Task or a status
\* update what its state says.
mapA2AStreamEvent ==
  {NoOutcome} \cup
  {MapA2ATaskState(s) : s \in {"submitted", "working", "completed", "failed", "rejected", "canceled"}}

\* An event of the Agent's stream makes its task known. The transport holds a
\* terminal event back until the stream has ended, and drops it if the context
\* is done by then.
ReceiveEvent(r) ==
  /\ At(r, "receive") /\ h[r].sse <= MaxChunks
  /\ \E o \in mapA2AStreamEvent :
       h' = IF o # NoOutcome /\ Done(r)
            THEN [Outcome(r, h[r].err) EXCEPT ![r].task = TRUE]
            ELSE [h EXCEPT ![r].pc = "chunk", ![r].task = TRUE,
                           ![r].type = IF o = NoOutcome THEN @ ELSE o[1],
                           ![r].code = IF o = NoOutcome THEN @ ELSE o[2]]
  /\ UNCHANGED <<rows, events, calls, faults, crashed>>

\* The stream breaks off, breaks the protocol or fails. streamErrorCode prefers
\* the context's error except for an interrupted stream.
ReceiveError(r) ==
  /\ At(r, "receive")
  /\ \E c \in AgentFailures \cup {"A2A_PROTOCOL_ERROR"} :
       h' = Outcome(r, IF Done(r) /\ c # "A2A_PROTOCOL_ERROR" THEN h[r].err ELSE c)
  /\ UNCHANGED <<rows, events, calls, faults, crashed>>

\* Mutant: a chunk that could not be recorded is sent on all the same.
AppendChunkUnchecked(r) ==
  LET e == ledgerEvent(r, "stream", NoCode, h[r].sse - 1)
  IN /\ At(r, "chunk")
     /\ Appended(r, e, FALSE) \/ \E f \in BOOLEAN : AppendFailed(r, e, FALSE, f)
     /\ h' = [h EXCEPT ![r].pc = "write", ![r].seq = @ + 1]
     /\ UNCHANGED <<calls, crashed>>

\* A chunk is recorded before it is sent on.
AppendChunk(r) ==
  LET e == ledgerEvent(r, "stream", NoCode, h[r].sse - 1)
  IN /\ At(r, "chunk")
     /\ \/ Appended(r, e, FALSE) /\ h' = [h EXCEPT ![r].pc = "write", ![r].seq = @ + 1]
        \/ \E f \in BOOLEAN :
             /\ AppendFailed(r, e, FALSE, f)
             /\ h' = [h EXCEPT ![r].pc = "chunkFailed", ![r].faulty = @ \/ f]
     /\ UNCHANGED <<calls, crashed>>

ChunkFailed(r) ==
  /\ At(r, "chunkFailed")
  /\ h' = IF Done(r) THEN Outcome(r, h[r].err)
          ELSE [h EXCEPT ![r].pc = "writeTerminal", ![r].type = "failed",
                         ![r].code = "DEPENDENCY_ERROR"]
  /\ UNCHANGED <<rows, events, calls, faults, crashed>>

\* The result stream validator has accepted the chunk by the time it is written,
\* so the stream sequence moves on whether or not the chunk gets through.
WriteChunk(r) ==
  /\ At(r, "write")
  /\ \/ h' = [Outcome(r, streamWriteErrorCode(r, "AGENT_RESPONSE_TOO_LARGE"))
                EXCEPT ![r].sse = @ + 1]
     \/ ~h[r].wire /\ h' = [Outcome(r, streamWriteErrorCode(r, "DEPENDENCY_ERROR"))
                             EXCEPT ![r].sse = @ + 1, ![r].lost = TRUE]
     \/ /\ h[r].wire
        /\ h' = [h EXCEPT ![r].sse = @ + 1,
                          ![r].pc = IF h[r].type = "none" THEN "receive" ELSE "verdict",
                          ![r].out = Append(@, Frame("chunk", h[r].sse, h[r].sse - 1, NoCode))]
  /\ UNCHANGED <<rows, events, calls, faults, crashed>>

\* The Agent's terminal event counts only if the context is still live.
Verdict(r) ==
  /\ At(r, "verdict")
  /\ h' = IF Done(r) THEN Outcome(r, h[r].err) ELSE [h EXCEPT ![r].pc = "finish"]
  /\ UNCHANGED <<rows, events, calls, faults, crashed>>

\* The terminal event is committed before the terminal frame is written; when it
\* cannot be, the frame reports the dependency instead.
AppendStreamingTerminal(r) ==
  LET e == ledgerEvent(r, h[r].type, h[r].code, NoChunk)
  IN /\ At(r, "finish")
     /\ \/ Appended(r, e, TRUE) /\ h' = [h EXCEPT ![r].pc = "writeTerminal", ![r].seq = @ + 1]
        \/ \E f \in BOOLEAN :
             /\ AppendFailed(r, e, TRUE, f)
             /\ h' = [h EXCEPT ![r].pc = "writeTerminal", ![r].type = "failed",
                               ![r].code = "DEPENDENCY_ERROR", ![r].faulty = @ \/ f]
     /\ UNCHANGED <<calls, crashed>>

\* A terminal frame that does not fit or cannot be written cancels the request's
\* context.
WriteTerminal(r) ==
  /\ At(r, "writeTerminal")
  /\ \/ /\ h[r].wire
        /\ h' = [h EXCEPT ![r].pc = "close",
                          ![r].out = Append(@, Frame(h[r].type, h[r].sse, NoChunk, h[r].code))]
     \/ /\ ~h[r].wire \/ "terminal" \notin FrameFits
        /\ h' = [h EXCEPT ![r].pc = "close", ![r].err = IF Done(r) THEN @ ELSE "CANCELED"]
  /\ UNCHANGED <<rows, events, calls, faults, crashed>>

\* Mutant: only a disconnect cancels the task, not the deadline.
CloseStreamOnDisconnect(r) ==
  /\ At(r, "close")
  /\ h' = [h EXCEPT ![r].pc = "done",
                    ![r].cancels = IF h[r].task /\ h[r].err = "CANCELED" THEN @ + 1 ELSE @]
  /\ UNCHANGED <<rows, events, calls, faults, crashed>>

\* Leaving SendStreaming: one attempt to cancel a known task if the context is
\* done; then the handler returns.
CloseStream(r) ==
  /\ At(r, "close")
  /\ h' = [h EXCEPT ![r].pc = "done", ![r].cancels = IF h[r].task /\ Done(r) THEN @ + 1 ELSE @]
  /\ UNCHANGED <<rows, events, calls, faults, crashed>>

-----------------------------------------------------------------------------
(* The environment *)

DeadlineExpires(r) ==
  /\ h[r].pc \notin Finished /\ ~Done(r)
  /\ h' = [h EXCEPT ![r].err = "TIMEOUT"]
  /\ UNCHANGED <<rows, events, calls, faults, crashed>>

\* The caller goes away: the server notices (the context) and writes fail (the
\* connection), in either order and with any delay.
ClientDisconnects(r) ==
  /\ h[r].pc \notin Finished
  /\ \/ ~Done(r) /\ h' = [h EXCEPT ![r].err = "CANCELED"]
     \/ h[r].wire /\ h' = [h EXCEPT ![r].wire = FALSE]
  /\ UNCHANGED <<rows, events, calls, faults, crashed>>

\* The process dies with all its handlers. Only the database survives.
Crash ==
  /\ MayCrash /\ ~crashed
  /\ crashed' = TRUE
  /\ h' = [r \in Requests |-> IF h[r].pc \in Finished THEN h[r] ELSE [h[r] EXCEPT !.pc = "dead"]]
  /\ UNCHANGED <<rows, events, calls, faults>>

-----------------------------------------------------------------------------

\* What the handler does by itself, or when its context is done.
HandlerStep(r) ==
  \/ ReadParent(r)
  \/ VersionInterrupted(r)
  \/ ResolveInterrupted(r)
  \/ AppendInitial(r)
  \/ InitialFailed(r)
  \/ AppendTerminal(r)
  \/ Reply(r)
  \/ SelectInterrupted(r)
  \/ CallAgent(r)
  \/ CallInterrupted(r)
  \/ WriteAccepted(r)
  \/ AppendChunk(r)
  \/ ChunkFailed(r)
  \/ WriteChunk(r)
  \/ Verdict(r)
  \/ AppendStreamingTerminal(r)
  \/ WriteTerminal(r)
  \/ CloseStream(r)

\* What others may or may not do: callers, Control Plane, instance directory,
\* Agent.
OthersStep(r) ==
  \/ Serve(r)
  \/ ServeNested(r)
  \/ ResolveInstalledVersion(r)
  \/ Resolve(r)
  \/ SelectTarget(r)
  \/ AgentAnswers(r)
  \/ ReceiveEvent(r)
  \/ ReceiveError(r)
  \/ DeadlineExpires(r)
  \/ ClientDisconnects(r)

DispatchNext ==
  \/ \E r \in Requests : HandlerStep(r) \/ OthersStep(r)
  \/ Crash

DispatchSpec == DispatchInit /\ [][DispatchNext]_dispatchVars

-----------------------------------------------------------------------------
(* Properties *)

\* The last frame of a result stream, or the JSON reply.
Outcomes(r) == {k \in DOMAIN h[r].out : h[r].out[k].type \in Terminal}

\* What the caller is told is what the Ledger records: once the Invocation is
\* accepted, a success or an error other than DEPENDENCY_ERROR is only ever
\* reported after the same outcome was committed, and DEPENDENCY_ERROR only if
\* it was committed or the database failed the handler.
OutcomeIsRecorded ==
  \A r \in Requests : \A k \in Outcomes(r) : h[r].seq > 0 =>
    LET o == h[r].out[k]
        row == rows[InvocationOf[r]]
    IN \/ row.status = o.type /\ row.code = o.code
       \/ o.code = "DEPENDENCY_ERROR" /\ h[r].faulty

\* No Agent side effect without a record of it, and none twice: the Agent of an
\* Invocation is called at most once, by the handler whose created, routing and
\* started events are committed, whatever is retried, duplicated or in doubt.
AgentCalledOnce ==
  \A i \in Invocations :
    calls[i] <= 1 /\ (calls[i] = 1 => Len(events[i]) >= 3 /\ events[i][3].type = "started")

\* A result stream begins with accepted, its sequence numbers increase, its
\* chunk indexes are gapless from zero, every chunk in it was recorded first,
\* and nothing follows the first terminal frame.
StreamWellFormed ==
  \A r \in Streams :
    LET out == h[r].out
        recorded == {events[InvocationOf[r]][k].chunk : k \in DOMAIN events[InvocationOf[r]]}
    IN out # <<>> /\ out[1].type = "accepted" =>
         \A k \in 2 .. Len(out) :
           /\ out[k].seq > out[k - 1].seq
           /\ out[k - 1].type \in {"accepted", "chunk"}
           /\ out[k].type = "chunk" => out[k].chunk = k - 2 /\ out[k].chunk \in recorded

\* The sequence numbers a caller sees are gapless (IRT-STREAM-001).
StreamGapless ==
  \A r \in Streams : \A k \in 2 .. Len(h[r].out) : h[r].out[k].seq = h[r].out[k - 1].seq + 1

\* A remote task is cancelled at most once, only if its Agent was called, and only
\* when the Invocation is terminal in the Ledger: cancelling can never take the
\* place of recording. The one exception is a handler that the database failed,
\* on a chunk or on the outcome, which gives up on recording.
CancelAfterOutcome ==
  \A r \in Requests :
    h[r].cancels <= 1 /\ (h[r].cancels = 1 =>
      /\ calls[InvocationOf[r]] = 1
      /\ rows[InvocationOf[r]].status \in Terminal \/ h[r].faulty)

\* TIMEOUT belongs only to timed_out, CANCELED only to canceled, and failed
\* excludes both: a handler never asks the Ledger for a terminal event that the
\* Event schema refuses.
TerminalsAreValid ==
  \A r \in Requests : h[r].pc \in {"terminal", "finish"} =>
    ValidateInvocationEventV03(ledgerEvent(r, h[r].type, h[r].code, NoChunk))

\* Cancellation and dependency failures stay distinguishable in the Ledger: an
\* Invocation is recorded as DEPENDENCY_ERROR only when a dependency of the
\* request (target selection, database, the caller's connection) failed.
DependencyErrorsAreReal ==
  \A r \in Requests :
    /\ rows[InvocationOf[r]].status = "failed"
    /\ rows[InvocationOf[r]].code = "DEPENDENCY_ERROR"
    => h[r].faulty \/ h[r].lost

\* Every request is answered or given up: no handler waits forever, on the
\* Control Plane, the directory, the Agent or its caller.
HandlersFinish ==
  \A r \in Requests : (h[r].pc # "idle") ~> (h[r].pc \in {"done", "dead"})

\* An accepted Invocation reaches a terminal status, whatever the Agent, the
\* directory, the deadline and the caller's connection do, unless the Router
\* crashed or the database failed the handler or left a commit in doubt.
AcceptedTerminates ==
  \A r \in Requests :
    (h[r].seq > 0) ~> (rows[InvocationOf[r]].status \in Terminal \/ h[r].faulty \/ crashed)

\* A task of a remote Agent that is known when the deadline passes or the caller
\* leaves is asked to cancel, once, unless the Router crashed.
TaskIsCancelled ==
  \A r \in Requests :
    (h[r].task /\ Done(r) /\ h[r].pc # "done") ~> (h[r].cancels = 1 \/ crashed)
=============================================================================
