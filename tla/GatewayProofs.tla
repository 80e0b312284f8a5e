--------------------------- MODULE GatewayProofs ----------------------------
(***************************************************************************)
(* Proofs about module Gateway: the gateway leaves the Router a Router, so *)
(* all that is proved of Dispatch holds behind it, and what a caller of    *)
(* the Control Plane was told stays true.                                  *)
(*                                                                         *)
(* Besides the invariant of the handlers, the argument needs that a        *)
(* refusal precedes every event (RefusalOK), that the gateway gives an     *)
(* answer without identifiers only before the request leaves for the       *)
(* Router, and that what it relayed is the beginning of what the Router    *)
(* wrote, which only grows (RelayOK).                                      *)
(***************************************************************************)
EXTENDS Gateway, DispatchProofs

-----------------------------------------------------------------------------
(* The inductive invariant *)

CallPoints == {"idle", "authorize", "ids", "dispatch", "wait", "relay", "done"}
CallErrors == {NoCode, "UNAUTHENTICATED", "NOT_ACCEPTABLE", "INTERNAL_ERROR", "TIMEOUT",
               "DEPENDENCY_ERROR"} \cup invokeRequestErrors \cup workspaceErrorCodes
Calls == [pc : CallPoints, sent : Flags, error : CallErrors, ids : Flags, got : Bodies]

Begins(s, t) == Len(s) <= Len(t) /\ \A k \in 1 .. Len(s) : s[k] = t[k]

\* The gateway's handler c of a request whose handler at the Router is x.
RelayOK(c, x) ==
  /\ c \in Calls
  /\ c.sent \/ x.pc = "idle"
  /\ c.pc \in {"idle", "authorize", "ids", "dispatch"} => ~c.sent
  /\ c.pc # "done" => c.error = NoCode
  /\ c.error # NoCode /\ ~c.ids => ~c.sent
  /\ Begins(c.got, x.out)

Replied == {"reply", "done", "dead"}

\* The Router has refused the request before there was an Invocation.
Refused(x) ==
  \/ x.code \in readRequestErrors
  \/ \E k \in 1 .. Len(x.out) : x.out[k].code \in readRequestErrors

\* A refusal ends the handler, and there is no Invocation then.
RefusalOK(x, row) ==
  /\ Refused(x) => x.pc \in Replied
  /\ row # NoRow => x.pc \notin Opening /\ ~Refused(x)

GatewayInv ==
  /\ DispatchInv
  /\ call \in [Gated -> Calls]
  /\ \A r \in Gated : RelayOK(call[r], h[r]) /\ RefusalOK(h[r], rows[InvocationOf[r]])

-----------------------------------------------------------------------------
(* What one step of a handler at the Router can say *)

Answered(x, y) ==
  /\ y.out = x.out \/ \E f : y.out = Append(x.out, f) /\ f.code \in {x.code, NoCode}
  /\ y.code \in readRequestErrors => x.code \in readRequestErrors \/ (x.pc \in Opening /\ y.pc = "reply")
  /\ y.pc \in Opening => x.pc \in Opening
  /\ x.pc \in Replied => y.pc \in Replied

\* Request r speaks: no other handler moves, and only a handler past its opening
\* touches a row, that of its own Invocation.
Speaks(r) ==
  /\ \A q \in Requests \ {r} : h'[q] = h[q]
  /\ Answered(h[r], h'[r])
  /\ \A i \in Invocations :
       rows'[i] = rows[i] \/ (i = InvocationOf[r] /\ h[r].pc \notin Opening \cup Replied)

\* What was relayed stays the beginning of what the Router writes.
LEMMA BeginsStill ==
  ASSUME NEW s \in Bodies, NEW x \in Handlers, NEW y \in Handlers, Answered(x, y),
         Begins(s, x.out)
  PROVE  Begins(s, y.out)
<1>1. x.out \in Seq(Frames) /\ y.out \in Seq(Frames) /\ s \in Seq(Frames)
  BY HandlerFields, Zenon DEF Bodies
<1>2. CASE y.out = x.out
  BY <1>2, Zenon
<1>3. CASE \E f : y.out = Append(x.out, f)
  <2>1. PICK f : y.out = Append(x.out, f)
    BY <1>3, Zenon
  <2>2. Len(y.out) = Len(x.out) + 1 /\ \A k \in 1 .. Len(x.out) : y.out[k] = x.out[k]
    BY <1>1, <2>1
  <2> QED
    BY <1>1, <2>2 DEF Begins
<1> QED
  BY <1>2, <1>3 DEF Answered

\* A step that is not an opening's adds no refusal.
LEMMA RefusesNot ==
  ASSUME NEW x \in Handlers, NEW y \in Handlers, Answered(x, y), ~Refused(x)
  PROVE  Refused(y) => x.pc \in Opening /\ y.pc = "reply"
<1>1. x.out \in Seq(Frames) /\ y.out \in Seq(Frames)
  BY HandlerFields, Zenon DEF Bodies
<1>2. NoCode \notin readRequestErrors
  BY Zenon DEF NoCode, readRequestErrors
<1>3. x.code \notin readRequestErrors
  BY Zenon DEF Refused
<1>4. \A k \in 1 .. Len(y.out) : y.out[k].code \notin readRequestErrors
  <2>1. CASE y.out = x.out
    BY <2>1, Zenon DEF Refused
  <2>2. CASE \E f : y.out = Append(x.out, f) /\ f.code \in {x.code, NoCode}
    <3>1. PICK f : y.out = Append(x.out, f) /\ f.code \in {x.code, NoCode}
      BY <2>2, Zenon
    <3>2. /\ Len(y.out) = Len(x.out) + 1 /\ y.out[Len(x.out) + 1] = f
          /\ \A k \in 1 .. Len(x.out) : y.out[k] = x.out[k]
      BY <1>1, <3>1
    <3> QED
      BY <1>1, <1>2, <1>3, <3>1, <3>2 DEF Refused
  <2> QED
    BY <2>1, <2>2 DEF Answered
<1> QED
  BY <1>3, <1>4 DEF Refused, Answered

\* The step of a handler keeps refusals and rows apart.
LEMMA RefusalKept ==
  ASSUME NEW x \in Handlers, NEW y \in Handlers, Answered(x, y), NEW row, NEW row2,
         RefusalOK(x, row), row2 = row \/ x.pc \notin Opening \cup Replied
  PROVE  RefusalOK(y, row2)
<1>1. CASE Refused(x)
  <2>1. x.pc \in Replied /\ row = NoRow /\ y.pc \in Replied
    BY <1>1, Zenon DEF RefusalOK, Answered
  <2> QED
    BY <2>1, Zenon DEF RefusalOK
<1>2. CASE ~Refused(x)
  <2>1. Refused(y) => x.pc \in Opening /\ y.pc = "reply"
    BY <1>2, RefusesNot
  <2>2. row2 # NoRow => x.pc \notin Opening
    BY Zenon DEF RefusalOK
  <2> QED
    BY <2>1, <2>2 DEF RefusalOK, Answered, Replied
<1> QED
  BY <1>1, <1>2

-----------------------------------------------------------------------------
(* The steps of the Router *)

\* A step of r that leaves the Ledger alone and touches neither the body nor,
\* except with a code that is no refusal, the code.
LEMMA QuietSpeaks ==
  ASSUME DispatchInv, NEW r \in Requests, NEW y, Becomes(r, y), UNCHANGED rows,
         Answered(h[r], y)
  PROVE  Speaks(r)
  BY HandlerFacts, Zenon DEF Becomes, Speaks

\* The opening: a handler goes on, or replies.
LEMMA OpeningSpeaks ==
  ASSUME DispatchInv, NEW r \in Requests,
         \/ Serve(r) \/ ServeNested(r) \/ ReadParent(r) \/ ResolveInstalledVersion(r)
         \/ VersionInterrupted(r) \/ Resolve(r) \/ ResolveInterrupted(r)
  PROVE  Speaks(r)
<1>1. h \in [Requests -> Handlers] /\ h[r] \in Handlers
  BY HandlerFacts
<1>2. h[r].pc \in Opening /\ UNCHANGED rows
  BY Zenon DEF Serve, ServeNested, ReadParent, ResolveInstalledVersion, VersionInterrupted, Resolve,
     ResolveInterrupted, At, Opening
<1>3. ASSUME NEW code, ReplyWith(r, code)
      PROVE  Speaks(r)
  <2> DEFINE y == [h[r] EXCEPT !.pc = "reply", !.type = "failed", !.code = code]
  <2>1. Becomes(r, y)
    BY <1>1, <1>3, Zenon DEF ReplyWith, Becomes
  <2>2. y.out = h[r].out /\ y.pc = "reply"
    BY <1>1, Zenon DEF Handlers
  <2> HIDE DEF y
  <2>3. Answered(h[r], y)
    BY <1>2, <2>2 DEF Answered, Opening, Replied
  <2> QED
    BY <1>2, <2>1, <2>3, QuietSpeaks
<1>4. ASSUME NEW p \in {"resolve", "version"}, NEW c,
             h' = [h EXCEPT ![r].pc = p, ![r].ctx = c]
      PROVE  Speaks(r)
  <2> DEFINE y == [h[r] EXCEPT !.pc = p, !.ctx = c]
  <2>1. Becomes(r, y)
    BY <1>1, <1>4, Zenon DEF Becomes
  <2>2. y.out = h[r].out /\ y.pc = p /\ y.code = h[r].code
    BY <1>1, Zenon DEF Handlers
  <2> HIDE DEF y
  <2>3. Answered(h[r], y)
    BY <1>2, <2>2 DEF Answered, Opening, Replied
  <2> QED
    BY <1>2, <2>1, <2>3, QuietSpeaks
<1>5. ASSUME NEW p \in {"parent", "resolve", "initial"}, h' = [h EXCEPT ![r].pc = p]
      PROVE  Speaks(r)
  <2> DEFINE y == [h[r] EXCEPT !.pc = p]
  <2>1. Becomes(r, y)
    BY <1>1, <1>5, Zenon DEF Becomes
  <2>2. y.out = h[r].out /\ y.pc = p /\ y.code = h[r].code
    BY <1>1, Zenon DEF Handlers
  <2> HIDE DEF y
  <2>3. Answered(h[r], y)
    BY <1>2, <2>2 DEF Answered, Opening, Replied
  <2> QED
    BY <1>2, <2>1, <2>3, QuietSpeaks
<1>6. CASE h' = [h EXCEPT ![r].pc = "initial", ![r].type = "failed", ![r].code = "ROUTE_NOT_FOUND"]
  <2> DEFINE y == [h[r] EXCEPT !.pc = "initial", !.type = "failed", !.code = "ROUTE_NOT_FOUND"]
  <2>1. Becomes(r, y)
    BY <1>1, <1>6, Zenon DEF Becomes
  <2>2. y.out = h[r].out /\ y.pc = "initial" /\ y.code = "ROUTE_NOT_FOUND"
    BY <1>1, Zenon DEF Handlers
  <2> HIDE DEF y
  <2>3. Answered(h[r], y)
    BY <1>2, <2>2 DEF Answered, Opening, Replied, readRequestErrors
  <2> QED
    BY <1>2, <2>1, <2>3, QuietSpeaks, Zenon
<1>7. CASE Serve(r)
  BY <1>3, <1>4, <1>7, Zenon DEF Serve
<1>8. CASE ServeNested(r)
  BY <1>3, <1>5, <1>8, Zenon DEF ServeNested
<1>r. CASE ReadParent(r)
  BY <1>3, <1>4, <1>r, Zenon DEF ReadParent
<1>9. CASE ResolveInstalledVersion(r)
  BY <1>3, <1>5, <1>9, Zenon DEF ResolveInstalledVersion
<1>10. CASE VersionInterrupted(r) \/ ResolveInterrupted(r)
  BY <1>3, <1>10, Zenon DEF VersionInterrupted, ResolveInterrupted
<1>11. CASE Resolve(r)
  BY <1>3, <1>5, <1>6, <1>11, Zenon DEF Resolve
<1> QED
  BY <1>7, <1>8, <1>r, <1>9, <1>10, <1>11, Zenon

\* Codes that a handler past its opening can carry are no refusals.
LEMMA LaterCodes ==
  ASSUME DispatchInv, NEW r \in Requests
  PROVE  /\ h[r].err \notin readRequestErrors
         /\ \A c \in AgentFailures : c \notin readRequestErrors
         /\ {"DEPENDENCY_ERROR", "A2A_PROTOCOL_ERROR", "AGENT_RESPONSE_TOO_LARGE", "TIMEOUT",
             "CANCELED", "AGENT_EXECUTION_FAILED", NoCode} \cap readRequestErrors = {}
<1>1. h[r].err \in Errs
  BY HandlerFacts, HandlerFields
<1> QED
  BY <1>1, GatewayAssumption DEF Errs, readRequestErrors, NoCode

\* A handler past its opening goes on without writing.
LEMMA GoesOn ==
  ASSUME DispatchInv, NEW r \in Requests, UNCHANGED rows, h[r].pc \notin Opening \cup Replied,
         \A q \in Requests \ {r} : h'[q] = h[q],
         h'[r].pc \notin Opening, h'[r].out = h[r].out,
         h'[r].code = h[r].code \/ h'[r].code \notin readRequestErrors
  PROVE  Speaks(r)
  BY Zenon DEF Speaks, Answered

\* A handler past its opening writes one frame with the code it carries, or none.
LEMMA Writes ==
  ASSUME DispatchInv, NEW r \in Requests, UNCHANGED rows, h[r].pc \notin Opening,
         \A q \in Requests \ {r} : h'[q] = h[q],
         h'[r].pc \notin Opening, h[r].pc \in Replied => h'[r].pc \in Replied,
         NEW f, h'[r].out = Append(h[r].out, f), f.code \in {h[r].code, NoCode},
         h'[r].code = h[r].code
  PROVE  Speaks(r)
  BY Zenon DEF Speaks, Answered

\* It takes an outcome.
LEMMA OutcomeSpeaks ==
  ASSUME DispatchInv, NEW r \in Requests, UNCHANGED rows, h[r].pc \notin Opening \cup Replied,
         NEW c \in ErrorCodes, c \notin readRequestErrors,
         \/ h' = Outcome(r, c)
         \/ h' = [Outcome(r, c) EXCEPT ![r].task = TRUE]
         \/ h' = [Outcome(r, c) EXCEPT ![r].lost = TRUE]
         \/ \E n : h' = [Outcome(r, c) EXCEPT ![r].sse = n]
         \/ \E n : h' = [Outcome(r, c) EXCEPT ![r].sse = n, ![r].lost = TRUE]
  PROVE  Speaks(r)
<1> DEFINE g == Outcome(r, c)
           yes == TRUE
<1>1. /\ g \in [Requests -> Handlers] /\ \A q \in Requests \ {r} : g[q] = h[q]
      /\ g[r].pc \in {"finish", "terminal"} /\ g[r].code = c /\ g[r].out = h[r].out
  BY HandlerFacts, OutcomeFields
<1>2. \/ h' = g
      \/ h' = [g EXCEPT ![r].task = yes]
      \/ h' = [g EXCEPT ![r].lost = yes]
      \/ \E n : h' = [g EXCEPT ![r].sse = n]
      \/ \E n : h' = [g EXCEPT ![r].sse = n, ![r].lost = yes]
  BY Zenon
<1> HIDE DEF g, yes
<1>3. \/ h'[r] = g[r]
      \/ h'[r] = [g[r] EXCEPT !.task = yes]
      \/ h'[r] = [g[r] EXCEPT !.lost = yes]
      \/ \E n : h'[r] = [g[r] EXCEPT !.sse = n]
      \/ \E n : h'[r] = [g[r] EXCEPT !.sse = n, !.lost = yes]
  BY <1>1, <1>2, ZenonT(60)
<1>4. \A q \in Requests \ {r} : h'[q] = g[q]
  BY <1>1, <1>2, Zenon
<1>5. h'[r].pc = g[r].pc /\ h'[r].code = g[r].code /\ h'[r].out = g[r].out
  BY <1>1, <1>3, ZenonT(60) DEF Handlers
<1> QED
  BY <1>1, <1>4, <1>5, GoesOn DEF Opening

\* Steps that end in an outcome, or go on.
LEMMA CallSpeaks ==
  ASSUME DispatchInv, NEW r \in Requests,
         \/ SelectTarget(r) \/ SelectInterrupted(r) \/ CallAgent(r) \/ AgentAnswers(r)
         \/ CallInterrupted(r) \/ ReceiveEvent(r) \/ ReceiveError(r) \/ ChunkFailed(r) \/ Verdict(r)
  PROVE  Speaks(r)
<1>1. h[r].pc \notin Opening \cup Replied /\ UNCHANGED rows
  BY Zenon DEF SelectTarget, SelectInterrupted, CallAgent, AgentAnswers, CallInterrupted, ReceiveEvent,
     ReceiveError, ChunkFailed, Verdict, At, Opening, Replied
<1>2. /\ Done(r) => h[r].err \in ErrorCodes
      /\ {"DEPENDENCY_ERROR", "A2A_PROTOCOL_ERROR"} \cup AgentFailures \subseteq ErrorCodes
      /\ \A e : selectErrorCode(r, e) \in {e, "DEPENDENCY_ERROR"}
      /\ dispatchErrorCode(h[r].err) \in {h[r].err, "DEPENDENCY_ERROR"}
      /\ {"TIMEOUT", "CANCELED"} \subseteq ErrorCodes
  BY ContextError, DispatchAssumption, Zenon DEF dispatchErrorCode, selectErrorCode
<1>3. h \in [Requests -> Handlers]
  BY HandlerFacts
<1>4. CASE SelectTarget(r) \/ SelectInterrupted(r)
  <2>1. CASE h' = [h EXCEPT ![r].pc = "call"]
    BY <1>1, <1>3, <2>1, GoesOn DEF Opening, Handlers
  <2>2. CASE \E c \in ErrorCodes : c \notin readRequestErrors /\
               (h' = Outcome(r, c) \/ h' = [Outcome(r, c) EXCEPT ![r].lost = TRUE])
    BY <1>1, <2>2, OutcomeSpeaks, Zenon
  <2>3. \A c \in {"DEPENDENCY_ERROR"} \cup {selectErrorCode(r, e) : e \in {"TIMEOUT", "CANCELED"}} :
          c \in ErrorCodes /\ c \notin readRequestErrors
    <3>1. {"DEPENDENCY_ERROR", "TIMEOUT", "CANCELED"} \cap readRequestErrors = {}
      BY LaterCodes, Zenon
    <3> QED
      BY <1>2, <3>1, Zenon
  <2>4. Done(r) => /\ selectErrorCode(r, h[r].err) \in ErrorCodes
                   /\ selectErrorCode(r, h[r].err) \notin readRequestErrors
    BY <1>2, LaterCodes, Zenon
  <2>5. \A c \in {"A2A_PROTOCOL_ERROR"} \cup (IF Done(r) THEN {h[r].err} ELSE {}) :
          c \in ErrorCodes /\ c \notin readRequestErrors
    BY <1>2, LaterCodes, Zenon
  <2>6. CASE SelectTarget(r)
    BY <2>1, <2>2, <2>3, <2>5, <2>6, Zenon DEF SelectTarget
  <2>7. CASE SelectInterrupted(r)
    BY <2>2, <2>4, <2>7, Zenon DEF SelectInterrupted
  <2> QED
    BY <1>4, <2>6, <2>7, Zenon
<1>5. CASE CallAgent(r)
  BY <1>1, <1>3, <1>5, GoesOn DEF CallAgent, Opening, Handlers
<1>6. CASE AgentAnswers(r)
  <2>1. CASE h' = [h EXCEPT ![r].pc = "terminal", ![r].type = "succeeded"]
    BY <1>1, <1>3, <2>1, GoesOn DEF Opening, Handlers
  <2>2. CASE \E c \in ErrorCodes : c \notin readRequestErrors /\ h' = Outcome(r, c)
    BY <1>1, <2>2, OutcomeSpeaks, Zenon
  <2> QED
    BY <1>2, <1>6, <2>1, <2>2, LaterCodes DEF AgentAnswers
<1>7. CASE CallInterrupted(r)
  BY <1>1, <1>2, <1>7, LaterCodes, OutcomeSpeaks, Zenon DEF CallInterrupted
<1>8. CASE ReceiveEvent(r)
  <2>1. CASE \E c \in ErrorCodes : c \notin readRequestErrors /\
               h' = [Outcome(r, c) EXCEPT ![r].task = TRUE]
    BY <1>1, <2>1, OutcomeSpeaks, Zenon
  <2>2. CASE \E t, c, task : /\ c = h[r].code \/ c \notin readRequestErrors
                             /\ h' = [h EXCEPT ![r].pc = "chunk", ![r].task = task,
                                               ![r].type = t, ![r].code = c]
    BY <1>1, <1>3, <2>2, GoesOn DEF Opening, Handlers
  <2>3. ASSUME NEW o \in mapA2AStreamEvent, o # NoOutcome
        PROVE  o[2] \notin readRequestErrors
    <3>1. o \in {<<"succeeded", NoCode>>, <<"failed", "AGENT_EXECUTION_FAILED">>,
                 <<"canceled", "CANCELED">>}
      BY <2>3 DEF mapA2AStreamEvent, MapA2ATaskState, NoOutcome
    <3>2. o[2] \in {NoCode, "AGENT_EXECUTION_FAILED", "CANCELED"}
      BY <3>1
    <3> QED
      BY <3>2, LaterCodes, Zenon
  <2>4. PICK o \in mapA2AStreamEvent :
        h' = IF o # NoOutcome /\ Done(r)
             THEN [Outcome(r, h[r].err) EXCEPT ![r].task = TRUE]
             ELSE [h EXCEPT ![r].pc = "chunk", ![r].task = TRUE,
                            ![r].type = IF o = NoOutcome THEN @ ELSE o[1],
                            ![r].code = IF o = NoOutcome THEN @ ELSE o[2]]
    BY <1>8, Zenon DEF ReceiveEvent
  <2>5. CASE o # NoOutcome /\ Done(r)
    BY <1>2, <2>1, <2>4, <2>5, LaterCodes, Zenon
  <2>6. CASE ~(o # NoOutcome /\ Done(r))
    <3> DEFINE t == IF o = NoOutcome THEN h[r].type ELSE o[1]
               c == IF o = NoOutcome THEN h[r].code ELSE o[2]
               yes == TRUE
    <3>1. h' = [h EXCEPT ![r].pc = "chunk", ![r].task = yes, ![r].type = t, ![r].code = c]
      BY <2>4, <2>6
    <3>2. c = h[r].code \/ c \notin readRequestErrors
      BY <2>3
    <3> HIDE DEF t, c, yes
    <3> QED
      BY <2>2, <3>1, <3>2, Zenon
  <2> QED
    BY <2>5, <2>6
<1>9. CASE ReceiveError(r)
  <2>1. \E c \in ErrorCodes : c \notin readRequestErrors /\ h' = Outcome(r, c)
    BY <1>2, <1>9, LaterCodes DEF ReceiveError
  <2> QED
    BY <1>1, <2>1, OutcomeSpeaks, Zenon
<1>10. CASE ChunkFailed(r)
  <2>1. CASE h' = [h EXCEPT ![r].pc = "writeTerminal", ![r].type = "failed",
                            ![r].code = "DEPENDENCY_ERROR"]
    BY <1>1, <1>3, <2>1, LaterCodes, GoesOn DEF Opening, Handlers
  <2>2. CASE Done(r) /\ h' = Outcome(r, h[r].err)
    BY <1>1, <1>2, <2>2, LaterCodes, OutcomeSpeaks, Zenon
  <2> QED
    BY <1>10, <2>1, <2>2 DEF ChunkFailed
<1>11. CASE Verdict(r)
  <2>1. CASE h' = [h EXCEPT ![r].pc = "finish"]
    BY <1>1, <1>3, <2>1, GoesOn DEF Opening, Handlers
  <2>2. CASE Done(r) /\ h' = Outcome(r, h[r].err)
    BY <1>1, <1>2, <2>2, LaterCodes, OutcomeSpeaks, Zenon
  <2> QED
    BY <1>11, <2>1, <2>2 DEF Verdict
<1> QED
  BY <1>4, <1>5, <1>6, <1>7, <1>8, <1>9, <1>10, <1>11

\* Steps that write, give up or are interrupted.
LEMMA WriteSpeaks ==
  ASSUME DispatchInv, NEW r \in Requests,
         \/ InitialFailed(r) \/ Reply(r) \/ WriteAccepted(r) \/ WriteChunk(r) \/ WriteTerminal(r)
         \/ CloseStream(r)
  PROVE  Speaks(r)
<1>1. h[r].pc \notin Opening /\ UNCHANGED rows /\ (h[r].pc \in Replied => Reply(r))
  BY Zenon
     DEF InitialFailed, Reply, WriteAccepted, WriteChunk, WriteTerminal, CloseStream, At, Opening, Replied
<1>2. /\ \A c \in ErrorCodes : streamWriteErrorCode(r, c) \in ErrorCodes
      /\ \A c : streamWriteErrorCode(r, c) \in {c, h[r].err}
      /\ {"DEPENDENCY_ERROR", "AGENT_RESPONSE_TOO_LARGE"} \subseteq ErrorCodes
  BY ContextError, DispatchAssumption DEF streamWriteErrorCode
<1>3. h \in [Requests -> Handlers] /\ HandlerOK(r, h[r], rows[InvocationOf[r]], events[InvocationOf[r]])
  BY HandlerFacts
<1>4. CASE InitialFailed(r)
  <2>1. h[r].pc \notin Replied
    BY <1>4 DEF InitialFailed, At, Replied
  <2>2. PICK p, t, c :
          /\ p \in {"terminal", "reply"} /\ c \notin readRequestErrors
          /\ h' = [h EXCEPT ![r].pc = p, ![r].type = t, ![r].code = c]
    BY <1>4, LaterCodes, ZenonT(60) DEF InitialFailed, ReplyWith
  <2> QED
    BY <1>1, <1>3, <2>1, <2>2, GoesOn DEF Opening, Handlers
<1>5. CASE Reply(r)
  <2>1. h[r].pc = "reply" /\ h[r].out = <<>>
    BY <1>3, <1>5 DEF Reply, At, HandlerOK, Written
  <2>2. CASE h[r].wire
    <3> DEFINE f == Frame(h[r].type, 0, NoChunk, h[r].code)
    <3>1. h' = [h EXCEPT ![r].pc = "done", ![r].out = <<f>>]
      BY <1>5, <2>2 DEF Reply
    <3>2. f.code = h[r].code
      BY Zenon DEF Frame
    <3> HIDE DEF f
    <3>3. <<f>> = Append(h[r].out, f)
      BY <2>1
    <3> QED
      BY <1>1, <1>3, <3>1, <3>2, <3>3, Writes DEF Opening, Replied, Handlers
  <2>3. CASE ~h[r].wire
    <3>1. h' = [h EXCEPT ![r].pc = "done", ![r].out = h[r].out]
      BY <1>5, <2>3 DEF Reply
    <3> QED
      BY <1>1, <1>3, <3>1 DEF Speaks, Answered, Opening, Replied, Handlers
  <2> QED
    BY <2>2, <2>3
<1>6. CASE WriteAccepted(r)
  <2>1. h[r].pc = "accept" /\ h[r].out = <<>> /\ h[r].pc \notin Replied
    BY <1>3, <1>6 DEF WriteAccepted, At, HandlerOK, Written, Replied
  <2>2. CASE "accepted" \notin FrameFits
    <3> DEFINE c == streamWriteErrorCode(r, "AGENT_RESPONSE_TOO_LARGE")
    <3>1. h' = [h EXCEPT ![r].pc = "terminal", ![r].type = "failed", ![r].code = c]
      BY <1>6, <2>2 DEF WriteAccepted
    <3>2. c \notin readRequestErrors
      BY <1>2, LaterCodes
    <3> HIDE DEF c
    <3> QED
      BY <1>1, <1>3, <2>1, <3>1, <3>2, GoesOn DEF Opening, Handlers
  <2>3. CASE "accepted" \in FrameFits /\ ~h[r].wire
    <3> DEFINE c == streamWriteErrorCode(r, "DEPENDENCY_ERROR")
    <3>1. h' = [Outcome(r, c) EXCEPT ![r].sse = 1, ![r].lost = TRUE]
      BY <1>6, <2>3 DEF WriteAccepted
    <3>2. c \in ErrorCodes /\ c \notin readRequestErrors
      BY <1>2, LaterCodes
    <3> HIDE DEF c
    <3> QED
      BY <1>1, <2>1, <3>1, <3>2, OutcomeSpeaks, Zenon
  <2>4. CASE "accepted" \in FrameFits /\ h[r].wire
    <3> DEFINE f == Frame("accepted", 0, NoChunk, NoCode)
    <3>1. h' = [h EXCEPT ![r].pc = "select", ![r].sse = 1, ![r].out = <<f>>]
      BY <1>6, <2>4 DEF WriteAccepted
    <3>2. f.code = NoCode
      BY Zenon DEF Frame
    <3> HIDE DEF f
    <3>3. <<f>> = Append(h[r].out, f)
      BY <2>1
    <3> QED
      BY <1>1, <1>3, <2>1, <3>1, <3>2, <3>3, Writes, ZenonT(60) DEF Opening, Handlers
  <2> QED
    BY <2>2, <2>3, <2>4
<1>7. CASE WriteChunk(r)
  <2>1. h[r].pc = "write" /\ h[r].pc \notin Replied
    BY <1>7 DEF WriteChunk, At, Replied
  <2>2. CASE \E c \in ErrorCodes : c \notin readRequestErrors /\
               \/ \E n : h' = [Outcome(r, c) EXCEPT ![r].sse = n]
               \/ \E n : h' = [Outcome(r, c) EXCEPT ![r].sse = n, ![r].lost = TRUE]
    BY <1>1, <2>1, <2>2, OutcomeSpeaks, Zenon
  <2>3. ASSUME h' = [h EXCEPT ![r].sse = @ + 1,
                              ![r].pc = IF h[r].type = "none" THEN "receive" ELSE "verdict",
                              ![r].out = Append(@, Frame("chunk", h[r].sse, h[r].sse - 1, NoCode))]
        PROVE  Speaks(r)
    <3> DEFINE f == Frame("chunk", h[r].sse, h[r].sse - 1, NoCode)
               p == IF h[r].type = "none" THEN "receive" ELSE "verdict"
               n == h[r].sse + 1
    <3>1. h' = [h EXCEPT ![r].sse = n, ![r].pc = p, ![r].out = Append(h[r].out, f)]
      BY <1>3, <2>3
    <3>2. f.code = NoCode /\ p \notin Opening
      BY Zenon DEF Frame, Opening
    <3> HIDE DEF f, p, n
    <3> QED
      BY <1>1, <1>3, <2>1, <3>1, <3>2, Writes, SMTT(60) DEF Handlers
  <2>4. \A c \in {"DEPENDENCY_ERROR", "AGENT_RESPONSE_TOO_LARGE"} :
          streamWriteErrorCode(r, c) \in ErrorCodes /\ streamWriteErrorCode(r, c) \notin readRequestErrors
    BY <1>2, LaterCodes
  <2> QED
    BY <1>7, <2>2, <2>3, <2>4, Zenon DEF WriteChunk
<1>8. CASE WriteTerminal(r)
  <2>1. h[r].pc = "writeTerminal" /\ h[r].pc \notin Replied
    BY <1>8 DEF WriteTerminal, At, Replied
  <2>2. ASSUME h' = [h EXCEPT ![r].pc = "close",
                              ![r].out = Append(@, Frame(h[r].type, h[r].sse, NoChunk, h[r].code))]
        PROVE  Speaks(r)
    <3> DEFINE f == Frame(h[r].type, h[r].sse, NoChunk, h[r].code)
    <3>1. h' = [h EXCEPT ![r].pc = "close", ![r].out = Append(h[r].out, f)]
      BY <1>3, <2>2
    <3>2. f.code = h[r].code
      BY Zenon DEF Frame
    <3> HIDE DEF f
    <3> QED
      BY <1>1, <1>3, <2>1, <3>1, <3>2, Writes DEF Opening, Handlers
  <2>3. ASSUME NEW e, h' = [h EXCEPT ![r].pc = "close", ![r].err = e]
        PROVE  Speaks(r)
    BY <1>1, <1>3, <2>1, <2>3, GoesOn DEF Opening, Handlers
  <2>4. h' = [h EXCEPT ![r].pc = "close", ![r].err = IF Done(r) THEN @ ELSE "CANCELED"]
          => \E e : h' = [h EXCEPT ![r].pc = "close", ![r].err = e]
    BY Zenon
  <2> QED
    BY <1>8, <2>2, <2>3, <2>4, Zenon DEF WriteTerminal
<1>9. CASE CloseStream(r)
  <2>1. PICK n : h' = [h EXCEPT ![r].pc = "done", ![r].cancels = n]
    BY <1>9, Zenon DEF CloseStream
  <2>2. h[r].pc \notin Replied
    BY <1>9 DEF CloseStream, At, Replied
  <2> QED
    BY <1>1, <1>3, <2>1, <2>2, GoesOn DEF Opening, Handlers
<1> QED
  BY <1>4, <1>5, <1>6, <1>7, <1>8, <1>9

\* A context that ends, or a connection that breaks, says nothing.
LEMMA EnvironmentSpeaks ==
  ASSUME DispatchInv, NEW r \in Requests, DeadlineExpires(r) \/ ClientDisconnects(r)
  PROVE  Speaks(r)
<1>1. h \in [Requests -> Handlers]
  BY HandlerFacts, Zenon
<1>2. PICK e, w : UNCHANGED rows /\ (h' = [h EXCEPT ![r].err = e] \/ h' = [h EXCEPT ![r].wire = w])
  BY Zenon DEF DeadlineExpires, ClientDisconnects
<1> QED
  BY <1>1, <1>2, ZenonT(60) DEF Speaks, Answered, Handlers

\* An append touches no row but that of the handler's own Invocation.
LEMMA AppendTouches ==
  ASSUME DispatchInv, NEW r \in Requests, NEW e, NEW grace, NEW f,
         e.invocation = InvocationOf[r], Appended(r, e, grace) \/ AppendFailed(r, e, grace, f)
  PROVE  \A i \in Invocations : i # InvocationOf[r] => rows'[i] = rows[i]
<1>1. LedgerAppend(e) \/ UNCHANGED rows
  BY Zenon DEF Appended, AppendFailed
<1>2. rows \in [Invocations -> Row \cup {NoRow}]
  BY Zenon DEF DispatchInv, LedgerInv, LedgerTypeOK
<1> QED
  BY <1>1, <1>2 DEF LedgerAppend, Commit

\* The appends say nothing to the caller.
LEMMA AppendSpeaks ==
  ASSUME DispatchInv, NEW r \in Requests,
         AppendInitial(r) \/ AppendChunk(r) \/ AppendTerminal(r) \/ AppendStreamingTerminal(r)
  PROVE  Speaks(r)
<1>1. h[r].pc \notin Opening \cup Replied
  BY Zenon
     DEF AppendInitial, AppendChunk, AppendTerminal, AppendStreamingTerminal, At, Opening, Replied
<1>2. h \in [Requests -> Handlers]
  BY HandlerFacts
<1>3. \A t, c, k : ledgerEvent(r, t, c, k).invocation = InvocationOf[r]
  BY Zenon DEF ledgerEvent, lifecycleEvent
<1>4. \A i \in Invocations : i # InvocationOf[r] => rows'[i] = rows[i]
  <2>1. PICK t, c, k, grace, f :
          \/ Appended(r, ledgerEvent(r, t, c, k), grace)
          \/ AppendFailed(r, ledgerEvent(r, t, c, k), grace, f)
    BY Zenon DEF AppendInitial, AppendChunk, AppendTerminal, AppendStreamingTerminal
  <2> DEFINE e == ledgerEvent(r, t, c, k)
  <2>2. e.invocation = InvocationOf[r] /\ (Appended(r, e, grace) \/ AppendFailed(r, e, grace, f))
    BY <1>3, <2>1, Zenon
  <2> HIDE DEF e
  <2> QED
    BY <2>2, AppendTouches, Zenon
<1> DEFINE Quiet == /\ \A q \in Requests \ {r} : h'[q] = h[q]
                    /\ h'[r].out = h[r].out /\ h'[r].pc \notin Opening
                    /\ h'[r].code \in {h[r].code, "DEPENDENCY_ERROR"}
           Later == {"initial", "initialFailed", "terminal", "accept", "select", "reply", "write",
                     "chunkFailed", "writeTerminal"}
<1>5. ASSUME NEW p \in Later, NEW n, h' = [h EXCEPT ![r].pc = p, ![r].seq = n]
      PROVE  Quiet
  BY <1>2, <1>5 DEF Handlers, Opening
<1>6. ASSUME NEW p \in Later, NEW f, h' = [h EXCEPT ![r].pc = p, ![r].faulty = f]
      PROVE  Quiet
  BY <1>2, <1>6 DEF Handlers, Opening
<1>7. ASSUME NEW p \in Later, NEW f,
             h' = [h EXCEPT ![r].pc = p, ![r].type = "failed", ![r].code = "DEPENDENCY_ERROR",
                            ![r].faulty = f]
      PROVE  Quiet
  BY <1>2, <1>7 DEF Handlers, Opening
<1> SUFFICES Quiet
  BY <1>1, <1>4, LaterCodes DEF Speaks, Answered
<1> HIDE DEF Quiet
<1>8. CASE AppendInitial(r)
  <2> DEFINE p == IF h[r].seq + 1 < Len(InitialTypes(r)) THEN "initial"
                  ELSE IF h[r].code # NoCode THEN "terminal"
                  ELSE IF r \in Streams THEN "accept" ELSE "select"
  <2>1. p \in Later
    BY Zenon
  <2>2. \/ h' = [h EXCEPT ![r].pc = p, ![r].seq = h[r].seq + 1]
        \/ \E f : h' = [h EXCEPT ![r].pc = "initialFailed", ![r].faulty = h[r].faulty \/ f]
    BY <1>2, <1>8, Zenon DEF AppendInitial
  <2> HIDE DEF p
  <2> QED
    BY <1>5, <1>6, <2>1, <2>2, Zenon
<1>9. CASE AppendChunk(r)
  <2>1. \/ h' = [h EXCEPT ![r].pc = "write", ![r].seq = h[r].seq + 1]
        \/ \E f : h' = [h EXCEPT ![r].pc = "chunkFailed", ![r].faulty = h[r].faulty \/ f]
    BY <1>2, <1>9, Zenon DEF AppendChunk
  <2> QED
    BY <1>5, <1>6, <2>1, Zenon
<1>10. CASE AppendTerminal(r) \/ AppendStreamingTerminal(r)
  <2>1. \E p \in {"reply", "writeTerminal"} :
          \/ h' = [h EXCEPT ![r].pc = p, ![r].seq = h[r].seq + 1]
          \/ \E f : h' = [h EXCEPT ![r].pc = p, ![r].type = "failed", ![r].code = "DEPENDENCY_ERROR",
                                   ![r].faulty = h[r].faulty \/ f]
    BY <1>2, <1>10, Zenon DEF AppendTerminal, AppendStreamingTerminal
  <2> QED
    BY <1>5, <1>7, <2>1, Zenon
<1> QED
  BY <1>8, <1>9, <1>10

\* What a handler that dies has said stays said.
LEMMA CrashSpeaks ==
  ASSUME DispatchInv, NEW r \in Requests, Crash
  PROVE  Answered(h[r], h'[r]) /\ UNCHANGED rows
<1>1. h[r] \in Handlers /\ UNCHANGED rows
  BY HandlerFacts DEF Crash
<1>2. h'[r] = IF h[r].pc \in Finished THEN h[r] ELSE [h[r] EXCEPT !.pc = "dead"]
  BY Zenon DEF Crash
<1>3. h'[r].out = h[r].out /\ h'[r].code = h[r].code /\ (h'[r].pc = h[r].pc \/ h'[r].pc = "dead")
  BY <1>1, <1>2 DEF Handlers
<1> QED
  BY <1>1, <1>3 DEF Answered, Opening, Replied

\* What a step of the Router says to a caller of the gateway, whose request alone
\* can touch the row of its Invocation.
LEMMA RouterSpeaks ==
  ASSUME DispatchInv, DispatchNext, NEW r \in Gated
  PROVE  /\ Answered(h[r], h'[r])
         /\ \/ rows'[InvocationOf[r]] = rows[InvocationOf[r]]
            \/ h[r].pc \notin Opening \cup Replied
<1>1. r \in Requests /\ InvocationOf[r] \in Invocations
  BY DispatchAssumption DEF Gated
<1>2. ASSUME NEW q \in Requests, HandlerStep(q) \/ OthersStep(q)
      PROVE  Speaks(q)
  <2>1. CASE HandlerStep(q)
    BY <2>1, OpeningSpeaks, CallSpeaks, WriteSpeaks, AppendSpeaks, Zenon DEF HandlerStep
  <2>2. CASE OthersStep(q)
    BY <2>2, OpeningSpeaks, CallSpeaks, EnvironmentSpeaks, Zenon DEF OthersStep
  <2> QED
    BY <1>2, <2>1, <2>2
<1>3. ASSUME NEW q \in Requests, Speaks(q)
      PROVE  /\ Answered(h[r], h'[r])
             /\ \/ rows'[InvocationOf[r]] = rows[InvocationOf[r]]
                \/ h[r].pc \notin Opening \cup Replied
  <2>1. CASE q = r
    BY <1>1, <1>3, <2>1 DEF Speaks
  <2>2. CASE q # r
    <3>1. h'[r] = h[r] /\ InvocationOf[q] # InvocationOf[r]
      BY <1>1, <1>3, <2>2, GatewayAssumption DEF Speaks
    <3> QED
      BY <1>1, <1>3, <3>1 DEF Speaks, Answered
  <2> QED
    BY <2>1, <2>2
<1> QED
  BY <1>1, <1>2, <1>3, CrashSpeaks DEF DispatchNext

-----------------------------------------------------------------------------
(* The steps of the gateway *)

\* A handler of the gateway goes on, or stops relaying.
LEMMA GoesOnOK ==
  ASSUME NEW x, NEW y, RelayOK(x, y), x.pc # "done", NEW p \in CallPoints,
         p \in {"idle", "authorize", "ids", "dispatch"} => x.pc \in {"idle", "authorize", "ids"},
         NEW c, c = [x EXCEPT !.pc = p]
  PROVE  RelayOK(c, y)
<1>1. /\ c \in Calls /\ c.pc = p /\ c.sent = x.sent /\ c.error = x.error /\ c.ids = x.ids
      /\ c.got = x.got
  BY Zenon DEF RelayOK, Calls
<1> QED
  BY <1>1, Zenon DEF RelayOK

\* It answers by itself before the request has left for the Router.
LEMMA PreErrorOK ==
  ASSUME NEW x, NEW y, RelayOK(x, y), x.pc \in {"idle", "authorize", "ids"},
         NEW code \in CallErrors, NEW c, c = [x EXCEPT !.pc = "done", !.error = code]
  PROVE  RelayOK(c, y)
<1>1. /\ c \in Calls /\ c.pc = "done" /\ c.sent = x.sent /\ c.got = x.got
  BY Zenon DEF RelayOK, Calls, CallPoints
<1>2. ~c.sent
  BY <1>1, Zenon DEF RelayOK
<1> QED
  BY <1>1, <1>2, Zenon DEF RelayOK

\* It answers with the identifiers of the Invocation.
LEMMA CorrelatedErrorOK ==
  ASSUME NEW x, NEW y, RelayOK(x, y), x.pc = "wait", NEW code \in CallErrors,
         NEW c, c = [x EXCEPT !.pc = "done", !.error = code, !.ids = TRUE]
  PROVE  RelayOK(c, y)
<1> DEFINE yes == TRUE
<1>1. yes \in Flags /\ yes /\ c = [x EXCEPT !.pc = "done", !.error = code, !.ids = yes]
  BY Zenon DEF Flags
<1> HIDE DEF yes
<1>2. /\ c \in Calls /\ c.pc = "done" /\ c.sent = x.sent /\ c.ids = yes /\ c.got = x.got
  BY <1>1, Zenon DEF RelayOK, Calls, CallPoints
<1> QED
  BY <1>1, <1>2, Zenon DEF RelayOK

\* It sends the request to the Router.
LEMMA SendOK ==
  ASSUME NEW x, NEW y, RelayOK(x, y), x.pc = "dispatch",
         NEW c, c = [x EXCEPT !.pc = "wait", !.sent = TRUE]
  PROVE  RelayOK(c, y)
<1> DEFINE yes == TRUE
<1>1. yes \in Flags /\ yes /\ c = [x EXCEPT !.pc = "wait", !.sent = yes]
  BY Zenon DEF Flags
<1> HIDE DEF yes
<1>2. /\ c \in Calls /\ c.pc = "wait" /\ c.sent = yes /\ c.error = x.error /\ c.got = x.got
  BY <1>1, Zenon DEF RelayOK, Calls, CallPoints
<1> QED
  BY <1>1, <1>2, Zenon DEF RelayOK

\* It relays more of what the Router wrote.
LEMMA RelayMoreOK ==
  ASSUME NEW x, NEW y, RelayOK(x, y), NEW g \in Bodies, Begins(g, y.out),
         NEW c, c = [x EXCEPT !.got = g]
  PROVE  RelayOK(c, y)
<1>1. /\ c \in Calls /\ c.pc = x.pc /\ c.sent = x.sent /\ c.error = x.error /\ c.ids = x.ids
      /\ c.got = g
  BY Zenon DEF RelayOK, Calls
<1> QED
  BY <1>1, Zenon DEF RelayOK

\* What is to be shown of the gateway after a step.
LEMMA GatewayInvNext ==
  ASSUME DispatchInv', call' \in [Gated -> Calls],
         \A r \in Gated : RelayOK(call'[r], h'[r]) /\ RefusalOK(h'[r], rows'[InvocationOf[r]])
  PROVE  GatewayInv'
  BY Zenon DEF GatewayInv, RelayOK, RefusalOK, Refused, Begins

\* A step of one handler of the gateway.
LEMMA CallStep ==
  ASSUME GatewayInv, NEW r \in Gated, NEW c, RelayOK(c, h[r]), call' = [call EXCEPT ![r] = c],
         UNCHANGED dispatchVars
  PROVE  GatewayInv'
<1>1. DispatchInv'
  BY DispatchInvStep DEF GatewayInv
<1>2. rows' = rows /\ h' = h
  BY Zenon DEF dispatchVars
<1>3. call \in [Gated -> Calls] /\ c \in Calls
  BY Zenon DEF GatewayInv, RelayOK
<1>4. call' \in [Gated -> Calls] /\ call'[r] = c /\ \A q \in Gated \ {r} : call'[q] = call[q]
  BY <1>3
<1>5. ASSUME NEW q \in Gated
      PROVE  RelayOK(call'[q], h'[q]) /\ RefusalOK(h'[q], rows'[InvocationOf[q]])
  BY <1>2, <1>4, Zenon DEF GatewayInv
<1> QED
  BY <1>1, <1>4, <1>5, GatewayInvNext, Zenon

\* The gateway's own errors before the request has left.
LEMMA PreErrorStep ==
  ASSUME GatewayInv, NEW r \in Gated, call[r].pc \in {"idle", "authorize", "ids"},
         NEW code \in CallErrors, writePreError(r, code), UNCHANGED dispatchVars
  PROVE  GatewayInv'
<1> DEFINE c == [call[r] EXCEPT !.pc = "done", !.error = code]
<1>1. RelayOK(c, h[r])
  BY PreErrorOK, Zenon DEF GatewayInv
<1>2. call' = [call EXCEPT ![r] = c]
  BY Zenon DEF writePreError, GatewayInv
<1> HIDE DEF c
<1> QED
  BY <1>1, <1>2, CallStep, Zenon

LEMMA CorrelatedErrorStep ==
  ASSUME GatewayInv, NEW r \in Gated, call[r].pc = "wait",
         NEW code \in CallErrors, writeCorrelatedError(r, code), UNCHANGED dispatchVars
  PROVE  GatewayInv'
<1> DEFINE c == [call[r] EXCEPT !.pc = "done", !.error = code, !.ids = TRUE]
<1>1. RelayOK(c, h[r])
  BY CorrelatedErrorOK, Zenon DEF GatewayInv
<1>2. call' = [call EXCEPT ![r] = c]
  BY Zenon DEF writeCorrelatedError, GatewayInv
<1> HIDE DEF c
<1> QED
  BY <1>1, <1>2, CallStep, Zenon

LEMMA GoesOnStep ==
  ASSUME GatewayInv, NEW r \in Gated, call[r].pc # "done", NEW p \in CallPoints,
         p \in {"idle", "authorize", "ids", "dispatch"} => call[r].pc \in {"idle", "authorize", "ids"},
         call' = [call EXCEPT ![r].pc = p], UNCHANGED dispatchVars
  PROVE  GatewayInv'
<1> DEFINE c == [call[r] EXCEPT !.pc = p]
<1>1. RelayOK(c, h[r])
  BY GoesOnOK, Zenon DEF GatewayInv
<1>2. call' = [call EXCEPT ![r] = c]
  BY Zenon DEF GatewayInv
<1> HIDE DEF c
<1> QED
  BY <1>1, <1>2, CallStep, Zenon

LEMMA RelayStep ==
  ASSUME GatewayInv, NEW r \in Gated, NEW g \in Bodies, Begins(g, h[r].out),
         call' = [call EXCEPT ![r].got = g], UNCHANGED dispatchVars
  PROVE  GatewayInv'
<1> DEFINE c == [call[r] EXCEPT !.got = g]
<1>1. RelayOK(c, h[r])
  BY RelayMoreOK, Zenon DEF GatewayInv
<1>2. call' = [call EXCEPT ![r] = c]
  BY Zenon DEF GatewayInv
<1> HIDE DEF c
<1> QED
  BY <1>1, <1>2, CallStep, Zenon

\* Every step of the gateway keeps the invariant.
LEMMA GatewayKeeps ==
  ASSUME GatewayInv, NEW r \in Gated, invoke(r) \/ GatewayStep(r)
  PROVE  GatewayInv'
<1>1. /\ UNCHANGED dispatchVars
      /\ r \in Requests /\ h[r] \in Handlers /\ call[r] \in Calls /\ RelayOK(call[r], h[r])
  <2>1. UNCHANGED dispatchVars
    BY Zenon DEF invoke, GatewayStep, AuthorizeInvocation, NewRoot, SendDispatch, DispatchFails,
       DispatchAnswered, proxyFlushed, proxySSE, RelayStops
  <2> QED
    BY <2>1, HandlerFacts DEF GatewayInv, Gated
<1>2. /\ {"UNAUTHENTICATED", "NOT_ACCEPTABLE"} \cup invokeRequestErrors \subseteq CallErrors
      /\ workspaceErrorCodes \cup {"INTERNAL_ERROR", "TIMEOUT", "DEPENDENCY_ERROR"} \subseteq CallErrors
      /\ {"authorize", "ids", "dispatch", "relay", "done"} \subseteq CallPoints
  BY Zenon DEF CallErrors, CallPoints
<1>3. CASE invoke(r)
  <2>1. call[r].pc = "idle"
    BY <1>3 DEF invoke
  <2> QED
    BY <1>1, <1>2, <1>3, <2>1, PreErrorStep, GoesOnStep, Zenon DEF invoke
<1>4. CASE AuthorizeInvocation(r)
  <2>1. call[r].pc = "authorize"
    BY <1>4 DEF AuthorizeInvocation
  <2> QED
    BY <1>1, <1>2, <1>4, <2>1, PreErrorStep, GoesOnStep, Zenon DEF AuthorizeInvocation
<1>5. CASE NewRoot(r)
  <2>1. call[r].pc = "ids"
    BY <1>5 DEF NewRoot
  <2> QED
    BY <1>1, <1>2, <1>5, <2>1, PreErrorStep, GoesOnStep, Zenon DEF NewRoot
<1>6. CASE SendDispatch(r)
  <2> DEFINE c == [call[r] EXCEPT !.pc = "wait", !.sent = TRUE]
  <2>1. RelayOK(c, h[r])
    BY <1>1, <1>6, SendOK, Zenon DEF SendDispatch
  <2>2. call' = [call EXCEPT ![r] = c]
    BY <1>6, Zenon DEF SendDispatch, GatewayInv
  <2> HIDE DEF c
  <2> QED
    BY <1>1, <2>1, <2>2, CallStep, Zenon
<1>7. CASE DispatchFails(r)
  BY <1>1, <1>2, <1>7, CorrelatedErrorStep, Zenon DEF DispatchFails
<1>8. CASE DispatchAnswered(r)
  <2>1. call[r].pc = "wait"
    BY <1>8 DEF DispatchAnswered
  <2> QED
    BY <1>1, <1>2, <1>8, <2>1, CorrelatedErrorStep, GoesOnStep, Zenon DEF DispatchAnswered
<1>9. CASE proxyFlushed(r)
  <2>1. h[r].out \in Bodies /\ call' = [call EXCEPT ![r].got = h[r].out]
    BY <1>1, <1>9, HandlerFields, Zenon DEF proxyFlushed
  <2>2. Begins(h[r].out, h[r].out)
    BY <2>1 DEF Begins, Bodies
  <2> QED
    BY <1>1, <2>1, <2>2, RelayStep, Zenon
<1>10. CASE proxySSE(r)
  <2> DEFINE s == call[r].got
             out == h[r].out
             g == Append(s, out[Len(s) + 1])
  <2>1. call' = [call EXCEPT ![r].got = g]
    BY <1>10, Zenon DEF proxySSE, GatewayInv
  <2>2. /\ s \in Seq(Frames) /\ out \in Seq(Frames)
        /\ Len(s) < Len(out) /\ \A k \in 1 .. Len(s) : s[k] = out[k]
    <3>1. s \in Bodies /\ out \in Bodies /\ Begins(s, out)
      BY <1>1, HandlerFields, Zenon DEF RelayOK, Calls
    <3> QED
      BY <1>10, <3>1 DEF proxySSE, Begins, Bodies
  <2> HIDE DEF s, out
  <2>3. g \in Bodies /\ Begins(g, out)
    BY <2>2 DEF Begins, Bodies
  <2> HIDE DEF g
  <2>4. Begins(g, h[r].out)
    BY <2>3 DEF out
  <2> QED
    BY <1>1, <2>1, <2>3, <2>4, RelayStep, Zenon
<1>11. CASE RelayStops(r)
  <2>1. call[r].pc = "relay"
    BY <1>11 DEF RelayStops
  <2> QED
    BY <1>1, <1>2, <1>11, <2>1, GoesOnStep, Zenon DEF RelayStops
<1> QED
  BY <1>3, <1>4, <1>5, <1>6, <1>7, <1>8, <1>9, <1>10, <1>11 DEF GatewayStep

\* So does every step of the Router.
LEMMA RouterKeeps ==
  ASSUME GatewayInv, RouterNext
  PROVE  GatewayInv'
<1>1. DispatchInv /\ DispatchInv' /\ call' = call /\ call \in [Gated -> Calls]
  BY DispatchInvStep DEF GatewayInv, RouterNext
<1>2. h' \in [Requests -> Handlers]
  BY <1>1 DEF DispatchInv
<1>3. ASSUME NEW r \in Gated
      PROVE  RelayOK(call'[r], h'[r]) /\ RefusalOK(h'[r], rows'[InvocationOf[r]])
  <2>1. /\ r \in Requests /\ h[r] \in Handlers /\ h'[r] \in Handlers /\ call'[r] = call[r]
        /\ RelayOK(call[r], h[r]) /\ RefusalOK(h[r], rows[InvocationOf[r]])
    BY <1>1, <1>2, HandlerFacts DEF GatewayInv, Gated
  <2>2. /\ Answered(h[r], h'[r])
        /\ \/ rows'[InvocationOf[r]] = rows[InvocationOf[r]]
           \/ h[r].pc \notin Opening \cup Replied
    BY <1>1, RouterSpeaks DEF RouterNext
  <2>3. RefusalOK(h'[r], rows'[InvocationOf[r]])
    BY <2>1, <2>2, RefusalKept
  <2>4. Begins(call[r].got, h'[r].out)
    <3>1. call[r].got \in Bodies /\ Begins(call[r].got, h[r].out)
      BY <2>1, Zenon DEF RelayOK, Calls
    <3> QED
      BY <2>1, <2>2, <3>1, BeginsStill
  <2>5. call[r].sent \/ h'[r].pc = "idle"
    BY <2>1, Zenon DEF RelayOK, RouterNext
  <2>6. RelayOK(call[r], h'[r])
    BY <2>1, <2>4, <2>5, Zenon DEF RelayOK
  <2> QED
    BY <2>1, <2>3, <2>6
<1> QED
  BY <1>1, <1>3, GatewayInvNext, Zenon

LEMMA GatewayInvInit ==
  ASSUME GatewayInit
  PROVE  GatewayInv
<1>1. DispatchInv
  BY DispatchInvInit DEF GatewayInit
<1>2. ASSUME NEW r \in Gated
      PROVE  RelayOK(NoCall, h[r]) /\ RefusalOK(h[r], rows[InvocationOf[r]]) /\ NoCall \in Calls
  <2>1. h[r] = Idle /\ rows[InvocationOf[r]] = NoRow
    BY DispatchAssumption DEF GatewayInit, DispatchInit, LedgerInit, Gated
  <2>2. /\ NoCall \in Calls /\ NoCall.pc = "idle" /\ ~NoCall.sent /\ NoCall.error = NoCode
        /\ NoCall.got = <<>>
    BY DEF NoCall, Calls, CallPoints, CallErrors, Flags, Bodies
  <2>3. Idle.pc = "idle" /\ Idle.out = <<>> /\ Idle.code = NoCode
    BY Zenon DEF Idle
  <2>4. ~Refused(Idle)
    <3>1. Len(Idle.out) = 0 /\ Idle.code \notin readRequestErrors
      BY <2>3 DEF readRequestErrors, NoCode
    <3> QED
      BY <3>1 DEF Refused
  <2>5. Begins(NoCall.got, Idle.out)
    BY <2>2, <2>3 DEF Begins
  <2> QED
    BY <2>1, <2>2, <2>3, <2>4, <2>5, Zenon DEF RelayOK, RefusalOK
<1> QED
  BY <1>1, <1>2 DEF GatewayInv, GatewayInit

LEMMA GatewayInvStep ==
  ASSUME GatewayInv, [GatewayNext]_gatewayVars
  PROVE  GatewayInv'
<1>1. CASE UNCHANGED gatewayVars
  <2>1. UNCHANGED <<dispatchVars, rows, h, call>>
    BY <1>1 DEF gatewayVars, dispatchVars
  <2>2. DispatchInv'
    BY <2>1, DispatchInvStep DEF GatewayInv
  <2> QED
    BY <2>1, <2>2, GatewayInvNext, Zenon DEF GatewayInv
<1> QED
  BY <1>1, GatewayKeeps, RouterKeeps DEF GatewayNext

-----------------------------------------------------------------------------
(* Theorems *)

\* The invariant holds of every behaviour of the gateway and the Router.
THEOREM GatewayInvariant == GatewaySpec => []GatewayInv
<1>1. GatewayInit => GatewayInv
  BY GatewayInvInit
<1>2. GatewayInv /\ [GatewayNext]_gatewayVars => GatewayInv'
  BY GatewayInvStep
<1> QED
  BY <1>1, <1>2, PTL DEF GatewaySpec

\* Behind the gateway the Router is the Router of module Dispatch: no handler of
\* the Control Plane touches its state, so all that is proved of Dispatch, and
\* through it of the Ledger, holds of the two together.
THEOREM GatewayImplementsDispatch == GatewaySpec => DispatchSpec
<1>1. GatewayInit => DispatchInit
  BY Zenon DEF GatewayInit
<1>2. [GatewayNext]_gatewayVars => [DispatchNext]_dispatchVars
  BY Zenon DEF GatewayNext, gatewayVars, RouterNext, invoke, GatewayStep, AuthorizeInvocation,
     NewRoot, SendDispatch, DispatchFails, DispatchAnswered, proxyFlushed, proxySSE, RelayStops
<1> QED
  BY <1>1, <1>2, PTL DEF GatewaySpec, DispatchSpec

\* What a read returns, given that the row is the replay of the history: a
\* detail fails only by its size.
LEMMA ReadReturns ==
  ASSUME ProjectionIsReplay, NEW i \in Invocations
  PROVE  getInvocation(i) = IF rows[i] = NoRow THEN [error |-> "NOT_FOUND"]
                            ELSE IF Oversized(Detail(i)) THEN [error |-> "DEPENDENCY_ERROR"]
                            ELSE [status |-> rows[i].status, code |-> rows[i].code]
<1>1. CASE rows[i] = NoRow
  <2>1. StoreGetInvocation(i) = [error |-> "ErrNotFound"]
    BY <1>1, Zenon DEF StoreGetInvocation
  <2>2. ServeInvocationRead(i) = [status |-> 404]
    BY <2>1, Zenon DEF ServeInvocationRead
  <2> QED
    BY <1>1, <2>2 DEF getInvocation, writeRouterResponse
<1>2. CASE rows[i] # NoRow
  <2> DEFINE d == Detail(i)
  <2>1. ValidDetail(i, d) /\ d.row = rows[i]
    BY <1>2 DEF ValidDetail, Detail, ProjectionIsReplay
  <2> HIDE DEF d
  <2>2. StoreGetInvocation(i) = [detail |-> d]
    BY <1>2, <2>1 DEF StoreGetInvocation, d
  <2>3. /\ [detail |-> d] # [error |-> "ErrNotFound"] /\ [detail |-> d] # [error |-> "ErrDependency"]
        /\ [detail |-> d].detail = d
    <3>1. DOMAIN [detail |-> d] = {"detail"}
      BY Zenon
    <3>2. \A e : DOMAIN [error |-> e] = {"error"}
      BY Zenon
    <3> QED
      BY <3>1, <3>2
  <2>4. ServeInvocationRead(i) = [status |-> 200, body |-> d]
    BY <2>1, <2>2, <2>3, ZenonT(60) DEF ServeInvocationRead
  <2> DEFINE response == [status |-> 200, body |-> d]
  <2>5. response.status # 404 /\ response.status = 200 /\ response.body = d
    OBVIOUS
  <2> HIDE DEF response
  <2>6. writeRouterResponse(i, response) =
          IF Oversized(d) THEN [error |-> "DEPENDENCY_ERROR"]
          ELSE [status |-> rows[i].status, code |-> rows[i].code]
    BY <2>1, <2>5, Zenon DEF writeRouterResponse
  <2> QED
    BY <1>2, <2>4, <2>6, Zenon DEF getInvocation, response, d
<1> QED
  BY <1>1, <1>2

\* Without an Invocation there is nothing that could be too large.
LEMMA NothingOversized ==
  ASSUME ProjectionIsReplay, NEW i \in Invocations, rows[i] = NoRow
  PROVE  ~Oversized(Detail(i))
<1>1. Detail(i).history = <<>>
  BY Zenon DEF Detail, ProjectionIsReplay
<1>2. MetadataLimit \in Nat
  BY GatewayAssumption
<1> QED
  BY <1>1, <1>2 DEF Oversized

\* What a caller of the Control Plane was told stays true, where the accepted
\* frame always fits: an answer without identifiers means that there is no
\* Invocation and will be none; a relayed outcome is what a read returns from
\* then on, unless the outcome reports that the database failed, or the detail
\* has outgrown the gateway's limit on metadata; and that limit is the only
\* reason why what is stored fails a read.
THEOREM GatewayTellsTheTruth ==
  ASSUME "accepted" \in FrameFits
  PROVE  GatewaySpec => []ToldIsTrue
<1>1. GatewayInv => ToldIsTrue
  <2> SUFFICES ASSUME GatewayInv, NEW r \in Gated
               PROVE  LET read == getInvocation(InvocationOf[r])
                          unreadable == Oversized(Detail(InvocationOf[r]))
                      IN /\ Uncorrelated(r) => read = [error |-> "NOT_FOUND"]
                         /\ read = [error |-> "DEPENDENCY_ERROR"] <=> unreadable
                         /\ \A k \in DOMAIN call[r].got :
                              LET o == call[r].got[k]
                              IN o.type \in Terminal /\ h[r].seq > 0 =>
                                   \/ read = [status |-> o.type, code |-> o.code]
                                   \/ unreadable
                                   \/ o.code = "DEPENDENCY_ERROR" /\ h[r].faulty
    BY Zenon DEF ToldIsTrue
  <2> DEFINE i == InvocationOf[r]
             read == getInvocation(i)
             large == Oversized(Detail(i))
             row == rows[i]
             x == h[r]
             got == call[r].got
  <2>1. /\ r \in Requests /\ i \in Invocations /\ x \in Handlers
        /\ HandlerOK(r, x, row, events[i]) /\ RelayOK(call[r], x) /\ RefusalOK(x, row)
        /\ ProjectionIsReplay
    BY HandlerFacts DEF GatewayInv, Gated, DispatchInv, LedgerInv
  <2>2. read = IF row = NoRow THEN [error |-> "NOT_FOUND"]
               ELSE IF large THEN [error |-> "DEPENDENCY_ERROR"]
               ELSE [status |-> row.status, code |-> row.code]
    BY <2>1, ReadReturns, Zenon
  <2>n. row = NoRow => ~large
    BY <2>1, NothingOversized, Zenon
  <2>3. /\ got \in Seq(Frames) /\ x.out \in Seq(Frames)
        /\ Len(got) <= Len(x.out) /\ \A k \in 1 .. Len(got) : got[k] = x.out[k]
    <3>1. got \in Bodies /\ x.out \in Bodies /\ Begins(got, x.out)
      BY <2>1, HandlerFields, Zenon DEF RelayOK, Calls
    <3> QED
      BY <3>1 DEF Bodies, Begins
  <2>4. DOMAIN got = 1 .. Len(got)
    BY <2>3
  <2> HIDE DEF read, large, row, got, x
  <2>5. ASSUME Uncorrelated(r)
        PROVE  row = NoRow
    <3>1. CASE call[r].error # NoCode /\ ~call[r].ids
      <4>1. x.pc = "idle"
        BY <2>1, <3>1, Zenon DEF RelayOK
      <4> QED
        BY <2>1, <4>1 DEF RefusalOK, Opening
    <3>2. CASE \E k \in 1 .. Len(got) : got[k].code \in readRequestErrors
      <4>1. Refused(x)
        BY <2>3, <3>2 DEF Refused
      <4> QED
        BY <2>1, <4>1 DEF RefusalOK
    <3> QED
      BY <2>4, <2>5, <3>1, <3>2, Zenon DEF Uncorrelated, got
  <2>6. read = [error |-> "DEPENDENCY_ERROR"] <=> large
    <3>1. [error |-> "NOT_FOUND"] # [error |-> "DEPENDENCY_ERROR"]
      BY Zenon
    <3>2. [status |-> row.status, code |-> row.code] # [error |-> "DEPENDENCY_ERROR"]
      BY Zenon
    <3> QED
      BY <2>2, <2>n, <3>1, <3>2, Zenon
  <2>7. ASSUME NEW k \in 1 .. Len(got), got[k].type \in Terminal, x.seq > 0
        PROVE  \/ read = [status |-> got[k].type, code |-> got[k].code]
               \/ large
               \/ got[k].code = "DEPENDENCY_ERROR" /\ x.faulty
    <3>1. k \in 1 .. Len(x.out) /\ got[k] = x.out[k]
      BY <2>3, <2>7
    <3>2. row # NoRow /\ Recorded(x, got[k].type, got[k].code, row)
      BY <2>1, <2>7, <3>1, Zenon DEF HandlerOK, FramesOK, Owns
    <3> QED
      BY <2>2, <3>2, Zenon DEF Recorded
  <2> QED
    BY <2>2, <2>4, <2>5, <2>6, <2>7, Zenon DEF read, large, got, x
<1> QED
  BY <1>1, GatewayInvariant, PTL
=============================================================================
