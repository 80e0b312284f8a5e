--------------------------- MODULE DispatchProofs ---------------------------
(***************************************************************************)
(* Proofs about module Dispatch, for every set of requests, however they   *)
(* share Invocations, for any number of stream events, database failures   *)
(* and a crash at any point.                                               *)
(*                                                                         *)
(* The argument is ownership.  The handler whose created event was         *)
(* committed (seq > 0) is the only one that can append to its Invocation,  *)
(* so what it knows about the history stays true while the others run.     *)
(*                                                                         *)
(* The first half is about one handler x of request r, the row of its      *)
(* Invocation and the history H of it, as values: HandlerOK says what      *)
(* holds at each program point, and its lemmas are about one handler that  *)
(* becomes another, with the tables left alone or extended by the one      *)
(* event the handler appends.  The second half puts the handlers together: *)
(* the rest of the invariant says that the others are not disturbed.       *)
(***************************************************************************)
EXTENDS Dispatch, LedgerProofs

-----------------------------------------------------------------------------
(* The program points of a handler *)

Opening == {"idle", "parent", "version", "resolve"}
Initial == {"initial", "initialFailed"}
Reading == {"receive", "chunk", "chunkFailed", "write", "verdict"}
Started == {"accept", "select", "call", "wait", "finish", "writeTerminal", "close"} \cup Reading
Working == (Initial \cup {"terminal"} \cup Started) \ {"writeTerminal", "close"}
BeforeCall == Opening \cup Initial \cup {"accept", "select", "call"}
Points == Opening \cup Initial \cup Started \cup {"terminal", "reply", "done", "dead"}

Errs == {NoCode, "TIMEOUT", "CANCELED"}
Ends == {"none"} \cup Terminal
Codes == {NoCode, "VALIDATION_ERROR", "PAYLOAD_TOO_LARGE", "NOT_FOUND", "CONFLICT", "FORBIDDEN",
          "UNAUTHENTICATED", "NOT_ACCEPTABLE", "AGENT_RELEASE_UNPUBLISHED",
          "AGENT_RELEASE_SUSPENDED", "AGENT_RELEASE_REVOKED"} \cup ErrorCodes
Flags == BOOLEAN
Ctxs == {Idle.ctx} \cup Contexts
FrameTypes == {"accepted", "chunk"} \cup Ends
Frames == [type : FrameTypes, seq : Nat, chunk : Int, code : Codes]
Bodies == Seq(Frames)

Handlers == [pc : Points, err : Errs, type : Ends, code : Codes, seq : Nat, sse : Nat,
             out : Bodies, task : Flags, cancels : Nat, wire : Flags, faulty : Flags,
             lost : Flags, ctx : Ctxs]

Undecided(x) == x.type = "none" /\ x.code = NoCode

\* A type and a code that make a terminal event the schema accepts.
ValidEnd(type, code) ==
  /\ type \in Terminal
  /\ type = "canceled" => code = "CANCELED"
  /\ type = "timed_out" => code = "TIMEOUT"
  /\ type = "failed" => code \in ErrorCodes \ {"CANCELED", "TIMEOUT"}
  /\ type = "succeeded" => code = NoCode

-----------------------------------------------------------------------------
(* What holds of a handler x of request r at each program point *)

\* The outcome it carries.
Verdicts(x) ==
  /\ x.pc \in Opening => x.seq = 0 /\ Undecided(x)
  /\ x.pc = "initial" =>
       x.seq < 3 /\ (Undecided(x) \/ (x.type = "failed" /\ x.code = "ROUTE_NOT_FOUND" /\ x.seq < 2))
  /\ x.pc = "initialFailed" => x.seq < 3
  /\ x.pc = "terminal" =>
       /\ x.seq \in 1 .. 3 /\ x.type \in Terminal /\ x.code \in ErrorCodes \cup {NoCode}
       /\ x.seq = 1 => x.type \in {"canceled", "timed_out"}
       /\ x.seq = 2 => x.type # "succeeded"
       /\ "accepted" \in FrameFits => ValidEnd(x.type, x.code)
  /\ x.pc \in {"accept", "select", "call", "wait", "receive"} => Undecided(x)
  /\ x.pc \in {"chunk", "chunkFailed", "write"} => Undecided(x) \/ ValidEnd(x.type, x.code)
  /\ x.pc \in {"verdict", "finish"} => ValidEnd(x.type, x.code)
  /\ x.pc \in {"reply", "writeTerminal", "close"} => x.type \in Terminal

\* Its two sequence numbers.
Numbers(r, x) ==
  /\ x.pc \in {"accept", "select", "call", "wait"} => x.seq = 3
  /\ x.pc \in Opening \cup Initial \cup {"accept"} => x.sse = 0
  /\ x.pc \in {"select", "call"} /\ r \in Streams => x.sse = 1
  /\ x.pc \in Reading => x.sse \in 1 .. MaxChunks + 1
  /\ x.pc \in {"chunk", "chunkFailed", "write"} => x.sse <= MaxChunks
  /\ x.pc \in Reading \ {"write"} => x.seq = x.sse + 2
  /\ x.pc = "write" => x.seq = x.sse + 3
  /\ x.pc \in {"finish", "writeTerminal", "close"} => x.seq \in 3 .. MaxChunks + 4
  /\ x.pc = "finish" => x.seq <= MaxChunks + 3

\* What it has written.
Written(r, x) ==
  /\ x.pc \in {"accept", "finish", "writeTerminal", "close"} \cup Reading => r \in Streams
  /\ x.pc = "wait" => r \notin Streams
  /\ x.pc \in Opening \cup Initial \cup {"terminal", "reply", "accept", "wait"} => x.out = <<>>
  /\ x.pc \in {"select", "call"} /\ r \notin Streams => x.out = <<>>
  /\ x.pc \in {"select", "call"} \cup Reading /\ r \in Streams =>
       Len(x.out) = x.sse /\ x.out[1].type = "accepted"
  /\ x.pc \in {"select", "call", "finish", "writeTerminal"} \cup Reading =>
       \A k \in 1 .. Len(x.out) : x.out[k].type \in {"accepted", "chunk"} /\ x.out[k].seq < x.sse

\* The remote task.
Tasks(x) ==
  /\ x.task => x.pc \in Reading \cup {"finish", "writeTerminal", "close", "done", "dead"} /\ x.seq >= 3
  /\ x.pc # "done" => x.cancels = 0
  /\ x.cancels <= 1 /\ (x.cancels = 1 => x.task)

\* A frame says what the row says, or that a dependency failed.
Recorded(x, type, code, row) ==
  \/ row.status = type /\ row.code = code
  \/ code = "DEPENDENCY_ERROR" /\ x.faulty

Progress(n) == IF n = 1 THEN "pending" ELSE IF n = 2 THEN "routing" ELSE "running"

\* The row and the history H of its Invocation, once its created event is
\* committed.  A handler that nothing has let down knows the history exactly.
Owns(r, x, row, H) ==
  /\ row # NoRow /\ Len(H) >= x.seq
  /\ row.ctx = RequestContext(r) /\ x.ctx = RequestContext(r)
  /\ x.pc \in Working /\ ~x.faulty =>
       /\ Len(H) = x.seq /\ row.status = Progress(x.seq)
       /\ \A k \in 1 .. Len(H) : H[k].type = "stream" <=> k > 3
  /\ x.pc \in Started => H[3].type = "started"
  /\ x.pc \in {"initialFailed", "chunkFailed"} => x.faulty \/ x.err # NoCode
  /\ x.pc = "write" => \E k \in 1 .. Len(H) : H[k].chunk = x.sse - 1
  /\ x.pc = "reply" => Recorded(x, x.type, x.code, row) \/ "accepted" \notin FrameFits
  /\ x.pc \in {"writeTerminal", "close"} => Recorded(x, x.type, x.code, row)
  /\ x.cancels = 1 => row.status \in Terminal \/ x.faulty

\* The frames, against the row and the history.
FramesOK(r, x, row, H) ==
  /\ \A k \in 1 .. Len(x.out) : x.out[k].type \in Terminal =>
       /\ x.pc \in {"close", "done", "dead"}
       /\ x.seq > 0 => Recorded(x, x.out[k].type, x.out[k].code, row) \/ "accepted" \notin FrameFits
  /\ x.out # <<>> /\ x.out[1].type = "accepted" => x.seq > 0 /\
       \A k \in 2 .. Len(x.out) :
         /\ x.out[k].seq > x.out[k - 1].seq
         /\ x.out[k - 1].type \in {"accepted", "chunk"}
         /\ x.out[k].type = "chunk" =>
              x.out[k].chunk = k - 2 /\ \E j \in 1 .. Len(H) : H[j].chunk = x.out[k].chunk

HandlerOK(r, x, row, H) ==
  /\ x \in Handlers
  /\ x.pc \notin {"idle", "parent", "reply", "done", "dead"} => x.ctx = RequestContext(r)
  /\ x.pc = "parent" => Child(r)
  /\ Verdicts(x) /\ Numbers(r, x) /\ Written(r, x) /\ Tasks(x)
  /\ x.seq > 0 => Owns(r, x, row, H)
  /\ FramesOK(r, x, row, H)

-----------------------------------------------------------------------------
(* What a handler knows where it offers an event *)

\* Its number is one the Ledger has room for.
LEMMA OfferingSeq ==
  ASSUME NEW r \in Requests, NEW x, NEW row, NEW H, HandlerOK(r, x, row, H),
         x.pc \in {"initial", "terminal", "chunk", "finish"}
  PROVE  x.seq \in 0 .. MaxEvents - 1
<1>1. x.seq \in Nat /\ Verdicts(x) /\ Numbers(r, x)
  BY Zenon DEF HandlerOK, Handlers
<1>2. MaxChunks \in Nat /\ MaxEvents \in Nat /\ MaxChunks + 4 <= MaxEvents
  BY DispatchAssumption, TimesAssumption, Zenon
<1>3. CASE x.pc \in {"initial", "terminal"}
  BY <1>1, <1>2, <1>3 DEF Verdicts
<1>4. CASE x.pc = "finish"
  BY <1>1, <1>2, <1>4 DEF Numbers
<1>5. CASE x.pc = "chunk"
  BY <1>1, <1>2, <1>5 DEF Numbers, Reading
<1> QED
  BY <1>3, <1>4, <1>5, Zenon

\* One of the first three events.
LEMMA OfferingInitial ==
  ASSUME NEW r \in Requests, NEW x, NEW row, NEW H, HandlerOK(r, x, row, H), x.pc = "initial"
  PROVE  /\ x.seq \in 0 .. 2
         /\ (x.code = NoCode) \/ (x.code = "ROUTE_NOT_FOUND" /\ x.seq < 2)
<1>1. Verdicts(x) /\ x.seq \in Nat
  BY Zenon DEF HandlerOK, Handlers
<1> QED
  BY <1>1 DEF Verdicts, Undecided

\* A chunk.
LEMMA OfferingChunk ==
  ASSUME NEW r \in Requests, NEW x, NEW row, NEW H, HandlerOK(r, x, row, H), x.pc = "chunk"
  PROVE  /\ x.seq \in Nat /\ x.sse \in 1 .. MaxChunks /\ x.seq = x.sse + 2
         /\ x.sse - 1 \in NoChunk .. MaxEvents - 4
<1>1. x.sse \in Nat /\ x.seq \in Nat /\ Numbers(r, x)
  BY Zenon DEF HandlerOK, Handlers
<1>2. MaxChunks \in Nat /\ MaxEvents \in Nat /\ MaxChunks + 4 <= MaxEvents
  BY DispatchAssumption, TimesAssumption, Zenon
<1> QED
  BY <1>1, <1>2 DEF Numbers, Reading, NoChunk

\* The terminal event.
LEMMA OfferingEnd ==
  ASSUME NEW r \in Requests, NEW x, NEW row, NEW H, HandlerOK(r, x, row, H),
         x.pc \in {"terminal", "finish"}
  PROVE  /\ x.seq \in Nat /\ x.seq > 0 /\ x.type \in Terminal /\ x.type \in EventTypes
         /\ x.code \in ErrorCodes \cup {NoCode}
         /\ x.seq = 1 => x.type \in {"canceled", "timed_out"}
         /\ x.seq = 2 => x.type # "succeeded"
         /\ x.pc = "finish" \/ "accepted" \in FrameFits => ValidEnd(x.type, x.code)
<1>1. x.seq \in Nat /\ Verdicts(x) /\ Numbers(r, x)
  BY Zenon DEF HandlerOK, Handlers
<1>2. CASE x.pc = "terminal"
  BY <1>1, <1>2 DEF Verdicts, Terminal, EventTypes
<1>3. CASE x.pc = "finish"
  <2>1. ValidEnd(x.type, x.code) /\ x.seq \in 3 .. MaxChunks + 4
    BY <1>1, <1>3, Zenon DEF Verdicts, Numbers
  <2>2. x.type \in Terminal /\ x.type \in EventTypes /\ x.code \in ErrorCodes \cup {NoCode}
    BY <2>1, CodesAssumption, Zenon DEF ValidEnd, Terminal, EventTypes
  <2> QED
    BY <1>1, <1>3, <2>1, <2>2
<1> QED
  BY <1>2, <1>3, Zenon

\* Whoever has a committed event has a row.
LEMMA OwnerHasRow ==
  ASSUME NEW r, NEW x, NEW row, NEW H, HandlerOK(r, x, row, H), row = NoRow
  PROVE  x.seq = 0
<1>1. x.seq \in Nat /\ (x.seq > 0 => Owns(r, x, row, H))
  BY Zenon DEF HandlerOK, Handlers
<1> QED
  BY <1>1 DEF Owns

-----------------------------------------------------------------------------
(* Handlers as records *)

\* A handler moves to another point and another sequence number.
LEMMA Advanced ==
  ASSUME NEW x \in Handlers, NEW p \in Points, NEW n \in Nat,
         NEW y, y = [x EXCEPT !.pc = p, !.seq = n]
  PROVE  /\ y \in Handlers /\ y.pc = p /\ y.seq = n
         /\ y.type = x.type /\ y.code = x.code /\ y.err = x.err /\ y.sse = x.sse /\ y.out = x.out
         /\ y.task = x.task /\ y.cancels = x.cancels /\ y.faulty = x.faulty /\ y.ctx = x.ctx
  BY Zenon DEF Handlers

\* Frames without an outcome stay right while the history grows.
LEMMA FramesMove ==
  ASSUME NEW r \in Requests, NEW x, NEW row, NEW H \in Seq(Event), FramesOK(r, x, row, H),
         x.pc \notin {"close", "done", "dead"},
         NEW row2, NEW H2 \in Seq(Event), Len(H2) >= Len(H), \A k \in 1 .. Len(H) : H2[k] = H[k],
         NEW y, y.out = x.out, y.seq > 0
  PROVE  FramesOK(r, y, row2, H2)
<1>1. \A k \in 1 .. Len(y.out) : y.out[k].type \notin Terminal
  BY Zenon DEF FramesOK
<1>2. ASSUME y.out # <<>>, y.out[1].type = "accepted", NEW k \in 2 .. Len(y.out)
      PROVE  /\ y.out[k].seq > y.out[k - 1].seq
             /\ y.out[k - 1].type \in {"accepted", "chunk"}
             /\ y.out[k].type = "chunk" =>
                  y.out[k].chunk = k - 2 /\ \E j \in 1 .. Len(H2) : H2[j].chunk = y.out[k].chunk
  <2>1. /\ x.out[k].seq > x.out[k - 1].seq
        /\ x.out[k - 1].type \in {"accepted", "chunk"}
        /\ x.out[k].type = "chunk" =>
             x.out[k].chunk = k - 2 /\ \E j \in 1 .. Len(H) : H[j].chunk = x.out[k].chunk
    BY <1>2, Zenon DEF FramesOK
  <2>2. \A j \in 1 .. Len(H) : j \in 1 .. Len(H2) /\ H2[j] = H[j]
    OBVIOUS
  <2> QED
    BY <2>1, <2>2, Zenon
<1> QED
  BY <1>1, <1>2, Zenon DEF FramesOK

-----------------------------------------------------------------------------
(* Steps of one handler that leave the tables alone *)

USE DEF HandlerOK, Handlers, Verdicts, Written, Numbers, Tasks, Owns, FramesOK, Recorded,
        Undecided, Opening, Initial, Reading, Started, Working, Terminal

\* A request is admitted with its context.
LEMMA ServeOK ==
  ASSUME NEW r \in Requests, NEW x, NEW row, NEW H \in Seq(Event), HandlerOK(r, x, row, H),
         x.pc \in {"idle", "parent"}, NEW p \in {"resolve", "version"},
         NEW y, y = [x EXCEPT !.pc = p, !.ctx = RequestContext(r)]
  PROVE  HandlerOK(r, y, row, H)
<1>1. y \in Handlers
  BY DispatchAssumption, ZenonT(60) DEF Points, Ends, Errs, Flags, Codes, Ctxs
<1> QED
  BY <1>1, DispatchAssumption, SMTT(60)

\* A nested request is admitted and goes for its parent.
LEMMA ServeNestedOK ==
  ASSUME NEW r \in Requests, NEW x, NEW row, NEW H \in Seq(Event), HandlerOK(r, x, row, H),
         x.pc = "idle", Child(r),
         NEW y, y = [x EXCEPT !.pc = "parent"]
  PROVE  HandlerOK(r, y, row, H)
<1>1. y \in Handlers
  BY DispatchAssumption, SMTT(60) DEF Points, Ends, Errs, Flags, Codes, Ctxs
<1> QED
  BY <1>1, DispatchAssumption, SMTT(60)

\* A request is refused before any event.
LEMMA ReplyWithOK ==
  ASSUME NEW r \in Requests, NEW x, NEW row, NEW H \in Seq(Event), HandlerOK(r, x, row, H),
         x.pc \in Opening, NEW code \in Codes,
         NEW y, y = [x EXCEPT !.pc = "reply", !.type = "failed", !.code = code]
  PROVE  HandlerOK(r, y, row, H)
<1>1. y \in Handlers
  BY DispatchAssumption, ZenonT(60) DEF Points, Ends, Errs, Flags, Codes, Ctxs
<1> QED
  BY <1>1, DispatchAssumption, SMTT(60)

\* The installed version is known.
LEMMA VersionOK ==
  ASSUME NEW r \in Requests, NEW x, NEW row, NEW H \in Seq(Event), HandlerOK(r, x, row, H),
         x.pc = "version",
         NEW y, y = [x EXCEPT !.pc = "resolve"]
  PROVE  HandlerOK(r, y, row, H)
<1>1. y \in Handlers
  BY DispatchAssumption, SMTT(60) DEF Points, Ends, Errs, Flags, Codes, Ctxs
<1> QED
  BY <1>1, DispatchAssumption

\* The release is resolved.
LEMMA ResolveOK ==
  ASSUME NEW r \in Requests, NEW x, NEW row, NEW H \in Seq(Event), HandlerOK(r, x, row, H),
         x.pc = "resolve",
         NEW y, y = [x EXCEPT !.pc = "initial"]
  PROVE  HandlerOK(r, y, row, H)
<1>1. y \in Handlers
  BY DispatchAssumption, SMTT(60) DEF Points, Ends, Errs, Flags, Codes, Ctxs
<1> QED
  BY <1>1, DispatchAssumption

\* The release is resolved to an unusable target.
LEMMA ResolveUnusableOK ==
  ASSUME NEW r \in Requests, NEW x, NEW row, NEW H \in Seq(Event), HandlerOK(r, x, row, H),
         x.pc = "resolve",
         NEW y, y = [x EXCEPT !.pc = "initial", !.type = "failed", !.code = "ROUTE_NOT_FOUND"]
  PROVE  HandlerOK(r, y, row, H)
<1>1. y \in Handlers
  BY DispatchAssumption, ZenonT(60) DEF Points, Ends, Errs, Flags, Codes, Ctxs
<1> QED
  BY <1>1, DispatchAssumption

\* An initial append failed and the context is done.
LEMMA InitialEndsOK ==
  ASSUME NEW r \in Requests, NEW x, NEW row, NEW H \in Seq(Event), HandlerOK(r, x, row, H),
         x.pc = "initialFailed", x.seq > 0, x.err # NoCode,
         NEW y, y = [x EXCEPT !.pc = "terminal", !.type = contextType(x.err), !.code = x.err]
  PROVE  HandlerOK(r, y, row, H)
<1>1. y \in Handlers
  BY DispatchAssumption, ZenonT(60) DEF Points, Ends, Errs, Flags, Codes, Ctxs, contextType
<1> QED
  BY <1>1, DispatchAssumption, CodesAssumption, SMTT(60) DEF contextType, Errs, ValidEnd

\* An initial append failed for another reason, or before anything was committed.
LEMMA InitialFailedOK ==
  ASSUME NEW r \in Requests, NEW x, NEW row, NEW H \in Seq(Event), HandlerOK(r, x, row, H),
         x.pc = "initialFailed", ~(x.seq > 0 /\ x.err # NoCode),
         NEW y, y = [x EXCEPT !.pc = "reply", !.type = "failed", !.code = "DEPENDENCY_ERROR"]
  PROVE  HandlerOK(r, y, row, H)
<1>1. y \in Handlers
  BY DispatchAssumption, ZenonT(60) DEF Points, Ends, Errs, Flags, Codes, Ctxs
<1> QED
  BY <1>1, DispatchAssumption

\* The Agent answered.
LEMMA AnswerOK ==
  ASSUME NEW r \in Requests, NEW x, NEW row, NEW H \in Seq(Event), HandlerOK(r, x, row, H),
         x.pc = "wait",
         NEW y, y = [x EXCEPT !.pc = "terminal", !.type = "succeeded"]
  PROVE  HandlerOK(r, y, row, H)
<1>1. y \in Handlers
  BY DispatchAssumption, ZenonT(60) DEF Points, Ends, Errs, Flags, Codes, Ctxs
<1> QED
  BY <1>1, DispatchAssumption, SMTT(60) DEF ValidEnd

\* The target is selected.
LEMMA SelectOK ==
  ASSUME NEW r \in Requests, NEW x, NEW row, NEW H \in Seq(Event), HandlerOK(r, x, row, H),
         x.pc = "select",
         NEW y, y = [x EXCEPT !.pc = "call"]
  PROVE  HandlerOK(r, y, row, H)
<1>1. y \in Handlers
  BY DispatchAssumption, Zenon DEF Points, Ends, Errs, Flags, Codes, Ctxs
<1> QED
  BY <1>1, DispatchAssumption

\* The message leaves for the Agent.
LEMMA CallOK ==
  ASSUME NEW r \in Requests, NEW x, NEW row, NEW H \in Seq(Event), HandlerOK(r, x, row, H),
         x.pc = "call",
         NEW y, y = [x EXCEPT !.pc = IF r \in Streams THEN "receive" ELSE "wait"]
  PROVE  HandlerOK(r, y, row, H)
<1>1. y \in Handlers
  BY DispatchAssumption, ZenonT(60) DEF Points, Ends, Errs, Flags, Codes, Ctxs
<1> QED
  BY <1>1, DispatchAssumption, SMTT(60)

\* The accepted frame is above the limit.
LEMMA AcceptTooLargeOK ==
  ASSUME NEW r \in Requests, NEW x, NEW row, NEW H \in Seq(Event), HandlerOK(r, x, row, H),
         x.pc = "accept", "accepted" \notin FrameFits, NEW code \in ErrorCodes,
         NEW y, y = [x EXCEPT !.pc = "terminal", !.type = "failed", !.code = code]
  PROVE  HandlerOK(r, y, row, H)
<1>1. y \in Handlers
  BY DispatchAssumption, ZenonT(60) DEF Points, Ends, Errs, Flags, Codes, Ctxs
<1> QED
  BY <1>1, DispatchAssumption

\* A chunk could not be recorded.
LEMMA ChunkFailedOK ==
  ASSUME NEW r \in Requests, NEW x, NEW row, NEW H \in Seq(Event), HandlerOK(r, x, row, H),
         x.pc = "chunkFailed", x.err = NoCode,
         NEW y, y = [x EXCEPT !.pc = "writeTerminal", !.type = "failed", !.code = "DEPENDENCY_ERROR"]
  PROVE  HandlerOK(r, y, row, H)
<1>1. y \in Handlers
  BY DispatchAssumption, ZenonT(60) DEF Points, Ends, Errs, Flags, Codes, Ctxs
<1> QED
  BY <1>1, DispatchAssumption, SMTT(60)

\* The Agent's outcome counts.
LEMMA VerdictOK ==
  ASSUME NEW r \in Requests, NEW x, NEW row, NEW H \in Seq(Event), HandlerOK(r, x, row, H),
         x.pc = "verdict",
         NEW y, y = [x EXCEPT !.pc = "finish"]
  PROVE  HandlerOK(r, y, row, H)
<1>1. y \in Handlers
  BY DispatchAssumption, ZenonT(60) DEF Points, Ends, Errs, Flags, Codes, Ctxs
<1> QED
  BY <1>1, DispatchAssumption, SMTT(60)

\* The handler of a stream returns.
LEMMA CloseOK ==
  ASSUME NEW r \in Requests, NEW x, NEW row, NEW H \in Seq(Event), HandlerOK(r, x, row, H),
         x.pc = "close", NEW n \in Nat, n <= 1, n = 1 => x.task,
         NEW y, y = [x EXCEPT !.pc = "done", !.cancels = n]
  PROVE  HandlerOK(r, y, row, H)
<1>1. y \in Handlers
  BY DispatchAssumption, ZenonT(60) DEF Points, Ends, Errs, Flags, Codes, Ctxs
<1> QED
  BY <1>1, DispatchAssumption, SMTT(60)

\* The context ends.
LEMMA ContextEndsOK ==
  ASSUME NEW r \in Requests, NEW x, NEW row, NEW H \in Seq(Event), HandlerOK(r, x, row, H),
         x.pc \notin Finished, NEW e \in Errs \ {NoCode},
         NEW y, y = [x EXCEPT !.err = e]
  PROVE  HandlerOK(r, y, row, H)
<1>1. y \in Handlers
  BY DispatchAssumption, SMTT(60) DEF Points, Ends, Errs, Flags, Codes, Ctxs
<1> QED
  BY <1>1, DispatchAssumption

\* The connection breaks.
LEMMA WireBreaksOK ==
  ASSUME NEW r \in Requests, NEW x, NEW row, NEW H \in Seq(Event), HandlerOK(r, x, row, H),
         x.pc \notin Finished, NEW f \in Flags,
         NEW y, y = [x EXCEPT !.wire = f]
  PROVE  HandlerOK(r, y, row, H)
<1>1. y \in Handlers
  BY DispatchAssumption, Zenon DEF Points, Ends, Errs, Flags, Codes, Ctxs
<1> QED
  BY <1>1, DispatchAssumption

\* The process dies.
LEMMA CrashOK ==
  ASSUME NEW r \in Requests, NEW x, NEW row, NEW H \in Seq(Event), HandlerOK(r, x, row, H),
         x.pc \notin Finished,
         NEW y, y = [x EXCEPT !.pc = "dead"]
  PROVE  HandlerOK(r, y, row, H)
<1>1. y \in Handlers
  BY DispatchAssumption, SMTT(60) DEF Points, Ends, Errs, Flags, Codes, Ctxs
<1> QED
  BY <1>1, DispatchAssumption DEF Finished

\* A frame without a chunk is a frame, and what a body consists of.
LEMMA FrameTyped ==
  ASSUME NEW type \in FrameTypes \cup Ends, NEW n \in Nat, NEW code \in Codes
  PROVE  Frame(type, n, NoChunk, code) \in Frames
<1>1. type \in FrameTypes /\ NoChunk \in Int
  BY DEF FrameTypes, NoChunk
<1> QED
  BY <1>1, Zenon DEF Frame, Frames

\* What a handler has written is a sequence of frames with natural numbers.
LEMMA FramesOfBody ==
  ASSUME NEW x \in Handlers
  PROVE  /\ Len(x.out) \in Nat
         /\ \A k \in 1 .. Len(x.out) : x.out[k].seq \in Nat
<1>1. x.out \in Seq(Frames)
  BY Zenon DEF Bodies
<1>2. \A k \in 1 .. Len(x.out) : x.out[k] \in Frames
  BY <1>1
<1> QED
  BY <1>1, <1>2, SMTT(60) DEF Frames

\* A JSON reply is written, or lost with its connection.
LEMMA ReplyOK ==
  ASSUME NEW r \in Requests, NEW x, NEW row, NEW H \in Seq(Event), HandlerOK(r, x, row, H),
         x.pc = "reply", NEW out, out \in {<<>>, <<Frame(x.type, 0, NoChunk, x.code)>>},
         NEW y, y = [x EXCEPT !.pc = "done", !.out = out]
  PROVE  HandlerOK(r, y, row, H)
<1>1. out \in Bodies
  <2>1. Frame(x.type, 0, NoChunk, x.code) \in Frames
    BY FrameTyped, Zenon
  <2>2. <<>> \in Seq(Frames) /\ <<Frame(x.type, 0, NoChunk, x.code)>> \in Seq(Frames)
    BY <2>1
  <2> QED
    BY <2>2, Zenon DEF Bodies
<1>2. y \in Handlers
  BY <1>1, Zenon DEF Points
<1>3. /\ Len(out) \in {0, 1}
      /\ \A k \in 1 .. Len(out) : out[k].type = x.type /\ out[k].code = x.code
      /\ out # <<>> => out[1].type = x.type
  BY DEF Frame
<1> QED
  BY <1>2, <1>3

\* A call ends in error c.  A dependency may have been involved, the stream
\* sequence may have moved on, and the task may have become known.
LEMMA OutcomeOK ==
  ASSUME NEW r \in Requests, NEW x, NEW row, NEW H \in Seq(Event), HandlerOK(r, x, row, H),
         x.pc \in {"select", "call", "wait", "receive", "chunkFailed", "write", "verdict"}
           \/ (x.pc = "accept" /\ "accepted" \in FrameFits),
         NEW c \in ErrorCodes, NEW y \in Handlers,
         y.pc = IF r \in Streams THEN "finish" ELSE "terminal",
         y.type = IF c = "TIMEOUT" THEN "timed_out"
                  ELSE IF c = "CANCELED" THEN "canceled" ELSE "failed",
         y.code = c, y.sse >= x.sse, x.faulty => y.faulty,
         y.task => x.task \/ x.pc = "receive",
         y.seq = x.seq, y.out = x.out, y.cancels = x.cancels, y.ctx = x.ctx
  PROVE  HandlerOK(r, y, row, H)
<1> HIDE DEF HandlerOK, Handlers, Verdicts, Written, Numbers, Tasks, Owns, FramesOK, Recorded,
             Undecided, Opening, Initial, Reading, Started, Working, Terminal
<1>1. ValidEnd(y.type, y.code)
  BY Zenon DEF ValidEnd, Terminal
<1>2. y.pc = "terminal" => x.pc \in {"select", "call", "wait"}
  BY Zenon DEF HandlerOK, Written, Reading
<1>3. /\ Numbers(r, x) /\ Written(r, x) /\ Tasks(x) /\ FramesOK(r, x, row, H)
      /\ x.seq > 0 => Owns(r, x, row, H)
      /\ x \in Handlers /\ x.ctx = RequestContext(r)
  BY Zenon DEF HandlerOK
<1>4. x.seq \in Nat /\ x.sse \in Nat /\ y.sse \in Nat /\ x.out \in Bodies
  BY <1>3, Zenon DEF Handlers
<1>5. MaxChunks \in Nat
  BY DispatchAssumption, Zenon
<1>6. \A k \in 1 .. Len(x.out) : x.out[k].type \in {"accepted", "chunk"} /\ x.out[k].seq < y.sse
  <2>1. \A k \in 1 .. Len(x.out) : x.out[k].type \in {"accepted", "chunk"} /\ x.out[k].seq < x.sse
    BY <1>3 DEF Written, Reading
  <2>2. \A k \in 1 .. Len(x.out) : x.out[k].seq \in Nat
    BY <1>3, FramesOfBody, Zenon DEF Handlers
  <2> QED
    BY <1>4, <2>1, <2>2
<1>7. x.seq \in 3 .. MaxChunks + 3 /\ (y.pc = "terminal" => x.seq = 3)
  <2>1. Numbers(r, x)
    BY <1>3, Zenon
  <2>2. CASE x.pc \in {"accept", "select", "call", "wait"}
    BY <1>2, <1>4, <1>5, <2>1, <2>2 DEF Numbers
  <2>3. CASE x.pc \in {"receive", "chunkFailed", "verdict"}
    BY <1>2, <1>4, <1>5, <2>1, <2>3, SMTT(60) DEF Numbers, Reading
  <2>4. CASE x.pc = "write"
    BY <1>2, <1>4, <1>5, <2>1, <2>4 DEF Numbers, Reading
  <2> QED
    BY <2>2, <2>3, <2>4, Zenon
<1>8. Verdicts(y)
  <2>1. y.type \in Terminal /\ y.code \in ErrorCodes
    BY Zenon DEF Terminal
  <2>2. CASE y.pc = "finish"
    BY <1>1, <2>2, Zenon DEF Verdicts, Opening
  <2>3. CASE y.pc = "terminal"
    BY <1>1, <1>7, <2>1, <2>3 DEF Verdicts, Opening
  <2> QED
    BY <2>2, <2>3, Zenon
<1>9. Numbers(r, y) /\ Written(r, y)
  <2>1. Numbers(r, y)
    BY <1>5, <1>7 DEF Numbers, Reading, Opening, Initial
  <2>2. y.pc = "terminal" => x.out = <<>>
    BY <1>2, <1>3, Zenon DEF Written
  <2> QED
    BY <1>6, <2>1, <2>2, Zenon DEF Written, Reading, Opening, Initial
<1>10. Tasks(y)
  <2>1. y.task => y.pc = "finish"
    BY <1>2, <1>3, Zenon DEF Tasks, Written, Reading
  <2> QED
    BY <1>3, <1>7, <2>1 DEF Tasks
<1>11. y.seq > 0 => Owns(r, y, row, H)
  BY <1>2, <1>3, <1>4, Zenon DEF Owns, Working, Started, Reading
<1>12. FramesOK(r, y, row, H)
  BY <1>3, <1>6 DEF FramesOK, Terminal
<1> QED
  BY <1>3, <1>8, <1>9, <1>10, <1>11, <1>12, Zenon DEF HandlerOK

\* The accepted frame is written.
LEMMA AcceptOK ==
  ASSUME NEW r \in Requests, NEW x, NEW row, NEW H \in Seq(Event), HandlerOK(r, x, row, H),
         x.pc = "accept", NEW out, out = <<Frame("accepted", 0, NoChunk, NoCode)>>,
         NEW y, y = [x EXCEPT !.pc = "select", !.sse = 1, !.out = out]
  PROVE  HandlerOK(r, y, row, H)
<1>1. out \in Bodies
  <2>1. Frame("accepted", 0, NoChunk, NoCode) \in Frames
    BY FrameTyped, Zenon DEF FrameTypes, Codes
  <2> QED
    BY <2>1 DEF Bodies
<1>2. y \in Handlers
  BY <1>1, Zenon DEF Points
<1>3. Len(out) = 1 /\ out[1].type = "accepted" /\ out[1].seq = 0
  BY Zenon DEF Frame
<1> QED
  BY <1>2, <1>3

\* An event of the Agent's stream arrives.
LEMMA ReceiveOK ==
  ASSUME NEW r \in Requests, NEW x, NEW row, NEW H \in Seq(Event), HandlerOK(r, x, row, H),
         x.pc = "receive", x.sse <= MaxChunks, NEW type \in Ends, NEW code \in Codes,
         (type = "none" /\ code = NoCode) \/ ValidEnd(type, code), NEW f \in Flags,
         NEW y, y = [x EXCEPT !.pc = "chunk", !.task = f, !.type = type, !.code = code]
  PROVE  HandlerOK(r, y, row, H)
<1>1. y \in Handlers
  BY Zenon DEF Points
<1> QED
  BY <1>1, DispatchAssumption, SMTT(60)

\* A chunk is written.
LEMMA WriteChunkOK ==
  ASSUME NEW r \in Requests, NEW x, NEW row, NEW H \in Seq(Event), HandlerOK(r, x, row, H),
         x.pc = "write", NEW f, f = Frame("chunk", x.sse, x.sse - 1, NoCode),
         NEW y, y = [x EXCEPT !.sse = @ + 1, !.pc = IF x.type = "none" THEN "receive" ELSE "verdict",
                              !.out = Append(@, f)]
  PROVE  HandlerOK(r, y, row, H)
<1> DEFINE out == Append(x.out, f)
           n == Len(x.out)
<1>1. /\ x.out \in Bodies /\ n \in Nat /\ n = x.sse /\ n >= 1
      /\ \A k \in 1 .. n : x.out[k].type \in {"accepted", "chunk"} /\ x.out[k].seq < x.sse
      /\ r \in Streams /\ x.out[1].type = "accepted" /\ x.out # <<>>
  BY DEF Bodies
<1>2. /\ f.type = "chunk" /\ f.seq = n /\ f.chunk = n - 1
      /\ f \in Frames
  <2>1. x.sse \in Nat /\ x.sse - 1 \in Int /\ "chunk" \in FrameTypes /\ NoCode \in Codes
    BY DEF FrameTypes, Codes
  <2>2. f \in Frames
    BY <2>1, Zenon DEF Frame, Frames
  <2> QED
    BY <1>1, <2>2, Zenon DEF Frame
<1>3. /\ out \in Bodies /\ Len(out) = n + 1 /\ out # <<>>
      /\ \A k \in 1 .. n : out[k] = x.out[k]
      /\ out[n + 1] = f
  BY <1>1, <1>2, ElementsOfAppend, SMTT(60) DEF Bodies
<1> HIDE DEF out, n
<1> DEFINE p == IF x.type = "none" THEN "receive" ELSE "verdict"
<1>p. p \in {"receive", "verdict"} /\ p \in Points /\ (p = "receive" <=> x.type = "none")
  BY Zenon DEF Points
<1>4. y = [x EXCEPT !.sse = x.sse + 1, !.pc = p, !.out = out]
  BY Zenon DEF out
<1> HIDE DEF p
<1>5. y \in Handlers
  <2>1. x \in Handlers /\ x.sse + 1 \in Nat
    OBVIOUS
  <2> HIDE DEF HandlerOK
  <2> QED
    BY <1>3, <1>4, <1>p, <2>1, ZenonT(60)
<1>y. /\ y.out = out /\ y.pc = p /\ y.sse = x.sse + 1
      /\ y.seq = x.seq /\ y.type = x.type /\ y.code = x.code /\ y.task = x.task
      /\ y.cancels = x.cancels /\ y.ctx = x.ctx /\ y.faulty = x.faulty
  <2>1. x \in Handlers
    BY Zenon
  <2> HIDE DEF HandlerOK
  <2> QED
    BY <1>4, <2>1, Zenon
<1>6. \A k \in 2 .. n + 1 : out[k - 1] = x.out[k - 1]
  BY <1>1, <1>3, SMTT(60)
<1>7. FramesOK(r, y, row, H)
  <2>1. \A k \in 1 .. n + 1 : out[k].type \notin Terminal
    BY <1>1, <1>2, <1>3, SMTT(60)
  <2>2. ASSUME NEW k \in 2 .. n + 1
        PROVE  /\ out[k].seq > out[k - 1].seq
               /\ out[k - 1].type \in {"accepted", "chunk"}
               /\ out[k].type = "chunk" =>
                    out[k].chunk = k - 2 /\ \E j \in 1 .. Len(H) : H[j].chunk = out[k].chunk
    <3>1. CASE k = n + 1
      <4>1. x.out[n].seq \in Nat /\ x.out[n].seq < x.sse /\ x.out[n].type \in {"accepted", "chunk"}
        BY <1>1, FramesOfBody, SMTT(60) DEF n
      <4>2. \E j \in 1 .. Len(H) : H[j].chunk = x.sse - 1
        BY DispatchAssumption, SMTT(60)
      <4>3. out[k] = f /\ out[k - 1] = x.out[n] /\ k - 2 = n - 1
        BY <1>1, <1>3, <1>6, <3>1, SMTT(60)
      <4> HIDE DEF HandlerOK
      <4> QED
        BY <1>1, <1>2, <4>1, <4>2, <4>3, Zenon
    <3>2. CASE k # n + 1
      BY <1>1, <1>3, <1>6, <3>2, SMTT(60) DEF n
    <3> QED
      BY <3>1, <3>2, Zenon
  <2>3. x.seq > 0
    BY <1>1, Zenon
  <2> HIDE DEF HandlerOK
  <2> QED
    BY <1>1, <1>3, <1>y, <2>1, <2>2, <2>3, ZenonT(60)
<1>8. Written(r, y)
  <2>1. ASSUME NEW k \in 1 .. n + 1
        PROVE  out[k].type \in {"accepted", "chunk"} /\ out[k].seq < x.sse + 1
    <3>1. x \in Handlers
      BY Zenon
    <3> HIDE DEF HandlerOK
    <3>2. \A j \in 1 .. n : x.out[j].seq \in Nat
      BY <3>1, FramesOfBody, Zenon DEF n
    <3>3. CASE k = n + 1
      <4>1. out[k].type = "chunk" /\ out[k].seq = n
        BY <1>2, <1>3, <3>3, Zenon
      <4>2. n < x.sse + 1
        BY <1>1
      <4> QED
        BY <4>1, <4>2, Zenon
    <3>4. CASE k # n + 1
      <4>1. k \in 1 .. n
        BY <1>1, <3>4
      <4>2. out[k] = x.out[k] /\ x.out[k].type \in {"accepted", "chunk"} /\ x.out[k].seq < x.sse
        BY <1>1, <1>3, <4>1, Zenon
      <4>3. x.out[k].seq \in Nat
        BY <3>2, <4>1, Zenon
      <4>4. \A i, j \in Nat : i < j => i < j + 1
        OBVIOUS
      <4>5. x.sse \in Nat
        BY <1>1, Zenon
      <4> QED
        BY <4>2, <4>3, <4>4, <4>5, Zenon
    <3> QED
      BY <3>3, <3>4, Zenon
  <2> QED
    BY <1>1, <1>3, <1>y, <1>p, <2>1, SMTT(60)
<1>9. Verdicts(y) /\ Numbers(r, y) /\ Tasks(y)
  <2>1. Verdicts(y)
    BY <1>y, <1>p DEF ValidEnd
  <2>2. Numbers(r, y)
    BY <1>1, <1>y, <1>p, DispatchAssumption, SMTT(60)
  <2>3. Tasks(y)
    BY <1>y, <1>p, Zenon
  <2> QED
    BY <2>1, <2>2, <2>3, Zenon
<1>10. x.seq > 0 /\ Owns(r, y, row, H)
  BY <1>1, <1>y, <1>p, DispatchAssumption
<1>11. y.ctx = RequestContext(r)
  BY <1>y, Zenon
<1> HIDE DEF Verdicts, Numbers, Tasks, Owns, Written, FramesOK
<1> QED
  BY <1>5, <1>7, <1>8, <1>9, <1>10, <1>11, Zenon

\* The terminal frame is written.
LEMMA WriteTerminalOK ==
  ASSUME NEW r \in Requests, NEW x, NEW row, NEW H \in Seq(Event), HandlerOK(r, x, row, H),
         x.pc = "writeTerminal", NEW f, f = Frame(x.type, x.sse, NoChunk, x.code),
         NEW out, out = Append(x.out, f), NEW y, y = [x EXCEPT !.pc = "close", !.out = out]
  PROVE  HandlerOK(r, y, row, H)
<1> DEFINE n == Len(x.out)
<1>1. /\ x.out \in Bodies /\ n \in Nat /\ x.seq > 0
      /\ \A k \in 1 .. n : x.out[k].type \in {"accepted", "chunk"} /\ x.out[k].seq < x.sse
      /\ r \in Streams
  BY DispatchAssumption DEF Bodies
<1>2. /\ f.type = x.type /\ f.seq = x.sse /\ f.code = x.code
      /\ f \in Frames
  BY FrameTyped, Zenon DEF Frame
<1>3. /\ out \in Bodies /\ Len(out) = n + 1 /\ out # <<>>
      /\ \A k \in 1 .. n : out[k] = x.out[k]
      /\ out[n + 1] = f
  BY <1>1, <1>2, ElementsOfAppend DEF Bodies
<1>4. n = 0 <=> x.out = <<>>
  BY <1>1, EmptySeq DEF Bodies
<1> HIDE DEF n
<1>5. y \in Handlers /\ y.out = out
  BY <1>3, ZenonT(60) DEF Points
<1>6. \A k \in 2 .. n + 1 : out[k - 1] = x.out[k - 1]
  BY <1>1, <1>3, SMTT(60)
<1>7. x.type \in Terminal /\ Recorded(x, x.type, x.code, row)
  BY <1>1, Zenon
<1>9. /\ y.pc = "close" /\ y.seq = x.seq /\ y.type = x.type /\ y.code = x.code /\ y.task = x.task
      /\ y.cancels = x.cancels /\ y.ctx = x.ctx /\ y.faulty = x.faulty
  BY Zenon
<1>8. FramesOK(r, y, row, H)
  <2>1. ASSUME NEW k \in 1 .. n + 1, out[k].type \in Terminal
        PROVE  Recorded(y, out[k].type, out[k].code, row)
    <3>1. k = n + 1
      BY <1>1, <1>3, <2>1
    <3> QED
      BY <1>2, <1>3, <1>7, <1>9, <3>1, Zenon
  <2>2. ASSUME out[1].type = "accepted", NEW k \in 2 .. n + 1
        PROVE  /\ out[k].seq > out[k - 1].seq
               /\ out[k - 1].type \in {"accepted", "chunk"}
               /\ out[k].type = "chunk" =>
                    out[k].chunk = k - 2 /\ \E j \in 1 .. Len(H) : H[j].chunk = out[k].chunk
    <3>1. CASE k = n + 1
      <4>1. x.out[n].seq \in Nat /\ x.out[n].seq < x.sse /\ x.out[n].type \in {"accepted", "chunk"}
        BY <1>1, <3>1, FramesOfBody, SMTT(60) DEF n
      <4>2. out[k] = f /\ out[k - 1] = x.out[n] /\ f.type # "chunk"
        BY <1>1, <1>2, <1>3, <1>6, <1>7, <3>1, SMTT(60)
      <4> HIDE DEF HandlerOK
      <4> QED
        BY <1>2, <4>1, <4>2, Zenon
    <3>2. CASE k # n + 1
      <4>1. x.out # <<>> /\ x.out[1].type = "accepted"
        BY <1>1, <1>3, <1>4, <2>2, <3>2, SMTT(60)
      <4> QED
        BY <1>1, <1>3, <1>6, <3>2, <4>1, SMTT(60) DEF n
    <3> QED
      BY <3>1, <3>2, Zenon
  <2>3. Len(y.out) = n + 1 /\ y.seq > 0 /\ y.pc = "close"
    BY <1>1, <1>3, <1>5, <1>9
  <2>4. \A k \in 1 .. Len(y.out) : y.out[k].type \in Terminal =>
          /\ y.pc \in {"close", "done", "dead"}
          /\ y.seq > 0 => Recorded(y, y.out[k].type, y.out[k].code, row) \/ "accepted" \notin FrameFits
    <3> HIDE DEF HandlerOK, Recorded
    <3> QED
      BY <1>5, <2>1, <2>3, Zenon
  <2> HIDE DEF HandlerOK, Recorded
  <2> QED
    BY <1>5, <2>2, <2>3, <2>4, SMTT(60)
<1>10. x.ctx = RequestContext(r) /\ Numbers(r, x) /\ Tasks(x) /\ Owns(r, x, row, H)
  BY <1>1, Zenon
<1>11. Verdicts(y) /\ Written(r, y)
  <2> HIDE DEF HandlerOK
  <2> QED
    BY <1>1, <1>7, <1>9, Zenon
<1>12. Numbers(r, y) /\ Tasks(y)
  <2> HIDE DEF HandlerOK
  <2> QED
    BY <1>9, <1>10, Zenon
<1>13. Owns(r, y, row, H)
  <2> HIDE DEF HandlerOK
  <2> QED
    BY <1>7, <1>9, <1>10, ZenonT(60)
<1> HIDE DEF Verdicts, Numbers, Written, Tasks, Owns, FramesOK
<1> QED
  BY <1>5, <1>8, <1>9, <1>10, <1>11, <1>12, <1>13

\* The terminal frame is lost, and the context ends if it has not yet.
LEMMA TerminalLostOK ==
  ASSUME NEW r \in Requests, NEW x, NEW row, NEW H \in Seq(Event), HandlerOK(r, x, row, H),
         x.pc = "writeTerminal", NEW e \in Errs,
         NEW y, y = [x EXCEPT !.pc = "close", !.err = e]
  PROVE  HandlerOK(r, y, row, H)
<1>1. y \in Handlers
  BY Zenon DEF Points
<1> QED
  BY <1>1, DispatchAssumption, SMTT(60)

-----------------------------------------------------------------------------
(* Steps of one handler that append, or try to *)

\* Event e was appended to history H of row, which left H2 and row2.
Extended(row, H, row2, H2, e) ==
  /\ Len(H2) = Len(H) + 1
  /\ \A k \in 1 .. Len(H) : H2[k] = H[k]
  /\ H2[Len(H) + 1] = e
  /\ e.sequence = Len(H)
  /\ row2 # NoRow /\ row2.status = e.status /\ row2.code = e.code /\ row2.ctx = e.ctx
  /\ row.status \notin Terminal

\* A handler that owns nothing, or has been let down and knows it, stays right
\* when the history moves on.
LEMMA TablesMoveOK ==
  ASSUME NEW r \in Requests, NEW x, NEW row, NEW H \in Seq(Event), HandlerOK(r, x, row, H),
         NEW row2, NEW H2 \in Seq(Event), NEW e, Extended(row, H, row2, H2, e),
         x.seq = 0 \/ (x.faulty /\ e.ctx = RequestContext(r) /\ x.pc \notin Finished \cup {"close"})
  PROVE  HandlerOK(r, x, row2, H2)
<1> HIDE DEF HandlerOK, Handlers, Verdicts, Written, Numbers, Tasks, Owns, FramesOK, Recorded,
             Undecided, Opening, Initial, Reading, Started, Working, Terminal
<1>1. /\ x.seq \in Nat /\ FramesOK(r, x, row, H) /\ (x.seq > 0 => Owns(r, x, row, H))
      /\ Numbers(r, x) /\ Verdicts(x)
  BY Zenon DEF HandlerOK, Handlers
<1>2. Len(H) \in Nat /\ Len(H2) = Len(H) + 1 /\ \A k \in 1 .. Len(H) : H2[k] = H[k]
  BY DEF Extended
<1>3. CASE x.seq = 0
  <2>1. FramesOK(r, x, row2, H2)
    BY <1>1, <1>3 DEF FramesOK
  <2> QED
    BY <1>3, <2>1 DEF HandlerOK
<1>4. CASE x.seq > 0
  <2>1. /\ x.faulty /\ e.ctx = RequestContext(r) /\ x.pc \notin Finished \cup {"close"}
        /\ Owns(r, x, row, H)
    BY <1>1, <1>4
  <2>2. FramesOK(r, x, row2, H2)
    BY <1>1, <1>2, <1>4, <2>1, FramesMove DEF Finished
  <2>3. x.pc \in Started => H2[3].type = "started"
    <3> SUFFICES ASSUME x.pc \in Started PROVE H2[3] = H[3] /\ H[3].type = "started"
      BY Zenon
    <3>1. x.seq >= 3
      <4>1. CASE x.pc \in {"accept", "select", "call", "wait"}
        BY <1>1, <4>1 DEF Numbers
      <4>2. CASE x.pc \in Reading
        BY <1>1, <4>2, SMTT(60) DEF Numbers, Reading
      <4>3. CASE x.pc \in {"finish", "writeTerminal", "close"}
        BY <1>1, <4>3 DEF Numbers
      <4> QED
        BY <4>1, <4>2, <4>3, Zenon DEF Started
    <3>2. Len(H) >= x.seq /\ H[3].type = "started"
      BY <2>1, Zenon DEF Owns
    <3> QED
      BY <1>1, <1>2, <3>1, <3>2
  <2>4. Owns(r, x, row2, H2)
    <3>1. row2 # NoRow /\ row2.ctx = RequestContext(r)
      BY <2>1, Zenon DEF Extended
    <3>2. x.pc = "write" => \E k \in 1 .. Len(H2) : H2[k].chunk = x.sse - 1
      BY <1>2, <2>1 DEF Owns
    <3>3. x.cancels = 1 => row2.status \in Terminal \/ x.faulty
      BY <2>1, Zenon
    <3>4. /\ x.pc = "reply" => Recorded(x, x.type, x.code, row2) \/ "accepted" \notin FrameFits
          /\ x.pc = "writeTerminal" => Recorded(x, x.type, x.code, row2)
      <4>1. row.status \notin Terminal /\ (x.pc \in {"reply", "writeTerminal"} => x.type \in Terminal)
        BY <1>1, Zenon DEF Extended, Verdicts
      <4> QED
        BY <2>1, <4>1, Zenon DEF Owns, Recorded
    <3>5. Len(H2) >= x.seq /\ x.ctx = RequestContext(r)
      BY <1>1, <1>2, <2>1 DEF Owns
    <3> QED
      BY <2>1, <2>3, <3>1, <3>2, <3>3, <3>4, <3>5, Zenon DEF Owns
  <2> QED
    BY <2>2, <2>4, Zenon DEF HandlerOK
<1> QED
  BY <1>1, <1>3, <1>4

\* An initial event is committed.
LEMMA InitialAppendedOK ==
  ASSUME NEW r \in Requests, NEW x, NEW row, NEW H \in Seq(Event), HandlerOK(r, x, row, H),
         NEW row2, NEW H2 \in Seq(Event), NEW e, Extended(row, H, row2, H2, e),
         x.pc = "initial", e.sequence = x.seq, e.ctx = RequestContext(r),
         e.type = <<"created", "routing", "started">>[x.seq + 1], e.status = statusOfType(e.type),
         NEW p, p = IF x.code = "ROUTE_NOT_FOUND"
                    THEN (IF x.seq = 1 THEN "terminal" ELSE "initial")
                    ELSE IF x.seq < 2 THEN "initial"
                    ELSE IF r \in Streams THEN "accept" ELSE "select",
         NEW y, y = [x EXCEPT !.pc = p, !.seq = @ + 1]
  PROVE  HandlerOK(r, y, row2, H2)
<1>1. /\ x \in Handlers /\ x.seq \in 0 .. 2 /\ Len(H) = x.seq /\ x.seq + 1 \in Nat
      /\ Undecided(x) \/ (x.type = "failed" /\ x.code = "ROUTE_NOT_FOUND" /\ x.seq < 2)
      /\ x.out = <<>> /\ ~x.task /\ x.cancels = 0 /\ x.sse = 0
  BY DEF Extended
<1>2. p \in Points
  BY Zenon DEF Points
<1>3. /\ y \in Handlers /\ y.seq = x.seq + 1 /\ y.pc = p /\ y.type = x.type /\ y.code = x.code
      /\ y.out = <<>> /\ y.task = x.task /\ y.cancels = 0 /\ y.ctx = RequestContext(r)
      /\ y.faulty = x.faulty /\ y.sse = 0
  <2>1. x.ctx = RequestContext(r)
    BY Zenon
  <2> HIDE DEF HandlerOK
  <2> QED
    BY <1>1, <1>2, <2>1, Advanced, Zenon
<1>4. Verdicts(y) /\ Numbers(r, y) /\ Written(r, y) /\ Tasks(y)
  <2>1. /\ x.code = "ROUTE_NOT_FOUND" <=> ~Undecided(x)
        /\ p \in {"initial", "terminal", "accept", "select"}
        /\ p = "initial" => y.seq < 3 /\ (Undecided(x) \/ y.seq < 2)
        /\ p = "terminal" => y.seq = 2 /\ x.type = "failed" /\ x.code = "ROUTE_NOT_FOUND"
        /\ p \in {"accept", "select"} => y.seq = 3 /\ Undecided(x)
        /\ p = "accept" <=> (p \in {"accept", "select"} /\ r \in Streams)
    <3>1. "ROUTE_NOT_FOUND" # NoCode
      BY DispatchAssumption, CodesAssumption, Zenon
    <3> HIDE DEF HandlerOK
    <3>2. CASE Undecided(x)
      BY <1>1, <1>3, <3>1, <3>2, SMTT(60)
    <3>3. CASE x.type = "failed" /\ x.code = "ROUTE_NOT_FOUND" /\ x.seq < 2
      BY <1>1, <1>3, <3>1, <3>3
    <3> QED
      BY <1>1, <3>2, <3>3, Zenon
  <2>2. "ROUTE_NOT_FOUND" \in ErrorCodes
    BY DispatchAssumption, Zenon
  <2> HIDE DEF HandlerOK
  <2>3. Verdicts(y)
    BY <1>1, <1>3, <2>1, <2>2 DEF ValidEnd
  <2>4. Numbers(r, y) /\ Tasks(y)
    BY <1>1, <1>3, <2>1
  <2> QED
    BY <1>1, <1>3, <2>1, <2>3, <2>4, SMTT(60)
<1>5. e.status = Progress(y.seq)
  BY <1>1, <1>3, SMTT(60) DEF Progress, statusOfType
<1>6. y.pc \in Started => e.type = "started" /\ x.seq = 2
  BY <1>1, <1>3
<1>7. ~y.faulty => \A k \in 1 .. Len(H2) : H2[k].type = "stream" <=> k > 3
  BY <1>1, <1>3, SMTT(60) DEF Extended
<1>8. Owns(r, y, row2, H2)
  BY <1>1, <1>3, <1>5, <1>6, <1>7, SMTT(60) DEF Extended
<1>9. FramesOK(r, y, row2, H2)
  BY <1>3
<1> HIDE DEF Verdicts, Numbers, Written, Tasks, Owns, FramesOK
<1> QED
  BY <1>3, <1>4, <1>8, <1>9, Zenon

\* A terminal event is committed.
LEMMA TerminalAppendedOK ==
  ASSUME NEW r \in Requests, NEW x, NEW row, NEW H \in Seq(Event), HandlerOK(r, x, row, H),
         NEW row2, NEW H2 \in Seq(Event), NEW e, Extended(row, H, row2, H2, e),
         x.pc \in {"terminal", "finish"}, e.sequence = x.seq, e.ctx = RequestContext(r),
         e.type = x.type, e.code = x.code, e.status = x.type, NEW p,
         p = IF x.pc = "terminal" THEN "reply" ELSE "writeTerminal",
         NEW y, y = [x EXCEPT !.pc = p, !.seq = @ + 1]
  PROVE  HandlerOK(r, y, row2, H2)
<1>1. /\ x \in Handlers /\ x.seq \in Nat /\ Len(H) = x.seq /\ x.type \in Terminal
      /\ x.seq > 0 /\ x.seq + 1 \in Nat /\ p \in Points
  BY DispatchAssumption, SMTT(60) DEF Extended, ValidEnd, Points
<1>2. /\ y \in Handlers /\ y.seq = x.seq + 1 /\ y.pc = p /\ y.type = x.type /\ y.code = x.code
      /\ y.out = x.out /\ y.task = x.task /\ y.cancels = x.cancels /\ y.ctx = x.ctx
      /\ y.faulty = x.faulty /\ y.sse = x.sse
  <2> HIDE DEF HandlerOK
  <2> QED
    BY <1>1, Advanced, Zenon
<1>3. Len(H2) >= Len(H) /\ \A k \in 1 .. Len(H) : H2[k] = H[k]
  BY <1>1 DEF Extended
<1>4. Verdicts(y) /\ Numbers(r, y) /\ Written(r, y) /\ Tasks(y)
  BY <1>1, <1>2, DispatchAssumption, SMTT(60)
<1>5. Owns(r, y, row2, H2)
  <2>1. /\ x.pc = "finish" => x.seq >= 3 /\ H[3].type = "started"
        /\ x.ctx = RequestContext(r) /\ x.cancels = 0 /\ p \in {"reply", "writeTerminal"}
        /\ p = "writeTerminal" => x.pc = "finish"
    BY <1>1, DispatchAssumption, SMTT(60)
  <2>2. x.pc = "finish" => H2[3].type = "started"
    BY <1>1, <1>3, <2>1
  <2> HIDE DEF HandlerOK
  <2> QED
    BY <1>1, <1>2, <2>1, <2>2 DEF Extended
<1>6. FramesOK(r, y, row2, H2)
  <2>1. FramesOK(r, x, row, H) /\ x.pc \notin {"close", "done", "dead"}
    BY Zenon
  <2> HIDE DEF FramesOK, HandlerOK
  <2>2. y.out = x.out /\ y.seq > 0
    BY <1>1, <1>2, SMTT(60)
  <2> QED
    BY <1>3, <2>1, <2>2, FramesMove, Zenon
<1> HIDE DEF Verdicts, Numbers, Written, Tasks, Owns, FramesOK
<1> QED
  BY <1>2, <1>4, <1>5, <1>6, Zenon

\* A terminal event is refused or lost.
LEMMA TerminalFailedOK ==
  ASSUME NEW r \in Requests, NEW x, NEW row, NEW H \in Seq(Event), HandlerOK(r, x, row, H),
         x.pc \in {"terminal", "finish"}, NEW f \in Flags, x.faulty => f,
         f \/ (x.pc = "terminal" /\ "accepted" \notin FrameFits), NEW p,
         p = IF x.pc = "terminal" THEN "reply" ELSE "writeTerminal",
         NEW y, y = [x EXCEPT !.pc = p, !.type = "failed", !.code = "DEPENDENCY_ERROR", !.faulty = f]
  PROVE  HandlerOK(r, y, row, H)
<1>1. y \in Handlers
  BY DispatchAssumption, ZenonT(60) DEF Points, Ends, Codes
<1> QED
  BY <1>1, DispatchAssumption, SMTT(60)

\* A chunk is committed.
LEMMA ChunkAppendedOK ==
  ASSUME NEW r \in Requests, NEW x, NEW row, NEW H \in Seq(Event), HandlerOK(r, x, row, H),
         NEW row2, NEW H2 \in Seq(Event), NEW e, Extended(row, H, row2, H2, e),
         x.pc = "chunk", e.sequence = x.seq, e.ctx = RequestContext(r),
         e.type = "stream", e.status = "running", e.chunk = x.sse - 1,
         NEW y, y = [x EXCEPT !.pc = "write", !.seq = @ + 1]
  PROVE  HandlerOK(r, y, row2, H2)
<1>1. x \in Handlers /\ x.seq \in Nat /\ x.seq + 1 \in Nat /\ Len(H) = x.seq /\ x.seq >= 3
  BY DispatchAssumption DEF Extended
<1>2. /\ y \in Handlers /\ y.seq = x.seq + 1 /\ y.pc = "write" /\ y.type = x.type /\ y.code = x.code
      /\ y.out = x.out /\ y.task = x.task /\ y.cancels = x.cancels /\ y.ctx = x.ctx
      /\ y.faulty = x.faulty /\ y.sse = x.sse
  <2>1. "write" \in Points
    BY Zenon DEF Points
  <2> HIDE DEF HandlerOK
  <2> QED
    BY <1>1, <2>1, Advanced, Zenon
<1>3. Len(H2) >= Len(H) /\ \A k \in 1 .. Len(H) : H2[k] = H[k]
  BY <1>1, SMTT(60) DEF Extended
<1>4. Verdicts(y) /\ Numbers(r, y) /\ Written(r, y) /\ Tasks(y)
  BY <1>1, <1>2, DispatchAssumption, SMTT(60)
<1>5. ~y.faulty => \A k \in 1 .. Len(H2) : H2[k].type = "stream" <=> k > 3
  BY <1>1, <1>2, SMTT(60) DEF Extended
<1>6. \E k \in 1 .. Len(H2) : H2[k].chunk = y.sse - 1
  BY <1>1, <1>2, SMTT(60) DEF Extended
<1>7. Owns(r, y, row2, H2)
  <2>1. H[3].type = "started" /\ x.ctx = RequestContext(r) /\ x.cancels = 0
    BY <1>1, DispatchAssumption
  <2>2. H2[3].type = "started"
    BY <1>1, <1>3, <2>1, SMTT(60)
  <2> HIDE DEF HandlerOK
  <2> QED
    BY <1>1, <1>2, <1>5, <1>6, <2>1, <2>2, SMTT(60) DEF Extended, Progress
<1>8. FramesOK(r, y, row2, H2)
  <2>1. FramesOK(r, x, row, H) /\ x.pc \notin {"close", "done", "dead"}
    BY Zenon
  <2> HIDE DEF FramesOK, HandlerOK
  <2>2. y.out = x.out /\ y.seq > 0
    BY <1>1, <1>2, SMTT(60)
  <2> QED
    BY <1>3, <2>1, <2>2, FramesMove, Zenon
<1> HIDE DEF Verdicts, Numbers, Written, Tasks, Owns, FramesOK
<1> QED
  BY <1>2, <1>4, <1>7, <1>8, Zenon

\* An initial event or a chunk is refused or lost.
LEMMA AppendFailedOK ==
  ASSUME NEW r \in Requests, NEW x, NEW row, NEW H \in Seq(Event), HandlerOK(r, x, row, H),
         x.pc \in {"initial", "chunk"}, NEW f \in Flags, x.faulty => f,
         f \/ x.err # NoCode \/ x.seq = 0, NEW p,
         p = IF x.pc = "initial" THEN "initialFailed" ELSE "chunkFailed",
         NEW y, y = [x EXCEPT !.pc = p, !.faulty = f]
  PROVE  HandlerOK(r, y, row, H)
<1>1. y \in Handlers
  BY ZenonT(60) DEF Points
<1> QED
  BY <1>1, DispatchAssumption, SMTT(60)

HIDE DEF HandlerOK, Handlers, Verdicts, Written, Numbers, Tasks, Owns, FramesOK, Recorded,
         Undecided, Opening, Initial, Reading, Started, Working, Terminal

-----------------------------------------------------------------------------
(* The inductive invariant *)

HandlersOK ==
  \A r \in Requests : HandlerOK(r, h[r], rows[InvocationOf[r]], events[InvocationOf[r]])

\* Every row belongs to the one tree and was written at the one instant.
RowsOK ==
  \A i \in Invocations : rows[i] # NoRow =>
    /\ rows[i].updatedAt = 0
    /\ rows[i].ctx.root = RootContext.root /\ rows[i].ctx.trace = RootContext.trace
    /\ rows[i].ctx.workspace = RootContext.workspace

\* An Invocation has one owner.
OneOwner ==
  \A r, q \in Requests :
    r # q /\ InvocationOf[r] = InvocationOf[q] => h[r].seq = 0 \/ h[q].seq = 0

\* A call was made by the owner, once, after the started event.
CallsOK ==
  /\ calls \in [Invocations -> Nat]
  /\ \A i \in Invocations : calls[i] # 0 =>
       /\ calls[i] = 1 /\ Len(events[i]) >= 3 /\ events[i][3].type = "started"
       /\ \E r \in Requests : InvocationOf[r] = i /\ h[r].seq > 0 /\ h[r].pc \notin BeforeCall
  /\ \A r \in Requests :
       h[r].task \/ h[r].pc \in {"wait"} \cup Reading => calls[InvocationOf[r]] # 0

DispatchInv ==
  /\ LedgerInv /\ RowsOK
  /\ h \in [Requests -> Handlers]
  /\ HandlersOK /\ OneOwner /\ CallsOK

-----------------------------------------------------------------------------
(* Appends of a handler *)

\* What a committed append does to the Invocation it is for.
LEMMA AppendExtended ==
  ASSUME LedgerInv, NEW e \in Event, LedgerAppend(e)
  PROVE  LET i == e.invocation
         IN /\ i \in Invocations
            /\ events[i] \in Seq(Event) /\ events'[i] \in Seq(Event)
            /\ Extended(rows[i], events[i], rows'[i], events'[i], e)
            /\ e.sequence = 0 => rows[i] = NoRow
            /\ rows'[i].updatedAt = e.at
            /\ \A j \in Invocations \ {i} : rows'[j] = rows[j] /\ events'[j] = events[j]
<1> USE DEF LedgerInv
<1> DEFINE i == e.invocation
           H == events[i]
<1>1. /\ i \in Invocations /\ H \in Seq(Event) /\ events'[i] = Append(H, e)
      /\ \A j \in Invocations \ {i} : rows'[j] = rows[j] /\ events'[j] = events[j]
  BY AppendEffect, Zenon DEF LedgerTypeOK, Event
<1>2. /\ Append(H, e) \in Seq(Event) /\ Len(Append(H, e)) = Len(H) + 1
      /\ \A k \in 1 .. Len(H) : Append(H, e)[k] = H[k]
      /\ Append(H, e)[Len(H) + 1] = e
  BY <1>1, ElementsOfAppend
<1>3. SequenceAccept(H, e)
  BY AppendExtends, Zenon
<1>4. e.sequence = Len(H) /\ ValidateInvocationEventV03(e)
  BY <1>3, Zenon DEF SequenceAccept
<1>5. rows'[i].code = e.code /\ rows'[i].ctx = e.ctx
  <2>1. CASE e.sequence = 0
    <3>1. H = <<>>
      BY <2>1, AppendExtends, Zenon
    <3>2. e.type = "created"
      BY <1>3, <3>1, Zenon DEF SequenceAccept
    <3>3. e.code = NoCode
      BY <1>4, <3>2, Zenon DEF ValidateInvocationEventV03
    <3> QED
      BY <2>1, <3>3, AppendedRow, Zenon
  <2>2. CASE e.sequence # 0
    <3>1. ValidateInvocationDetailResponseV1(i, rows[i], H)
      BY <2>2, AppendExtends, Zenon
    <3>2. H # <<>> /\ H[Len(H)].ctx = rows[i].ctx
      BY <1>1, <3>1, EmptySeq, SMTT(60) DEF ValidateInvocationDetailResponseV1
    <3>3. H[Len(H)].ctx = e.ctx
      BY <1>3, <3>2, Zenon DEF SequenceAccept
    <3> QED
      BY <2>2, <3>2, <3>3, AppendedRow, Zenon
  <2> QED
    BY <2>1, <2>2, Zenon
<1>6. /\ rows'[i] # NoRow /\ rows'[i].status = e.status /\ rows'[i].updatedAt = e.at
      /\ e.sequence = 0 => rows[i] = NoRow
  BY AppendedRow, Zenon
<1>7. rows[i].status \notin Terminal
  BY TerminalRefuses, Zenon
<1> QED
  BY <1>1, <1>2, <1>4, <1>5, <1>6, <1>7, Zenon DEF Extended

\* Event e is the one that request r offers with a type, a code and a chunk.
Offered(r, type, code, chunk, e) ==
  /\ e \in Event
  /\ e.invocation = InvocationOf[r] /\ e.sequence = h[r].seq /\ e.type = type
  /\ e.status = statusOfType(type) /\ e.at = 0 /\ e.code = code /\ e.chunk = chunk
  /\ e.ctx = RequestContext(r)
  /\ Accepts(e) => e \in Candidates

\* The events a handler offers are candidates of the Ledger.
LEMMA OfferTyped ==
  ASSUME DispatchInv, NEW r \in Requests, NEW type \in EventTypes,
         h[r].pc \in {"initial", "terminal", "chunk", "finish"},
         NEW code \in ErrorCodes \cup {NoCode}, NEW chunk \in NoChunk .. MaxEvents - 4,
         NEW e, e = ledgerEvent(r, type, code, chunk)
  PROVE  Offered(r, type, code, chunk, e)
<1> DEFINE d == ledgerEvent(r, type, code, chunk)
<1>1. HandlerOK(r, h[r], rows[InvocationOf[r]], events[InvocationOf[r]])
  BY Zenon DEF DispatchInv, HandlersOK
<1>2. h[r].seq \in 0 .. MaxEvents - 1
  BY <1>1, OfferingSeq, Zenon
<1>3. h[r].ctx = RequestContext(r) /\ h[r].ctx \in Contexts
  BY <1>1, DispatchAssumption, Zenon DEF HandlerOK
<1>4. InvocationOf[r] \in Invocations /\ 0 \in Times
  BY DispatchAssumption, Zenon
<1>5. d \in Event
  BY <1>2, <1>3, <1>4, CandidateIsEvent DEF ledgerEvent
<1>6. Accepts(d) => d \in Candidates
  <2> DEFINE x == h[r].ctx
             s == h[r].seq
             j == InvocationOf[r]
  <2>1. j \in Invocations /\ s \in 0 .. MaxEvents - 1 /\ x \in Contexts /\ 0 \in Times
    BY <1>2, <1>3, <1>4, Zenon
  <2>2. d = lifecycleEvent(j, s, type, 0, code, chunk, x)
    BY Zenon DEF ledgerEvent
  <2> HIDE DEF d, x, s, j
  <2> QED
    BY <2>1, <2>2 DEF Candidates, Accepts
<1>7. /\ d.invocation = InvocationOf[r] /\ d.sequence = h[r].seq /\ d.type = type
      /\ d.status = statusOfType(type) /\ d.at = 0 /\ d.code = code /\ d.chunk = chunk
      /\ d.ctx = RequestContext(r)
  BY <1>3, Zenon DEF ledgerEvent, lifecycleEvent
<1> HIDE DEF d
<1>8. e = d
  BY Zenon DEF d
<1> QED
  BY <1>5, <1>6, <1>7, <1>8, Zenon DEF Offered

-----------------------------------------------------------------------------
(* The other handlers *)

\* The handler of r becomes y.
Becomes(r, y) == h' = [h EXCEPT ![r] = y]

\* What is to be shown of the handlers after a step.
LEMMA HandlersOKNext ==
  ASSUME \A q \in Requests :
           HandlerOK(q, h'[q], rows'[InvocationOf[q]], events'[InvocationOf[q]])
  PROVE  HandlersOK'
  BY Zenon DEF HandlersOK, HandlerOK, Owns, FramesOK, Recorded

\* The types of a handler's fields.
LEMMA HandlerFields ==
  ASSUME NEW x \in Handlers
  PROVE  /\ x.pc \in Points /\ x.err \in Errs /\ x.type \in Ends /\ x.code \in Codes
         /\ x.seq \in Nat /\ x.sse \in Nat /\ x.cancels \in Nat /\ x.out \in Bodies
  BY Zenon DEF Handlers

\* r moves to y without appending: nobody else is concerned.
LEMMA QuietStep ==
  ASSUME DispatchInv, NEW r \in Requests, NEW y, Becomes(r, y),
         HandlerOK(r, y, rows[InvocationOf[r]], events[InvocationOf[r]]),
         y.seq = h[r].seq, y.pc \in BeforeCall => h[r].pc \in BeforeCall,
         y.task \/ y.pc \in {"wait"} \cup Reading =>
           h[r].task \/ h[r].pc \in {"wait"} \cup Reading,
         UNCHANGED <<rows, events, calls>>
  PROVE  DispatchInv'
<1>1. h \in [Requests -> Handlers] /\ y \in Handlers
  BY Zenon DEF DispatchInv, HandlerOK
<1>2. h' \in [Requests -> Handlers] /\ h'[r] = y /\ \A q \in Requests \ {r} : h'[q] = h[q]
  BY <1>1, Zenon DEF Becomes
<1>3. LedgerInv' /\ RowsOK'
  <2>1. LedgerInv'
    BY InvStep, Zenon DEF DispatchInv, ledgerVars
  <2> QED
    BY <2>1, Zenon DEF DispatchInv, RowsOK
<1>4. HandlersOK'
  <2> SUFFICES ASSUME NEW q \in Requests
               PROVE  HandlerOK(q, h'[q], rows'[InvocationOf[q]], events'[InvocationOf[q]])
    BY HandlersOKNext, Zenon
  <2>t. rows' = rows /\ events' = events
    BY Zenon
  <2>1. CASE q = r
    BY <1>2, <2>1, <2>t, Zenon
  <2>2. CASE q # r
    BY <1>2, <2>2, <2>t, Zenon DEF DispatchInv, HandlersOK
  <2> QED
    BY <2>1, <2>2, Zenon
<1>5. OneOwner'
  BY <1>2 DEF DispatchInv, OneOwner
<1>6. CallsOK'
  <2>1. CallsOK
    BY Zenon DEF DispatchInv
  <2>2. ASSUME NEW i \in Invocations, calls[i] # 0
        PROVE  \E q \in Requests : InvocationOf[q] = i /\ h'[q].seq > 0 /\ h'[q].pc \notin BeforeCall
    <3>1. PICK q \in Requests : InvocationOf[q] = i /\ h[q].seq > 0 /\ h[q].pc \notin BeforeCall
      BY <2>1, <2>2, Zenon DEF CallsOK
    <3>2. h'[q].seq > 0 /\ h'[q].pc \notin BeforeCall
      BY <1>2, <3>1, Zenon
    <3> QED
      BY <3>1, <3>2, Zenon
  <2>3. \A q \in Requests :
          h'[q].task \/ h'[q].pc \in {"wait"} \cup Reading => calls[InvocationOf[q]] # 0
    BY <1>2, <2>1, Zenon DEF CallsOK
  <2> QED
    BY <2>1, <2>2, <2>3, Zenon DEF CallsOK
<1> QED
  BY <1>2, <1>3, <1>4, <1>5, <1>6, Zenon DEF DispatchInv

\* r moves to y and appends.  Only an owner appends, or nobody owned.
LEMMA AppendStep ==
  ASSUME DispatchInv, NEW r \in Requests, NEW y, Becomes(r, y), NEW e \in Event, LedgerAppend(e),
         e.invocation = InvocationOf[r], e.sequence = h[r].seq, e.at = 0,
         e.ctx = RequestContext(r),
         HandlerOK(r, y, rows'[InvocationOf[r]], events'[InvocationOf[r]]),
         y.seq >= h[r].seq, y.pc \in BeforeCall => h[r].pc \in BeforeCall,
         y.task \/ y.pc \in {"wait"} \cup Reading =>
           h[r].task \/ h[r].pc \in {"wait"} \cup Reading,
         UNCHANGED calls
  PROVE  DispatchInv'
<1> DEFINE i == InvocationOf[r]
<1>1. h \in [Requests -> Handlers] /\ y \in Handlers /\ LedgerInv
  BY Zenon DEF DispatchInv, HandlerOK
<1>2. h' \in [Requests -> Handlers] /\ h'[r] = y /\ \A q \in Requests \ {r} : h'[q] = h[q]
  BY <1>1, Zenon DEF Becomes
<1>3. /\ i \in Invocations
      /\ events[i] \in Seq(Event) /\ events'[i] \in Seq(Event)
      /\ Extended(rows[i], events[i], rows'[i], events'[i], e)
      /\ e.sequence = 0 => rows[i] = NoRow
      /\ rows'[i].updatedAt = 0
      /\ \A j \in Invocations \ {i} : rows'[j] = rows[j] /\ events'[j] = events[j]
  BY <1>1, AppendExtended, Zenon
<1>4. \A q \in Requests : h[q].seq \in Nat
  BY <1>1, Zenon DEF Handlers
<1>5. ASSUME NEW q \in Requests \ {r}, InvocationOf[q] = i
      PROVE  h[q].seq = 0
  <2>1. CASE h[r].seq = 0
    <3>1. rows[InvocationOf[q]] = NoRow
      BY <1>3, <1>5, <2>1, Zenon
    <3>2. HandlerOK(q, h[q], rows[InvocationOf[q]], events[InvocationOf[q]])
      BY Zenon DEF DispatchInv, HandlersOK
    <3> QED
      BY <3>1, <3>2, OwnerHasRow, Zenon
  <2>2. CASE h[r].seq # 0
    BY <1>5, <2>2, Zenon DEF DispatchInv, OneOwner
  <2> QED
    BY <2>1, <2>2, Zenon
<1>6. LedgerInv'
  BY <1>1, AppendKeepsInv, Zenon
<1>7. RowsOK'
  <2> SUFFICES ASSUME NEW j \in Invocations, rows'[j] # NoRow
               PROVE  /\ rows'[j].updatedAt = 0
                      /\ rows'[j].ctx.root = RootContext.root
                      /\ rows'[j].ctx.trace = RootContext.trace
                      /\ rows'[j].ctx.workspace = RootContext.workspace
    BY Zenon DEF RowsOK
  <2>1. CASE j = i
    <3>1. rows'[i].ctx = RequestContext(r)
      BY <1>3, Zenon DEF Extended
    <3> QED
      BY <1>3, <2>1, <3>1 DEF RequestContext
  <2>2. CASE j # i
    BY <1>3, <2>2, Zenon DEF DispatchInv, RowsOK
  <2> QED
    BY <2>1, <2>2, Zenon
<1>8. HandlersOK'
  <2> SUFFICES ASSUME NEW q \in Requests
               PROVE  HandlerOK(q, h'[q], rows'[InvocationOf[q]], events'[InvocationOf[q]])
    BY HandlersOKNext, Zenon
  <2>1. CASE q = r
    BY <1>2, <2>1, Zenon
  <2>2. CASE q # r
    <3>1. HandlerOK(q, h[q], rows[InvocationOf[q]], events[InvocationOf[q]]) /\ h'[q] = h[q]
      BY <1>2, <2>2, Zenon DEF DispatchInv, HandlersOK
    <3>2. CASE InvocationOf[q] = i
      BY <1>3, <1>5, <2>2, <3>1, <3>2, TablesMoveOK, ZenonT(60)
    <3>3. CASE InvocationOf[q] # i
      BY <1>3, <3>1, <3>3, DispatchAssumption, Zenon
    <3> QED
      BY <3>2, <3>3, Zenon
  <2> QED
    BY <2>1, <2>2, Zenon
<1>9. OneOwner'
  BY <1>2, <1>5 DEF DispatchInv, OneOwner
<1>10. CallsOK'
  <2>1. CallsOK
    BY Zenon DEF DispatchInv
  <2>2. ASSUME NEW j \in Invocations, calls[j] # 0
        PROVE  /\ Len(events'[j]) >= 3 /\ events'[j][3].type = "started"
               /\ \E q \in Requests : InvocationOf[q] = j /\ h'[q].seq > 0 /\ h'[q].pc \notin BeforeCall
    <3>1. PICK q \in Requests : InvocationOf[q] = j /\ h[q].seq > 0 /\ h[q].pc \notin BeforeCall
      BY <2>1, <2>2, Zenon DEF CallsOK
    <3>2. h'[q].seq > 0 /\ h'[q].pc \notin BeforeCall
      <4>1. CASE q = r
        BY <1>2, <1>4, <1>1, <3>1, <4>1 DEF Handlers
      <4>2. CASE q # r
        BY <1>2, <3>1, <4>2, Zenon
      <4> QED
        BY <4>1, <4>2, Zenon
    <3>3. Len(events[j]) >= 3 /\ events[j][3].type = "started"
      BY <2>1, <2>2, Zenon DEF CallsOK
    <3>4. Len(events'[j]) >= 3 /\ events'[j][3].type = "started"
      BY <1>3, <3>3, SMTT(60) DEF Extended
    <3> QED
      BY <3>1, <3>2, <3>4, Zenon
  <2>3. \A q \in Requests :
          h'[q].task \/ h'[q].pc \in {"wait"} \cup Reading => calls[InvocationOf[q]] # 0
    BY <1>2, <2>1 DEF CallsOK
  <2> QED
    BY <2>1, <2>2, <2>3, Zenon DEF CallsOK
<1> QED
  BY <1>2, <1>6, <1>7, <1>8, <1>9, <1>10, Zenon DEF DispatchInv

-----------------------------------------------------------------------------
(* Every action keeps the invariant: admission *)

\* What the invariant says of one handler.
LEMMA HandlerFacts ==
  ASSUME DispatchInv, NEW r \in Requests
  PROVE  /\ h \in [Requests -> Handlers] /\ h[r] \in Handlers
         /\ InvocationOf[r] \in Invocations /\ events[InvocationOf[r]] \in Seq(Event)
         /\ HandlerOK(r, h[r], rows[InvocationOf[r]], events[InvocationOf[r]])
  BY DispatchAssumption, Zenon DEF DispatchInv, HandlersOK, LedgerInv, LedgerTypeOK

\* A refusal before any Ledger event keeps the invariant.
LEMMA ReplyWithKeeps ==
  ASSUME DispatchInv, NEW r \in Requests, h[r].pc \in Opening, NEW code \in Codes,
         ReplyWith(r, code), UNCHANGED <<rows, events, calls>>
  PROVE  DispatchInv'
<1> DEFINE y == [h[r] EXCEPT !.pc = "reply", !.type = "failed", !.code = code]
<1>1. Becomes(r, y)
  BY HandlerFacts, Zenon DEF ReplyWith, Becomes
<1>2. HandlerOK(r, y, rows[InvocationOf[r]], events[InvocationOf[r]])
  BY HandlerFacts, ReplyWithOK, Zenon
<1>3. y.seq = h[r].seq /\ y.pc = "reply" /\ y.task = h[r].task
  BY HandlerFacts, Zenon DEF Handlers
<1> HIDE DEF y
<1> QED
  BY <1>1, <1>2, <1>3, QuietStep, Zenon DEF Reading, BeforeCall, Opening, Initial

\* Admitting or refusing a root request keeps the invariant.
LEMMA ServeKeeps ==
  ASSUME DispatchInv, NEW r \in Requests, Serve(r)
  PROVE  DispatchInv'
<1>1. At(r, "idle") /\ UNCHANGED <<rows, events, calls>>
  BY Zenon DEF Serve
<1>2. CASE \E code \in readRequestErrors : ReplyWith(r, code)
  BY <1>1, <1>2, ReplyWithKeeps, Zenon DEF At, Opening, readRequestErrors, Codes
<1>3. CASE h' = [h EXCEPT ![r].pc = "resolve", ![r].ctx = RequestContext(r)]
  <2> DEFINE y == [h[r] EXCEPT !.pc = "resolve", !.ctx = RequestContext(r)]
  <2>1. Becomes(r, y)
    BY <1>3, HandlerFacts, Zenon DEF Becomes
  <2>2. HandlerOK(r, y, rows[InvocationOf[r]], events[InvocationOf[r]])
    BY <1>1, HandlerFacts, ServeOK, Zenon DEF At
  <2>3. y.seq = h[r].seq /\ y.pc = "resolve" /\ y.task = h[r].task
    BY HandlerFacts, Zenon DEF Handlers
  <2> HIDE DEF y
  <2> QED
    BY <1>1, <2>1, <2>2, <2>3, QuietStep, Zenon DEF Reading, BeforeCall, Opening, At
<1> QED
  BY <1>2, <1>3, Zenon DEF Serve

\* Admitting a nested request keeps the invariant.
LEMMA ServeNestedKeeps ==
  ASSUME DispatchInv, NEW r \in Requests, ServeNested(r)
  PROVE  DispatchInv'
<1>1. At(r, "idle") /\ Child(r) /\ UNCHANGED <<rows, events, calls>>
  BY Zenon DEF ServeNested
<1>2. CASE \E code \in {"UNAUTHENTICATED", "NOT_ACCEPTABLE"} \cup readNestedRequestErrors :
             ReplyWith(r, code)
  BY <1>1, <1>2, ReplyWithKeeps, Zenon DEF At, Opening, Codes, readNestedRequestErrors
<1>3. CASE h' = [h EXCEPT ![r].pc = "parent"]
  <2> DEFINE y == [h[r] EXCEPT !.pc = "parent"]
  <2>b. Becomes(r, y)
    BY <1>3, HandlerFacts, Zenon DEF Becomes
  <2>o. HandlerOK(r, y, rows[InvocationOf[r]], events[InvocationOf[r]])
    BY <1>1, HandlerFacts, ServeNestedOK, Zenon DEF At
  <2>f. y.seq = h[r].seq /\ y.pc = "parent" /\ y.task = h[r].task
    BY HandlerFacts, Zenon DEF Handlers
  <2> HIDE DEF y
  <2> QED
    BY <1>1, <2>b, <2>o, <2>f, QuietStep, Zenon DEF Reading, BeforeCall, Opening, Initial, At
<1> QED
  BY <1>2, <1>3, Zenon DEF ServeNested

\* A code of the platform stays one whether or not the context explains it.
LEMMA NestedErrorCode ==
  ASSUME DispatchInv, NEW r \in Requests, NEW code \in Codes
  PROVE  classifyNestedError(r, code) \in Codes
<1>1. Done(r) => h[r].err \in Codes
  BY HandlerFacts, DispatchAssumption, Zenon DEF Handlers, Errs, Codes, Done
<1> QED
  BY <1>1, Zenon DEF classifyNestedError

\* Reading the parent keeps the invariant: the context that a nested request
\* derives from its parent's row is its own, since every row belongs to the one
\* tree.
LEMMA ReadParentKeeps ==
  ASSUME DispatchInv, NEW r \in Requests, ReadParent(r)
  PROVE  DispatchInv'
<1>1. At(r, "parent") /\ UNCHANGED <<rows, events, calls>>
  BY Zenon DEF ReadParent
<1>2. ASSUME NEW code \in Codes, ReplyWith(r, code)
      PROVE  DispatchInv'
  BY <1>1, <1>2, ReplyWithKeeps, Zenon DEF At, Opening
<1>3. /\ "DEPENDENCY_ERROR" \in Codes /\ "NOT_FOUND" \in Codes /\ "CONFLICT" \in Codes
      /\ "FORBIDDEN" \in Codes
      /\ classifyNestedError(r, "DEPENDENCY_ERROR") \in Codes
      /\ classifyNestedError(r, "NOT_FOUND") \in Codes
  BY DispatchAssumption, NestedErrorCode, Zenon DEF Codes
<1>4. CASE /\ rows[ParentOf[r]] # NoRow
         /\ h' = [h EXCEPT ![r].pc = "version", ![r].ctx = DeriveChildContext(r, rows[ParentOf[r]])]
  <2>1. Child(r)
    BY <1>1, HandlerFacts, Zenon DEF At, HandlerOK
  <2>2. DeriveChildContext(r, rows[ParentOf[r]]) = RequestContext(r)
    BY <1>4, <2>1, DispatchAssumption, Zenon
       DEF Child, DispatchInv, RowsOK, DeriveChildContext, RequestContext
  <2> DEFINE y == [h[r] EXCEPT !.pc = "version", !.ctx = RequestContext(r)]
  <2>b. Becomes(r, y)
    BY <1>4, <2>2, HandlerFacts, Zenon DEF Becomes
  <2>o. HandlerOK(r, y, rows[InvocationOf[r]], events[InvocationOf[r]])
    BY <1>1, HandlerFacts, ServeOK, Zenon DEF At
  <2>f. y.seq = h[r].seq /\ y.pc = "version" /\ y.task = h[r].task
    BY HandlerFacts, Zenon DEF Handlers
  <2> HIDE DEF y
  <2> QED
    BY <1>1, <2>b, <2>o, <2>f, QuietStep, Zenon DEF Reading, BeforeCall, Opening, Initial, At
<1> QED
  BY <1>2, <1>3, <1>4, Zenon DEF ReadParent

\* Asking for the installed version keeps the invariant.
LEMMA ResolveInstalledVersionKeeps ==
  ASSUME DispatchInv, NEW r \in Requests, ResolveInstalledVersion(r)
  PROVE  DispatchInv'
<1>1. At(r, "version") /\ UNCHANGED <<rows, events, calls>>
  BY Zenon DEF ResolveInstalledVersion
<1>2. ASSUME NEW code \in installedVersionFailures,
             ReplyWith(r, classifyNestedError(r, mapControlPlaneCodeToAgentBoundary(code)))
      PROVE  DispatchInv'
  <2>1. mapControlPlaneCodeToAgentBoundary(code) \in Codes
    BY DispatchAssumption, Zenon DEF Codes, mapControlPlaneCodeToAgentBoundary, installedVersionFailures
  <2> QED
    BY <1>1, <1>2, <2>1, NestedErrorCode, ReplyWithKeeps, Zenon DEF At, Opening
<1>3. CASE h' = [h EXCEPT ![r].pc = "resolve"]
  <2> DEFINE y == [h[r] EXCEPT !.pc = "resolve"]
  <2>b. Becomes(r, y)
    BY <1>3, HandlerFacts, Zenon DEF Becomes
  <2>o. HandlerOK(r, y, rows[InvocationOf[r]], events[InvocationOf[r]])
    BY <1>1, <1>3, HandlerFacts, VersionOK, Zenon DEF At
  <2>f. y.seq = h[r].seq /\ y.pc = "resolve" /\ y.task = h[r].task
    BY HandlerFacts, Zenon DEF Handlers
  <2> HIDE DEF y
  <2> QED
    BY <1>1, <2>b, <2>o, <2>f, QuietStep, Zenon DEF Reading, BeforeCall, Opening, Initial, At
<1> QED
  BY <1>1, <1>2, <1>3, Zenon DEF ResolveInstalledVersion

\* A nested request whose context ended there keeps the invariant.
LEMMA VersionInterruptedKeeps ==
  ASSUME DispatchInv, NEW r \in Requests, VersionInterrupted(r)
  PROVE  DispatchInv'
<1>1. "DEPENDENCY_ERROR" \in Codes
  BY DispatchAssumption, Zenon DEF Codes
<1> QED
  BY <1>1, NestedErrorCode, ReplyWithKeeps, Zenon DEF VersionInterrupted, At, Opening

\* The Control Plane's resolution, of whatever kind, keeps the invariant.
LEMMA ResolveKeeps ==
  ASSUME DispatchInv, NEW r \in Requests, Resolve(r)
  PROVE  DispatchInv'
<1>1. At(r, "resolve") /\ UNCHANGED <<rows, events, calls>>
  BY Zenon DEF Resolve
<1>2. CASE \E code \in resolutionFailures \cup {"PAYLOAD_TOO_LARGE"} : ReplyWith(r, code)
  BY <1>1, <1>2, DispatchAssumption, ReplyWithKeeps, Zenon
     DEF At, Opening, Codes, resolutionFailures
<1>3. CASE h' = [h EXCEPT ![r].pc = "initial", ![r].type = "failed", ![r].code = "ROUTE_NOT_FOUND"]
  <2> DEFINE y == [h[r] EXCEPT !.pc = "initial", !.type = "failed", !.code = "ROUTE_NOT_FOUND"]
  <2>b. Becomes(r, y)
    BY <1>3, HandlerFacts, Zenon DEF Becomes
  <2>o. HandlerOK(r, y, rows[InvocationOf[r]], events[InvocationOf[r]])
    BY <1>1, <1>3, HandlerFacts, ResolveUnusableOK, Zenon DEF At
  <2>f. y.seq = h[r].seq /\ y.pc = "initial" /\ y.task = h[r].task
    BY HandlerFacts, Zenon DEF Handlers
  <2> HIDE DEF y
  <2> QED
    BY <1>1, <1>3, <2>b, <2>o, <2>f, QuietStep, Zenon DEF Reading, BeforeCall, Opening, Initial, At
<1>4. CASE h' = [h EXCEPT ![r].pc = "initial"]
  <2> DEFINE y == [h[r] EXCEPT !.pc = "initial"]
  <2>b. Becomes(r, y)
    BY <1>4, HandlerFacts, Zenon DEF Becomes
  <2>o. HandlerOK(r, y, rows[InvocationOf[r]], events[InvocationOf[r]])
    BY <1>1, <1>4, HandlerFacts, ResolveOK, Zenon DEF At
  <2>f. y.seq = h[r].seq /\ y.pc = "initial" /\ y.task = h[r].task
    BY HandlerFacts, Zenon DEF Handlers
  <2> HIDE DEF y
  <2> QED
    BY <1>1, <1>4, <2>b, <2>o, <2>f, QuietStep DEF Reading, BeforeCall, Opening, Initial, At
<1> QED
  BY <1>1, <1>2, <1>3, <1>4, Zenon DEF Resolve

\* A context that ends during the resolution keeps the invariant.
LEMMA ResolveInterruptedKeeps ==
  ASSUME DispatchInv, NEW r \in Requests, ResolveInterrupted(r)
  PROVE  DispatchInv'
<1> DEFINE code == IF h[r].err = "TIMEOUT" \/ Child(r) THEN h[r].err ELSE "DEPENDENCY_ERROR"
<1>1. code \in Codes
  BY HandlerFacts, CodesAssumption, DispatchAssumption, Zenon DEF Handlers, Errs, Codes
<1>2. ReplyWith(r, code) /\ h[r].pc \in Opening /\ UNCHANGED <<rows, events, calls>>
  BY Zenon DEF ResolveInterrupted, At, Opening
<1> HIDE DEF code
<1> QED
  BY <1>1, <1>2, ReplyWithKeeps, Zenon

\* Giving up after a failed initial append keeps the invariant: the terminal
\* event is offered only by an owner.
LEMMA InitialFailedKeeps ==
  ASSUME DispatchInv, NEW r \in Requests, InitialFailed(r)
  PROVE  DispatchInv'
<1>1. At(r, "initialFailed") /\ UNCHANGED <<rows, events, calls>>
  BY Zenon DEF InitialFailed
<1>2. CASE /\ h[r].seq > 0 /\ Done(r)
         /\ h' = [h EXCEPT ![r].pc = "terminal", ![r].type = contextType(h[r].err),
                           ![r].code = h[r].err]
  <2> DEFINE y == [h[r] EXCEPT !.pc = "terminal", !.type = contextType(h[r].err), !.code = h[r].err]
  <2>b. Becomes(r, y)
    BY <1>2, HandlerFacts, Zenon DEF Becomes
  <2>o. HandlerOK(r, y, rows[InvocationOf[r]], events[InvocationOf[r]])
    BY <1>1, <1>2, HandlerFacts, InitialEndsOK, Zenon DEF At, Done
  <2>f. y.seq = h[r].seq /\ y.pc = "terminal" /\ y.task = h[r].task
    BY HandlerFacts, Zenon DEF Handlers
  <2> HIDE DEF y
  <2> QED
    BY <1>1, <1>2, <2>b, <2>o, <2>f, QuietStep DEF Reading, BeforeCall, Opening, Initial, At
<1>3. CASE ~(h[r].seq > 0 /\ Done(r)) /\ ReplyWith(r, "DEPENDENCY_ERROR")
  <2> DEFINE y == [h[r] EXCEPT !.pc = "reply", !.type = "failed", !.code = "DEPENDENCY_ERROR"]
  <2>b. Becomes(r, y)
    BY <1>3, HandlerFacts, Zenon DEF Becomes, ReplyWith
  <2>o. HandlerOK(r, y, rows[InvocationOf[r]], events[InvocationOf[r]])
    BY <1>1, <1>3, HandlerFacts, InitialFailedOK, Zenon DEF At, Done
  <2>f. y.seq = h[r].seq /\ y.pc = "reply" /\ y.task = h[r].task
    BY HandlerFacts, Zenon DEF Handlers
  <2> HIDE DEF y
  <2> QED
    BY <1>1, <1>3, <2>b, <2>o, <2>f, QuietStep DEF Reading, BeforeCall, Opening, Initial, At
<1> QED
  BY <1>1, <1>2, <1>3, Zenon DEF InitialFailed

-----------------------------------------------------------------------------
(* Every action keeps the invariant: the call, the stream and the replies *)

\* The JSON reply keeps the invariant.
LEMMA ReplyKeeps ==
  ASSUME DispatchInv, NEW r \in Requests, Reply(r)
  PROVE  DispatchInv'
<1>1. At(r, "reply") /\ UNCHANGED <<rows, events, calls>>
  BY Zenon DEF Reply
<1> DEFINE out == IF h[r].wire THEN <<Frame(h[r].type, 0, NoChunk, h[r].code)>> ELSE h[r].out
           y == [h[r] EXCEPT !.pc = "done", !.out = out]
<1>2. out \in {<<>>, <<Frame(h[r].type, 0, NoChunk, h[r].code)>>}
  BY <1>1, HandlerFacts, Zenon DEF At, HandlerOK, Written
<1>3. Becomes(r, y)
  BY HandlerFacts, Zenon DEF Reply, Becomes
<1> HIDE DEF out
<1>4. HandlerOK(r, y, rows[InvocationOf[r]], events[InvocationOf[r]])
  BY <1>1, <1>2, HandlerFacts, ReplyOK, Zenon DEF At
<1>5. y.seq = h[r].seq /\ y.pc = "done" /\ y.task = h[r].task
  BY HandlerFacts, Zenon DEF Handlers
<1> HIDE DEF y
<1> QED
  BY <1>1, <1>3, <1>4, <1>5, QuietStep, Zenon DEF Reading, BeforeCall, Opening, Initial

\* The handler after Outcome(r, c), field by field.
LEMMA OutcomeFields ==
  ASSUME h \in [Requests -> Handlers], NEW r \in Requests, NEW c \in ErrorCodes
  PROVE  LET g == Outcome(r, c)
         IN /\ g \in [Requests -> Handlers]
            /\ \A q \in Requests \ {r} : g[q] = h[q]
            /\ g[r].pc = IF r \in Streams THEN "finish" ELSE "terminal"
            /\ g[r].type = IF c = "TIMEOUT" THEN "timed_out"
                           ELSE IF c = "CANCELED" THEN "canceled" ELSE "failed"
            /\ g[r].code = c /\ g[r].seq = h[r].seq /\ g[r].sse = h[r].sse /\ g[r].out = h[r].out
            /\ g[r].task = h[r].task /\ g[r].cancels = h[r].cancels /\ g[r].faulty = h[r].faulty
            /\ g[r].ctx = h[r].ctx
<1> DEFINE p == IF r \in Streams THEN "finish" ELSE "terminal"
           t == IF c = "TIMEOUT" THEN "timed_out" ELSE IF c = "CANCELED" THEN "canceled" ELSE "failed"
           x == h[r]
           y == [x EXCEPT !.pc = p, !.type = t, !.code = c]
<1>1. p \in Points /\ t \in Ends /\ c \in Codes
  BY Zenon DEF Points, Started, Ends, Codes, Terminal
<1>2. Outcome(r, c) = [h EXCEPT ![r] = y]
  BY Zenon DEF Outcome
<1> HIDE DEF p, t
<1>3. /\ y \in Handlers /\ y.pc = p /\ y.type = t /\ y.code = c /\ y.seq = x.seq /\ y.sse = x.sse
      /\ y.out = x.out /\ y.task = x.task /\ y.cancels = x.cancels /\ y.faulty = x.faulty
      /\ y.ctx = x.ctx
  BY <1>1, ZenonT(60) DEF Handlers
<1> HIDE DEF y
<1> QED
  BY <1>2, <1>3, Zenon DEF p, t

\* A handler that owns its Invocation moves to an error outcome.
LEMMA OutcomeStep ==
  ASSUME DispatchInv, NEW r \in Requests, NEW c \in ErrorCodes,
         h[r].pc \in {"select", "call", "wait", "receive", "chunkFailed", "write", "verdict"}
           \/ (h[r].pc = "accept" /\ "accepted" \in FrameFits),
         h' \in [Requests -> Handlers], \A q \in Requests \ {r} : h'[q] = Outcome(r, c)[q],
         h'[r].pc = Outcome(r, c)[r].pc, h'[r].type = Outcome(r, c)[r].type,
         h'[r].code = c, h'[r].seq = h[r].seq, h'[r].out = h[r].out,
         h'[r].cancels = h[r].cancels, h'[r].ctx = h[r].ctx,
         h'[r].sse >= h[r].sse, h[r].faulty => h'[r].faulty,
         h'[r].task => h[r].task \/ h[r].pc = "receive",
         UNCHANGED <<rows, events, calls>>
  PROVE  DispatchInv'
<1> DEFINE g == Outcome(r, c)
           y == h'[r]
<1>1. /\ \A q \in Requests \ {r} : g[q] = h[q]
      /\ g[r].pc = IF r \in Streams THEN "finish" ELSE "terminal"
      /\ g[r].type = IF c = "TIMEOUT" THEN "timed_out"
                     ELSE IF c = "CANCELED" THEN "canceled" ELSE "failed"
  BY HandlerFacts, OutcomeFields
<1> HIDE DEF g
<1>2. Becomes(r, y) /\ y \in Handlers
  BY <1>1, HandlerFacts DEF Becomes, g
<1>3. y.pc = g[r].pc /\ y.type = g[r].type
  BY Zenon DEF g
<1> HIDE DEF y
<1>4. HandlerOK(r, y, rows[InvocationOf[r]], events[InvocationOf[r]])
  BY <1>1, <1>2, <1>3, HandlerFacts, OutcomeOK, SMTT(60) DEF y
<1>5. /\ y.seq = h[r].seq /\ y.pc \in {"finish", "terminal"}
      /\ y.task => h[r].task \/ h[r].pc \in Reading
  BY <1>1, <1>3, Zenon DEF y, Reading
<1> QED
  BY <1>2, <1>4, <1>5, QuietStep, Zenon DEF Reading, BeforeCall, Opening, Initial

\* The forms in which an outcome is reached.
LEMMA OutcomeKeeps ==
  ASSUME DispatchInv, NEW r \in Requests, NEW c \in ErrorCodes,
         h[r].pc \in {"select", "call", "wait", "receive", "chunkFailed", "write", "verdict"}
           \/ (h[r].pc = "accept" /\ "accepted" \in FrameFits),
         \/ h' = Outcome(r, c)
         \/ h' = [Outcome(r, c) EXCEPT ![r].task = TRUE] /\ h[r].pc = "receive"
         \/ h' = [Outcome(r, c) EXCEPT ![r].lost = TRUE]
         \/ h' = [Outcome(r, c) EXCEPT ![r].sse = h[r].sse + 1]
         \/ h' = [Outcome(r, c) EXCEPT ![r].sse = h[r].sse + 1, ![r].lost = TRUE],
         UNCHANGED <<rows, events, calls>>
  PROVE  DispatchInv'
<1> DEFINE g == Outcome(r, c)
           yes == TRUE
<1>1. /\ g \in [Requests -> Handlers]
      /\ g[r].code = c /\ g[r].seq = h[r].seq /\ g[r].sse = h[r].sse /\ g[r].out = h[r].out
      /\ g[r].task = h[r].task /\ g[r].cancels = h[r].cancels /\ g[r].faulty = h[r].faulty
      /\ g[r].ctx = h[r].ctx
  BY HandlerFacts, OutcomeFields
<1>2. yes \in Flags /\ h[r].sse \in Nat /\ h[r].sse + 1 \in Nat
  BY HandlerFacts DEF Flags, Handlers
<1>3. \/ h' = g
      \/ h' = [g EXCEPT ![r].task = yes] /\ h[r].pc = "receive"
      \/ h' = [g EXCEPT ![r].lost = yes]
      \/ h' = [g EXCEPT ![r].sse = h[r].sse + 1]
      \/ h' = [g EXCEPT ![r].sse = h[r].sse + 1, ![r].lost = yes]
  BY Zenon
<1> HIDE DEF g, yes
<1>4. /\ h' \in [Requests -> Handlers] /\ \A q \in Requests \ {r} : h'[q] = g[q]
      /\ h'[r].pc = g[r].pc /\ h'[r].type = g[r].type /\ h'[r].code = g[r].code
      /\ h'[r].seq = g[r].seq /\ h'[r].out = g[r].out /\ h'[r].cancels = g[r].cancels
      /\ h'[r].ctx = g[r].ctx
  BY <1>1, <1>2, <1>3 DEF Handlers
<1>5. h'[r].sse \in {h[r].sse, h[r].sse + 1}
  BY <1>1, <1>2, <1>3 DEF Handlers
<1>6. /\ h'[r].faulty = g[r].faulty
      /\ h'[r].task = g[r].task \/ (h'[r].task = yes /\ h[r].pc = "receive")
  <2>1. CASE h' = g
    BY <2>1, Zenon
  <2>2. CASE h' = [g EXCEPT ![r].task = yes] /\ h[r].pc = "receive"
    BY <1>1, <1>2, <2>2 DEF Handlers
  <2>3. CASE h' = [g EXCEPT ![r].lost = yes]
    BY <1>1, <1>2, <2>3 DEF Handlers
  <2>4. CASE h' = [g EXCEPT ![r].sse = h[r].sse + 1]
    BY <1>1, <1>2, <2>4 DEF Handlers
  <2>5. CASE h' = [g EXCEPT ![r].sse = h[r].sse + 1, ![r].lost = yes]
    BY <1>1, <1>2, <2>5 DEF Handlers
  <2> QED
    BY <1>3, <2>1, <2>2, <2>3, <2>4, <2>5
<1>7. h'[r].sse >= h[r].sse
  BY <1>2, <1>5
<1>8. h[r].faulty => h'[r].faulty
  BY <1>1, <1>6, Zenon
<1>9. h'[r].task => h[r].task \/ h[r].pc = "receive"
  BY <1>1, <1>6, Zenon
<1> QED
  BY <1>1, <1>4, <1>7, <1>8, <1>9, OutcomeStep DEF g

\* The context's error is a code of the platform.
LEMMA ContextError ==
  ASSUME DispatchInv, NEW r \in Requests, Done(r)
  PROVE  h[r].err \in ErrorCodes /\ h[r].err \in {"TIMEOUT", "CANCELED"}
  BY HandlerFacts, CodesAssumption, Zenon DEF Done, Handlers, Errs

\* The answer of the instance directory keeps the invariant.
LEMMA SelectTargetKeeps ==
  ASSUME DispatchInv, NEW r \in Requests, SelectTarget(r)
  PROVE  DispatchInv'
<1>1. /\ h[r].pc = "select" /\ UNCHANGED <<rows, events, calls>>
  BY Zenon DEF SelectTarget, At
<1>2. CASE h' = [h EXCEPT ![r].pc = "call"]
  <2> DEFINE y == [h[r] EXCEPT !.pc = "call"]
  <2>b. Becomes(r, y)
    BY <1>2, HandlerFacts, Zenon DEF Becomes
  <2>o. HandlerOK(r, y, rows[InvocationOf[r]], events[InvocationOf[r]])
    BY <1>1, HandlerFacts, SelectOK, Zenon DEF At
  <2>f. y.seq = h[r].seq /\ y.pc = "call" /\ y.task = h[r].task
    BY HandlerFacts, Zenon DEF Handlers
  <2> HIDE DEF y
  <2> QED
    BY <1>1, <2>b, <2>o, <2>f, QuietStep, Zenon DEF Reading, BeforeCall, Opening, Initial, At
<1>3. ASSUME NEW c \in {"DEPENDENCY_ERROR"} \cup {selectErrorCode(r, e) : e \in {"TIMEOUT", "CANCELED"}},
             h' = [Outcome(r, c) EXCEPT ![r].lost = TRUE]
      PROVE  DispatchInv'
  <2>1. c \in ErrorCodes
    BY <1>3, DispatchAssumption, Zenon DEF selectErrorCode, dispatchErrorCode
  <2> QED
    BY <1>1, <1>3, <2>1, OutcomeKeeps, Zenon
<1>4. CASE h' = Outcome(r, IF r \in Streams /\ Done(r) THEN h[r].err ELSE "A2A_PROTOCOL_ERROR")
  BY <1>1, <1>4, OutcomeKeeps, ContextError, DispatchAssumption, Zenon
<1> QED
  BY <1>2, <1>3, <1>4, Zenon DEF SelectTarget

\* A context that ends during the selection keeps the invariant.
LEMMA SelectInterruptedKeeps ==
  ASSUME DispatchInv, NEW r \in Requests, SelectInterrupted(r)
  PROVE  DispatchInv'
<1> DEFINE c == selectErrorCode(r, h[r].err)
<1>1. /\ h[r].pc = "select" /\ UNCHANGED <<rows, events, calls>> /\ h' = Outcome(r, c)
  BY Zenon DEF SelectInterrupted, At
<1>2. c \in ErrorCodes
  BY ContextError, DispatchAssumption, Zenon DEF SelectInterrupted, selectErrorCode, dispatchErrorCode
<1> HIDE DEF c
<1> QED
  BY <1>1, <1>2, OutcomeKeeps, Zenon

\* The Agent's JSON answer keeps the invariant.
LEMMA AgentAnswersKeeps ==
  ASSUME DispatchInv, NEW r \in Requests, AgentAnswers(r)
  PROVE  DispatchInv'
<1>1. /\ h[r].pc = "wait" /\ UNCHANGED <<rows, events, calls>>
  BY Zenon DEF AgentAnswers, At
<1>2. CASE Done(r) /\ h' = Outcome(r, dispatchErrorCode(h[r].err))
  <2>1. dispatchErrorCode(h[r].err) \in ErrorCodes
    BY <1>2, ContextError, DispatchAssumption, Zenon DEF dispatchErrorCode
  <2> QED
    BY <1>1, <1>2, <2>1, OutcomeKeeps, Zenon
<1>3. CASE h' = [h EXCEPT ![r].pc = "terminal", ![r].type = "succeeded"]
  <2> DEFINE y == [h[r] EXCEPT !.pc = "terminal", !.type = "succeeded"]
  <2>b. Becomes(r, y)
    BY <1>3, HandlerFacts, Zenon DEF Becomes
  <2>o. HandlerOK(r, y, rows[InvocationOf[r]], events[InvocationOf[r]])
    BY <1>1, HandlerFacts, AnswerOK, Zenon DEF At
  <2>f. y.seq = h[r].seq /\ y.pc = "terminal" /\ y.task = h[r].task
    BY HandlerFacts, Zenon DEF Handlers
  <2> HIDE DEF y
  <2> QED
    BY <1>1, <2>b, <2>o, <2>f, QuietStep, Zenon DEF Reading, BeforeCall, Opening, Initial, At
<1>4. CASE \E c \in AgentFailures : h' = Outcome(r, c)
  BY <1>1, <1>4, OutcomeKeeps, DispatchAssumption, Zenon
<1> QED
  BY <1>2, <1>3, <1>4, Zenon DEF AgentAnswers

\* A context that ends during the call keeps the invariant.
LEMMA CallInterruptedKeeps ==
  ASSUME DispatchInv, NEW r \in Requests, CallInterrupted(r)
  PROVE  DispatchInv'
  BY ContextError, OutcomeKeeps, Zenon DEF CallInterrupted

\* The accepted frame, written, lost or too large, keeps the invariant.
LEMMA WriteAcceptedKeeps ==
  ASSUME DispatchInv, NEW r \in Requests, WriteAccepted(r)
  PROVE  DispatchInv'
<1>1. /\ h[r].pc = "accept" /\ UNCHANGED <<rows, events, calls>>
  BY Zenon DEF WriteAccepted, At
<1>2. \A c \in ErrorCodes : streamWriteErrorCode(r, c) \in ErrorCodes
  BY ContextError, Zenon DEF streamWriteErrorCode
<1>3. CASE "accepted" \notin FrameFits
  <2> DEFINE c == streamWriteErrorCode(r, "AGENT_RESPONSE_TOO_LARGE")
  <2>1. c \in ErrorCodes
    BY <1>2, DispatchAssumption, Zenon
  <2>2. h' = [h EXCEPT ![r].pc = "terminal", ![r].type = "failed", ![r].code = c]
    BY <1>3, Zenon DEF WriteAccepted
  <2> HIDE DEF c
  <2> DEFINE y == [h[r] EXCEPT !.pc = "terminal", !.type = "failed", !.code = c]
  <2>b. Becomes(r, y)
    BY <2>2, HandlerFacts, Zenon DEF Becomes
  <2>o. HandlerOK(r, y, rows[InvocationOf[r]], events[InvocationOf[r]])
    BY <1>1, <1>3, <2>1, HandlerFacts, AcceptTooLargeOK, Zenon DEF At
  <2>f. y.seq = h[r].seq /\ y.pc = "terminal" /\ y.task = h[r].task
    BY HandlerFacts, Zenon DEF Handlers
  <2> HIDE DEF y
  <2> QED
    BY <1>1, <1>3, <2>1, <2>b, <2>o, <2>f, QuietStep DEF Reading, BeforeCall, Opening, Initial, At
<1>4. CASE "accepted" \in FrameFits /\ ~h[r].wire
  <2> DEFINE c == streamWriteErrorCode(r, "DEPENDENCY_ERROR")
  <2>1. c \in ErrorCodes
    BY <1>2, DispatchAssumption, Zenon
  <2>2. h[r].sse + 1 = 1
    BY <1>1, HandlerFacts, SMTT(60) DEF HandlerOK, Numbers
  <2>3. h' = [Outcome(r, c) EXCEPT ![r].sse = h[r].sse + 1, ![r].lost = TRUE]
    BY <1>4, <2>2, Zenon DEF WriteAccepted
  <2> HIDE DEF c
  <2> QED
    BY <1>1, <1>4, <2>1, <2>3, OutcomeKeeps, Zenon
<1>5. CASE "accepted" \in FrameFits /\ h[r].wire
  <2> DEFINE out == <<Frame("accepted", 0, NoChunk, NoCode)>>
  <2>1. h' = [h EXCEPT ![r].pc = "select", ![r].sse = 1, ![r].out = out]
    BY <1>5, Zenon DEF WriteAccepted
  <2> HIDE DEF out
  <2> DEFINE y == [h[r] EXCEPT !.pc = "select", !.sse = 1, !.out = out]
  <2>b. Becomes(r, y)
    BY <2>1, HandlerFacts, Zenon DEF Becomes
  <2>o. HandlerOK(r, y, rows[InvocationOf[r]], events[InvocationOf[r]])
    BY <1>1, HandlerFacts, AcceptOK, Zenon DEF At, out
  <2>f. y.seq = h[r].seq /\ y.pc = "select" /\ y.task = h[r].task
    BY HandlerFacts, Zenon DEF Handlers
  <2> HIDE DEF y
  <2> QED
    BY <1>1, <2>b, <2>o, <2>f, QuietStep, Zenon DEF Reading, BeforeCall, Opening, Initial, At
<1> QED
  BY <1>3, <1>4, <1>5, Zenon

\* What an event of the Agent's stream says is no outcome, or one that the Event
\* schema accepts.
LEMMA StreamOutcomes ==
  ASSUME NEW o \in mapA2AStreamEvent, o # NoOutcome
  PROVE  o[1] \in Ends /\ o[2] \in Codes /\ ValidEnd(o[1], o[2])
<1>1. o \in {<<"succeeded", NoCode>>, <<"failed", "AGENT_EXECUTION_FAILED">>, <<"canceled", "CANCELED">>}
  BY Zenon DEF mapA2AStreamEvent, MapA2ATaskState, NoOutcome
<1> QED
  BY <1>1, DispatchAssumption DEF ValidEnd, Ends, Codes, Terminal

\* An event of the Agent's stream keeps the invariant.
LEMMA ReceiveEventKeeps ==
  ASSUME DispatchInv, NEW r \in Requests, ReceiveEvent(r)
  PROVE  DispatchInv'
<1>1. h[r].pc = "receive" /\ h[r].sse <= MaxChunks /\ UNCHANGED <<rows, events, calls>>
  BY Zenon DEF ReceiveEvent, At
<1>2. PICK o \in mapA2AStreamEvent :
        h' = IF o # NoOutcome /\ Done(r)
             THEN [Outcome(r, h[r].err) EXCEPT ![r].task = TRUE]
             ELSE [h EXCEPT ![r].pc = "chunk", ![r].task = TRUE,
                            ![r].type = IF o = NoOutcome THEN @ ELSE o[1],
                            ![r].code = IF o = NoOutcome THEN @ ELSE o[2]]
  BY Zenon DEF ReceiveEvent
<1>3. CASE o # NoOutcome /\ Done(r)
  BY <1>1, <1>2, <1>3, ContextError, OutcomeKeeps, Zenon
<1>4. CASE ~(o # NoOutcome /\ Done(r))
  <2> DEFINE t == IF o = NoOutcome THEN h[r].type ELSE o[1]
             c == IF o = NoOutcome THEN h[r].code ELSE o[2]
             yes == TRUE
             y == [h[r] EXCEPT !.pc = "chunk", !.task = yes, !.type = t, !.code = c]
  <2>1. h' = [h EXCEPT ![r].pc = "chunk", ![r].task = yes, ![r].type = t, ![r].code = c]
    BY <1>2, <1>4, Zenon
  <2>2. yes \in Flags
    BY Zenon DEF Flags
  <2>3. t \in Ends /\ c \in Codes /\ ((t = "none" /\ c = NoCode) \/ ValidEnd(t, c))
    <3>1. h[r].type = "none" /\ h[r].code = NoCode
      BY <1>1, HandlerFacts, Zenon DEF HandlerOK, Verdicts, Undecided
    <3> QED
      BY <3>1, StreamOutcomes, Zenon DEF Ends, Codes
  <2> HIDE DEF t, c, yes
  <2>4. Becomes(r, y)
    BY <2>1, HandlerFacts, Zenon DEF Becomes
  <2>5. HandlerOK(r, y, rows[InvocationOf[r]], events[InvocationOf[r]])
    BY <1>1, <2>2, <2>3, HandlerFacts, ReceiveOK, Zenon
  <2>6. y.seq = h[r].seq /\ y.pc = "chunk"
    BY HandlerFacts, Zenon DEF Handlers
  <2> HIDE DEF y
  <2> QED
    BY <1>1, <2>4, <2>5, <2>6, QuietStep, Zenon DEF Reading, BeforeCall, Opening, Initial
<1> QED
  BY <1>3, <1>4, Zenon

\* A failure of the Agent's stream keeps the invariant.
LEMMA ReceiveErrorKeeps ==
  ASSUME DispatchInv, NEW r \in Requests, ReceiveError(r)
  PROVE  DispatchInv'
<1>1. h[r].pc = "receive" /\ UNCHANGED <<rows, events, calls>>
  BY Zenon DEF ReceiveError, At
<1>2. PICK c \in AgentFailures \cup {"A2A_PROTOCOL_ERROR"} :
        h' = Outcome(r, IF Done(r) /\ c # "A2A_PROTOCOL_ERROR" THEN h[r].err ELSE c)
  BY Zenon DEF ReceiveError
<1> DEFINE d == IF Done(r) /\ c # "A2A_PROTOCOL_ERROR" THEN h[r].err ELSE c
<1>3. d \in ErrorCodes
  BY ContextError, DispatchAssumption, Zenon
<1>4. h' = Outcome(r, d)
  BY <1>2, Zenon
<1> HIDE DEF d
<1> QED
  BY <1>1, <1>3, <1>4, OutcomeKeeps, Zenon

\* Giving up after a chunk that was not recorded keeps the invariant.
LEMMA ChunkFailedKeeps ==
  ASSUME DispatchInv, NEW r \in Requests, ChunkFailed(r)
  PROVE  DispatchInv'
<1>1. h[r].pc = "chunkFailed" /\ UNCHANGED <<rows, events, calls>>
  BY Zenon DEF ChunkFailed, At
<1>2. CASE Done(r)
  <2>1. h' = Outcome(r, h[r].err)
    BY <1>2, Zenon DEF ChunkFailed
  <2> QED
    BY <1>1, <1>2, <2>1, ContextError, OutcomeKeeps, Zenon
<1>3. CASE ~Done(r)
  <2>1. h' = [h EXCEPT ![r].pc = "writeTerminal", ![r].type = "failed",
                       ![r].code = "DEPENDENCY_ERROR"]
    BY <1>3, Zenon DEF ChunkFailed
  <2>2. h[r].err = NoCode
    BY <1>3, Zenon DEF Done
  <2> DEFINE y == [h[r] EXCEPT !.pc = "writeTerminal", !.type = "failed", !.code = "DEPENDENCY_ERROR"]
  <2>b. Becomes(r, y)
    BY <2>1, HandlerFacts, Zenon DEF Becomes
  <2>o. HandlerOK(r, y, rows[InvocationOf[r]], events[InvocationOf[r]])
    BY <1>1, <2>2, HandlerFacts, ChunkFailedOK, Zenon DEF At
  <2>f. y.seq = h[r].seq /\ y.pc = "writeTerminal" /\ y.task = h[r].task
    BY HandlerFacts, Zenon DEF Handlers
  <2> HIDE DEF y
  <2> QED
    BY <1>1, <2>2, <2>b, <2>o, <2>f, QuietStep DEF Reading, BeforeCall, Opening, Initial, At
<1> QED
  BY <1>2, <1>3, Zenon

\* A chunk, written, lost or too large, keeps the invariant.
LEMMA WriteChunkKeeps ==
  ASSUME DispatchInv, NEW r \in Requests, WriteChunk(r)
  PROVE  DispatchInv'
<1>1. h[r].pc = "write" /\ UNCHANGED <<rows, events, calls>>
  BY Zenon DEF WriteChunk, At
<1>2. \A c \in ErrorCodes : streamWriteErrorCode(r, c) \in ErrorCodes
  BY ContextError, Zenon DEF streamWriteErrorCode
<1>3. CASE h' = [Outcome(r, streamWriteErrorCode(r, "AGENT_RESPONSE_TOO_LARGE")) EXCEPT ![r].sse = @ + 1]
  <2> DEFINE c == streamWriteErrorCode(r, "AGENT_RESPONSE_TOO_LARGE")
  <2>1. c \in ErrorCodes
    BY <1>2, DispatchAssumption, Zenon
  <2>2. h' = [Outcome(r, c) EXCEPT ![r].sse = Outcome(r, c)[r].sse + 1]
    BY <1>3, Zenon
  <2> HIDE DEF c
  <2>3. Outcome(r, c)[r].sse = h[r].sse
    BY <2>1, HandlerFacts, OutcomeFields
  <2> QED
    BY <1>1, <2>1, <2>2, <2>3, OutcomeKeeps, Zenon
<1>4. CASE h' = [Outcome(r, streamWriteErrorCode(r, "DEPENDENCY_ERROR"))
                   EXCEPT ![r].sse = @ + 1, ![r].lost = TRUE]
  <2> DEFINE c == streamWriteErrorCode(r, "DEPENDENCY_ERROR")
  <2>1. c \in ErrorCodes
    BY <1>2, DispatchAssumption, Zenon
  <2>2. h' = [Outcome(r, c) EXCEPT ![r].sse = Outcome(r, c)[r].sse + 1, ![r].lost = TRUE]
    BY <1>4, Zenon
  <2> HIDE DEF c
  <2>3. Outcome(r, c)[r].sse = h[r].sse
    BY <2>1, HandlerFacts, OutcomeFields, ZenonT(60)
  <2> QED
    BY <1>1, <2>1, <2>2, <2>3, OutcomeKeeps, Zenon
<1>5. CASE h' = [h EXCEPT ![r].sse = @ + 1,
                          ![r].pc = IF h[r].type = "none" THEN "receive" ELSE "verdict",
                          ![r].out = Append(@, Frame("chunk", h[r].sse, h[r].sse - 1, NoCode))]
  <2> DEFINE f == Frame("chunk", h[r].sse, h[r].sse - 1, NoCode)
             p == IF h[r].type = "none" THEN "receive" ELSE "verdict"
             y == [h[r] EXCEPT !.sse = @ + 1, !.pc = IF h[r].type = "none" THEN "receive" ELSE "verdict",
                               !.out = Append(@, f)]
  <2> HIDE DEF f
  <2>1. Becomes(r, y)
    BY <1>5, HandlerFacts, Zenon DEF Becomes, f
  <2>2. HandlerOK(r, y, rows[InvocationOf[r]], events[InvocationOf[r]])
    BY <1>1, HandlerFacts, WriteChunkOK, Zenon DEF f
  <2>3. y.seq = h[r].seq /\ y.pc = p /\ y.task = h[r].task
    BY HandlerFacts, Zenon DEF Handlers
  <2> HIDE DEF y
  <2> QED
    BY <1>1, <2>1, <2>2, <2>3, QuietStep, Zenon DEF Reading, BeforeCall, Opening, Initial
<1> QED
  BY <1>3, <1>4, <1>5, Zenon DEF WriteChunk

\* Taking the Agent's outcome, or the context's, keeps the invariant.
LEMMA VerdictKeeps ==
  ASSUME DispatchInv, NEW r \in Requests, Verdict(r)
  PROVE  DispatchInv'
<1>1. h[r].pc = "verdict" /\ UNCHANGED <<rows, events, calls>>
  BY Zenon DEF Verdict, At
<1>2. CASE Done(r)
  <2>1. h' = Outcome(r, h[r].err)
    BY <1>2, Zenon DEF Verdict
  <2> QED
    BY <1>1, <1>2, <2>1, ContextError, OutcomeKeeps, Zenon
<1>3. CASE ~Done(r)
  <2>1. h' = [h EXCEPT ![r].pc = "finish"]
    BY <1>3, Zenon DEF Verdict
  <2> DEFINE y == [h[r] EXCEPT !.pc = "finish"]
  <2>b. Becomes(r, y)
    BY <2>1, HandlerFacts, Zenon DEF Becomes
  <2>o. HandlerOK(r, y, rows[InvocationOf[r]], events[InvocationOf[r]])
    BY <1>1, HandlerFacts, VerdictOK, Zenon DEF At
  <2>f. y.seq = h[r].seq /\ y.pc = "finish" /\ y.task = h[r].task
    BY HandlerFacts, Zenon DEF Handlers
  <2> HIDE DEF y
  <2> QED
    BY <1>1, <2>b, <2>o, <2>f, QuietStep, Zenon DEF Reading, BeforeCall, Opening, Initial, At
<1> QED
  BY <1>2, <1>3, Zenon

\* The terminal frame, written or lost, keeps the invariant.
LEMMA WriteTerminalKeeps ==
  ASSUME DispatchInv, NEW r \in Requests, WriteTerminal(r)
  PROVE  DispatchInv'
<1>1. h[r].pc = "writeTerminal" /\ UNCHANGED <<rows, events, calls>>
  BY Zenon DEF WriteTerminal, At
<1>2. CASE h' = [h EXCEPT ![r].pc = "close",
                          ![r].out = Append(@, Frame(h[r].type, h[r].sse, NoChunk, h[r].code))]
  <2> DEFINE f == Frame(h[r].type, h[r].sse, NoChunk, h[r].code)
             out == Append(h[r].out, f)
  <2>1. h' = [h EXCEPT ![r].pc = "close", ![r].out = out]
    BY <1>2, Zenon
  <2> HIDE DEF f, out
  <2> DEFINE y == [h[r] EXCEPT !.pc = "close", !.out = out]
  <2>b. Becomes(r, y)
    BY <2>1, HandlerFacts, Zenon DEF Becomes
  <2>o. HandlerOK(r, y, rows[InvocationOf[r]], events[InvocationOf[r]])
    BY <1>1, HandlerFacts, WriteTerminalOK, Zenon DEF At, f, out
  <2>f. y.seq = h[r].seq /\ y.pc = "close" /\ y.task = h[r].task
    BY HandlerFacts, Zenon DEF Handlers
  <2> HIDE DEF y
  <2> QED
    BY <1>1, <2>b, <2>o, <2>f, QuietStep, Zenon DEF Reading, BeforeCall, Opening, Initial, At
<1>3. CASE h' = [h EXCEPT ![r].pc = "close", ![r].err = IF Done(r) THEN @ ELSE "CANCELED"]
  <2> DEFINE e == IF Done(r) THEN h[r].err ELSE "CANCELED"
  <2>1. h' = [h EXCEPT ![r].pc = "close", ![r].err = e]
    BY <1>3, Zenon
  <2>2. e \in Errs
    BY HandlerFacts, Zenon DEF Handlers, Errs
  <2> HIDE DEF e
  <2> DEFINE y == [h[r] EXCEPT !.pc = "close", !.err = e]
  <2>b. Becomes(r, y)
    BY <2>1, HandlerFacts, Zenon DEF Becomes
  <2>o. HandlerOK(r, y, rows[InvocationOf[r]], events[InvocationOf[r]])
    BY <1>1, <2>2, HandlerFacts, TerminalLostOK, Zenon DEF At
  <2>f. y.seq = h[r].seq /\ y.pc = "close" /\ y.task = h[r].task
    BY HandlerFacts, Zenon DEF Handlers
  <2> HIDE DEF y
  <2> QED
    BY <1>1, <2>2, <2>b, <2>o, <2>f, QuietStep DEF Reading, BeforeCall, Opening, Initial, At
<1> QED
  BY <1>2, <1>3, Zenon DEF WriteTerminal

\* Leaving the stream, with or without a cancellation, keeps the invariant.
LEMMA CloseStreamKeeps ==
  ASSUME DispatchInv, NEW r \in Requests, CloseStream(r)
  PROVE  DispatchInv'
<1>1. h[r].pc = "close" /\ UNCHANGED <<rows, events, calls>>
  BY Zenon DEF CloseStream, At
<1> DEFINE n == IF h[r].task /\ Done(r) THEN h[r].cancels + 1 ELSE h[r].cancels
<1>2. h' = [h EXCEPT ![r].pc = "done", ![r].cancels = n]
  BY Zenon DEF CloseStream
<1>3. h[r].cancels = 0
  BY <1>1, HandlerFacts, Zenon DEF HandlerOK, Tasks
<1>4. n \in Nat /\ n <= 1 /\ (n = 1 => h[r].task)
  BY <1>3
<1> HIDE DEF n
<1> DEFINE y == [h[r] EXCEPT !.pc = "done", !.cancels = n]
<1>b. Becomes(r, y)
  BY <1>2, HandlerFacts, Zenon DEF Becomes
<1>o. HandlerOK(r, y, rows[InvocationOf[r]], events[InvocationOf[r]])
  BY <1>1, <1>4, HandlerFacts, CloseOK, Zenon DEF At
<1>f. y.seq = h[r].seq /\ y.pc = "done" /\ y.task = h[r].task
  BY HandlerFacts, Zenon DEF Handlers
<1> HIDE DEF y
<1> QED
  BY <1>1, <1>4, <1>b, <1>o, <1>f, QuietStep DEF Reading, BeforeCall, Opening, Initial, At

\* The context of a request ends, or its connection breaks.
LEMMA ContextEnds ==
  ASSUME DispatchInv, NEW r \in Requests, NEW e \in Errs \ {NoCode}, h[r].pc \notin Finished,
         h' = [h EXCEPT ![r].err = e], UNCHANGED <<rows, events, calls>>
  PROVE  DispatchInv'
<1> DEFINE y == [h[r] EXCEPT !.err = e]
<1>b. Becomes(r, y)
  BY HandlerFacts, Zenon DEF Becomes
<1>o. HandlerOK(r, y, rows[InvocationOf[r]], events[InvocationOf[r]])
  BY HandlerFacts, ContextEndsOK, Zenon DEF At
<1>f. y.seq = h[r].seq /\ y.pc = h[r].pc /\ y.task = h[r].task
  BY HandlerFacts, Zenon DEF Handlers
<1> HIDE DEF y
<1> QED
  BY <1>b, <1>o, <1>f, QuietStep, Zenon DEF Reading, BeforeCall, Opening, Initial, At

\* A deadline that passes keeps the invariant.
LEMMA DeadlineExpiresKeeps ==
  ASSUME DispatchInv, NEW r \in Requests, DeadlineExpires(r)
  PROVE  DispatchInv'
<1>1. "TIMEOUT" \in Errs \ {NoCode}
  BY CodesAssumption, Zenon DEF Errs
<1> QED
  BY <1>1, ContextEnds, Zenon DEF DeadlineExpires

\* A caller that leaves keeps the invariant.
LEMMA ClientDisconnectsKeeps ==
  ASSUME DispatchInv, NEW r \in Requests, ClientDisconnects(r)
  PROVE  DispatchInv'
<1>1. h[r].pc \notin Finished /\ UNCHANGED <<rows, events, calls>>
  BY Zenon DEF ClientDisconnects
<1>2. CASE h' = [h EXCEPT ![r].err = "CANCELED"]
  <2>1. "CANCELED" \in Errs \ {NoCode}
    BY CodesAssumption, Zenon DEF Errs
  <2> QED
    BY <1>1, <1>2, <2>1, ContextEnds, Zenon
<1>3. CASE h' = [h EXCEPT ![r].wire = FALSE]
  <2> DEFINE no == FALSE
  <2>1. h' = [h EXCEPT ![r].wire = no]
    BY <1>3, Zenon
  <2>2. no \in Flags
    BY Zenon DEF Flags
  <2> HIDE DEF no
  <2> DEFINE y == [h[r] EXCEPT !.wire = no]
  <2>b. Becomes(r, y)
    BY <2>1, HandlerFacts, Zenon DEF Becomes
  <2>o. HandlerOK(r, y, rows[InvocationOf[r]], events[InvocationOf[r]])
    BY <1>1, <2>2, HandlerFacts, WireBreaksOK, Zenon DEF At
  <2>f. y.seq = h[r].seq /\ y.pc = h[r].pc /\ y.task = h[r].task
    BY HandlerFacts, Zenon DEF Handlers
  <2> HIDE DEF y
  <2> QED
    BY <1>1, <2>2, <2>b, <2>o, <2>f, QuietStep DEF Reading, BeforeCall, Opening, Initial, At
<1> QED
  BY <1>2, <1>3, Zenon DEF ClientDisconnects

-----------------------------------------------------------------------------
(* Every action keeps the invariant: the call, a crash, and the appends *)

\* The message leaves once: whoever has made a call owns the Invocation, and the
\* owner is still before it.
LEMMA CallAgentKeeps ==
  ASSUME DispatchInv, NEW r \in Requests, CallAgent(r)
  PROVE  DispatchInv'
<1> DEFINE i == InvocationOf[r]
           p == IF r \in Streams THEN "receive" ELSE "wait"
           y == [h[r] EXCEPT !.pc = p]
<1>1. /\ h[r].pc = "call" /\ UNCHANGED <<rows, events>>
      /\ calls' = [calls EXCEPT ![i] = @ + 1]
  BY Zenon DEF CallAgent, At
<1>2. h' = [h EXCEPT ![r] = y]
  BY HandlerFacts, Zenon DEF CallAgent
<1>3. HandlerOK(r, y, rows[i], events[i])
  BY <1>1, HandlerFacts, CallOK, Zenon
<1>4. /\ y \in Handlers /\ y.seq = h[r].seq /\ y.pc = p /\ p \notin BeforeCall
      /\ h[r].seq = 3 /\ Len(events[i]) >= 3 /\ events[i][3].type = "started"
  <2>1. y.seq = h[r].seq /\ y.pc = p /\ p \notin BeforeCall
    BY HandlerFacts, Zenon DEF Handlers, BeforeCall, Opening, Initial
  <2>2. h[r].seq = 3 /\ Owns(r, h[r], rows[i], events[i])
    BY <1>1, HandlerFacts, SMTT(60) DEF HandlerOK, Numbers
  <2>3. Len(events[i]) >= 3 /\ events[i][3].type = "started"
    BY <1>1, <2>2, Zenon DEF Owns, Started
  <2> QED
    BY <1>3, <2>1, <2>2, <2>3, Zenon DEF HandlerOK
<1> HIDE DEF y, p
<1>5. h' \in [Requests -> Handlers] /\ h'[r] = y /\ \A q \in Requests \ {r} : h'[q] = h[q]
  BY <1>2, <1>4, HandlerFacts, Zenon
<1>6. LedgerInv' /\ RowsOK'
  <2>1. LedgerInv'
    BY <1>1, InvStep, Zenon DEF DispatchInv, ledgerVars
  <2> QED
    BY <1>1, <2>1, Zenon DEF DispatchInv, RowsOK
<1>7. HandlersOK'
  <2> SUFFICES ASSUME NEW q \in Requests
               PROVE  HandlerOK(q, h'[q], rows'[InvocationOf[q]], events'[InvocationOf[q]])
    BY HandlersOKNext, Zenon
  <2>t. rows' = rows /\ events' = events
    BY <1>1, Zenon
  <2>1. CASE q = r
    BY <1>3, <1>5, <2>1, <2>t, Zenon
  <2>2. CASE q # r
    BY <1>5, <2>2, <2>t, Zenon DEF DispatchInv, HandlersOK
  <2> QED
    BY <2>1, <2>2, Zenon
<1>8. OneOwner'
  BY <1>4, <1>5 DEF DispatchInv, OneOwner
<1>9. CallsOK'
  <2>1. CallsOK /\ OneOwner /\ i \in Invocations
    BY HandlerFacts, Zenon DEF DispatchInv
  <2>2. calls[i] = 0
    <3> SUFFICES ASSUME calls[i] # 0 PROVE FALSE
      BY Zenon
    <3>1. PICK q \in Requests : InvocationOf[q] = i /\ h[q].seq > 0 /\ h[q].pc \notin BeforeCall
      BY <2>1, Zenon DEF CallsOK
    <3>2. q # r
      BY <1>1, <3>1, Zenon DEF BeforeCall
    <3> QED
      BY <1>4, <2>1, <3>1, <3>2 DEF OneOwner
  <2>3. /\ calls' \in [Invocations -> Nat] /\ calls'[i] = 1
        /\ \A j \in Invocations \ {i} : calls'[j] = calls[j]
    BY <1>1, <2>1, <2>2 DEF CallsOK
  <2>4. ASSUME NEW j \in Invocations, calls'[j] # 0
        PROVE  /\ calls'[j] = 1 /\ Len(events[j]) >= 3 /\ events[j][3].type = "started"
               /\ \E q \in Requests : InvocationOf[q] = j /\ h'[q].seq > 0 /\ h'[q].pc \notin BeforeCall
    <3>1. CASE j = i
      BY <1>4, <1>5, <2>3, <3>1
    <3>2. CASE j # i
      <4>1. /\ calls[j] = 1 /\ Len(events[j]) >= 3 /\ events[j][3].type = "started"
            /\ \E q \in Requests : InvocationOf[q] = j /\ h[q].seq > 0 /\ h[q].pc \notin BeforeCall
        BY <2>1, <2>3, <2>4, <3>2, Zenon DEF CallsOK
      <4> QED
        BY <1>5, <2>3, <3>2, <4>1, Zenon
    <3> QED
      BY <3>1, <3>2, Zenon
  <2>5. ASSUME NEW q \in Requests, h'[q].task \/ h'[q].pc \in {"wait"} \cup Reading
        PROVE  calls'[InvocationOf[q]] # 0
    <3>1. CASE InvocationOf[q] = i
      BY <2>3, <3>1
    <3>2. CASE InvocationOf[q] # i
      BY <1>5, <2>1, <2>3, <2>5, <3>2, HandlerFacts DEF CallsOK
    <3> QED
      BY <3>1, <3>2, Zenon
  <2> QED
    BY <1>1, <2>3, <2>4, <2>5, Zenon DEF CallsOK
<1> QED
  BY <1>5, <1>6, <1>7, <1>8, <1>9, Zenon DEF DispatchInv

\* The process dies: the tables stay and no handler takes another step.
LEMMA CrashKeeps ==
  ASSUME DispatchInv, Crash
  PROVE  DispatchInv'
<1> DEFINE y(r) == IF h[r].pc \in Finished THEN h[r] ELSE [h[r] EXCEPT !.pc = "dead"]
<1>1. h' = [r \in Requests |-> y(r)] /\ UNCHANGED <<rows, events, calls>>
  BY Zenon DEF Crash
<1>2. ASSUME NEW r \in Requests
      PROVE  /\ HandlerOK(r, y(r), rows[InvocationOf[r]], events[InvocationOf[r]])
             /\ y(r) \in Handlers /\ y(r).seq = h[r].seq /\ y(r).task = h[r].task
             /\ y(r).pc = h[r].pc \/ y(r).pc = "dead"
  <2>1. CASE h[r].pc \in Finished
    BY <2>1, HandlerFacts, Zenon
  <2>2. CASE h[r].pc \notin Finished
    <3> DEFINE z == [h[r] EXCEPT !.pc = "dead"]
    <3>1. HandlerOK(r, z, rows[InvocationOf[r]], events[InvocationOf[r]])
      BY <2>2, HandlerFacts, CrashOK, Zenon
    <3>2. z \in Handlers
      BY <3>1, Zenon DEF HandlerOK
    <3>3. z.seq = h[r].seq /\ z.task = h[r].task /\ z.pc = "dead"
      BY HandlerFacts, Zenon DEF Handlers
    <3>4. y(r) = z
      BY <2>2, Zenon
    <3> HIDE DEF z, y
    <3> QED
      BY <3>1, <3>2, <3>3, <3>4, Zenon
  <2> QED
    BY <2>1, <2>2, Zenon
<1> HIDE DEF y
<1>3. h' \in [Requests -> Handlers] /\ \A r \in Requests : h'[r] = y(r)
  BY <1>1, <1>2, Zenon
<1>4. LedgerInv' /\ RowsOK'
  <2>1. LedgerInv'
    BY <1>1, InvStep, Zenon DEF DispatchInv, ledgerVars
  <2> QED
    BY <1>1, <2>1, Zenon DEF DispatchInv, RowsOK
<1>5. HandlersOK'
  <2> SUFFICES ASSUME NEW q \in Requests
               PROVE  HandlerOK(q, h'[q], rows'[InvocationOf[q]], events'[InvocationOf[q]])
    BY HandlersOKNext, Zenon
  <2>t. rows' = rows /\ events' = events
    BY <1>1, Zenon
  <2> QED
    BY <1>2, <1>3, <2>t, Zenon
<1>6. OneOwner'
  BY <1>2, <1>3, Zenon DEF DispatchInv, OneOwner
<1>7. CallsOK'
  <2>1. CallsOK
    BY Zenon DEF DispatchInv
  <2>2. \A r \in Requests : h'[r].pc \in BeforeCall => h[r].pc \in BeforeCall
    BY <1>2, <1>3, Zenon DEF BeforeCall, Opening, Initial
  <2>3. ASSUME NEW j \in Invocations, calls[j] # 0
        PROVE  \E q \in Requests : InvocationOf[q] = j /\ h'[q].seq > 0 /\ h'[q].pc \notin BeforeCall
    <3>1. PICK q \in Requests : InvocationOf[q] = j /\ h[q].seq > 0 /\ h[q].pc \notin BeforeCall
      BY <2>1, <2>3, Zenon DEF CallsOK
    <3> QED
      BY <1>2, <1>3, <2>2, <3>1, Zenon
  <2>4. \A q \in Requests :
          h'[q].task \/ h'[q].pc \in {"wait"} \cup Reading => calls[InvocationOf[q]] # 0
    <3>1. "dead" \notin {"wait"} \cup Reading
      BY Zenon DEF Reading
    <3> QED
      BY <1>2, <1>3, <2>1, <3>1 DEF CallsOK
  <2> QED
    BY <1>1, <2>1, <2>3, <2>4, Zenon DEF CallsOK
<1> QED
  BY <1>3, <1>4, <1>5, <1>6, <1>7, Zenon DEF DispatchInv

\* An append fails: the tables stay, or the commit is in doubt and the event is
\* there, which a handler that counts on no event of its own, or knows that it
\* was let down, survives.
LEMMA AppendFailedStep ==
  ASSUME DispatchInv, NEW r \in Requests, NEW y, Becomes(r, y), NEW e \in Event, NEW grace, NEW f,
         AppendFailed(r, e, grace, f),
         e.invocation = InvocationOf[r], e.sequence = h[r].seq, e.at = 0,
         e.ctx = RequestContext(r),
         HandlerOK(r, y, rows[InvocationOf[r]], events[InvocationOf[r]]),
         f => y.seq = 0 \/ (y.faulty /\ y.pc \notin Finished \cup {"close"}),
         y.seq = h[r].seq, y.pc \in BeforeCall => h[r].pc \in BeforeCall,
         y.task \/ y.pc \in {"wait"} \cup Reading =>
           h[r].task \/ h[r].pc \in {"wait"} \cup Reading,
         UNCHANGED calls
  PROVE  DispatchInv'
<1> DEFINE i == InvocationOf[r]
<1>1. CASE UNCHANGED <<rows, events>>
  BY <1>1, QuietStep, Zenon
<1>2. CASE f /\ LedgerAppend(e)
  <2>1. LedgerInv
    BY Zenon DEF DispatchInv
  <2>2. /\ events[i] \in Seq(Event) /\ events'[i] \in Seq(Event)
        /\ Extended(rows[i], events[i], rows'[i], events'[i], e)
    BY <1>2, <2>1, AppendExtended, Zenon
  <2>3. HandlerOK(r, y, rows'[i], events'[i])
    BY <1>2, <2>2, TablesMoveOK, Zenon
  <2>4. y.seq >= h[r].seq
    <3>1. h[r].seq \in Nat
      BY HandlerFacts, HandlerFields, Zenon
    <3> QED
      BY <3>1, SMTT(60)
  <2> QED
    BY <1>2, <2>3, <2>4, AppendStep, Zenon
<1> QED
  BY <1>1, <1>2, Zenon DEF AppendFailed

\* Whether a dependency has let the handler down, once more.
LEMMA FaultyFlag ==
  ASSUME NEW x \in Handlers, NEW f \in BOOLEAN
  PROVE  /\ (x.faulty \/ f) \in Flags
         /\ x.faulty => (x.faulty \/ f)
         /\ ~(x.faulty \/ f) => ~x.faulty /\ ~f
         /\ f => (x.faulty \/ f)
  BY Zenon DEF Flags

\* The three kinds of event a handler offers: one of the first three,
LEMMA InitialOffer ==
  ASSUME DispatchInv, NEW r \in Requests, h[r].pc = "initial",
         NEW e, e = ledgerEvent(r, InitialTypes(r)[h[r].seq + 1], NoCode, NoChunk)
  PROVE  Offered(r, <<"created", "routing", "started">>[h[r].seq + 1], NoCode, NoChunk, e)
<1> DEFINE type == <<"created", "routing", "started">>[h[r].seq + 1]
<1>1. /\ h[r].seq \in 0 .. 2
      /\ (h[r].code = NoCode) \/ (h[r].code = "ROUTE_NOT_FOUND" /\ h[r].seq < 2)
  BY HandlerFacts, OfferingInitial, Zenon
<1>2. "ROUTE_NOT_FOUND" # NoCode
  BY DispatchAssumption, CodesAssumption, Zenon
<1>3. InitialTypes(r)[h[r].seq + 1] = type /\ type \in EventTypes
  BY <1>1, <1>2 DEF InitialTypes, EventTypes
<1>4. NoChunk \in NoChunk .. MaxEvents - 4 /\ NoCode \in ErrorCodes \cup {NoCode}
  BY DispatchAssumption, TimesAssumption DEF NoChunk
<1>5. e = ledgerEvent(r, type, NoCode, NoChunk)
  BY <1>3, Zenon
<1> HIDE DEF type
<1>6. Offered(r, type, NoCode, NoChunk, e)
  BY <1>3, <1>4, <1>5, OfferTyped, Zenon
<1> QED
  BY <1>6, Zenon DEF type

\* a chunk,
LEMMA ChunkOffer ==
  ASSUME DispatchInv, NEW r \in Requests, h[r].pc = "chunk",
         NEW e, e = ledgerEvent(r, "stream", NoCode, h[r].sse - 1)
  PROVE  Offered(r, "stream", NoCode, h[r].sse - 1, e)
<1>1. h[r].sse - 1 \in NoChunk .. MaxEvents - 4
  BY HandlerFacts, OfferingChunk, Zenon
<1>2. "stream" \in EventTypes /\ NoCode \in ErrorCodes \cup {NoCode}
  BY Zenon DEF EventTypes
<1> QED
  BY <1>1, <1>2, OfferTyped, Zenon

\* and the terminal event.
LEMMA TerminalOffer ==
  ASSUME DispatchInv, NEW r \in Requests, h[r].pc \in {"terminal", "finish"},
         NEW e, e = ledgerEvent(r, h[r].type, h[r].code, NoChunk)
  PROVE  Offered(r, h[r].type, h[r].code, NoChunk, e)
<1>1. h[r].type \in EventTypes /\ h[r].code \in ErrorCodes \cup {NoCode}
  BY HandlerFacts, OfferingEnd, Zenon
<1>2. NoChunk \in NoChunk .. MaxEvents - 4
  BY DispatchAssumption, TimesAssumption DEF NoChunk
<1> QED
  BY <1>1, <1>2, OfferTyped, Zenon

\* So what the four appending steps offer are candidates.
LEMMA Offers ==
  ASSUME DispatchInv, NEW r \in Requests, NEW e,
         \/ /\ h[r].pc = "initial"
            /\ e = ledgerEvent(r, InitialTypes(r)[h[r].seq + 1], NoCode, NoChunk)
         \/ h[r].pc = "chunk" /\ e = ledgerEvent(r, "stream", NoCode, h[r].sse - 1)
         \/ /\ h[r].pc \in {"terminal", "finish"}
            /\ e = ledgerEvent(r, h[r].type, h[r].code, NoChunk)
  PROVE  Accepts(e) => e \in Candidates
<1>1. CASE h[r].pc = "initial" /\ e = ledgerEvent(r, InitialTypes(r)[h[r].seq + 1], NoCode, NoChunk)
  BY <1>1, InitialOffer, Zenon DEF Offered
<1>2. CASE h[r].pc = "chunk" /\ e = ledgerEvent(r, "stream", NoCode, h[r].sse - 1)
  BY <1>2, ChunkOffer, Zenon DEF Offered
<1>3. CASE h[r].pc \in {"terminal", "finish"} /\ e = ledgerEvent(r, h[r].type, h[r].code, NoChunk)
  BY <1>3, TerminalOffer, Zenon DEF Offered
<1> QED
  BY <1>1, <1>2, <1>3, Zenon

\* The count of stream events is that of an interval.
INSTANCE FiniteSetTheorems

\* The Ledger accepts the next event of an owner that nothing has let down.
LEMMA OwnerAccepted ==
  ASSUME DispatchInv, NEW r \in Requests, h[r].seq > 0, ~h[r].faulty, h[r].pc \in Working,
         NEW e \in Event, e.invocation = InvocationOf[r], e.sequence = h[r].seq, e.at = 0,
         e.ctx = RequestContext(r), ValidateInvocationEventV03(e),
         validRuntimeTransition(Progress(h[r].seq), e.type, e.status),
         e.type = "stream" => e.chunk = h[r].seq - 3
  PROVE  Accepts(e)
<1> DEFINE i == InvocationOf[r]
           row == rows[i]
           H == events[i]
           n == h[r].seq
<1>1. /\ i \in Invocations /\ H \in Seq(Event) /\ n \in Nat /\ n > 0
      /\ HandlerOK(r, h[r], row, H)
  BY DispatchAssumption, Zenon DEF DispatchInv, LedgerInv, LedgerTypeOK, HandlersOK, HandlerOK, Handlers
<1>2. /\ row # NoRow /\ row.ctx = RequestContext(r)
      /\ Len(H) = n /\ row.status = Progress(n)
      /\ \A k \in 1 .. Len(H) : H[k].type = "stream" <=> k > 3
  BY <1>1, Zenon DEF HandlerOK, Owns
<1>3. /\ ValidateInvocationDetailResponseV1(i, row, H)
      /\ row.createdAt = H[1].at /\ row.updatedAt = H[Len(H)].at /\ row.code = H[Len(H)].code
  <2>1. ProjectionIsReplay
    BY Zenon DEF DispatchInv, LedgerInv
  <2> QED
    BY <1>1, <1>2, <2>1, Zenon DEF ProjectionIsReplay
<1>4. row.updatedAt = 0
  <2>1. RowsOK
    BY Zenon DEF DispatchInv
  <2> QED
    BY <1>1, <1>2, <2>1, Zenon DEF RowsOK
<1>5. /\ H # <<>> /\ H[Len(H)].ctx = e.ctx /\ H[Len(H)].invocation = e.invocation
      /\ H[Len(H)].status = Progress(n)
  <2>1. n \in 1 .. Len(H)
    BY <1>1, <1>2
  <2>2. /\ H # <<>> /\ row.status = H[Len(H)].status
        /\ \A k \in 1 .. Len(H) : H[k].ctx = row.ctx /\ H[k].invocation = i
    BY <1>3, Zenon DEF ValidateInvocationDetailResponseV1
  <2> HIDE DEF n, i, row, H
  <2>3. H[n].ctx = row.ctx /\ H[n].invocation = i
    BY <2>1, <2>2, Zenon
  <2> QED
    BY <1>2, <2>2, <2>3, Zenon DEF i
<1>6. ~isRuntimeTerminalStatus(Progress(n))
  BY Zenon DEF isRuntimeTerminalStatus, Terminal, Progress
<1>7. e.type = "stream" => e.chunk = nextChunkIndex(H)
  <2> SUFFICES ASSUME e.type = "stream" PROVE nextChunkIndex(H) = n - 3
    BY Zenon
  <2>1. n >= 3
    BY <1>1 DEF validRuntimeTransition, Progress, Terminal
  <2>2. {k \in 1 .. Len(H) : H[k].type = "stream"} = 4 .. n
    BY <1>1, <1>2, <2>1, SMTT(60)
  <2>3. Cardinality(4 .. n) = n - 3
    <3>1. 4 \in Int /\ n \in Int
      BY <1>1
    <3>2. Cardinality(4 .. n) = IF 4 > n THEN 0 ELSE n - 4 + 1
      BY <3>1, FS_Interval, SMTT(60)
    <3> QED
      BY <1>1, <2>1, <3>2
  <2> QED
    BY <2>2, <2>3, Zenon DEF nextChunkIndex
<1>8. SequenceAccept(H, e)
  <2>1. ~isRuntimeTerminalStatus(H[Len(H)].status)
    BY <1>5, <1>6, Zenon
  <2>2. validRuntimeTransition(H[Len(H)].status, e.type, e.status)
    BY <1>5, Zenon
  <2>3. e.sequence = Len(H)
    BY <1>2, Zenon
  <2> HIDE DEF n, H
  <2> QED
    BY <1>5, <1>7, <2>1, <2>2, <2>3, Zenon DEF SequenceAccept
<1>9. e.sequence # 0
  <2> HIDE DEF n
  <2> QED
    BY <1>1 DEF n
<1>10. AcceptsNext(e)
  <2>1. e.at >= row.updatedAt
    <3> HIDE DEF row
    <3> QED
      BY <1>4
  <2> QED
    BY <1>2, <1>3, <1>8, <2>1, Zenon DEF AcceptsNext
<1> HIDE DEF n, i, row, H
<1> QED
  BY <1>9, <1>10, Zenon DEF Accepts, validateCandidate

\* An initial append, committed, refused, lost or in doubt, keeps the invariant.
LEMMA AppendInitialKeeps ==
  ASSUME DispatchInv, NEW r \in Requests, AppendInitial(r)
  PROVE  DispatchInv'
<1> DEFINE i == InvocationOf[r]
           types == InitialTypes(r)
           type == <<"created", "routing", "started">>[h[r].seq + 1]
           e == ledgerEvent(r, types[h[r].seq + 1], NoCode, NoChunk)
           p == IF h[r].code = "ROUTE_NOT_FOUND"
                THEN (IF h[r].seq = 1 THEN "terminal" ELSE "initial")
                ELSE IF h[r].seq < 2 THEN "initial"
                ELSE IF r \in Streams THEN "accept" ELSE "select"
<1>1. /\ h[r].pc = "initial" /\ UNCHANGED calls
      /\ HandlerOK(r, h[r], rows[i], events[i]) /\ h[r] \in Handlers
  BY HandlerFacts, Zenon DEF AppendInitial, At
<1>2. /\ h[r].seq \in 0 .. 2
      /\ (h[r].code = NoCode) \/ (h[r].code = "ROUTE_NOT_FOUND" /\ h[r].seq < 2)
  BY <1>1, OfferingInitial, Zenon
<1>7. "ROUTE_NOT_FOUND" # NoCode
  BY DispatchAssumption, CodesAssumption
<1>6. /\ e \in Event /\ e.invocation = i /\ e.sequence = h[r].seq /\ e.type = type
      /\ e.status = statusOfType(type) /\ e.at = 0 /\ e.code = NoCode /\ e.chunk = NoChunk
      /\ e.ctx = RequestContext(r)
  <2>1. Offered(r, type, NoCode, NoChunk, e)
    BY <1>1, InitialOffer, Zenon
  <2> HIDE DEF e, type, types
  <2> QED
    BY <2>1, Zenon DEF Offered
<1>8. Len(types) = IF h[r].code = "ROUTE_NOT_FOUND" THEN 2 ELSE 3
  BY Zenon DEF InitialTypes
<1>9. p = IF h[r].seq + 1 < Len(types) THEN "initial"
          ELSE IF h[r].code # NoCode THEN "terminal"
          ELSE IF r \in Streams THEN "accept" ELSE "select"
  BY <1>2, <1>7, <1>8
<1>10. \/ Appended(r, e, FALSE) /\ h' = [h EXCEPT ![r].pc = p, ![r].seq = h[r].seq + 1]
       \/ \E f \in BOOLEAN :
            /\ AppendFailed(r, e, FALSE, f)
            /\ h' = [h EXCEPT ![r].pc = "initialFailed", ![r].faulty = h[r].faulty \/ f]
  BY <1>9, HandlerFacts, Zenon DEF AppendInitial
<1>11. p \in {"initial", "terminal", "accept", "select"}
  BY Zenon
<1> HIDE DEF e, type, types
<1>12. CASE Appended(r, e, FALSE) /\ h' = [h EXCEPT ![r].pc = p, ![r].seq = h[r].seq + 1]
  <2> DEFINE y == [h[r] EXCEPT !.pc = p, !.seq = @ + 1]
  <2>1. Becomes(r, y)
    BY <1>12, HandlerFacts, Zenon DEF Becomes
  <2>2. LedgerAppend(e) /\ LedgerInv
    BY <1>12, Zenon DEF Appended, DispatchInv
  <2>3. /\ events[i] \in Seq(Event) /\ events'[i] \in Seq(Event)
        /\ Extended(rows[i], events[i], rows'[i], events'[i], e)
    BY <1>6, <2>2, AppendExtended
  <2>4. HandlerOK(r, y, rows'[i], events'[i])
    BY <1>1, <1>6, <2>3, InitialAppendedOK, Zenon DEF type
  <2>5. y.seq = h[r].seq + 1 /\ y.pc = p /\ y.task = h[r].task
    BY <1>1, Zenon DEF Handlers
  <2>6. y.seq >= h[r].seq
    BY <1>2, <2>5
  <2> HIDE DEF y, p
  <2> QED
    BY <1>1, <1>6, <1>11, <2>1, <2>2, <2>4, <2>5, <2>6, AppendStep, Zenon
       DEF Reading, BeforeCall, Opening, Initial
<1>13. ASSUME NEW f \in BOOLEAN, AppendFailed(r, e, FALSE, f),
              h' = [h EXCEPT ![r].pc = "initialFailed", ![r].faulty = h[r].faulty \/ f]
       PROVE  DispatchInv'
  <2> DEFINE g == h[r].faulty \/ f
             y == [h[r] EXCEPT !.pc = "initialFailed", !.faulty = g]
  <2>1. /\ g \in Flags /\ (h[r].faulty => g) /\ (~g => ~h[r].faulty /\ ~f) /\ (f => g)
    BY <1>1, FaultyFlag
  <2>2. h' = [h EXCEPT ![r].pc = "initialFailed", ![r].faulty = g]
    BY <1>13, Zenon
  <2> HIDE DEF g
  <2>3. Becomes(r, y)
    BY <2>2, HandlerFacts, Zenon DEF Becomes
  <2>4. g \/ h[r].err # NoCode \/ h[r].seq = 0
    <3> SUFFICES ASSUME ~g, h[r].err = NoCode, h[r].seq > 0 PROVE FALSE
      BY <1>2
    <3>1. ~Accepts(e)
      BY <1>13, <2>1 DEF AppendFailed, Done
    <3>2. ~h[r].faulty /\ h[r].pc \in Working
      BY <1>1, <2>1 DEF Working, Initial
    <3>3. ValidateInvocationEventV03(e) /\ e.type # "stream"
      BY <1>2, <1>6 DEF ValidateInvocationEventV03, type
    <3>4. validRuntimeTransition(Progress(h[r].seq), e.type, e.status)
      BY <1>2, <1>6 DEF validRuntimeTransition, Progress, type, statusOfType
    <3> QED
      BY <1>6, <3>1, <3>2, <3>3, <3>4, OwnerAccepted
  <2>5. HandlerOK(r, y, rows[i], events[i])
    BY <1>1, <2>1, <2>4, HandlerFacts, AppendFailedOK, Zenon
  <2>6. y.seq = h[r].seq /\ y.pc = "initialFailed" /\ y.task = h[r].task /\ y.faulty = g
    BY <1>1, <2>1 DEF Handlers
  <2>7. f => y.faulty /\ y.pc \notin Finished \cup {"close"}
    <3>1. y.pc \notin Finished \cup {"close"}
      BY <2>6, Zenon DEF Finished
    <3> QED
      BY <2>1, <2>6, <3>1, Zenon
  <2> HIDE DEF y
  <2> QED
    BY <1>1, <1>6, <1>13, <2>3, <2>5, <2>6, <2>7, AppendFailedStep, Zenon
       DEF Reading, BeforeCall, Opening, Initial
<1> QED
  BY <1>10, <1>12, <1>13, Zenon

\* The append of a chunk, committed, refused, lost or in doubt, keeps it.
LEMMA AppendChunkKeeps ==
  ASSUME DispatchInv, NEW r \in Requests, AppendChunk(r)
  PROVE  DispatchInv'
<1> DEFINE i == InvocationOf[r]
           c == h[r].sse - 1
           e == ledgerEvent(r, "stream", NoCode, c)
<1>1. /\ h[r].pc = "chunk" /\ UNCHANGED calls
      /\ HandlerOK(r, h[r], rows[i], events[i]) /\ h[r] \in Handlers
  BY HandlerFacts, Zenon DEF AppendChunk, At
<1>2. /\ h[r].seq \in Nat /\ h[r].sse \in 1 .. MaxChunks /\ h[r].seq = h[r].sse + 2
  BY <1>1, OfferingChunk, Zenon
<1>4. /\ e \in Event /\ e.invocation = i /\ e.sequence = h[r].seq /\ e.type = "stream"
      /\ e.status = statusOfType("stream") /\ e.at = 0 /\ e.code = NoCode /\ e.chunk = c
      /\ e.ctx = RequestContext(r)
  <2>1. Offered(r, "stream", NoCode, c, e)
    BY <1>1, ChunkOffer, Zenon
  <2> HIDE DEF e, c
  <2> QED
    BY <2>1, Zenon DEF Offered
<1>5. e.status = "running"
  BY <1>4, Zenon DEF statusOfType
<1>6. \/ Appended(r, e, FALSE) /\ h' = [h EXCEPT ![r].pc = "write", ![r].seq = h[r].seq + 1]
      \/ \E f \in BOOLEAN :
           /\ AppendFailed(r, e, FALSE, f)
           /\ h' = [h EXCEPT ![r].pc = "chunkFailed", ![r].faulty = h[r].faulty \/ f]
  BY HandlerFacts, Zenon DEF AppendChunk
<1> HIDE DEF e
<1>7. CASE Appended(r, e, FALSE) /\ h' = [h EXCEPT ![r].pc = "write", ![r].seq = h[r].seq + 1]
  <2> DEFINE y == [h[r] EXCEPT !.pc = "write", !.seq = @ + 1]
  <2>1. Becomes(r, y)
    BY <1>7, HandlerFacts, Zenon DEF Becomes
  <2>2. LedgerAppend(e) /\ LedgerInv
    BY <1>7, Zenon DEF Appended, DispatchInv
  <2>3. /\ events[i] \in Seq(Event) /\ events'[i] \in Seq(Event)
        /\ Extended(rows[i], events[i], rows'[i], events'[i], e)
    BY <1>4, <2>2, AppendExtended
  <2>4. HandlerOK(r, y, rows'[i], events'[i])
    BY <1>1, <1>4, <1>5, <2>3, ChunkAppendedOK, Zenon
  <2>5. y.seq = h[r].seq + 1 /\ y.pc = "write"
    BY <1>1, Zenon DEF Handlers
  <2>6. y.seq >= h[r].seq
    BY <1>2, <2>5
  <2> HIDE DEF y
  <2> QED
    BY <1>1, <1>4, <2>1, <2>2, <2>4, <2>5, <2>6, AppendStep, Zenon
       DEF Reading, BeforeCall, Opening, Initial
<1>8. ASSUME NEW f \in BOOLEAN, AppendFailed(r, e, FALSE, f),
             h' = [h EXCEPT ![r].pc = "chunkFailed", ![r].faulty = h[r].faulty \/ f]
      PROVE  DispatchInv'
  <2> DEFINE g == h[r].faulty \/ f
             y == [h[r] EXCEPT !.pc = "chunkFailed", !.faulty = g]
  <2>1. /\ g \in Flags /\ (h[r].faulty => g) /\ (~g => ~h[r].faulty /\ ~f) /\ (f => g)
    BY <1>1, FaultyFlag
  <2>2. h' = [h EXCEPT ![r].pc = "chunkFailed", ![r].faulty = g]
    BY <1>8, Zenon
  <2> HIDE DEF g
  <2>3. Becomes(r, y)
    BY <2>2, HandlerFacts, Zenon DEF Becomes
  <2>4. g \/ h[r].err # NoCode
    <3> SUFFICES ASSUME ~g, h[r].err = NoCode PROVE FALSE
      BY Zenon
    <3>1. ~Accepts(e)
      BY <1>8, <2>1 DEF AppendFailed, Done
    <3>2. ~h[r].faulty /\ h[r].pc \in Working
      BY <1>1, <2>1 DEF Working, Started, Reading
    <3>3. ValidateInvocationEventV03(e) /\ e.chunk = h[r].seq - 3 /\ h[r].seq > 0
      BY <1>2, <1>4 DEF ValidateInvocationEventV03, NoChunk
    <3>4. validRuntimeTransition(Progress(h[r].seq), e.type, e.status)
      BY <1>2, <1>4, <1>5 DEF validRuntimeTransition, Progress
    <3> QED
      BY <1>4, <3>1, <3>2, <3>3, <3>4, OwnerAccepted
  <2>5. HandlerOK(r, y, rows[i], events[i])
    BY <1>1, <2>1, <2>4, HandlerFacts, AppendFailedOK, Zenon
  <2>6. y.seq = h[r].seq /\ y.pc = "chunkFailed" /\ y.faulty = g
    BY <1>1, <2>1 DEF Handlers
  <2>7. f => y.faulty /\ y.pc \notin Finished \cup {"close"}
    <3>1. y.pc \notin Finished \cup {"close"}
      BY <2>6, Zenon DEF Finished
    <3> QED
      BY <2>1, <2>6, <3>1, Zenon
  <2> HIDE DEF y
  <2> QED
    BY <1>1, <1>4, <1>8, <2>3, <2>5, <2>6, <2>7, AppendFailedStep, Zenon
       DEF Reading, BeforeCall, Opening, Initial
<1> QED
  BY <1>6, <1>7, <1>8, Zenon

\* The terminal event of either kind of request: p is where the handler goes on.
LEMMA TerminalKeeps ==
  ASSUME DispatchInv, NEW r \in Requests, h[r].pc \in {"terminal", "finish"}, UNCHANGED calls,
         NEW p, p = IF h[r].pc = "terminal" THEN "reply" ELSE "writeTerminal",
         NEW e, e = ledgerEvent(r, h[r].type, h[r].code, NoChunk),
         \/ Appended(r, e, TRUE) /\ h' = [h EXCEPT ![r].pc = p, ![r].seq = @ + 1]
         \/ \E f \in BOOLEAN :
              /\ AppendFailed(r, e, TRUE, f)
              /\ h' = [h EXCEPT ![r].pc = p, ![r].type = "failed",
                                ![r].code = "DEPENDENCY_ERROR", ![r].faulty = @ \/ f]
  PROVE  DispatchInv'
<1> DEFINE i == InvocationOf[r]
<1>1. HandlerOK(r, h[r], rows[i], events[i]) /\ h[r] \in Handlers
  BY HandlerFacts, Zenon
<1>2. /\ h[r].seq \in Nat /\ h[r].seq > 0 /\ h[r].type \in Terminal
      /\ h[r].code \in ErrorCodes \cup {NoCode}
      /\ h[r].seq = 1 => h[r].type \in {"canceled", "timed_out"}
      /\ h[r].seq = 2 => h[r].type # "succeeded"
      /\ h[r].pc = "finish" \/ "accepted" \in FrameFits => ValidEnd(h[r].type, h[r].code)
  BY <1>1, OfferingEnd, Zenon
<1>4. /\ e \in Event /\ e.invocation = i /\ e.sequence = h[r].seq /\ e.type = h[r].type
      /\ e.status = statusOfType(h[r].type) /\ e.at = 0 /\ e.code = h[r].code /\ e.chunk = NoChunk
      /\ e.ctx = RequestContext(r)
  BY TerminalOffer, ZenonT(60) DEF Offered
<1>5. e.status = h[r].type
  BY <1>2, <1>4, Zenon DEF statusOfType, Terminal
<1>6. p \in {"reply", "writeTerminal"}
  BY Zenon
<1>7. CASE Appended(r, e, TRUE) /\ h' = [h EXCEPT ![r].pc = p, ![r].seq = @ + 1]
  <2> DEFINE y == [h[r] EXCEPT !.pc = p, !.seq = @ + 1]
  <2>1. Becomes(r, y)
    BY <1>7, HandlerFacts, Zenon DEF Becomes
  <2>2. LedgerAppend(e) /\ LedgerInv
    BY <1>7, Zenon DEF Appended, DispatchInv
  <2>3. /\ events[i] \in Seq(Event) /\ events'[i] \in Seq(Event)
        /\ Extended(rows[i], events[i], rows'[i], events'[i], e)
    BY <1>4, <2>2, AppendExtended
  <2>4. HandlerOK(r, y, rows'[i], events'[i])
    BY <1>1, <1>4, <1>5, <2>3, TerminalAppendedOK, ZenonT(60)
  <2>5. y.seq = h[r].seq + 1 /\ y.pc = p /\ y.task = h[r].task
    BY <1>1, Zenon DEF Handlers
  <2>6. y.seq >= h[r].seq
    BY <1>2, <2>5
  <2> HIDE DEF y
  <2> QED
    BY <1>4, <1>6, <2>1, <2>2, <2>4, <2>5, <2>6, AppendStep
       DEF Reading, BeforeCall, Opening, Initial
<1>8. ASSUME NEW f \in BOOLEAN, AppendFailed(r, e, TRUE, f),
             h' = [h EXCEPT ![r].pc = p, ![r].type = "failed",
                            ![r].code = "DEPENDENCY_ERROR", ![r].faulty = @ \/ f]
      PROVE  DispatchInv'
  <2> DEFINE g == h[r].faulty \/ f
             y == [h[r] EXCEPT !.pc = p, !.type = "failed", !.code = "DEPENDENCY_ERROR", !.faulty = g]
  <2>1. /\ g \in Flags /\ (h[r].faulty => g) /\ (~g => ~h[r].faulty /\ ~f) /\ (f => g)
    BY <1>1, FaultyFlag
  <2>2. h' = [h EXCEPT ![r].pc = p, ![r].type = "failed",
                       ![r].code = "DEPENDENCY_ERROR", ![r].faulty = g]
    BY <1>8, HandlerFacts
  <2> HIDE DEF g
  <2>3. Becomes(r, y)
    BY <2>2, HandlerFacts, Zenon DEF Becomes
  <2>4. g \/ (h[r].pc = "terminal" /\ "accepted" \notin FrameFits)
    <3> SUFFICES ASSUME ~g, h[r].pc = "finish" \/ "accepted" \in FrameFits PROVE FALSE
      BY Zenon
    <3>1. ~Accepts(e)
      BY <1>8, <2>1 DEF AppendFailed
    <3>2. ~h[r].faulty /\ h[r].pc \in Working
      BY <2>1, Zenon DEF Working, Started, Reading
    <3>3. ValidateInvocationEventV03(e) /\ e.type # "stream"
      BY <1>2, <1>4 DEF ValidateInvocationEventV03, ValidEnd, Terminal
    <3>4. validRuntimeTransition(Progress(h[r].seq), e.type, e.status)
      BY <1>2, <1>4, <1>5 DEF validRuntimeTransition, Progress, Terminal
    <3> QED
      BY <1>2, <1>4, <3>1, <3>2, <3>3, <3>4, OwnerAccepted
  <2>5. HandlerOK(r, y, rows[i], events[i])
    BY <1>1, <2>1, <2>4, HandlerFacts, TerminalFailedOK, Zenon
  <2>6. y.seq = h[r].seq /\ y.pc = p /\ y.task = h[r].task /\ y.faulty = g
    BY <1>1, <2>1 DEF Handlers
  <2>7. f => y.faulty /\ y.pc \notin Finished \cup {"close"}
    <3>1. y.pc \notin Finished \cup {"close"}
      BY <1>6, <2>6 DEF Finished
    <3> QED
      BY <2>1, <2>6, <3>1, Zenon
  <2> HIDE DEF y
  <2> QED
    BY <1>4, <1>6, <1>8, <2>3, <2>5, <2>6, <2>7, AppendFailedStep, ZenonT(60)
       DEF Reading, BeforeCall, Opening, Initial
<1> QED
  BY <1>7, <1>8, Zenon

\* Both kinds of terminal append keep the invariant.
LEMMA AppendTerminalKeeps ==
  ASSUME DispatchInv, NEW r \in Requests, AppendTerminal(r) \/ AppendStreamingTerminal(r)
  PROVE  DispatchInv'
<1> DEFINE e == ledgerEvent(r, h[r].type, h[r].code, NoChunk)
<1>1. CASE AppendTerminal(r)
  <2>1. /\ h[r].pc = "terminal" /\ UNCHANGED calls
        /\ \/ Appended(r, e, TRUE) /\ h' = [h EXCEPT ![r].pc = "reply", ![r].seq = @ + 1]
           \/ \E f \in BOOLEAN :
                /\ AppendFailed(r, e, TRUE, f)
                /\ h' = [h EXCEPT ![r].pc = "reply", ![r].type = "failed",
                                  ![r].code = "DEPENDENCY_ERROR", ![r].faulty = @ \/ f]
    BY <1>1, Zenon DEF AppendTerminal, At
  <2> HIDE DEF e
  <2> QED
    BY <2>1, TerminalKeeps, ZenonT(60) DEF e
<1>2. CASE AppendStreamingTerminal(r)
  <2>1. /\ h[r].pc = "finish" /\ UNCHANGED calls
        /\ \/ Appended(r, e, TRUE) /\ h' = [h EXCEPT ![r].pc = "writeTerminal", ![r].seq = @ + 1]
           \/ \E f \in BOOLEAN :
                /\ AppendFailed(r, e, TRUE, f)
                /\ h' = [h EXCEPT ![r].pc = "writeTerminal", ![r].type = "failed",
                                  ![r].code = "DEPENDENCY_ERROR", ![r].faulty = @ \/ f]
    BY <1>2, Zenon DEF AppendStreamingTerminal, At
  <2> HIDE DEF e
  <2> QED
    BY <2>1, TerminalKeeps, ZenonT(60) DEF e
<1> QED
  BY <1>1, <1>2

-----------------------------------------------------------------------------
(* The invariant *)

\* The invariant holds before any request.
LEMMA DispatchInvInit ==
  ASSUME DispatchInit
  PROVE  DispatchInv
<1>1. /\ h = [r \in Requests |-> Idle] /\ rows = [i \in Invocations |-> NoRow]
      /\ events = [i \in Invocations |-> <<>>] /\ calls = [i \in Invocations |-> 0]
  BY Zenon DEF DispatchInit, LedgerInit
<1>2. LedgerInv
  BY InvInit, Zenon DEF DispatchInit
<1>3. /\ Idle.pc = "idle" /\ Idle.err = NoCode /\ Idle.type = "none" /\ Idle.code = NoCode
      /\ Idle.seq = 0 /\ Idle.sse = 0 /\ Idle.out = <<>> /\ Idle.cancels = 0
      /\ ~Idle.task
  BY Zenon DEF Idle
<1>4. Idle \in Handlers
  <2> DEFINE yes == TRUE
             no == FALSE
             ctx == Idle.ctx
  <2>1. /\ "idle" \in Points /\ NoCode \in Errs /\ "none" \in Ends /\ NoCode \in Codes
        /\ <<>> \in Bodies /\ ctx \in Ctxs
    BY DEF Points, Opening, Errs, Ends, Codes, Bodies, Ctxs
  <2>2. yes \in Flags /\ no \in Flags
    BY Zenon DEF Flags
  <2>3. Idle = [pc |-> "idle", err |-> NoCode, type |-> "none", code |-> NoCode, seq |-> 0,
                sse |-> 0, out |-> <<>>, task |-> no, cancels |-> 0, wire |-> yes,
                faulty |-> no, lost |-> no, ctx |-> ctx]
    BY Zenon DEF Idle
  <2> HIDE DEF yes, no, ctx
  <2> QED
    BY <2>1, <2>2, <2>3 DEF Handlers
<1>5. ASSUME NEW r \in Requests
      PROVE  HandlerOK(r, Idle, NoRow, <<>>)
  <2>1. Verdicts(Idle) /\ Numbers(r, Idle) /\ Written(r, Idle) /\ Tasks(Idle)
    BY <1>3, SMTT(60) DEF Verdicts, Numbers, Written, Tasks, Undecided, Opening, Initial, Reading
  <2>2. FramesOK(r, Idle, NoRow, <<>>)
    BY <1>3 DEF FramesOK
  <2> QED
    BY <1>3, <1>4, <2>1, <2>2, SMTT(60) DEF HandlerOK
<1>6. h \in [Requests -> Handlers] /\ \A r \in Requests : h[r] = Idle
  BY <1>1, <1>4
<1>7. HandlersOK
  BY <1>1, <1>5, <1>6, DispatchAssumption DEF HandlersOK
<1>8. RowsOK /\ OneOwner
  BY <1>1, <1>3, <1>6 DEF RowsOK, OneOwner
<1>9. CallsOK
  BY <1>1, <1>3, <1>6 DEF CallsOK, Reading
<1> QED
  BY <1>2, <1>6, <1>7, <1>8, <1>9 DEF DispatchInv

\* Every step keeps the invariant.
LEMMA DispatchInvStep ==
  ASSUME DispatchInv, [DispatchNext]_dispatchVars
  PROVE  DispatchInv'
<1>1. ASSUME NEW r \in Requests, HandlerStep(r)
      PROVE  DispatchInv'
  BY <1>1, ReadParentKeeps, VersionInterruptedKeeps, ResolveInterruptedKeeps, AppendInitialKeeps,
     InitialFailedKeeps, AppendTerminalKeeps, ReplyKeeps, SelectInterruptedKeeps, CallAgentKeeps,
     CallInterruptedKeeps, WriteAcceptedKeeps, AppendChunkKeeps, ChunkFailedKeeps,
     WriteChunkKeeps, VerdictKeeps, WriteTerminalKeeps, CloseStreamKeeps
     DEF HandlerStep
<1>2. ASSUME NEW r \in Requests, OthersStep(r)
      PROVE  DispatchInv'
  BY <1>2, ServeKeeps, ServeNestedKeeps, ResolveInstalledVersionKeeps, ResolveKeeps,
     SelectTargetKeeps, AgentAnswersKeeps, ReceiveEventKeeps, ReceiveErrorKeeps,
     DeadlineExpiresKeeps, ClientDisconnectsKeeps
     DEF OthersStep
<1>3. CASE UNCHANGED dispatchVars
  <2>1. UNCHANGED <<rows, events, calls, h>>
    BY <1>3, Zenon DEF dispatchVars
  <2>2. LedgerInv'
    BY <2>1, InvStep DEF DispatchInv, ledgerVars
  <2>3. HandlersOK'
    BY <2>1, HandlersOKNext, Zenon DEF DispatchInv, HandlersOK
  <2>4. RowsOK'
    BY <2>1, Zenon DEF DispatchInv, RowsOK
  <2>5. OneOwner' /\ CallsOK'
    BY <2>1, Zenon DEF DispatchInv, OneOwner, CallsOK
  <2> QED
    BY <2>1, <2>2, <2>3, <2>4, <2>5, Zenon DEF DispatchInv
<1> QED
  BY <1>1, <1>2, <1>3, CrashKeeps DEF DispatchNext

\* The invariant holds of every behaviour of the dispatch handlers.
THEOREM DispatchInvariant == DispatchSpec => []DispatchInv
<1>1. DispatchInit => DispatchInv
  BY DispatchInvInit, Zenon
<1>2. DispatchInv /\ [DispatchNext]_dispatchVars => DispatchInv'
  BY DispatchInvStep, Zenon
<1> QED
  BY <1>1, <1>2, PTL DEF DispatchSpec

\* However many requests name an Invocation, and whatever fails, is in doubt or
\* crashes, its Agent is called at most once, and only after its started event
\* is committed.
THEOREM DispatchCallsAgentOnce == DispatchSpec => []AgentCalledOnce
<1>1. DispatchInv => AgentCalledOnce
  <2> SUFFICES ASSUME CallsOK, NEW i \in Invocations
               PROVE  /\ calls[i] <= 1
                      /\ calls[i] = 1 => Len(events[i]) >= 3 /\ events[i][3].type = "started"
    BY Zenon DEF DispatchInv, AgentCalledOnce
  <2> QED
    BY DEF CallsOK
<1> QED
  BY <1>1, DispatchInvariant, PTL

\* Where the accepted frame always fits (otherwise the handler offers the Ledger
\* a terminal event that the schema refuses), a caller is only told an outcome
\* that is committed, or that a dependency failed which did.
THEOREM DispatchOutcomesRecorded ==
  ASSUME "accepted" \in FrameFits
  PROVE  DispatchSpec => []OutcomeIsRecorded
<1>1. DispatchInv => OutcomeIsRecorded
  <2> SUFFICES ASSUME DispatchInv, NEW r \in Requests, NEW k \in Outcomes(r), h[r].seq > 0
               PROVE  \/ /\ rows[InvocationOf[r]].status = h[r].out[k].type
                         /\ rows[InvocationOf[r]].code = h[r].out[k].code
                      \/ h[r].out[k].code = "DEPENDENCY_ERROR" /\ h[r].faulty
    BY Zenon DEF OutcomeIsRecorded
  <2>1. h[r].out \in Seq(Frames)
    BY HandlerFacts, Zenon DEF Handlers, Bodies
  <2>2. k \in 1 .. Len(h[r].out) /\ h[r].out[k].type \in Terminal
    BY <2>1 DEF Outcomes
  <2>3. FramesOK(r, h[r], rows[InvocationOf[r]], events[InvocationOf[r]])
    BY HandlerFacts, Zenon DEF HandlerOK
  <2> QED
    BY <2>2, <2>3, Zenon DEF FramesOK, Recorded
<1> QED
  BY <1>1, DispatchInvariant, PTL

\* Every result stream begins with accepted, is strictly increasing, has gapless
\* chunk indexes, sends only recorded chunks and ends with its first terminal
\* frame.
THEOREM DispatchStreamsWellFormed == DispatchSpec => []StreamWellFormed
<1>1. DispatchInv => StreamWellFormed
  <2> SUFFICES ASSUME DispatchInv, NEW r \in Streams, h[r].out # <<>>,
                      h[r].out[1].type = "accepted", NEW k \in 2 .. Len(h[r].out)
               PROVE  /\ h[r].out[k].seq > h[r].out[k - 1].seq
                      /\ h[r].out[k - 1].type \in {"accepted", "chunk"}
                      /\ h[r].out[k].type = "chunk" =>
                           /\ h[r].out[k].chunk = k - 2
                           /\ h[r].out[k].chunk \in {events[InvocationOf[r]][j].chunk :
                                                       j \in DOMAIN events[InvocationOf[r]]}
    BY Zenon DEF StreamWellFormed
  <2>1. r \in Requests
    BY DispatchAssumption, Zenon
  <2>2. /\ FramesOK(r, h[r], rows[InvocationOf[r]], events[InvocationOf[r]])
        /\ events[InvocationOf[r]] \in Seq(Event)
    BY <2>1, HandlerFacts, Zenon DEF HandlerOK
  <2> QED
    BY <2>2, SMTT(60) DEF FramesOK
<1> QED
  BY <1>1, DispatchInvariant, PTL

\* A remote task is cancelled at most once, by the one request that called it, and
\* only when the Invocation is terminal in the Ledger, unless the database failed
\* an append of that handler or left its commit in doubt.
THEOREM DispatchCancelsAfterOutcome == DispatchSpec => []CancelAfterOutcome
<1>1. DispatchInv => CancelAfterOutcome
  <2> SUFFICES ASSUME DispatchInv, NEW r \in Requests
               PROVE  /\ h[r].cancels <= 1
                      /\ h[r].cancels = 1 =>
                           /\ calls[InvocationOf[r]] = 1
                           /\ rows[InvocationOf[r]].status \in Terminal \/ h[r].faulty
    BY Zenon DEF CancelAfterOutcome
  <2>1. HandlerOK(r, h[r], rows[InvocationOf[r]], events[InvocationOf[r]])
    BY HandlerFacts, Zenon
  <2>2. h[r].cancels <= 1
    BY <2>1 DEF HandlerOK, Tasks
  <2>3. ASSUME h[r].cancels = 1
        PROVE  /\ calls[InvocationOf[r]] = 1
               /\ rows[InvocationOf[r]].status \in Terminal \/ h[r].faulty
    <3>1. h[r].task /\ h[r].seq > 0
      <4>1. Tasks(h[r]) /\ h[r].seq \in Nat
        BY <2>1, HandlerFields, Zenon DEF HandlerOK
      <4> QED
        BY <2>3, <4>1 DEF Tasks
    <3>2. calls[InvocationOf[r]] = 1
      BY <3>1, HandlerFacts DEF DispatchInv, CallsOK
    <3> QED
      BY <2>1, <2>3, <3>1, <3>2, Zenon DEF HandlerOK, Owns
  <2> QED
    BY <2>2, <2>3
<1> QED
  BY <1>1, DispatchInvariant, PTL

-----------------------------------------------------------------------------
(* The dispatch handlers use the Ledger as its callers may *)

\* Whatever the handlers do, the Ledger only sees one append at a time of events
\* that a caller may offer: the dispatch implements the Ledger's specification,
\* and all that is proved of the Ledger holds of it.
THEOREM DispatchImplementsLedger == DispatchSpec => LedgerSpec
<1>1. DispatchInit => LedgerInit
  BY Zenon DEF DispatchInit
<1>2. ASSUME DispatchInv, DispatchNext
      PROVE  LedgerNext \/ UNCHANGED ledgerVars
  <2>1. ASSUME NEW e, Accepts(e) => e \in Candidates,
               LedgerAppend(e) \/ UNCHANGED <<rows, events>>
        PROVE  LedgerNext \/ UNCHANGED ledgerVars
    BY <2>1, Zenon DEF LedgerNext, LedgerAppend, ledgerVars
  <2>2. ASSUME NEW r \in Requests, NEW e, NEW grace, NEW f,
               Appended(r, e, grace) \/ AppendFailed(r, e, grace, f)
        PROVE  LedgerAppend(e) \/ UNCHANGED <<rows, events>>
    BY <2>2, Zenon DEF Appended, AppendFailed
  <2>3. ASSUME NEW r \in Requests,
               AppendInitial(r) \/ AppendChunk(r) \/ AppendTerminal(r) \/ AppendStreamingTerminal(r)
        PROVE  LedgerNext \/ UNCHANGED ledgerVars
    <3>1. CASE AppendInitial(r)
      <4> DEFINE e == ledgerEvent(r, InitialTypes(r)[h[r].seq + 1], NoCode, NoChunk)
      <4>1. /\ h[r].pc = "initial"
            /\ Appended(r, e, FALSE) \/ \E f \in BOOLEAN : AppendFailed(r, e, FALSE, f)
        BY <3>1, Zenon DEF AppendInitial, At
      <4> HIDE DEF e
      <4> QED
        BY <1>2, <2>1, <2>2, <4>1, Offers, Zenon DEF e
    <3>2. CASE AppendChunk(r)
      <4> DEFINE e == ledgerEvent(r, "stream", NoCode, h[r].sse - 1)
      <4>1. /\ h[r].pc = "chunk"
            /\ Appended(r, e, FALSE) \/ \E f \in BOOLEAN : AppendFailed(r, e, FALSE, f)
        BY <3>2, Zenon DEF AppendChunk, At
      <4> HIDE DEF e
      <4> QED
        BY <1>2, <2>1, <2>2, <4>1, Offers, Zenon DEF e
    <3>3. CASE AppendTerminal(r) \/ AppendStreamingTerminal(r)
      <4> DEFINE e == ledgerEvent(r, h[r].type, h[r].code, NoChunk)
      <4>1. /\ h[r].pc \in {"terminal", "finish"}
            /\ Appended(r, e, TRUE) \/ \E f \in BOOLEAN : AppendFailed(r, e, TRUE, f)
        BY <3>3, Zenon DEF AppendTerminal, AppendStreamingTerminal, At
      <4> HIDE DEF e
      <4> QED
        BY <1>2, <2>1, <2>2, <4>1, Offers, Zenon DEF e
    <3> QED
      BY <2>3, <3>1, <3>2, <3>3
  <2>4. ASSUME NEW r \in Requests, HandlerStep(r) \/ OthersStep(r),
               ~(AppendInitial(r) \/ AppendChunk(r) \/ AppendTerminal(r) \/ AppendStreamingTerminal(r))
        PROVE  UNCHANGED ledgerVars
    BY <2>4, Zenon DEF HandlerStep, OthersStep, ledgerVars, ReadParent, VersionInterrupted, ResolveInterrupted,
       InitialFailed, Reply, SelectInterrupted, CallAgent, CallInterrupted, WriteAccepted,
       ChunkFailed, WriteChunk, Verdict, WriteTerminal, CloseStream, Serve, ServeNested,
       ResolveInstalledVersion, Resolve, SelectTarget, AgentAnswers, ReceiveEvent, ReceiveError,
       DeadlineExpires, ClientDisconnects
  <2>5. CASE Crash
    BY <2>5, Zenon DEF Crash, ledgerVars
  <2> QED
    BY <1>2, <2>3, <2>4, <2>5 DEF DispatchNext
<1>3. DispatchInv /\ [DispatchNext]_dispatchVars => [LedgerNext]_ledgerVars
  BY <1>2, Zenon DEF dispatchVars, ledgerVars
<1> QED
  BY <1>1, <1>3, DispatchInvariant, PTL DEF DispatchSpec, LedgerSpec

\* Through that refinement: under concurrent handlers, faults and a crash, the
\* projection of every Invocation is the replay of its history, lineage is sound,
\* and each Invocation moves as the abstract lifecycle allows.
THEOREM DispatchKeepsLedger ==
  DispatchSpec => [](ProjectionIsReplay /\ LineageSound) /\ HistoryAppendOnly
                  /\ ChildUnderRunningParent /\ ImplementsLifecycle
<1>1. LedgerSpec => []ProjectionIsReplay /\ []LineageSound
  BY ProjectionAlwaysReplays, LineageAlwaysSound, Zenon
<1> QED
  BY <1>1, DispatchImplementsLedger, LedgerAppendOnly, LedgerChildUnderRunningParent,
     LedgerImplementsLifecycle, PTL
=============================================================================
