----------------------------- MODULE Kubernetes -----------------------------
(***************************************************************************)
(* registry/kubernetes: one observation of a Directory. Observe lists the  *)
(* Service and its EndpointSlices, opens a watch on each from the listed   *)
(* resource version, and two readers merge the two event streams into one  *)
(* sequence of snapshots.                                                  *)
(*                                                                         *)
(* The API server is external: a log of events per source, whose positions *)
(* are the resource versions. Requests and streams may fail at any point.  *)
(***************************************************************************)
EXTENDS EndpointSlices, WatchQueue

CONSTANTS WireSlices,                        \* EndpointSlices the cluster may hold
          MaxServiceEvents, MaxSliceEvents,  \* bounds: lengths of the logs
          ReadErrors,                        \* outcomes of a broken stream
          StatusCodes                        \* answers of the API server other than 200

Sources == {"service", "slices"}

VARIABLES log,        \* external: the events of each source
          observe,    \* where Observe is: pc and the error it fails with
          session,    \* observationSession under its mutex
          watch,      \* the inner instance watch
          reader,     \* readSource of each source: pc, the event or the error in hand
          body,       \* the response body of each source
          pos,        \* events of each log that acceptEvent has applied
          stop,       \* stopOnce: the step its function is at
          directory,  \* closed, and whether the session is registered
          closer,     \* Directory.Close
          view        \* the last snapshot the consumer has

kVars == <<log, observe, session, watch, reader, body, pos, stop, directory, closer, view>>

NoSnapshot == NewInstanceSnapshot(0, "missing", <<>>)

-----------------------------------------------------------------------------
(* The API server: the state a log leads to, and its events                 *)

\* A Service that is created again has another UID and is not the bound one.
ServiceAfter(n) == n > 0 /\ log.service[n].type # "DELETED"

ServiceIsBound(n) == n > 0 => log.service[n].bound

SlicesAfter(n) ==
  LET Newest(k) == \A j \in (k + 1) .. n : log.slices[j].slice.uid # log.slices[k].slice.uid
  IN {log.slices[k].slice : k \in {k \in 1 .. n : log.slices[k].type # "DELETED" /\ Newest(k)}}

ServiceEvent ==
  LET n == Len(log.service)
      present == ServiceAfter(n)
  IN /\ n < MaxServiceEvents
     /\ \E type \in IF present THEN {"MODIFIED", "DELETED"} ELSE {"ADDED"} :
          log' = [log EXCEPT !.service = Append(@, [type |-> type,
                    bound |-> (n > 0 => present /\ log.service[n].bound)])]
     /\ UNCHANGED <<observe, session, watch, reader, body, pos, stop, directory, closer, view>>

SliceEvent(slice) ==
  LET n == Len(log.slices)
  IN /\ n < MaxSliceEvents
     /\ \E type \in {"MODIFIED"} \cup (IF slice \in SlicesAfter(n) THEN {"DELETED"} ELSE {}) :
          log' = [log EXCEPT !.slices = Append(@, [type |-> type, slice |-> slice])]
     /\ UNCHANGED <<observe, session, watch, reader, body, pos, stop, directory, closer, view>>

-----------------------------------------------------------------------------
(* The end of a session: fail, close and finishTargetDeleted                *)

\* The first outcome wins, and the deletion of the target over any.
Outcome(s, err) == IF s.targetDeleted \/ s.terminal # "none" THEN s ELSE [s EXCEPT !.terminal = err]

\* stopOnce.Do: the first caller runs the function, the others wait for it.
BeginStop(s) ==
  IF stop # "no" THEN stop ELSE IF s.targetDeleted THEN "bodies" ELSE "terminate"

\* Terminate (not after target_deleted), closeBodies, unregisterSession.
StopStep ==
  /\ \/ /\ stop = "terminate" /\ stop' = "bodies"
        /\ watch' = terminate(watch, session.terminal)
        /\ UNCHANGED <<session, body, directory>>
     \/ /\ stop = "bodies" /\ stop' = "unregister"
        /\ body' = [b \in Sources |-> IF b \in session.bodies THEN "closed" ELSE body[b]]
        /\ session' = [session EXCEPT !.bodies = {}]
        /\ UNCHANGED <<watch, directory>>
     \/ /\ stop = "unregister" /\ stop' = "done"
        /\ directory' = [directory EXCEPT !.registered = FALSE]
        /\ UNCHANGED <<session, body, watch>>
  /\ UNCHANGED <<log, observe, reader, pos, closer, view>>

-----------------------------------------------------------------------------
(* Directory.Observe                                                        *)

At(pc) == observe.pc = pc

Goto(pc) == observe' = [observe EXCEPT !.pc = pc]

outcomeFromStatus(code) ==
  CASE code \in {401, 403} -> "unauthorized"
    [] code = 410 -> "stale"
    [] code = 429 \/ code \in 500 .. 599 -> "unavailable"
    [] OTHER -> "invalid"

ObserveFails(err) == observe' = [pc |-> "failed", err |-> err]

\* bindingFor and the list of Services. A list request may fail.
ListService ==
  /\ At("list service")
  /\ \/ directory.closed /\ ObserveFails("closed") /\ UNCHANGED pos
     \/ /\ ~directory.closed /\ UNCHANGED pos
        /\ \E code \in StatusCodes : ObserveFails(outcomeFromStatus(code))
     \/ /\ ~directory.closed
        /\ IF ServiceAfter(Len(log.service)) /\ ~ServiceIsBound(Len(log.service))
           THEN ObserveFails("invalid") /\ UNCHANGED pos
           ELSE Goto("list slices") /\ pos' = [pos EXCEPT !.service = Len(log.service)]
  /\ UNCHANGED <<log, session, watch, reader, body, stop, directory, closer, view>>

\* Mutant: the service watch starts at the newest resource version.
ListSlicesLatest ==
  /\ At("list slices")
  /\ LET list == SlicesAfter(Len(log.slices))
         slices == listRecords(list)
         present == ServiceAfter(pos.service)
         initial == topologySnapshot(present, slices, 0)
     IN /\ listAccepted(list) /\ aggregateAccepted(slices)
        /\ Goto("register")
        /\ session' = [session EXCEPT !.present = present, !.slices = slices, !.current = initial]
        /\ view' = initial
        /\ pos' = [service |-> Len(log.service), slices |-> Len(log.slices)]
  /\ UNCHANGED <<log, watch, reader, body, stop, directory, closer>>

\* The list of EndpointSlices, the initial snapshot and the new session.
ListSlices ==
  /\ At("list slices")
  /\ LET list == SlicesAfter(Len(log.slices))
         slices == listRecords(list)
         present == ServiceAfter(pos.service)
         initial == topologySnapshot(present, slices, 0)
     IN \/ /\ \E code \in StatusCodes : ObserveFails(outcomeFromStatus(code))
           /\ UNCHANGED <<session, pos, view>>
        \/ IF ~listAccepted(list) \/ ~aggregateAccepted(slices)
           THEN ObserveFails("invalid") /\ UNCHANGED <<session, pos, view>>
           ELSE /\ Goto("register")
                /\ session' = [session EXCEPT !.present = present, !.slices = slices,
                                              !.current = initial]
                /\ view' = initial
                /\ pos' = [pos EXCEPT !.slices = Len(log.slices)]
  /\ UNCHANGED <<log, watch, reader, body, stop, directory, closer>>

RegisterSession ==
  /\ At("register")
  /\ IF directory.closed
     THEN /\ session' = Outcome(session, "closed")
          /\ stop' = BeginStop(session)
          /\ observe' = [pc |-> "stopping", err |-> "closed"]
          /\ UNCHANGED directory
     ELSE /\ directory' = [directory EXCEPT !.registered = TRUE]
          /\ Goto("open service")
          /\ UNCHANGED <<session, stop>>
  /\ UNCHANGED <<log, watch, reader, body, pos, closer, view>>

OpenAt == [service |-> "open service", slices |-> "open slices"]

AttachAt == [service |-> "attach service", slices |-> "attach slices"]

AfterAttach == [service |-> "open slices", slices |-> "mark"]

\* openWatch: the request fails and the session with it, or there is a body.
OpenWatch(source) ==
  /\ At(OpenAt[source])
  /\ \/ /\ \E code \in StatusCodes :
             /\ session' = Outcome(session, outcomeFromStatus(code))
             /\ observe' = [pc |-> IF session.targetDeleted THEN "failed" ELSE "stopping",
                            err |-> outcomeFromStatus(code)]
        /\ stop' = IF session.targetDeleted THEN stop ELSE BeginStop(session)
        /\ UNCHANGED body
     \/ /\ body' = [body EXCEPT ![source] = "open"]
        /\ Goto(AttachAt[source])
        /\ UNCHANGED <<session, stop>>
  /\ UNCHANGED <<log, watch, reader, pos, directory, closer, view>>

\* Mutant: a body is attached to a session that has ended.
AttachAlways(source) ==
  /\ At(AttachAt[source])
  /\ session' = [session EXCEPT !.bodies = @ \cup {source}]
  /\ reader' = [reader EXCEPT ![source].pc = "read"]
  /\ Goto(AfterAttach[source])
  /\ UNCHANGED <<log, watch, body, pos, stop, directory, closer, view>>

\* attachBody and the start of the reader.
AttachBody(source) ==
  /\ At(AttachAt[source])
  /\ IF session.terminal # "none"
     THEN /\ body' = [body EXCEPT ![source] = "closed"]
          /\ ObserveFails(session.terminal)
          /\ UNCHANGED <<session, reader>>
     ELSE /\ reader' = [reader EXCEPT ![source].pc = "read"]
          /\ Goto(AfterAttach[source])
          /\ IF session.targetDeleted
             THEN body' = [body EXCEPT ![source] = "closed"] /\ UNCHANGED session
             ELSE session' = [session EXCEPT !.bodies = @ \cup {source}] /\ UNCHANGED body
  /\ UNCHANGED <<log, watch, pos, stop, directory, closer, view>>

\* markWatchOpen twice and awaitBarrier: an outcome of the session is the
\* outcome of Observe. A cancelled context also ends it.
MarkWatchOpen ==
  /\ At("mark")
  /\ \/ /\ session.terminal # "none"
        /\ observe' = [pc |-> "stopping", err |-> session.terminal]
        /\ stop' = BeginStop(session)
        /\ UNCHANGED session
     \/ /\ session.terminal = "none"
        /\ Goto("returned")
        /\ UNCHANGED <<session, stop>>
     \/ /\ session' = Outcome(session, "canceled")
        /\ stop' = IF session.targetDeleted THEN stop ELSE BeginStop(session)
        /\ observe' = [pc |-> IF session.targetDeleted THEN "failed" ELSE "stopping",
                       err |-> "canceled"]
  /\ UNCHANGED <<log, watch, reader, body, pos, directory, closer, view>>

\* fail or close has returned.
ObserveStopped ==
  /\ At("stopping") /\ stop = "done"
  /\ Goto("failed")
  /\ UNCHANGED <<log, session, watch, reader, body, pos, stop, directory, closer, view>>

-----------------------------------------------------------------------------
(* readSource                                                               *)

ReaderAt(source, pc) == reader[source].pc = pc

ReaderGoto(source, pc) == reader' = [reader EXCEPT ![source].pc = pc]

ReaderFails(source, err) == reader' = [reader EXCEPT ![source] = [pc |-> "failing", err |-> err]]

finished == session.terminal # "none" \/ session.targetDeleted

\* The head of the loop, and readWatchEnvelope with the next event of the log. A
\* body is closed only after the session is finished, which ends the reader.
ReadEnvelope(source) ==
  /\ ReaderAt(source, "read")
  /\ \/ finished /\ ReaderGoto(source, "done")
     \/ /\ ~finished /\ body[source] = "open" /\ pos[source] < Len(log[source])
        /\ ReaderGoto(source, "accept")
  /\ UNCHANGED <<log, observe, session, watch, body, pos, stop, directory, closer, view>>

outcomeFromWatchStatus(code) == IF code = 410 THEN "stale" ELSE "watch_status_error"

\* The stream ends, an envelope is malformed or too long, or it is an ERROR.
StreamBreaks(source) ==
  /\ ReaderAt(source, "read") /\ ~finished
  /\ \E err \in ReadErrors \cup {outcomeFromWatchStatus(code) : code \in StatusCodes} :
       ReaderFails(source, err)
  /\ UNCHANGED <<log, observe, session, watch, body, pos, stop, directory, closer, view>>

\* The rest of emitCurrentStateLocked and emitTargetDeletedLocked once the state
\* is updated to s: the change is queued, or the reader has an error.
Emit(source, s, c) ==
  IF Accepting(watch)
  THEN /\ session' = s
       /\ watch' = Publish(watch, c)
       /\ ReaderGoto(source, "read")
  ELSE /\ session' = [s EXCEPT !.current = session.current, !.targetDeleted = FALSE]
       /\ watch' = Publish(watch, c)
       /\ ReaderFails(source, "delivery_overflow")

\* Mutant: the session moves on without publishing.
EmitNothing(source, s) ==
  LET next == topologySnapshot(s.present, s.slices, session.current.order + 1)
  IN IF ~aggregateAccepted(s.slices)
     THEN session' = s /\ UNCHANGED watch /\ ReaderFails(source, "invalid")
     ELSE session' = [s EXCEPT !.current = [next EXCEPT !.order = session.current.order]]
          /\ UNCHANGED watch /\ ReaderGoto(source, "read")

\* emitCurrentStateLocked
EmitCurrentState(source, s) ==
  LET next == topologySnapshot(s.present, s.slices, session.current.order + 1)
  IN IF ~aggregateAccepted(s.slices)
     THEN session' = s /\ UNCHANGED watch /\ ReaderFails(source, "invalid")
     ELSE IF samePublicTopology(session.current, next)
     THEN session' = s /\ UNCHANGED watch /\ ReaderGoto(source, "read")
     ELSE Emit(source, [s EXCEPT !.current = next], currentStateChange(session.current, next))

\* emitTargetDeletedLocked; finishTargetDeleted runs in a goroutine of its own.
EmitTargetDeleted(source, s) ==
  LET next == topologySnapshot(FALSE, s.slices, session.current.order + 1)
  IN IF ~aggregateAccepted(s.slices)
     THEN session' = s /\ UNCHANGED watch /\ ReaderFails(source, "invalid")
     ELSE Emit(source, [s EXCEPT !.current = next, !.targetDeleted = TRUE],
               targetDeletedChange(next))

Applied(source) == pos' = [pos EXCEPT ![source] = @ + 1]

AcceptService ==
  LET event == log.service[pos.service + 1]
  IN /\ ReaderAt("service", "accept")
     /\ IF finished
        THEN ReaderGoto("service", "read") /\ UNCHANGED <<session, watch, pos>>
        ELSE IF ~event.bound
        THEN ReaderFails("service", "invalid") /\ UNCHANGED <<session, watch, pos>>
        ELSE /\ Applied("service")
             /\ IF event.type = "DELETED"
                THEN EmitTargetDeleted("service", [session EXCEPT !.present = FALSE])
                ELSE EmitCurrentState("service", [session EXCEPT !.present = TRUE])
     /\ UNCHANGED <<log, observe, body, stop, directory, closer, view>>

WithoutSlice(slices, uid) == [u \in DOMAIN slices \ {uid} |-> slices[u]]

WithSlice(slices, slice) ==
  [u \in DOMAIN slices \cup {slice.uid} |->
     IF u = slice.uid THEN normalizeEndpointSlice(slice) ELSE slices[u]]

\* The bounds of the binding hold for every state the session accepts.
withinBounds(slices, slice) ==
  /\ Cardinality(DOMAIN slices) >= EndpointSliceCount => slice.uid \in DOMAIN slices
  /\ countEndpoints(WithSlice(slices, slice)) <= EndpointCount

AcceptSlice ==
  LET event == log.slices[pos.slices + 1]
      slice == event.slice
  IN /\ ReaderAt("slices", "accept")
     /\ IF finished
        THEN ReaderGoto("slices", "read") /\ UNCHANGED <<session, watch, pos>>
        ELSE IF \/ event.type = "DELETED" /\ ~validateEndpointSliceIdentity(slice)
                \/ event.type # "DELETED" /\ ~(sliceAccepted(slice) /\ withinBounds(session.slices, slice))
        THEN ReaderFails("slices", "invalid") /\ UNCHANGED <<session, watch, pos>>
        ELSE /\ Applied("slices")
             /\ EmitCurrentState("slices", [session EXCEPT !.slices =
                  IF event.type = "DELETED" THEN WithoutSlice(@, slice.uid) ELSE WithSlice(@, slice)])
     /\ UNCHANGED <<log, observe, body, stop, directory, closer, view>>

\* fail: nothing happens to a session that saw its target deleted.
ReaderFail(source) ==
  /\ ReaderAt(source, "failing")
  /\ session' = Outcome(session, reader[source].err)
  /\ stop' = IF session.targetDeleted THEN stop ELSE BeginStop(session)
  /\ ReaderGoto(source, IF session.targetDeleted THEN "done" ELSE "stopping")
  /\ UNCHANGED <<log, observe, watch, body, pos, directory, closer, view>>

ReaderStopped(source) ==
  /\ ReaderAt(source, "stopping") /\ stop = "done"
  /\ ReaderGoto(source, "done")
  /\ UNCHANGED <<log, observe, session, watch, body, pos, stop, directory, closer, view>>

\* The goroutine finishTargetDeleted.
FinishTargetDeleted ==
  /\ session.targetDeleted /\ stop = "no"
  /\ stop' = BeginStop(session)
  /\ UNCHANGED <<log, observe, session, watch, reader, body, pos, directory, closer, view>>

-----------------------------------------------------------------------------
(* The consumer and Directory.Close                                         *)

\* kubernetesWatch.Next: a change, or the outcome and the end of the session.
NextChange ==
  /\ At("returned")
  /\ \/ /\ watch.queue # <<>>
        /\ watch' = TakeChange(watch)
        /\ view' = Head(watch.queue).snapshot
        /\ stop' = IF Head(watch.queue).kind = "target_deleted" THEN BeginStop(session) ELSE stop
        /\ UNCHANGED <<session, observe>>
     \/ /\ watch.queue = <<>> /\ watch.terminal # "none"
        /\ session' = Outcome(session, "closed")
        /\ stop' = BeginStop(session)
        /\ Goto("ended")
        /\ UNCHANGED <<watch, view>>
  /\ UNCHANGED <<log, reader, body, pos, directory, closer>>

\* The consumer closes its watch.
CloseWatch ==
  /\ At("returned")
  /\ session' = Outcome(session, "closed")
  /\ stop' = BeginStop(session)
  /\ Goto("ended")
  /\ UNCHANGED <<log, watch, reader, body, pos, directory, closer, view>>

CloseDirectory ==
  /\ closer = "idle"
  /\ directory' = [closed |-> TRUE, registered |-> FALSE]
  /\ closer' = IF directory.registered THEN "close session" ELSE "done"
  /\ UNCHANGED <<log, observe, session, watch, reader, body, pos, stop, view>>

CloseSession ==
  /\ closer = "close session"
  /\ session' = Outcome(session, "closed")
  /\ stop' = BeginStop(session)
  /\ closer' = "stopping"
  /\ UNCHANGED <<log, observe, watch, reader, body, pos, directory, view>>

DirectoryClosed ==
  /\ closer = "stopping" /\ stop = "done"
  /\ closer' = "done"
  /\ UNCHANGED <<log, observe, session, watch, reader, body, pos, stop, directory, view>>

-----------------------------------------------------------------------------

KInit ==
  /\ log = [service |-> <<>>, slices |-> <<>>]
  /\ observe = [pc |-> "list service", err |-> "none"]
  /\ session = [present |-> FALSE, slices |-> <<>>, current |-> NoSnapshot, terminal |-> "none",
                targetDeleted |-> FALSE, bodies |-> {}]
  /\ watch = NewInstanceWatch
  /\ reader = [s \in Sources |-> [pc |-> "none", err |-> "none"]]
  /\ body = [s \in Sources |-> "none"]
  /\ pos = [s \in Sources |-> 0]
  /\ stop = "no"
  /\ directory = [closed |-> FALSE, registered |-> FALSE]
  /\ closer = "idle"
  /\ view = NoSnapshot

ObserveStep ==
  \/ ListService \/ ListSlices \/ RegisterSession \/ MarkWatchOpen \/ ObserveStopped
  \/ \E s \in Sources : OpenWatch(s) \/ AttachBody(s)

ReaderStep(s) ==
  \/ ReadEnvelope(s) \/ ReaderFail(s) \/ ReaderStopped(s)
  \/ (s = "service" /\ AcceptService) \/ (s = "slices" /\ AcceptSlice)

KNext ==
  \/ ServiceEvent \/ \E slice \in WireSlices : SliceEvent(slice)
  \/ ObserveStep \/ \E s \in Sources : ReaderStep(s) \/ StreamBreaks(s)
  \/ StopStep \/ FinishTargetDeleted
  \/ NextChange \/ CloseWatch
  \/ CloseDirectory \/ CloseSession \/ DirectoryClosed

KSpec == KInit /\ [][KNext]_kVars

-----------------------------------------------------------------------------
(* Properties *)

\* What the cluster looks like after i events of the Service and j of the
\* slices, computed from the slices it then holds.
Truth(i, j) ==
  LET slices == SlicesAfter(j)
      endpoints == UNION {ToSet(normalizeEndpointSlice(s)) : s \in slices}
  IN IF ~ServiceAfter(i) THEN {}
     ELSE {<<id, UNION {Tuples(e) : e \in {e \in endpoints : e.id = id}},
             \E e \in endpoints : e.id = id /\ e.ready /\ e.serving /\ ~e.terminating>>
            : id \in {e.id : e \in endpoints}}

Shown(snapshot) ==
  {<<i.id, {<<i.endpoints[k].address, i.endpoints[k].port>> : k \in 1 .. Len(i.endpoints)},
     i.state = "ready">> : i \in ToSet(snapshot.instances)}

Alive == ~finished /\ \A s \in Sources : reader[s].pc # "failing"

\* Listing and then watching loses and repeats nothing, however the two streams
\* interleave: while the session lives, its snapshot is exactly the cluster
\* after the events accepted so far of each source, and missing says that the
\* Service is not there.
SnapshotIsTruth ==
  Alive /\ observe.pc \notin {"list service", "list slices", "failed"} =>
    /\ Shown(session.current) = Truth(pos.service, pos.slices)
    /\ (session.current.state = "missing") <=> ~ServiceAfter(pos.service)

\* The consumer is behind the session by exactly what is queued.
QueueLeadsToCurrent ==
  watch.terminal = "none" /\ observe.pc = "returned" =>
    /\ view.order + Len(watch.queue) = session.current.order
    /\ watch.queue = <<>> => samePublicTopology(view, session.current)

\* No response body outlives its session, whichever of Observe, the readers,
\* the consumer and Directory.Close ends it, and whenever.
NoBodyLeaks ==
  stop = "done" /\ observe.pc \in {"failed", "returned", "ended"} =>
    \A s \in Sources : body[s] # "open"

\* Every goroutine of the observation has ended.
Ended ==
  /\ closer = "done" /\ observe.pc \in {"failed", "returned", "ended"}
  /\ \A s \in Sources : reader[s].pc \in {"none", "done"} /\ body[s] # "open"

\* A consumer has the observation.
Watching == observe.pc = "returned"

\* The observation has ended, or its consumer sees the cluster as it is.
Converged ==
  observe.pc = "ended" \/ finished \/ Shown(view) = Truth(Len(log.service), Len(log.slices))
=============================================================================
