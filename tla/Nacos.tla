-------------------------------- MODULE Nacos --------------------------------
(***************************************************************************)
(* registry/nacos: one observation of a Directory. Observe subscribes over *)
(* a gRPC connection of its own, receive reads the pushes of the server    *)
(* from the stream and hands them to run, which turns each into a change.  *)
(*                                                                         *)
(* The Nacos server is external: the lists of hosts it has had, and what   *)
(* it sent on the stream. A list of hosts is the payload of a push.        *)
(***************************************************************************)
EXTENDS RegistryModel, WatchQueue

CONSTANTS HostLists,      \* lists of hosts the service may have
          ClusterName, PortName, TCP, IPv4, IPv6,
          MaxHosts,       \* maxInstances
          MaxBytes,       \* maxResponseBytes, in hosts
          MaxStates,      \* bound: lists of hosts in one behaviour
          MaxDetections,  \* bound: ClientDetectionRequests
          Faults          \* what may go wrong

VARIABLES hosts,      \* external: the lists of hosts so far
          wire,       \* external: messages on the stream, not yet received
          sent,       \* external: the last list pushed, and detections sent
          observe,    \* where Observe is, and its error
          connection, \* the gRPC connection and its push stream
          receiver,   \* grpcPushStream.receive: pc and message in hand
          runner,     \* observationSession.run: pc, list in hand, error
          session,    \* current, terminal, ctx cancelled
          watch,      \* the inner instance watch
          stop,       \* stopOnce: the step its function is at
          directory,  \* closed, and whether the session is registered
          closer,     \* Directory.Close
          applied,    \* the list of hosts run has accepted last
          view        \* the last snapshot the consumer has

nVars == <<hosts, wire, sent, observe, connection, receiver, runner, session, watch, stop,
           directory, closer, applied, view>>

-----------------------------------------------------------------------------
(* decodeInstances and snapshotFromPayload                                  *)

\* An address that ParseIP does not give back is negative.
hostAccepted(h) ==
  /\ h.ip > 0 /\ h.ephemeral /\ h.clusterName = ClusterName /\ h.id # NoText
  /\ h.id > 0 /\ h.port \in 1 .. 65535

hostInstance(h) ==
  NewInstance([id |-> h.id, ready |-> h.healthy /\ h.enabled, serving |-> h.healthy /\ h.enabled,
               terminating |-> FALSE, zone |-> NoText,
               endpoints |-> <<[addressType |-> IF h.v4 THEN IPv4 ELSE IPv6, address |-> h.ip,
                                portName |-> PortName, port |-> h.port, protocol |-> TCP]>>])

decodeInstances(list) == [k \in 1 .. Len(list) |-> hostInstance(list[k])]

payloadAccepted(list) ==
  /\ Len(list) <= MaxHosts
  /\ \A k \in 1 .. Len(list) : hostAccepted(list[k])
  /\ instancesNormalize(decodeInstances(list))

\* Nacos reports an absent service as an empty list.
snapshotFromPayload(list, order) ==
  NewInstanceSnapshot(order, IF list = <<>> THEN "empty" ELSE "populated", decodeInstances(list))

-----------------------------------------------------------------------------
(* The server                                                              *)

Current == Len(hosts)

ServiceChanges(list) ==
  /\ Current < MaxStates
  /\ hosts' = Append(hosts, list)
  /\ UNCHANGED <<wire, sent, observe, connection, receiver, runner, session, watch, stop,
                 directory, closer, applied, view>>

\* A subscribed connection is pushed the list as it is, lists in between left out.
ServerPushes ==
  /\ connection.subscribed /\ sent.list < Current
  /\ wire' = Append(wire, [type |-> "push", list |-> Current])
  /\ sent' = [sent EXCEPT !.list = Current]
  /\ UNCHANGED <<hosts, observe, connection, receiver, runner, session, watch, stop,
                 directory, closer, applied, view>>

\* A detection, or something receive does not know or cannot decode.
ServerProbes ==
  /\ connection.subscribed /\ sent.probes < MaxDetections
  /\ \E type \in {"detect"} \cup ({"malformed"} \cap Faults) :
       wire' = Append(wire, [type |-> type, list |-> 0])
  /\ sent' = [sent EXCEPT !.probes = @ + 1]
  /\ UNCHANGED <<hosts, observe, connection, receiver, runner, session, watch, stop,
                 directory, closer, applied, view>>

-----------------------------------------------------------------------------
(* The push stream and the end of a session                                 *)

\* grpcPushStream.finish, once: terminal, done, the stream's context, the connection.
finish(c, err) ==
  IF c.done THEN c ELSE [c EXCEPT !.done = TRUE, !.terminal = err, !.open = FALSE]

Outcome(s, err) == IF s.terminal # "none" THEN s ELSE [s EXCEPT !.terminal = err]

\* stopOnce.Do: the first caller runs the function, the others wait for it.
BeginStop == IF stop = "no" THEN "cancel" ELSE stop

\* cancel, Terminate, source.Close, unregisterSession
StopStep ==
  /\ \/ /\ stop = "cancel" /\ stop' = "terminate"
        /\ session' = [session EXCEPT !.cancelled = TRUE]
        /\ UNCHANGED <<watch, connection, directory>>
     \/ /\ stop = "terminate" /\ stop' = "source"
        /\ watch' = terminate(watch, session.terminal)
        /\ UNCHANGED <<session, connection, directory>>
     \/ /\ stop = "source" /\ stop' = "unregister"
        /\ connection' = finish(connection, "closed")
        /\ UNCHANGED <<session, watch, directory>>
     \/ /\ stop = "unregister" /\ stop' = "done"
        /\ directory' = [directory EXCEPT !.registered = FALSE]
        /\ UNCHANGED <<session, watch, connection>>
  /\ UNCHANGED <<hosts, wire, sent, observe, receiver, runner, closer, applied, view>>

-----------------------------------------------------------------------------
(* Directory.Observe and GRPCExecutor.Subscribe                             *)

At(pc) == observe.pc = pc

Goto(pc) == observe' = [observe EXCEPT !.pc = pc]

ObserveFails(err) == observe' = [pc |-> "failed", err |-> err]

BeginObserve ==
  /\ At("begin")
  /\ IF directory.closed THEN ObserveFails("closed") /\ UNCHANGED connection
     ELSE Goto("connect") /\ connection' = [connection EXCEPT !.open = TRUE]
  /\ UNCHANGED <<hosts, wire, sent, receiver, runner, session, watch, stop, directory, closer,
                 applied, view>>

\* Server check, push stream, connection setup: each may fail or be cancelled.
Connect ==
  /\ At("connect")
  /\ \/ Goto("subscribe") /\ UNCHANGED connection
     \/ /\ "subscribe" \in Faults
        /\ \E err \in {"canceled", "unavailable"} : ObserveFails(err)
        /\ connection' = [connection EXCEPT !.open = FALSE]
  /\ UNCHANGED <<hosts, wire, sent, receiver, runner, session, watch, stop, directory, closer,
                 applied, view>>

\* Mutant: the list is asked for before the connection is subscribed.
SubscribeAfterList ==
  /\ At("subscribe")
  /\ connection' = [connection EXCEPT !.subscribed = TRUE]
  /\ \E k \in 1 .. Current : observe' = [pc |-> "initial", err |-> "none"] /\ applied' = k
  /\ sent' = [sent EXCEPT !.list = Current]
  /\ receiver' = [receiver EXCEPT !.pc = "recv"]
  /\ UNCHANGED <<hosts, wire, runner, session, watch, stop, directory, closer, view>>

\* The answer to SubscribeServiceRequest holds the list from which pushes go on.
Subscribe ==
  /\ At("subscribe")
  /\ \/ /\ "subscribe" \in Faults
        /\ \E err \in {"canceled", "unavailable"} : ObserveFails(err)
        /\ connection' = [connection EXCEPT !.open = FALSE]
        /\ UNCHANGED <<sent, applied, receiver>>
     \/ /\ connection' = [connection EXCEPT !.subscribed = TRUE]
        /\ sent' = [sent EXCEPT !.list = Current]
        /\ applied' = Current
        /\ receiver' = [receiver EXCEPT !.pc = "recv"]
        /\ Goto("initial")
  /\ UNCHANGED <<hosts, wire, runner, session, watch, stop, directory, closer, view>>

InitialSnapshot ==
  /\ At("initial")
  /\ IF Len(hosts[applied]) > MaxBytes \/ ~payloadAccepted(hosts[applied])
     THEN /\ ObserveFails("invalid")
          /\ connection' = finish(connection, "closed")
          /\ UNCHANGED <<session, view>>
     ELSE /\ session' = [session EXCEPT !.current = snapshotFromPayload(hosts[applied], 0)]
          /\ view' = session'.current
          /\ Goto("register")
          /\ UNCHANGED connection
  /\ UNCHANGED <<hosts, wire, sent, receiver, runner, watch, stop, directory, closer, applied>>

RegisterSession ==
  /\ At("register")
  /\ IF directory.closed
     THEN /\ connection' = finish(connection, "closed")
          /\ watch' = terminate(watch, "closed")
          /\ ObserveFails("closed") /\ UNCHANGED directory
     ELSE /\ directory' = [directory EXCEPT !.registered = TRUE]
          /\ Goto("check") /\ UNCHANGED <<connection, watch>>
  /\ UNCHANGED <<hosts, wire, sent, receiver, runner, session, stop, closer, applied, view>>

\* The context is looked at once more before run starts.
StartRun ==
  /\ At("check")
  /\ \/ /\ Goto("returned") /\ runner' = [runner EXCEPT !.pc = "next"]
        /\ UNCHANGED <<session, stop>>
     \/ /\ "subscribe" \in Faults
        /\ session' = Outcome(session, "closed") /\ stop' = BeginStop
        /\ observe' = [pc |-> "stopping", err |-> "canceled"]
        /\ UNCHANGED runner
  /\ UNCHANGED <<hosts, wire, sent, connection, receiver, watch, directory, closer, applied, view>>

ObserveStopped ==
  /\ At("stopping") /\ stop = "done"
  /\ Goto("failed")
  /\ UNCHANGED <<hosts, wire, sent, connection, receiver, runner, session, watch, stop, directory,
                 closer, applied, view>>

-----------------------------------------------------------------------------
(* grpcPushStream.receive                                                   *)

Finish(err) == connection' = finish(connection, err)

\* Recv fails once the stream's context is cancelled.
Receive ==
  /\ receiver.pc = "recv"
  /\ \/ /\ connection.done
        /\ receiver' = [receiver EXCEPT !.pc = "done"]
        /\ UNCHANGED <<wire, connection>>
     \/ /\ wire # <<>>
        /\ wire' = Tail(wire)
        /\ CASE Head(wire).type = "push" ->
                  receiver' = [pc |-> "offer", list |-> Head(wire).list] /\ UNCHANGED connection
             [] Head(wire).type = "detect" -> UNCHANGED <<receiver, connection>>
             [] OTHER -> receiver' = [receiver EXCEPT !.pc = "done"] /\ Finish("invalid")
  /\ UNCHANGED <<hosts, sent, observe, runner, session, watch, stop, directory, closer, applied, view>>

\* The stream breaks, in Recv or while a detection is acknowledged.
StreamBreaks ==
  /\ "stream" \in Faults /\ receiver.pc = "recv" /\ ~connection.done
  /\ receiver' = [receiver EXCEPT !.pc = "done"] /\ Finish("stream")
  /\ UNCHANGED <<hosts, wire, sent, observe, runner, session, watch, stop, directory, closer,
                 applied, view>>

\* done is closed while receive offers a message.
OfferAbandoned ==
  /\ receiver.pc = "offer" /\ connection.done
  /\ receiver' = [receiver EXCEPT !.pc = "done"]
  /\ UNCHANGED <<hosts, wire, sent, observe, connection, runner, session, watch, stop, directory,
                 closer, applied, view>>

-----------------------------------------------------------------------------
(* observationSession.run                                                   *)

RunGoto(pc) == runner' = [runner EXCEPT !.pc = pc]

RunFails(err) == runner' = [runner EXCEPT !.pc = "failing", !.err = err]

\* run leaves quietly when the session was cancelled.
NextFails == IF session.cancelled THEN RunGoto("done") ELSE RunFails("stream_eof")

\* The checks at the head of source.Next, before it waits.
NextChecks ==
  /\ runner.pc = "next"
  /\ IF session.cancelled \/ connection.done THEN NextFails ELSE RunGoto("wait")
  /\ UNCHANGED <<hosts, wire, sent, observe, connection, receiver, session, watch, stop, directory,
                 closer, applied, view>>

\* source.Next waits: whatever is ready may be picked. A message is taken from
\* receive and acknowledged.
NextWaits ==
  /\ runner.pc = "wait"
  /\ \/ (session.cancelled \/ connection.done) /\ NextFails /\ UNCHANGED <<receiver, connection>>
     \/ /\ receiver.pc = "offer"
        /\ receiver' = [receiver EXCEPT !.pc = "recv"]
        /\ runner' = [runner EXCEPT !.pc = "accept", !.list = receiver.list]
        /\ UNCHANGED connection
  /\ UNCHANGED <<hosts, wire, sent, observe, session, watch, stop, directory, closer, applied, view>>

\* The acknowledgement cannot be sent.
AckFails ==
  /\ runner.pc = "wait" /\ receiver.pc = "offer" /\ ("ack" \in Faults \/ connection.done)
  /\ receiver' = [receiver EXCEPT !.pc = "recv"]
  /\ Finish("ack") /\ NextFails
  /\ UNCHANGED <<hosts, wire, sent, observe, session, watch, stop, directory, closer, applied, view>>

\* The size check and accept.
Accept ==
  /\ runner.pc = "accept"
  /\ LET list == hosts[runner.list]
         next == snapshotFromPayload(list, session.current.order + 1)
     IN IF Len(list) > MaxBytes
        THEN RunFails("watch_event_too_large") /\ UNCHANGED <<session, watch, applied>>
        ELSE IF session.terminal # "none"
        THEN RunGoto("next") /\ UNCHANGED <<session, watch, applied>>
        ELSE IF ~payloadAccepted(list)
        THEN RunFails("watch_event_invalid") /\ UNCHANGED <<session, watch, applied>>
        ELSE IF samePublicTopology(session.current, next)
        THEN RunGoto("next") /\ applied' = runner.list /\ UNCHANGED <<session, watch>>
        ELSE /\ watch' = Publish(watch, acceptChange(session.current, next))
             /\ IF Accepting(watch)
                THEN /\ session' = [session EXCEPT !.current = next]
                     /\ RunGoto("next") /\ applied' = runner.list
                ELSE RunFails("delivery_overflow") /\ UNCHANGED <<session, applied>>
  /\ UNCHANGED <<hosts, wire, sent, observe, connection, receiver, stop, directory, closer, view>>

RunFail ==
  /\ runner.pc = "failing"
  /\ session' = Outcome(session, runner.err) /\ stop' = BeginStop
  /\ RunGoto("stopping")
  /\ UNCHANGED <<hosts, wire, sent, observe, connection, receiver, watch, directory, closer, applied, view>>

RunStopped ==
  /\ runner.pc = "stopping" /\ stop = "done"
  /\ RunGoto("done")
  /\ UNCHANGED <<hosts, wire, sent, observe, connection, receiver, session, watch, stop, directory,
                 closer, applied, view>>

-----------------------------------------------------------------------------
(* The consumer and Directory.Close                                         *)

\* nacosWatch.Next: a change, or the outcome and the end of the session.
NextChange ==
  /\ At("returned")
  /\ \/ /\ watch.queue # <<>>
        /\ watch' = TakeChange(watch) /\ view' = Head(watch.queue).snapshot
        /\ UNCHANGED <<session, stop, observe>>
     \/ /\ watch.queue = <<>> /\ watch.terminal # "none"
        /\ session' = Outcome(session, "closed") /\ stop' = BeginStop
        /\ Goto("ended") /\ UNCHANGED <<watch, view>>
  /\ UNCHANGED <<hosts, wire, sent, connection, receiver, runner, directory, closer, applied>>

\* nacosWatch.Close
CloseWatch ==
  /\ At("returned")
  /\ session' = Outcome(session, "closed") /\ stop' = BeginStop
  /\ Goto("ended")
  /\ UNCHANGED <<hosts, wire, sent, connection, receiver, runner, watch, directory, closer, applied, view>>

CloseDirectory ==
  /\ closer = "idle"
  /\ directory' = [closed |-> TRUE, registered |-> FALSE]
  /\ closer' = IF directory.registered THEN "close session" ELSE "done"
  /\ UNCHANGED <<hosts, wire, sent, observe, connection, receiver, runner, session, watch, stop, applied, view>>

CloseSession ==
  /\ closer = "close session"
  /\ session' = Outcome(session, "closed") /\ stop' = BeginStop
  /\ closer' = "stopping"
  /\ UNCHANGED <<hosts, wire, sent, observe, connection, receiver, runner, watch, directory, applied, view>>

DirectoryClosed ==
  /\ closer = "stopping" /\ stop = "done"
  /\ closer' = "done"
  /\ UNCHANGED <<hosts, wire, sent, observe, connection, receiver, runner, session, watch, stop,
                 directory, applied, view>>

-----------------------------------------------------------------------------

NInit ==
  /\ \E list \in HostLists : hosts = <<list>>
  /\ wire = <<>> /\ sent = [list |-> 0, probes |-> 0]
  /\ observe = [pc |-> "begin", err |-> "none"]
  /\ connection = [open |-> FALSE, subscribed |-> FALSE, done |-> FALSE, terminal |-> "none"]
  /\ receiver = [pc |-> "none", list |-> 0]
  /\ runner = [pc |-> "none", list |-> 0, err |-> "none"]
  /\ session = [current |-> NewInstanceSnapshot(0, "empty", <<>>), terminal |-> "none", cancelled |-> FALSE]
  /\ watch = NewInstanceWatch
  /\ stop = "no"
  /\ directory = [closed |-> FALSE, registered |-> FALSE] /\ closer = "idle"
  /\ applied = 0
  /\ view = NewInstanceSnapshot(0, "empty", <<>>)

ObserveStep ==
  BeginObserve \/ Connect \/ Subscribe \/ InitialSnapshot \/ RegisterSession \/ StartRun \/ ObserveStopped

ReceiveStep == Receive \/ OfferAbandoned

RunStep == NextChecks \/ NextWaits \/ Accept \/ RunFail \/ RunStopped

CloserStep == CloseSession \/ DirectoryClosed

NNext ==
  \/ ServerPushes \/ ServerProbes \/ \E list \in HostLists : ServiceChanges(list)
  \/ ObserveStep \/ ReceiveStep \/ StreamBreaks \/ RunStep \/ AckFails \/ StopStep
  \/ NextChange \/ CloseWatch \/ CloseDirectory \/ CloserStep

NSpec == NInit /\ [][NNext]_nVars

-----------------------------------------------------------------------------
(* Properties *)

\* What the consumer of a list of hosts may call, and of a snapshot.
Callable(list) ==
  {<<list[k].id, list[k].ip, list[k].port>> : k \in {k \in 1 .. Len(list) : list[k].healthy /\ list[k].enabled}}

Shown(snapshot) ==
  {<<i.id, i.endpoints[1].address, i.endpoints[1].port>> :
     i \in {i \in ToSet(snapshot.instances) : i.state = "ready"}}

\* While the session lives, its snapshot is the list it accepted last, and the
\* lists still to come are on the stream in order: a push between the answer to
\* the subscription and the start of receive is not lost.
SessionFollowsPushes ==
  session.terminal = "none" /\ observe.pc \in {"register", "check", "returned"} =>
    /\ Shown(session.current) = Callable(hosts[applied])
    /\ ~connection.done /\ runner.pc # "failing" =>
         sent.list = (IF \E k \in 1 .. Len(wire) : wire[k].type = "push"
                      THEN Max({wire[k].list : k \in 1 .. Len(wire)})
                      ELSE IF receiver.pc = "offer" THEN receiver.list
                      ELSE IF runner.pc = "accept" THEN runner.list ELSE applied)

\* The consumer is behind the session by exactly what is queued.
QueueLeadsToCurrent ==
  watch.terminal = "none" /\ observe.pc = "returned" =>
    /\ view.order + Len(watch.queue) = session.current.order
    /\ watch.queue = <<>> => samePublicTopology(view, session.current)

\* No connection outlives its observation, whichever of Observe, receive, run,
\* the consumer and Directory.Close ends it, and whenever.
NoConnectionLeaks ==
  /\ observe.pc = "failed" => ~connection.open
  /\ stop = "done" => ~connection.open /\ ~directory.registered
  /\ directory.closed /\ closer = "done" /\ observe.pc \in {"returned", "ended"} => ~connection.open

\* Every goroutine of the observation has ended.
Ended ==
  /\ closer = "done" /\ observe.pc \in {"failed", "returned", "ended"}
  /\ receiver.pc \in {"none", "done"} /\ runner.pc \in {"none", "done"} /\ ~connection.open

\* A consumer has the observation.
Watching == observe.pc = "returned"

\* The observation has ended, or its consumer sees the service as it is.
Converged ==
  observe.pc = "ended" \/ session.terminal # "none" \/ Shown(view) = Callable(hosts[Current])
=============================================================================
