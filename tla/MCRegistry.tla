----------------------------- MODULE MCRegistry -----------------------------
(***************************************************************************)
(* The registry library and the Router's consumer of it, on small          *)
(* instances. The parts share no state, so a behaviour is one of a single  *)
(* part, which the first state names: the watch queue, the two directory   *)
(* adapters, the snapshots and deltas they build, self-registration, and   *)
(* the target selector. Variables of other parts are Off.                  *)
(***************************************************************************)
EXTENDS InstanceWatch, TLC

CONSTANTS Parts,
          WireSlices, EndpointSliceCount, EndpointCount, PortName, Protocol, AddressType,
          MaxServiceEvents, MaxSliceEvents, ReadErrors, StatusCodes,
          HostLists, ClusterName, TCP, IPv4, IPv6, MaxHosts, MaxBytes, MaxStates, MaxDetections,
          Faults, Calls, Registrations, BoundTarget, Replies, MaxBeats,
          RawTargets, Requests, Snapshots, MaxOrder, maxObservations,
          IDs, Ports, MaxReported

VARIABLES part,
          inner, observe, session, stop, directory, closer, view,     \* adapters
          log, reader, body, pos,                                     \* Kubernetes
          hosts, wire, pushed, connection, receiver, runner, applied, \* Nacos
          registrar, register, beat, channel, request, once, lease, caller, deletes, server,
          selector, observer, provider,
          current, change                                             \* deltas

K == INSTANCE Kubernetes WITH watch <- inner, Capacity <- 1
N == INSTANCE Nacos WITH watch <- inner, sent <- pushed, Capacity <- 1
R == INSTANCE Registrar WITH call <- register
S == INSTANCE WatchSelector WITH watch <- inner
M == INSTANCE RegistryModel
D == INSTANCE RegistryDeltas WITH MaxOrder <- 2

kubernetesVars == <<log, observe, session, inner, reader, body, pos, stop, directory, closer, view>>
notKubernetes == <<hosts, wire, pushed, connection, receiver, runner, applied, registrar, register,
  beat, channel, request, once, lease, caller, deletes, server, selector, observer, provider,
  current, change>>
notNacos == <<log, reader, body, pos, registrar, register, beat, channel, request, once, lease,
  caller, deletes, server, selector, observer, provider, current, change>>
notRegistrar == <<inner, observe, session, stop, directory, view, log, reader, body, pos, hosts,
  wire, pushed, connection, receiver, runner, applied, selector, observer, provider, current, change>>
notSelector == <<observe, stop, directory, view, log, reader, body, pos, hosts, wire, pushed,
  connection, receiver, runner, applied, registrar, register, beat, channel, once, lease, caller,
  deletes, server, current, change>>
notDeltas == <<inner, observe, session, stop, directory, closer, log, reader, body, pos, hosts, wire,
  pushed, connection, receiver, runner, applied, registrar, register, beat, channel, request, once,
  lease, caller, deletes, server, selector, observer>>
notQueue == <<kubernetesVars, notKubernetes>>

Vars == <<part, watchVars, kubernetesVars, notKubernetes>>

-----------------------------------------------------------------------------
(* What the parts are given *)

Port(p) == [name |-> 1, protocol |-> 1, port |-> p]

WireEndpoint(uid, address, ready) ==
  [uid |-> uid, addresses |-> {address}, ready |-> ready, serving |-> "unset", terminating |-> "unset"]

WireSlice(uid, ports, endpoints) ==
  [uid |-> uid, labels |-> TRUE, owners |-> <<"service">>, addressType |-> 1, ports |-> ports,
   endpoints |-> endpoints]

\* Two instances in two slices; the second is not ready and claims the address
\* of the first.
SafetySlices ==
  {WireSlice(1, <<Port(1)>>, <<WireEndpoint(1, 1, "unset")>>),
   WireSlice(2, <<Port(1)>>, <<WireEndpoint(1, 2, "true"), WireEndpoint(2, 1, "false")>>)}

OneSlice == {WireSlice(1, <<Port(1)>>, <<WireEndpoint(1, 1, "unset")>>)}

Host(id, ip, healthy) ==
  [id |-> id, ip |-> ip, v4 |-> TRUE, port |-> 8092, healthy |-> healthy, enabled |-> TRUE,
   ephemeral |-> TRUE, clusterName |-> ClusterName]

GoodHostLists == {<<Host(2, 2, TRUE), Host(1, 1, TRUE)>>, <<Host(1, 1, FALSE)>>, <<>>}

\* Also one instance twice, which no snapshot accepts.
AllHostLists == GoodHostLists \cup {<<Host(1, 1, TRUE), Host(1, 2, TRUE)>>}

Address(address, name) ==
  [addressType |-> IPv4, address |-> address, portName |-> name, port |-> 8092, protocol |-> TCP]

Runtime(id, endpoints, ready) ==
  M!NewInstance([id |-> id, endpoints |-> endpoints, ready |-> ready, serving |-> TRUE,
                 terminating |-> FALSE, zone |-> M!NoText])

Good(address) ==
  [target |-> BoundTarget, instance |-> Runtime(1, <<Address(address, PortName)>>, TRUE),
   metadata |-> "plain"]

\* A second address, and one registration per reason for a refusal.
AllRegistrations ==
  {Good(1), Good(2), [Good(1) EXCEPT !.target = BoundTarget + 1],
   [Good(1) EXCEPT !.instance = Runtime(1, <<Address(1, PortName)>>, FALSE)],
   [Good(1) EXCEPT !.instance = Runtime(1, <<Address(1, PortName + 1)>>, TRUE)],
   [Good(1) EXCEPT !.instance = Runtime(1, <<Address(1, PortName), Address(2, PortName)>>, TRUE)],
   [Good(1) EXCEPT !.metadata = "preserved"]}

AllReplies == {"accepted", "context done", "other body", "503"}

\* What the proofs about self-registration ask of its constants.
ASSUME RegistrarConstants == R!RegistrarConstants

Raw(release, path) == [release |-> release, path |-> path]

\* Two Releases, one spelled in three ways.
AllRawTargets == {Raw("r1", ""), Raw("r1", "/"), Raw("r1", "/%7E"), Raw("r2", "/")}

PlainRawTargets == {Raw("r1", "/"), Raw("r2", "/")}

Serving(id, ready) == Runtime(id, <<Address(id, PortName)>>, ready)

AllSnapshots == {<<>>, <<Serving(1, TRUE)>>, <<Serving(1, TRUE), Serving(2, TRUE)>>}

OneSnapshot == {<<Serving(1, TRUE), Serving(2, FALSE)>>}

\* Calls, and requests, differ only in their names.
Callees == Permutations(Calls) \cup Permutations(Requests)
-----------------------------------------------------------------------------
(* One part at a time *)

\* A variable that only the parts owners have.
Off(owners, v) == IF part \in owners THEN TRUE ELSE v = "off"

Init ==
  /\ part \in Parts /\ WatchInit
  /\ Off({"kubernetes", "nacos"}, observe) /\ Off({"kubernetes", "nacos"}, stop)
  /\ Off({"kubernetes", "nacos"}, directory)
  /\ Off({"kubernetes", "nacos", "selector"}, inner)
  /\ Off({"kubernetes", "nacos", "selector"}, session)
  /\ Off({"kubernetes", "nacos", "registrar", "selector"}, closer)
  /\ Off({"kubernetes", "nacos", "deltas"}, view)
  /\ Off({"kubernetes"}, log) /\ Off({"kubernetes"}, reader) /\ Off({"kubernetes"}, body)
  /\ Off({"kubernetes"}, pos)
  /\ Off({"nacos"}, hosts) /\ Off({"nacos"}, wire) /\ Off({"nacos"}, pushed)
  /\ Off({"nacos"}, connection) /\ Off({"nacos"}, receiver) /\ Off({"nacos"}, runner)
  /\ Off({"nacos"}, applied)
  /\ Off({"registrar", "selector"}, request)
  /\ Off({"registrar"}, registrar) /\ Off({"registrar"}, register) /\ Off({"registrar"}, beat)
  /\ Off({"registrar"}, channel) /\ Off({"registrar"}, once) /\ Off({"registrar"}, lease)
  /\ Off({"registrar"}, caller) /\ Off({"registrar"}, deletes) /\ Off({"registrar"}, server)
  /\ Off({"selector", "deltas"}, provider)
  /\ Off({"selector"}, selector) /\ Off({"selector"}, observer)
  /\ Off({"deltas"}, current) /\ Off({"deltas"}, change)
  /\ \/ part = "queue"
     \/ part = "kubernetes" /\ K!KInit
     \/ part = "nacos" /\ N!NInit
     \/ part = "registrar" /\ R!RegInit
     \/ part = "selector" /\ S!WSInit
     \/ part = "deltas" /\ D!ModelInit

Next ==
  /\ UNCHANGED part
  /\ \/ part = "queue" /\ WatchNext /\ UNCHANGED notQueue
     \/ part = "kubernetes" /\ K!KNext /\ UNCHANGED <<watchVars, notKubernetes>>
     \/ part = "nacos" /\ N!NNext /\ UNCHANGED <<watchVars, notNacos>>
     \/ part = "registrar" /\ R!RegNext /\ UNCHANGED <<watchVars, notRegistrar>>
     \/ part = "selector" /\ S!WSNext /\ UNCHANGED <<watchVars, notSelector>>
     \/ part = "deltas" /\ D!ModelNext /\ UNCHANGED <<watchVars, notDeltas>>

Spec == Init /\ [][Next]_Vars

-----------------------------------------------------------------------------
(* Safety *)

\* Kubernetes: listing and then watching loses and repeats nothing, however the
\* two streams interleave. While the session lives, its snapshot is exactly the
\* cluster after the events accepted so far of each source.
SnapshotIsTruth == part = "kubernetes" => K!SnapshotIsTruth

\* Nacos: while the session lives, its snapshot is the list it accepted last and
\* the lists still to come are on the stream, in order.
SessionFollowsPushes == part = "nacos" => N!SessionFollowsPushes

\* No gap and no stale success: a consumer of either adapter, and every session
\* of the selector, is behind its source by exactly what is queued or in hand,
\* and the status the operators read says of a session what it is.
BehindByTheQueue ==
  /\ part = "kubernetes" => K!QueueLeadsToCurrent
  /\ part = "nacos" => N!QueueLeadsToCurrent
  /\ part = "selector" => S!BehindByTheQueue /\ S!StatusIsValid

\* No response body and no connection outlives its observation, whoever ends it
\* and whenever.
NothingLeaks ==
  /\ part = "kubernetes" => K!NoBodyLeaks
  /\ part = "nacos" => N!NoConnectionLeaks

\* Self-registration: an address that stays registered without a heartbeat is
\* reported to somebody.
NoSilentOrphan == part = "registrar" => R!NoSilentOrphan

\* The first Registrar.Close and the first WatchSelector.Close return only when
\* what they close has stopped, or was given up with an error; a later one finds
\* the flag set and returns at once (registrar.go:170, watch_selector.go:138).
CloseIsComplete ==
  /\ part = "registrar" => R!CloseIsComplete
  /\ part = "selector" => S!CloseIsComplete

\* Once a session has sent its DELETE it sends no heartbeat and no other DELETE; a
\* PUT that it gave up on earlier may still arrive.
NoBeatAfterDelete == [][part = "registrar" => R!WithdrawnStaysQuiet]_Vars

\* The deltas of the changes an adapter publishes rebuild its snapshot.
DeltasRebuildSnapshot == part = "deltas" => D!DeltasRebuildSnapshot

-----------------------------------------------------------------------------
(* Liveness *)

\* Goroutines are scheduled, requests are answered or end at their deadline,
\* events on an open stream arrive, a subscribed connection is pushed what
\* changed, and the consumer of a watch keeps calling Next, as the loop in
\* WatchSelector.observe does. A select that finds its stop channel closed again
\* and again takes it. Nothing has to fail or break, no call has to be made, and
\* providers need not publish.
Fairness ==
  /\ WF_watchVars(part = "queue" /\ \E c \in Callers : NextBegin(c))
  /\ \A c \in Callers : WF_watchVars(part = "queue" /\ (Look(c) \/ Wait(c) \/ Leave(c)))
  /\ WF_(K!kVars)(part = "kubernetes" /\ K!ObserveStep)
  /\ \A s \in K!Sources : WF_(K!kVars)(part = "kubernetes" /\ K!ReaderStep(s))
  /\ WF_(K!kVars)(part = "kubernetes" /\ K!StopStep)
  /\ WF_(K!kVars)(part = "kubernetes" /\ K!FinishTargetDeleted)
  /\ WF_(K!kVars)(part = "kubernetes" /\ K!NextChange)
  /\ WF_(K!kVars)(part = "kubernetes" /\ K!CloseSession)
  /\ WF_(K!kVars)(part = "kubernetes" /\ K!DirectoryClosed)
  /\ WF_(N!nVars)(part = "nacos" /\ N!ServerPushes) /\ WF_(N!nVars)(part = "nacos" /\ N!ObserveStep)
  /\ WF_(N!nVars)(part = "nacos" /\ N!ReceiveStep) /\ WF_(N!nVars)(part = "nacos" /\ N!RunStep)
  /\ WF_(N!nVars)(part = "nacos" /\ N!StopStep) /\ WF_(N!nVars)(part = "nacos" /\ N!NextChange)
  /\ WF_(N!nVars)(part = "nacos" /\ N!CloserStep)
  /\ WF_(R!regVars)(part = "registrar" /\ R!CloserStep)
  /\ \A i \in Calls :
       /\ WF_(R!regVars)(part = "registrar" /\ R!RegisterStep(i))
       /\ WF_(R!regVars)(part = "registrar" /\ R!Beaten(i))
       /\ WF_(R!regVars)(part = "registrar" /\ R!BeatFailed(i))
       /\ SF_(R!regVars)(part = "registrar" /\ R!RunStops(i))
       /\ WF_(R!regVars)(part = "registrar" /\ R!CloseStep(i))
       /\ WF_(R!regVars)(part = "registrar" /\ R!LeaseClosed(i))
  /\ WF_(S!wsVars)(part = "selector" /\ S!CloserStep)
  /\ \A t \in S!Releases : WF_(S!wsVars)(part = "selector" /\ S!ObserverStep(t))
  /\ \A r \in Requests : WF_(S!wsVars)(part = "selector" /\ S!Selected(r))

FairSpec == Spec /\ Fairness

Watching ==
  CASE part = "kubernetes" -> K!Watching [] part = "nacos" -> N!Watching [] OTHER -> FALSE

Converged ==
  CASE part = "kubernetes" -> K!Converged [] part = "nacos" -> N!Converged [] OTHER -> TRUE

\* The consumer of an observation that does not end sees the cluster, or the
\* service, as it is.
ViewsConverge == Watching ~> Converged

Closed ==
  CASE part \in {"kubernetes", "nacos"} -> directory.closed
    [] part = "registrar" -> registrar.closed
    [] part = "selector" -> selector.closed
    [] OTHER -> FALSE

Ended ==
  CASE part = "kubernetes" -> K!Ended
    [] part = "nacos" -> N!Ended
    [] part = "registrar" -> R!AllEnded
    [] part = "selector" -> closer.pc = "returned"
    [] OTHER -> TRUE

\* Close ends every goroutine: of an observation, of self-registration, and of
\* the selector.
ClosesEnd == Closed ~> Ended

\* No invocation waits for ever for its target.
EverySelectReturns ==
  \A r \in Requests :
    (part = "selector" /\ request[r].pc = "waiting") ~> (part = "selector" /\ request[r].pc = "returned")
=============================================================================
