---------------------------- MODULE WatchSelector ----------------------------
(***************************************************************************)
(* apps/a2a-router/internal/routing: the selector observes each exact      *)
(* Release from its first use on, and every invocation picks its endpoint  *)
(* from the snapshot at hand.                                              *)
(*                                                                         *)
(* The directory is seen through its contract: Observe answers with an     *)
(* initial snapshot and a watch (WatchQueue), or fails; the provider       *)
(* publishes snapshots and may end the watch at any time. A raw target is  *)
(* the Release and the path of the endpoint as its card spells it.         *)
(***************************************************************************)
EXTENDS Routing, WatchQueue

CONSTANTS RawTargets,       \* targets of invocations: release, path
          Requests,         \* calls of Select
          Snapshots,        \* instances a provider may report
          MaxOrder,         \* bound: changes of one observation
          maxObservations

Releases == {raw.release : raw \in RawTargets}

VARIABLES selector,   \* closed (and its context cancelled)
          session,    \* observationSession of each target in the sessions map
          observer,   \* observe: pc, and the snapshot in hand
          watch,      \* the watch of each observation
          provider,   \* external: the snapshot it published last, or none
          request,    \* Select: pc, target, what it returned
          closer      \* Close: pc, sessions to close; again is the pc of a call
                      \* that finds the selector closed

wsVars == <<selector, session, observer, watch, provider, request, closer>>

NoSession == [state |-> "none", available |-> FALSE, snapshot |-> NewInstanceSnapshot(0, "missing", <<>>),
              revision |-> 0, ready |-> FALSE, watch |-> FALSE]

Existing == {t \in Releases : session[t].state # "none"}

-----------------------------------------------------------------------------
(* Select                                                                  *)

\* A call that selects no endpoint returns an error.
Return(r, endpoint) == request' = [request EXCEPT ![r].pc = "returned", ![r].endpoint = endpoint]

\* Select up to the wait: WatchSelector.session creates the observation.
Select(r, raw) ==
  LET t == releaseTarget(raw)
  IN /\ request[r].pc = "idle"
     /\ IF ~releaseTargetAccepted(raw) \/ selector.closed
           \/ (t \notin Existing /\ Cardinality(Existing) >= maxObservations)
        THEN Return(r, {}) /\ UNCHANGED <<session, observer>>
        ELSE /\ request' = [request EXCEPT ![r].pc = "waiting", ![r].release = t]
             /\ IF t \in Existing THEN UNCHANGED <<session, observer>>
                ELSE /\ session' = [session EXCEPT ![t].state = "initializing"]
                     /\ observer' = [observer EXCEPT ![t].pc = "observing"]
     /\ UNCHANGED <<selector, watch, provider, closer>>

\* The session is ready: current and selectSnapshotTarget.
Selected(r) ==
  LET s == session[request[r].release]
  IN /\ request[r].pc = "waiting" /\ s.ready
     /\ Return(r, IF s.available THEN selectSnapshotTarget(s.snapshot) ELSE {})
     /\ UNCHANGED <<selector, session, observer, watch, provider, closer>>

\* The invocation's context ends first.
SelectCanceled(r) ==
  /\ request[r].pc = "waiting"
  /\ Return(r, {})
  /\ UNCHANGED <<selector, session, observer, watch, provider, closer>>

-----------------------------------------------------------------------------
(* The provider of an observation                                          *)

Publishing(t) == provider[t].open /\ watch[t].terminal = "none"

ProviderPublishes(t, instances) ==
  LET last == provider[t].snapshot
      next == NewInstanceSnapshot(last.order + 1, IF instances = <<>> THEN "empty" ELSE "populated", instances)
  IN /\ Publishing(t) /\ ~watch[t].deletion /\ last.order < MaxOrder /\ ~samePublicTopology(last, next)
     /\ provider' = IF Accepting(watch[t]) THEN [provider EXCEPT ![t].snapshot = next] ELSE provider
     /\ watch' = [watch EXCEPT ![t] = Publish(@, acceptChange(last, next))]
     /\ UNCHANGED <<selector, session, observer, request, closer>>

\* Kubernetes reports the deletion of its Service as the last change.
ProviderDeletes(t) ==
  LET next == NewInstanceSnapshot(provider[t].snapshot.order + 1, "missing", <<>>)
  IN /\ Publishing(t) /\ ~watch[t].deletion /\ provider[t].snapshot.order < MaxOrder
     /\ provider' = IF Accepting(watch[t]) THEN [provider EXCEPT ![t].snapshot = next] ELSE provider
     /\ watch' = [watch EXCEPT ![t] =
          Publish(@, targetDeletedChange(next))]
     /\ UNCHANGED <<selector, session, observer, request, closer>>

ProviderEnds(t) ==
  /\ Publishing(t)
  /\ watch' = [watch EXCEPT ![t] = terminate(@, "watch_interrupted")]
  /\ UNCHANGED <<selector, session, observer, provider, request, closer>>

-----------------------------------------------------------------------------
(* observe                                                                 *)

ObserverGoto(t, pc) == observer' = [observer EXCEPT ![t].pc = pc]

\* Mutant of fail: readers are not woken.
failSilently(s) == [s EXCEPT !.snapshot = NoSession.snapshot, !.available = FALSE, !.state = "unavailable"]

\* session.fail: what was selectable is gone, the revision stays.
fail(s) == [s EXCEPT !.snapshot = NoSession.snapshot, !.available = FALSE, !.state = "unavailable",
                     !.ready = TRUE]

\* directory.Observe with the context of the selector.
ObserveFails(t) ==
  /\ observer[t].pc = "observing"
  /\ session' = [session EXCEPT ![t] = fail(@)]
  /\ ObserverGoto(t, "done")
  /\ UNCHANGED <<selector, watch, provider, request, closer>>

Observed(t, instances) ==
  /\ observer[t].pc = "observing"
  /\ LET initial == NewInstanceSnapshot(0, IF instances = <<>> THEN "empty" ELSE "populated", instances)
     IN /\ provider' = [provider EXCEPT ![t] = [open |-> TRUE, snapshot |-> initial]]
        /\ observer' = [observer EXCEPT ![t] = [pc |-> "initialize", snapshot |-> initial]]
  /\ UNCHANGED <<selector, session, watch, request, closer>>

\* initialize; the provider may have published in between.
Initialize(t) ==
  /\ observer[t].pc = "initialize"
  /\ LET initial == observer[t].snapshot
     IN IF ~validSnapshot(initial) \/ initial.order # 0
        THEN /\ session' = [session EXCEPT ![t].state = "unavailable", ![t].ready = TRUE]
             /\ ObserverGoto(t, "close watch")
        ELSE /\ session' = [session EXCEPT ![t] =
                  [state |-> initial.state, available |-> TRUE, snapshot |-> initial,
                   revision |-> initial.order, ready |-> TRUE, watch |-> TRUE]]
             /\ ObserverGoto(t, "next")
  /\ UNCHANGED <<selector, watch, provider, request, closer>>

\* watch.Next with the context of the selector.
NextChange(t) ==
  /\ observer[t].pc = "next" /\ watch[t].queue # <<>> /\ ~selector.closed
  /\ watch' = [watch EXCEPT ![t] = TakeChange(@)]
  /\ observer' = [observer EXCEPT ![t] = [pc |-> "apply", snapshot |-> Head(watch[t].queue).snapshot]]
  /\ UNCHANGED <<selector, session, provider, request, closer>>

\* Mutant: Next has a context of its own, and a watch without outcome blocks.
NextIgnoresClose(t) ==
  /\ observer[t].pc = "next" /\ watch[t].queue = <<>> /\ watch[t].terminal # "none"
  /\ ObserverGoto(t, "fail")
  /\ UNCHANGED <<selector, session, watch, provider, request, closer>>

NextFails(t) ==
  /\ observer[t].pc = "next" /\ (selector.closed \/ (watch[t].queue = <<>> /\ watch[t].terminal # "none"))
  /\ ObserverGoto(t, "fail")
  /\ UNCHANGED <<selector, session, watch, provider, request, closer>>

\* apply succeeds.
applyAccepts(s, next) == s.available /\ validSnapshot(next) /\ next.order = s.snapshot.order + 1

Apply(t) ==
  /\ observer[t].pc = "apply"
  /\ LET next == observer[t].snapshot
     IN IF applyAccepts(session[t], next)
        THEN /\ session' = [session EXCEPT ![t].snapshot = next, ![t].state = next.state,
                                           ![t].revision = next.order]
             /\ ObserverGoto(t, "next")
        ELSE ObserverGoto(t, "fail") /\ UNCHANGED session
  /\ UNCHANGED <<selector, watch, provider, request, closer>>

Fail(t) ==
  /\ observer[t].pc = "fail"
  /\ session' = [session EXCEPT ![t] = fail(@)]
  /\ ObserverGoto(t, "close watch")
  /\ UNCHANGED <<selector, watch, provider, request, closer>>

\* watch.Close ends the provider's side as well.
CloseWatch(t) ==
  /\ observer[t].pc = "close watch"
  /\ watch' = [watch EXCEPT ![t] = terminate(@, "closed")]
  /\ provider' = [provider EXCEPT ![t].open = FALSE]
  /\ ObserverGoto(t, "done")
  /\ UNCHANGED <<selector, session, request, closer>>

-----------------------------------------------------------------------------
(* Close                                                                   *)

Close ==
  /\ ~selector.closed
  /\ selector' = [closed |-> TRUE]
  /\ closer' = [closer EXCEPT !.pc = "closing", !.todo = Existing]
  /\ UNCHANGED <<session, observer, watch, provider, request>>

\* A later call returns at once, whatever the first still waits for.
CloseAgain ==
  /\ selector.closed /\ closer.again = "idle"
  /\ closer' = [closer EXCEPT !.again = "returned"]
  /\ UNCHANGED <<selector, session, observer, watch, provider, request>>

\* closeWatch: an observation that has not begun has no watch yet.
CloseSession(t) ==
  /\ closer.pc = "closing" /\ t \in closer.todo
  /\ closer' = [closer EXCEPT !.todo = @ \ {t}]
  /\ IF session[t].watch
     THEN /\ watch' = [watch EXCEPT ![t] = terminate(@, "closed")]
          /\ provider' = [provider EXCEPT ![t].open = FALSE]
     ELSE UNCHANGED <<watch, provider>>
  /\ UNCHANGED <<selector, session, observer, request>>

\* Mutant: Close does not wait for the observers.
DoNotWait ==
  /\ closer.pc = "closing" /\ closer.todo = {}
  /\ closer' = [closer EXCEPT !.pc = "returned"]
  /\ UNCHANGED <<selector, session, observer, watch, provider, request>>

\* wg.Wait
Closed ==
  /\ closer.pc = "closing" /\ closer.todo = {}
  /\ \A t \in Releases : observer[t].pc \in {"none", "done"}
  /\ closer' = [closer EXCEPT !.pc = "returned"]
  /\ UNCHANGED <<selector, session, observer, watch, provider, request>>

-----------------------------------------------------------------------------
(* TopologyStatus and its contract                                         *)

\* One observation per session; the Release stands for its three identifiers.
TopologyStatus == {[release |-> t, state |-> session[t].state, revision |-> session[t].revision] : t \in Existing}

\* ValidateRouterTopologyStatusV1
validStatus(status) ==
  /\ Cardinality(status) <= maxObservations
  /\ \A o \in status : o.state \in {"initializing", "missing", "empty", "populated", "unavailable"}
  /\ \A o, p \in status : o.release = p.release => o = p

-----------------------------------------------------------------------------

WSInit ==
  /\ selector = [closed |-> FALSE]
  /\ session = [t \in Releases |-> NoSession]
  /\ observer = [t \in Releases |-> [pc |-> "none", snapshot |-> NoSession.snapshot]]
  /\ watch = [t \in Releases |-> NewInstanceWatch]
  /\ provider = [t \in Releases |-> [open |-> FALSE, snapshot |-> NoSession.snapshot]]
  /\ request = [r \in Requests |-> [pc |-> "idle", release |-> CHOOSE t \in Releases : TRUE, endpoint |-> {}]]
  /\ closer = [pc |-> "idle", todo |-> {}, again |-> "idle"]

ObserverStep(t) ==
  \/ ObserveFails(t) \/ (\E instances \in Snapshots : Observed(t, instances)) \/ Initialize(t)
  \/ NextChange(t) \/ NextFails(t) \/ Apply(t) \/ Fail(t) \/ CloseWatch(t)

CloserStep == Closed \/ \E t \in Releases : CloseSession(t)

WSNext ==
  \/ \E r \in Requests : Selected(r) \/ SelectCanceled(r) \/ \E raw \in RawTargets : Select(r, raw)
  \/ \E t \in Releases : \/ ObserverStep(t) \/ ProviderEnds(t) \/ ProviderDeletes(t)
                         \/ \E instances \in Snapshots : ProviderPublishes(t, instances)
  \/ Close \/ CloseAgain \/ CloserStep

WSSpec == WSInit /\ [][WSNext]_wsVars

-----------------------------------------------------------------------------
(* Properties *)

\* No gap and no stale success: while a session is available, the provider is
\* ahead of it by exactly what is queued or in hand, unless the watch has ended
\* and the observer is about to find out.
BehindByTheQueue ==
  \A t \in Releases :
    session[t].available /\ watch[t].terminal = "none" =>
      session[t].revision + Len(watch[t].queue) + (IF observer[t].pc = "apply" THEN 1 ELSE 0)
        = provider[t].snapshot.order

\* The status the operators read always satisfies its contract, and says of a
\* Release what an invocation would find.
StatusIsValid ==
  /\ validStatus(TopologyStatus)
  /\ \A o \in TopologyStatus :
       session[o.release].available <=> o.state \in {"missing", "empty", "populated"}

\* The Close that closes the selector waits for every observation: afterwards none is available, every watch
\* it had is closed and nothing is published any more.
CloseIsComplete ==
  closer.pc = "returned" =>
    \A t \in Existing : ~session[t].available /\ ~provider[t].open
=============================================================================
