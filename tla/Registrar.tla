------------------------------ MODULE Registrar ------------------------------
(***************************************************************************)
(* registry/nacos/registrar.go and registry/registration.go: a runtime     *)
(* publishes itself with one POST, keeps the registration alive with       *)
(* periodic PUTs and withdraws it with one DELETE.                         *)
(*                                                                         *)
(* A call of Register and the session, the lease and the heartbeat it      *)
(* creates share one identity. A result is the set of errors joined in it; *)
(* nil is {}. The Nacos server is external: the addresses it has           *)
(* registered, and requests the client gave up on that may still arrive.   *)
(***************************************************************************)
EXTENDS RegistryInstances, FiniteSets

CONSTANTS Calls,          \* calls of Register
          Registrations,  \* what they are called with
          BoundTarget,    \* Binding.target of the registrar
          PortName,       \* RegistrarConfig.PortName
          TCP, IPv4, IPv6,\* the texts of these endpoint fields
          Replies,        \* answers of the server to a request
          MaxBeats        \* bound: heartbeats of one session

\* The replies of which executeResult says what they are to the caller.
RegistrarConstants ==
  Replies \subseteq {"context done", "transport", "read error", "401", "403", "429", "503",
                      "oversized", "other body", "accepted"}

VARIABLES registrar,   \* closed, registering, sessions
          call,        \* Register: pc, registration, result
          beat,        \* session.run: pc, error in hand, heartbeats sent
          channel,     \* session.stop and session.stopped
          request,     \* the method of the request session.execute waits for
          once,        \* session.closeOnce: pc and closeErr
          lease,       \* Lease.terminal
          closer,      \* Registrar.Close: pc, sessions still to close, result; again
                       \* is the pc of a call that finds the registrar closed
          caller,      \* Lease.Close: pc
          deletes,     \* DELETE requests of each session
          server       \* external: registered addresses, requests still to arrive

regVars == <<registrar, call, beat, channel, request, once, lease, closer, caller, deletes, server>>

nil == {}

-----------------------------------------------------------------------------
(* Pure part                                                               *)

\* registrationEndpoint: the endpoints that may be advertised.
Matching(instance) ==
  {e \in {instance.endpoints[k] : k \in 1 .. Len(instance.endpoints)} :
     e.portName = PortName /\ e.protocol = TCP /\ e.addressType \in {IPv4, IPv6}}

registrationEndpoint(instance) == CHOOSE e \in Matching(instance) : TRUE

registrationAccepted(r) ==
  /\ validInstance(r.instance) /\ r.instance.state = "ready"
  /\ r.target = BoundTarget
  /\ Cardinality(Matching(r.instance)) = 1

\* The metadata the lease policy owns cannot come from the instance.
metadataAccepted(r) == r.metadata \notin {"preserved", "other_identity"}

\* session.execute: what a reply is to the caller. The body of an accepted
\* heartbeat repeats the configured interval, any other body is "ok".
executeResult(reply) ==
  CASE reply = "context done" -> {"canceled"}
    [] reply \in {"transport", "read error", "429", "503"} -> {"unavailable"}
    [] reply \in {"401", "403"} -> {"unauthorized"}
    [] reply \in {"oversized", "other body"} -> {"invalid"}
    [] reply = "accepted" -> nil

\* What the server may have done with a request that got this reply.
Effects(reply) ==
  CASE reply \in {"context done", "transport"} -> {"applied", "dropped", "late"}
    [] reply \in {"401", "403", "429", "503"} -> {"dropped"}
    [] OTHER -> {"applied"}

-----------------------------------------------------------------------------
(* Requests                                                                *)

Address(i) == registrationEndpoint(call[i].registration.instance).address

Applied(method, address, registered) ==
  IF method = "DELETE" THEN registered \ {address} ELSE registered \cup {address}

\* execute holds opMu until the reply.
Send(i, method) ==
  /\ request[i] = "none"
  /\ request' = [request EXCEPT ![i] = method]
  /\ deletes' = [deletes EXCEPT ![i] = IF method = "DELETE" THEN @ + 1 ELSE @]

\* The request ends with this reply, and the server did with it what it did.
Ends(i, reply) ==
  /\ request' = [request EXCEPT ![i] = "none"]
  /\ \E effect \in Effects(reply) :
       server' = CASE effect = "applied" ->
                        [server EXCEPT !.registered = Applied(request[i], Address(i), @)]
                   [] effect = "late" -> [server EXCEPT !.late = @ \cup {<<request[i], Address(i)>>}]
                   [] OTHER -> server

\* A request the client gave up on arrives.
LateArrival ==
  /\ \E late \in server.late :
       server' = [registered |-> Applied(late[1], late[2], server.registered),
                  late |-> server.late \ {late}]
  /\ UNCHANGED <<registrar, call, beat, channel, request, once, lease, closer, caller, deletes>>

\* Lease.Terminate: the first outcome stays.
Terminate(l, err) == IF l = nil THEN err ELSE l

-----------------------------------------------------------------------------
(* Register                                                                *)

Return(i, result) == call' = [call EXCEPT ![i].pc = "returned", ![i].result = result]

\* Register up to the first unlock.
Register(i, r) ==
  /\ call[i].pc = "idle"
  /\ LET refused(err) == Return(i, {err}) /\ UNCHANGED registrar
     IN CASE ~registrationAccepted(r) -> refused("invalid")
          [] registrationAccepted(r) /\ registrar.closed -> refused("closed")
          [] registrationAccepted(r) /\ ~registrar.closed
             /\ (registrar.registering \/ registrar.sessions # {}) -> refused("invalid")
          [] OTHER -> /\ call' = [call EXCEPT ![i] = [pc |-> "post", registration |-> r, result |-> nil]]
                      /\ registrar' = [registrar EXCEPT !.registering = TRUE]
  /\ UNCHANGED <<beat, channel, request, once, lease, closer, caller, deletes, server>>

Post(i) ==
  /\ call[i].pc = "post"
  /\ IF metadataAccepted(call[i].registration)
     THEN Send(i, "POST") /\ call' = [call EXCEPT ![i].pc = "posting"]
     ELSE call' = [call EXCEPT ![i].pc = "post failed", ![i].result = {"invalid"}]
          /\ UNCHANGED <<request, deletes>>
  /\ UNCHANGED <<registrar, beat, channel, once, lease, closer, caller, server>>

Posted(i) ==
  /\ call[i].pc = "posting"
  /\ \E reply \in Replies :
       /\ Ends(i, reply)
       /\ call' = [call EXCEPT ![i].result = executeResult(reply),
                               ![i].pc = IF executeResult(reply) = nil THEN "posted" ELSE "post failed"]
  /\ UNCHANGED <<registrar, beat, channel, once, lease, closer, caller, deletes>>

PostFailed(i) ==
  /\ call[i].pc = "post failed"
  /\ registrar' = [registrar EXCEPT !.registering = FALSE]
  /\ Return(i, call[i].result)
  /\ UNCHANGED <<beat, channel, request, once, lease, closer, caller, deletes, server>>

\* Mutant: a registrar closed meanwhile leaves the registration in place.
AcceptAfterClose(i) ==
  /\ call[i].pc = "posted"
  /\ registrar' = [registrar EXCEPT !.registering = FALSE]
  /\ Return(i, {"closed"})
  /\ UNCHANGED <<beat, channel, request, once, lease, closer, caller, deletes, server>>

\* The second critical section: the lease is accepted, or undone.
Accept(i) ==
  /\ call[i].pc = "posted"
  /\ IF registrar.closed
     THEN /\ registrar' = [registrar EXCEPT !.registering = FALSE]
          /\ call' = [call EXCEPT ![i].pc = "clean up"]
          /\ UNCHANGED beat
     ELSE /\ registrar' = [registrar EXCEPT !.registering = FALSE, !.sessions = @ \cup {i}]
          /\ Return(i, nil)
          /\ beat' = [beat EXCEPT ![i].pc = "select"]
  /\ UNCHANGED <<channel, request, once, lease, closer, caller, deletes, server>>

CleanUp(i) ==
  /\ call[i].pc = "clean up"
  /\ Send(i, "DELETE")
  /\ call' = [call EXCEPT ![i].pc = "cleaning"]
  /\ UNCHANGED <<registrar, beat, channel, once, lease, closer, caller, server>>

CleanedUp(i) ==
  /\ call[i].pc = "cleaning"
  /\ \E reply \in Replies : Ends(i, reply) /\ Return(i, {"closed"} \cup executeResult(reply))
  /\ lease' = [lease EXCEPT ![i] = Terminate(@, {"closed"})]
  /\ UNCHANGED <<registrar, beat, channel, once, closer, caller, deletes>>

RegisterStep(i) == Post(i) \/ Posted(i) \/ PostFailed(i) \/ Accept(i) \/ CleanUp(i) \/ CleanedUp(i)

-----------------------------------------------------------------------------
(* session.run                                                             *)

\* The tick. With stop closed and a tick pending, select picks either.
Tick(i) ==
  /\ beat[i].pc = "select" /\ beat[i].sent < MaxBeats
  /\ Send(i, "PUT")
  /\ beat' = [beat EXCEPT ![i].pc = "beating", ![i].sent = @ + 1]
  /\ UNCHANGED <<registrar, call, channel, once, lease, closer, caller, server>>

Beaten(i) ==
  /\ beat[i].pc = "beating"
  /\ \E reply \in Replies :
       /\ Ends(i, reply)
       /\ beat' = [beat EXCEPT ![i].err = executeResult(reply),
                               ![i].pc = IF executeResult(reply) = nil THEN "select" ELSE "failed"]
  /\ UNCHANGED <<registrar, call, channel, once, lease, closer, caller, deletes>>

\* Terminate, close(stop), and close(stopped) as the function returns.
BeatFailed(i) ==
  /\ beat[i].pc = "failed"
  /\ lease' = [lease EXCEPT ![i] = Terminate(@, beat[i].err)]
  /\ channel' = [channel EXCEPT ![i] = [stop |-> TRUE, stopped |-> TRUE]]
  /\ beat' = [beat EXCEPT ![i].pc = "done"]
  /\ UNCHANGED <<registrar, call, request, once, closer, caller, deletes, server>>

RunStops(i) ==
  /\ beat[i].pc = "select" /\ channel[i].stop
  /\ beat' = [beat EXCEPT ![i].pc = "done"]
  /\ channel' = [channel EXCEPT ![i].stopped = TRUE]
  /\ UNCHANGED <<registrar, call, request, once, lease, closer, caller, deletes, server>>

-----------------------------------------------------------------------------
(* session.close, inside closeOnce                                          *)

\* The first caller closes the stop channel and runs the rest; others wait.
Close(i) ==
  /\ once' = [once EXCEPT ![i].pc = IF @ = "no" THEN "waiting" ELSE @]
  /\ channel' = IF once[i].pc = "no" THEN [channel EXCEPT ![i].stop = TRUE] ELSE channel

\* Mutant: the DELETE does not wait for the heartbeat.
WithdrawAtOnce(i) ==
  /\ once[i].pc = "waiting"
  /\ Send(i, "DELETE")
  /\ once' = [once EXCEPT ![i].pc = "deleting"]
  /\ UNCHANGED <<registrar, call, beat, channel, lease, closer, caller, server>>

\* The heartbeat has stopped.
Withdraw(i) ==
  /\ once[i].pc = "waiting" /\ channel[i].stopped
  /\ Send(i, "DELETE")
  /\ once' = [once EXCEPT ![i].pc = "deleting"]
  /\ UNCHANGED <<registrar, call, beat, channel, lease, closer, caller, server>>

Ended(i, err) ==
  /\ once' = [once EXCEPT ![i] = [pc |-> "done", err |-> err]]
  /\ lease' = [lease EXCEPT ![i] = Terminate(@, IF err = nil THEN {"closed"} ELSE err)]
  /\ registrar' = [registrar EXCEPT !.sessions = @ \ {i}]

\* The context of the close ends before the heartbeat has stopped.
GiveUp(i) ==
  /\ once[i].pc = "waiting"
  /\ Ended(i, {"canceled"})
  /\ UNCHANGED <<call, beat, channel, request, closer, caller, deletes, server>>

Withdrawn(i) ==
  /\ once[i].pc = "deleting"
  /\ \E reply \in Replies : Ends(i, reply) /\ Ended(i, executeResult(reply))
  /\ UNCHANGED <<call, beat, channel, closer, caller, deletes>>

CloseStep(i) == Withdraw(i) \/ Withdrawn(i)

-----------------------------------------------------------------------------
(* Lease.Close and Registrar.Close                                          *)

LeaseClose(i) ==
  /\ call[i].pc = "returned" /\ call[i].result = nil /\ caller[i] = "idle"
  /\ Close(i)
  /\ caller' = [caller EXCEPT ![i] = "closing"]
  /\ UNCHANGED <<registrar, call, beat, request, lease, closer, deletes, server>>

LeaseClosed(i) ==
  /\ caller[i] = "closing" /\ once[i].pc = "done"
  /\ caller' = [caller EXCEPT ![i] = "returned"]
  /\ UNCHANGED <<registrar, call, beat, channel, request, once, lease, closer, deletes, server>>

RegistrarClose ==
  /\ ~registrar.closed
  /\ registrar' = [registrar EXCEPT !.closed = TRUE]
  /\ closer' = [closer EXCEPT !.pc = "wait", !.todo = registrar.sessions]
  /\ UNCHANGED <<call, beat, channel, request, once, lease, caller, deletes, server>>

\* A later call returns at once, whatever the first still waits for.
RegistrarCloseAgain ==
  /\ registrar.closed /\ closer.again = "idle"
  /\ closer' = [closer EXCEPT !.again = "returned"]
  /\ UNCHANGED <<registrar, call, beat, channel, request, once, lease, caller, deletes, server>>

\* Mutant: a registration in flight is not waited for.
DoNotWait ==
  /\ closer.pc = "wait"
  /\ closer' = [closer EXCEPT !.pc = "next"]
  /\ UNCHANGED <<registrar, call, beat, channel, request, once, lease, caller, deletes, server>>

\* registerWG.Wait
RegistrationsDone ==
  /\ closer.pc = "wait" /\ \A i \in Calls : call[i].pc \in {"idle", "returned"}
  /\ closer' = [closer EXCEPT !.pc = "next"]
  /\ UNCHANGED <<registrar, call, beat, channel, request, once, lease, caller, deletes, server>>

CloseNext(i) ==
  /\ closer.pc = "next" /\ i \in closer.todo
  /\ Close(i)
  /\ closer' = [closer EXCEPT !.pc = "closing"]
  /\ UNCHANGED <<registrar, call, beat, request, lease, caller, deletes, server>>

\* session.close has returned.
ClosedNext(i) ==
  /\ closer.pc = "closing" /\ i \in closer.todo /\ once[i].pc = "done"
  /\ closer' = [closer EXCEPT !.pc = "next", !.todo = @ \ {i}, !.result = @ \cup once[i].err]
  /\ UNCHANGED <<registrar, call, beat, channel, request, once, lease, caller, deletes, server>>

RegistrarClosed ==
  /\ closer.pc = "next" /\ closer.todo = {}
  /\ closer' = [closer EXCEPT !.pc = "returned"]
  /\ UNCHANGED <<registrar, call, beat, channel, request, once, lease, caller, deletes, server>>

CloserStep == RegistrationsDone \/ RegistrarClosed \/ \E i \in Calls : CloseNext(i) \/ ClosedNext(i)

-----------------------------------------------------------------------------

NoRegistration == CHOOSE r \in Registrations : registrationAccepted(r)

RegInit ==
  /\ registrar = [closed |-> FALSE, registering |-> FALSE, sessions |-> {}]
  /\ call = [i \in Calls |-> [pc |-> "idle", registration |-> NoRegistration, result |-> nil]]
  /\ beat = [i \in Calls |-> [pc |-> "none", err |-> nil, sent |-> 0]]
  /\ channel = [i \in Calls |-> [stop |-> FALSE, stopped |-> FALSE]]
  /\ request = [i \in Calls |-> "none"]
  /\ once = [i \in Calls |-> [pc |-> "no", err |-> nil]]
  /\ lease = [i \in Calls |-> nil]
  /\ closer = [pc |-> "idle", todo |-> {}, result |-> nil, again |-> "idle"]
  /\ caller = [i \in Calls |-> "idle"]
  /\ deletes = [i \in Calls |-> 0]
  /\ server = [registered |-> {}, late |-> {}]

RegNext ==
  \/ \E i \in Calls :
       \/ \E r \in Registrations : Register(i, r)
       \/ RegisterStep(i)
       \/ Tick(i) \/ Beaten(i) \/ BeatFailed(i) \/ RunStops(i)
       \/ CloseStep(i) \/ GiveUp(i)
       \/ LeaseClose(i) \/ LeaseClosed(i)
  \/ RegistrarClose \/ RegistrarCloseAgain \/ CloserStep \/ LateArrival

RegSpec == RegInit /\ [][RegNext]_regVars

-----------------------------------------------------------------------------
(* Properties                                                              *)

\* No orphan goes unreported: once no request is under way, an address that
\* is still registered belongs to a session the registrar still holds, or to one
\* whose Register failed or whose lease has an outcome other than closed.
NoSilentOrphan ==
  server.late = {} /\ (\A i \in Calls : request[i] = "none" /\ call[i].pc \in {"idle", "returned"}) =>
    \A address \in server.registered :
      \E i \in Calls :
        /\ call[i].pc = "returned" /\ Address(i) = address
        /\ i \in registrar.sessions \/ call[i].result \notin {nil, {"closed"}}
           \/ lease[i] \notin {nil, {"closed"}}

\* A session that has sent its DELETE sends no heartbeat after it and no second
\* DELETE. A PUT that it gave up on before may still arrive later; what that
\* leaves registered is the subject of NoSilentOrphan.
WithdrawnStaysQuiet == \A i \in Calls : deletes[i] > 0 => request'[i] # "PUT" /\ deletes'[i] = 1

\* When the Registrar.Close that closed it has returned, no Register is under way, and each session
\* has stopped its heartbeat and sent its DELETE, or was given up with an error
\* that Registrar.Close or Lease.Close reports.
CloseIsComplete ==
  closer.pc = "returned" =>
    /\ registrar.sessions = {}
    /\ \A i \in Calls :
         /\ call[i].pc \in {"idle", "returned"}
         /\ beat[i].pc # "none" => lease[i] # nil
         /\ beat[i].pc \in {"select", "beating", "failed"} => once[i].err = {"canceled"}

\* Registrar.Close has returned and every heartbeat has ended.
AllEnded == closer.pc = "returned" /\ \A i \in Calls : beat[i].pc \in {"none", "done"}
=============================================================================
