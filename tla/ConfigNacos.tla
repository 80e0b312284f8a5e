---------------------------- MODULE ConfigNacos ----------------------------
(***************************************************************************)
(* The nacos provider of the Config Center (config_center/nacos): a reader *)
(* over HTTP whose every subscription has a goroutine of its own that long *)
(* polls the server with the digest of the state it has, and reads the key *)
(* when the server says it differs.  A request is answered by the server   *)
(* at one moment and its answer is used at a later one; any failure stops  *)
(* the whole reader.  Close and the interruption take the subscriptions    *)
(* under the lock and end them one by one after it.                        *)
(***************************************************************************)
EXTENDS ConfigObservation, FiniteSets

CONSTANTS
    Keys, Values,
    Digests,         \* contentDigest of a value: MD5, taken to be injective
    MaxChanges       \* bound: changes of one key at the server

VARIABLES
    source,      \* the server's configuration, [value, version] of each key
    reader,      \* closed and interrupted
    polls        \* the request each subscription's Observe or goroutine is in:
                 \* the digest it was sent with, the answer not yet used

vars == <<source, reader, subs, polls>>

\* What the proofs assume of the constants.
ConfigNacosConstants == Buffer \in Nat /\ MaxOrder \in Nat

(* doom is the error with which Close or interruptAll, having taken the    *)
(* subscription out of the table, will end it.                             *)
NoPoll == [pc |-> "off", digest |-> "none", doom |-> NoTerminal,
           answer |-> [value |-> Missing, version |-> 0]]

Init ==
    /\ source = [k \in Keys |-> [value |-> Missing, version |-> 0]]
    /\ reader = [closed |-> FALSE, interrupted |-> FALSE]
    /\ subs = [s \in Subs |-> NoSubscription]
    /\ polls = [s \in Subs |-> NoPoll]

\* Mutant: no content and no key have the same digest.
DigestOfBytes(state) == IF state.value \in {Missing, ""} THEN "" ELSE Digests[state.value]

contentDigest(state) == IF state.value = Missing THEN "" ELSE Digests[state.value]

stopped == reader.closed \/ reader.interrupted
ended(s) == subs[s].terminal # NoTerminal
Registered == {s \in Subs : subs[s].registered}

Polled(s, pc) == [NoPoll EXCEPT !.pc = pc, !.doom = polls[s].doom]
PollAt(s, pc) == polls' = [polls EXCEPT ![s] = Polled(s, pc)]
Sub(s, to) == subs' = [subs EXCEPT ![s] = to]

\* The server: somebody changes a key.
Change(k, value) ==
    /\ value # source[k].value /\ source[k].version < MaxChanges
    /\ source' = [source EXCEPT ![k] = [value |-> value, version |-> @.version + 1]]
    /\ UNCHANGED <<reader, subs, polls>>

\* A GET is answered with the state the server has at that moment.
Answered(s, k, pc) == polls' = [polls EXCEPT ![s].pc = pc, ![s].answer = source[k]]

-----------------------------------------------------------------------------
(* Observe *)
Observe(s, k) ==
    /\ subs[s].phase = "none"
    /\ IF stopped THEN Sub(s, [subs[s] EXCEPT !.phase = "refused"])
       ELSE Sub(s, [subs[s] EXCEPT !.phase = "get", !.key = k])
    /\ UNCHANGED <<source, reader, polls>>

ObserveAnswered(s) ==
    /\ subs[s].phase = "get" /\ polls[s].pc = "off"
    /\ \/ Answered(s, subs[s].key, "answered") /\ UNCHANGED subs
       \/ Sub(s, [subs[s] EXCEPT !.phase = "refused"]) /\ UNCHANGED polls
    /\ UNCHANGED <<source, reader>>

\* Mutant: the lifecycle is looked at only before the request.
RegisterUnchecked(s) ==
    /\ subs[s].phase = "get" /\ polls[s].pc = "answered"
    /\ Sub(s, Subscribed(subs[s].key, polls[s].answer))
    /\ PollAt(s, "off")
    /\ UNCHANGED <<source, reader>>

\* The lifecycle is looked at again, and the subscription entered, in one lock.
Register(s) ==
    /\ subs[s].phase = "get" /\ polls[s].pc = "answered"
    /\ IF stopped THEN Sub(s, [subs[s] EXCEPT !.phase = "refused"])
       ELSE Sub(s, Subscribed(subs[s].key, polls[s].answer))
    /\ PollAt(s, "off")
    /\ UNCHANGED <<source, reader>>

\* closeSubscription: only a subscription that is still in the table.
Closed(s) ==
    IF subs[s].registered THEN Terminated(subs[s], "subscription_closed") ELSE subs[s]

\* A context canceled meanwhile closes the subscription, else its goroutine
\* starts and the caller has its observation.
ObserveReturns(s) ==
    /\ subs[s].phase = "made"
    /\ \/ Sub(s, [subs[s] EXCEPT !.phase = "live"]) /\ PollAt(s, "listen")
       \/ Sub(s, Gone(Closed(s), "refused")) /\ UNCHANGED polls
    /\ UNCHANGED <<source, reader>>

Next_(s) == (NextChecks(s) \/ NextSelects(s)) /\ UNCHANGED <<source, reader, polls>>

CloseSubscription(s) ==
    /\ subs[s].phase = "live" /\ subs[s].registered
    /\ Sub(s, Closed(s))
    /\ UNCHANGED <<source, reader, polls>>

-----------------------------------------------------------------------------
(* Stopping the reader *)

\* takeSubscriptionsLocked
Take(code, rest) ==
    /\ subs' = [s \in Subs |-> [subs[s] EXCEPT !.registered = FALSE]]
    /\ polls' = [s \in Subs |-> IF s \in Registered THEN [rest[s] EXCEPT !.doom = code]
                                ELSE rest[s]]

Close ==
    /\ ~reader.closed
    /\ reader' = [reader EXCEPT !.closed = TRUE]
    /\ Take("reader_closed", polls)
    /\ UNCHANGED source

\* The loop after the lock ends the subscriptions that were taken.
TerminateTaken(s) ==
    /\ polls[s].doom # NoTerminal /\ ~ended(s)
    /\ Sub(s, Terminated(subs[s], polls[s].doom))
    /\ UNCHANGED <<source, reader, polls>>

interruptAll(s) ==
    /\ polls[s].pc = "interrupt"
    /\ LET rest == [polls EXCEPT ![s] = Polled(s, "done")]
       IN  IF stopped THEN polls' = rest /\ UNCHANGED <<reader, subs>>
           ELSE reader' = [reader EXCEPT !.interrupted = TRUE] /\ Take("watch_interrupted", rest)
    /\ UNCHANGED source

-----------------------------------------------------------------------------
(* The goroutine: watch *)

\* listen sends the digest of the state the subscription has.
Listen(s) ==
    /\ polls[s].pc = "listen"
    /\ polls' = [polls EXCEPT ![s].pc = "listening",
                              ![s].digest = contentDigest(subs[s].current)]
    /\ UNCHANGED <<source, reader, subs>>

\* The server answers at once, or later, that the digest is not the key's.
ListenChanged(s) ==
    /\ polls[s].pc = "listening" /\ ~ended(s)
    /\ polls[s].digest # contentDigest(source[subs[s].key])
    /\ PollAt(s, "read")
    /\ UNCHANGED <<source, reader, subs>>

\* Nothing changed for LongPollTimeout.
ListenTimeout(s) ==
    /\ polls[s].pc = "listening" /\ ~ended(s)
    /\ polls[s].digest = contentDigest(source[subs[s].key])
    /\ PollAt(s, "listen")
    /\ UNCHANGED <<source, reader, subs>>

ReadAnswered(s) ==
    /\ polls[s].pc = "read" /\ ~ended(s)
    /\ Answered(s, subs[s].key, "answered")
    /\ UNCHANGED <<source, reader, subs>>

\* Either request fails: a failed listener, or a bad answer.
RequestFails(s) ==
    /\ polls[s].pc \in {"listening", "read"} /\ ~ended(s)
    /\ PollAt(s, "interrupt")
    /\ UNCHANGED <<source, reader, subs>>

\* The subscription's context is canceled with it: the request returns.
Canceled(s) ==
    /\ polls[s].pc \in {"listening", "read"} /\ ended(s)
    /\ PollAt(s, "done")
    /\ UNCHANGED <<source, reader, subs>>

apply(s) ==
    /\ polls[s].pc = "answered" /\ subs[s].phase # "get"
    /\ IF Same(subs[s], polls[s].answer) THEN PollAt(s, "listen") /\ UNCHANGED subs
       ELSE IF Deliverable(subs[s])
            THEN PollAt(s, "listen") /\ Sub(s, Enqueued(subs[s], polls[s].answer))
            ELSE PollAt(s, "interrupt") /\ UNCHANGED subs
    /\ UNCHANGED <<source, reader>>

watch(s) ==
    \/ Listen(s) \/ ListenChanged(s) \/ ListenTimeout(s) \/ ReadAnswered(s)
    \/ Canceled(s) \/ apply(s) \/ interruptAll(s)

-----------------------------------------------------------------------------
Next ==
    \/ \E k \in Keys : \E value \in Values \cup {Missing} : Change(k, value)
    \/ \E s \in Subs, k \in Keys : Observe(s, k)
    \/ \E s \in Subs :
          \/ ObserveAnswered(s) \/ Register(s) \/ ObserveReturns(s)
          \/ Next_(s) \/ CloseSubscription(s) \/ TerminateTaken(s)
          \/ watch(s) \/ RequestFails(s)
    \/ Close

\* The goroutines run and the server answers; a loop that began ending what it
\* took goes on; Observe returns.
Fairness ==
    \A s \in Subs : /\ WF_vars(watch(s)) /\ WF_vars(TerminateTaken(s))
                    /\ WF_vars(ObserveReturns(s))

Spec == Init /\ [][Next]_vars /\ Fairness

-----------------------------------------------------------------------------
\* A subscription in the reader's table is one somebody still polls for: the
\* goroutine has not ended, and while it waits at the server it waits with the
\* digest of the state the subscription has.
NothingIsLost ==
    \A s \in Registered :
        \/ subs[s].phase = "made"
        \/ /\ polls[s].pc \notin {"off", "done"}
           /\ polls[s].pc = "listening" => polls[s].digest = contentDigest(subs[s].current)

ChainsOnly == \A s \in Subs : subs[s].phase \in {"made", "live"} => IsChain(subs[s])

Late(s) == s \in Registered /\ ~Same(subs[s], source[subs[s].key])
Stopped ==
    /\ Registered = {}
    /\ \A s \in Subs : /\ polls[s].pc \in {"off", "done"} \/ subs[s].phase \in {"get", "refused"}
                       /\ subs[s].phase \in {"made", "live"} => ended(s)
=============================================================================
