----------------------------- MODULE ConfigFile -----------------------------
(***************************************************************************)
(* The file provider of the Config Center (config_center/file): publishers *)
(* that replace a leaf of the root directory by a rename, a reader with    *)
(* one watch on that directory, the goroutine that turns its notifications *)
(* into transitions, and the subscriptions callers hold.                   *)
(*                                                                         *)
(* Get and Observe read a leaf under the reader's lock, which the watch    *)
(* goroutine takes for each key, but a publisher is another process: the   *)
(* directory changes while the lock is held.  A read is one step, at the   *)
(* moment the leaf is opened.                                              *)
(***************************************************************************)
EXTENDS ConfigObservation, FiniteSets, FiniteSetsExt

CONSTANTS
    Keys, Values,
    Faults,          \* leaves that are no regular file or too large, each named
                     \* by the error that reading it gives
    Publishers,
    Reports,         \* how the watch can report a change, of the three below
    QueueLimit,      \* notifications the kernel holds before it drops them
    MaxChanges       \* bound: changes of the directory's leaves

VARIABLES
    source,      \* the leaf of each key, [value, version]
    pinned,      \* the configured path still names the directory opened
    writers,     \* the publishers and the call each is in
    notices,     \* notifications of the watch, not yet received
    loop,        \* the watch goroutine
    reader       \* closed, interrupted, and whether it holds its resources

vars == <<source, pinned, writers, notices, loop, reader, subs>>

\* What the proofs assume of the constants: a queue can hold a notification, and
\* no leaf has the name of another kind of notification.
ConfigFileConstants ==
    /\ Buffer \in Nat /\ MaxOrder \in Nat /\ QueueLimit \in Nat \ {0}
    /\ Reports \subseteq {"name", "write", "enoent"}
    /\ Keys \cap {"write", "enoent", "gone", "overflow"} = {}

Partial == "partial"     \* a leaf whose content is not all written

IdleWriter == [pc |-> "idle", key |-> "none", value |-> Missing,
               leaf |-> Missing, closed |-> FALSE]

Init ==
    /\ source = [k \in Keys |-> [value |-> Missing, version |-> 0]]
    /\ pinned = TRUE
    /\ writers = [w \in Publishers |-> IdleWriter]
    /\ notices = <<>>
    /\ loop = [pc |-> "select", todo |-> {}]
    /\ reader = [closed |-> FALSE, interrupted |-> FALSE, open |-> TRUE]
    /\ subs = [s \in Subs |-> NoSubscription]

-----------------------------------------------------------------------------
(* The directory *)

\* The watch reports a notification, or that it has dropped some.
Notify(notice) ==
    notices' = CASE ~reader.open -> <<>>
                 [] reader.open /\ Len(notices) < QueueLimit -> Append(notices, notice)
                 [] OTHER -> IF notices[Len(notices)] = "overflow" THEN notices
                             ELSE Append(notices, "overflow")

\* Changes of leaves so far.
Changes == FoldSet(LAMBDA x, n : n + source[x].version, 0, Keys)

\* A direct child changes: most watches name it; kqueue and Windows report a
\* write on the directory, and a child replaced meanwhile can surface as an
\* error that it does not exist.
LeafChanges(k, value) ==
    /\ Changes < MaxChanges
    /\ source' = [source EXCEPT ![k] = [value |-> value, version |-> @.version + 1]]
    /\ \E report \in Reports : Notify(IF report = "name" THEN k ELSE report)

\* Somebody else replaces or removes a leaf, or moves the directory.
OutsideChange(k) ==
    /\ \E value \in (Values \cup Faults \cup {Missing}) \ {source[k].value} : LeafChanges(k, value)
    /\ UNCHANGED <<pinned, writers, loop, reader, subs>>

ReplaceRoot ==
    /\ pinned
    /\ pinned' = FALSE
    /\ Notify("gone")
    /\ UNCHANGED <<source, writers, loop, reader, subs>>

-----------------------------------------------------------------------------
(* Publisher *)

\* validateRootIdentityLocked
validateRootIdentity == pinned

\* inspectTargetLocked: the target is absent or a regular file.
inspectTarget(k) == source[k].value # "unsafe_state"

MoveWriter(w, to) == writers' = [writers EXCEPT ![w] = to]

Publish(w, k, v) ==
    /\ writers[w].pc = "idle" /\ ~writers[w].closed
    /\ validateRootIdentity /\ inspectTarget(k)
    /\ MoveWriter(w, [writers[w] EXCEPT !.pc = "open", !.key = k, !.value = v,
                                        !.leaf = Partial])
    /\ UNCHANGED <<source, pinned, notices, loop, reader, subs>>

\* Write, Sync and Close of the temporary leaf.
WriteTemporary(w) ==
    /\ writers[w].pc = "open"
    /\ MoveWriter(w, [writers[w] EXCEPT !.pc = "written", !.leaf = writers[w].value])
    /\ UNCHANGED <<source, pinned, notices, loop, reader, subs>>

\* Mutant: the temporary leaf is renamed before its content is all written.
CommitUnwritten(w) ==
    /\ writers[w].pc \in {"open", "written"} /\ validateRootIdentity
    /\ LeafChanges(writers[w].key, writers[w].leaf)
    /\ MoveWriter(w, IdleWriter)
    /\ UNCHANGED <<pinned, loop, reader, subs>>

\* The rename onto the target.
Commit(w) ==
    /\ writers[w].pc = "written" /\ validateRootIdentity
    /\ LeafChanges(writers[w].key, writers[w].leaf)
    /\ MoveWriter(w, IdleWriter)
    /\ UNCHANGED <<pinned, loop, reader, subs>>

\* A failed step, a canceled context or a moved root: the temporary leaf goes.
Abandon(w) ==
    /\ writers[w].pc \in {"open", "written"}
    /\ MoveWriter(w, IdleWriter)
    /\ UNCHANGED <<source, pinned, notices, loop, reader, subs>>

\* Delete finds the leaf, and removes it in a later step; by then it may be gone.
Delete(w, k) ==
    /\ writers[w].pc = "idle" /\ ~writers[w].closed
    /\ validateRootIdentity /\ inspectTarget(k) /\ source[k].value # Missing
    /\ MoveWriter(w, [writers[w] EXCEPT !.pc = "remove", !.key = k])
    /\ UNCHANGED <<source, pinned, notices, loop, reader, subs>>

RemoveLeaf(w) ==
    /\ writers[w].pc = "remove"
    /\ MoveWriter(w, IdleWriter)
    /\ IF validateRootIdentity /\ source[writers[w].key].value # Missing
       THEN LeafChanges(writers[w].key, Missing)
       ELSE UNCHANGED <<source, notices>>
    /\ UNCHANGED <<pinned, loop, reader, subs>>

ClosePublisher(w) ==
    /\ writers[w].pc = "idle" /\ ~writers[w].closed
    /\ MoveWriter(w, [writers[w] EXCEPT !.closed = TRUE])
    /\ UNCHANGED <<source, pinned, notices, loop, reader, subs>>

-----------------------------------------------------------------------------
(* Reader *)

stopped == reader.closed \/ reader.interrupted

\* readStateLocked succeeds; it may also fail as unavailable at any time.
readState(k) == source[k].value \notin Faults

Registered == {s \in Subs : subs[s].registered}

\* The lock is held from the sample to the entry in the table, and only its
\* holder looks at the table: the two are one step. It does not stop a publisher,
\* whose change of the leaf after the sample is the next step.
Observe(s, k) ==
    /\ subs[s].phase = "none"
    /\ \/ subs' = [subs EXCEPT ![s].phase = "refused"]
       \/ ~stopped /\ readState(k) /\ subs' = [subs EXCEPT ![s] = Subscribed(k, source[k])]
    /\ UNCHANGED <<source, pinned, writers, notices, loop, reader>>

\* Observe looks at its context once more after it has registered.
ObserveReturns(s) ==
    /\ subs[s].phase = "made"
    /\ \/ subs' = [subs EXCEPT ![s].phase = "live"]
       \/ subs' = [subs EXCEPT ![s] = Gone(Terminated(@, "subscription_closed"), "refused")]
    /\ UNCHANGED <<source, pinned, writers, notices, loop, reader>>

\* closeSubscription: only a subscription the reader still holds.
CloseSubscription(s) ==
    /\ subs[s].phase = "live" /\ subs[s].registered
    /\ subs' = [subs EXCEPT ![s] = Terminated(@, "subscription_closed")]
    /\ UNCHANGED <<source, pinned, writers, notices, loop, reader>>

Next_(s) ==
    /\ NextChecks(s) \/ NextSelects(s)
    /\ UNCHANGED <<source, pinned, writers, notices, loop, reader>>

\* terminateAllLocked
terminateAll(code) ==
    subs' = [s \in Subs |-> IF subs[s].registered THEN Terminated(subs[s], code) ELSE subs[s]]

Close ==
    /\ ~reader.closed
    /\ reader' = [reader EXCEPT !.closed = TRUE]
    /\ terminateAll("reader_closed")
    /\ UNCHANGED <<source, pinned, writers, notices, loop>>

\* closeResources, by Close or by the interruption, whichever comes first.
CloseResources ==
    /\ reader.open /\ reader.closed
    /\ reader' = [reader EXCEPT !.open = FALSE]
    /\ notices' = <<>>
    /\ UNCHANGED <<source, pinned, writers, loop, subs>>

-----------------------------------------------------------------------------
(* The watch goroutine: watchLoop *)

LoopAt(pc, todo) == loop' = [pc |-> pc, todo |-> todo]

\* processAllKeyChanges takes the keys observed at that moment.
Observed == {subs[s].key : s \in Registered}

\* Mutant: an error of the watch that drops notifications is passed over.
HandleWithoutOverflow(notice) ==
    CASE notice \in Keys -> LoopAt("process", {notice})
      [] notice = "write" -> LoopAt("process", Observed)
      [] notice = "enoent" -> IF pinned THEN LoopAt("process", Observed)
                              ELSE LoopAt("interrupt", {})
      [] notice = "gone" -> LoopAt("interrupt", {})
      [] notice = "overflow" -> LoopAt("check", {})

\* handleWatchEvent and handleWatcherError.  A notification of any other leaf,
\* such as a temporary one, is ignored, and is not kept here.
Handle(notice) ==
    CASE notice \in Keys -> LoopAt("process", {notice})
      [] notice = "write" -> LoopAt("process", Observed)
      [] notice = "enoent" -> IF pinned THEN LoopAt("process", Observed)
                              ELSE LoopAt("interrupt", {})
      [] notice \in {"gone", "overflow"} -> LoopAt("interrupt", {})

Receive ==
    /\ loop.pc = "select" /\ notices # <<>>
    /\ Handle(Head(notices))
    /\ notices' = Tail(notices)
    /\ UNCHANGED <<source, pinned, writers, reader, subs>>

\* The watcher's channels are closed: interruptAll finds the reader stopped.
ReceiveClosed ==
    /\ loop.pc = "select" /\ ~reader.open
    /\ LoopAt("done", {})
    /\ UNCHANGED <<source, pinned, writers, notices, reader, subs>>

\* processKeyChange for one key: the subscriptions that have the content keep
\* it, the others get the event in any order, up to the first that cannot.
Holders(k) == {s \in Registered : subs[s].key = k}
Behind(k) == {s \in Holders(k) : ~Same(subs[s], source[k])}
CanTake(k) == {s \in Behind(k) : Deliverable(subs[s])}

Enqueue(takers, k) ==
    subs' = [s \in Subs |-> IF s \in takers THEN Enqueued(subs[s], source[k]) ELSE subs[s]]

processKeyChange(k) ==
    IF stopped \/ Holders(k) = {} THEN UNCHANGED subs /\ LoopAt("process", loop.todo \ {k})
    ELSE \/ /\ subs' = [s \in Subs |-> IF s \in Holders(k)
                                       THEN Terminated(subs[s], "watch_interrupted")
                                       ELSE subs[s]]
            /\ LoopAt("process", loop.todo \ {k})
         \/ /\ readState(k) /\ CanTake(k) = Behind(k)
            /\ Enqueue(Behind(k), k)
            /\ LoopAt("process", loop.todo \ {k})
         \/ /\ readState(k) /\ CanTake(k) # Behind(k)
            /\ \E takers \in SUBSET CanTake(k) : Enqueue(takers, k)
            /\ LoopAt("interrupt", {})

Process ==
    /\ loop.pc = "process"
    /\ IF loop.todo = {} THEN LoopAt("check", {}) /\ UNCHANGED subs
       ELSE \E k \in loop.todo : processKeyChange(k)
    /\ UNCHANGED <<source, pinned, writers, notices, reader>>

\* interruptAll ends every subscription and releases the resources.
interruptAll ==
    /\ loop.pc = "interrupt"
    /\ IF stopped THEN LoopAt("check", {}) /\ UNCHANGED <<reader, subs>>
       ELSE /\ reader' = [reader EXCEPT !.interrupted = TRUE]
            /\ terminateAll("watch_interrupted")
            /\ LoopAt("release", {})
    /\ UNCHANGED <<source, pinned, writers, notices>>

Release ==
    /\ loop.pc = "release"
    /\ reader' = [reader EXCEPT !.open = FALSE]
    /\ notices' = <<>>
    /\ LoopAt("check", {})
    /\ UNCHANGED <<source, pinned, writers, subs>>

Check ==
    /\ loop.pc = "check"
    /\ LoopAt(IF stopped THEN "done" ELSE "select", {})
    /\ UNCHANGED <<source, pinned, writers, notices, reader, subs>>

watchLoop == Receive \/ ReceiveClosed \/ Process \/ interruptAll \/ Release \/ Check

-----------------------------------------------------------------------------
Next ==
    \/ \E k \in Keys : OutsideChange(k)
    \/ ReplaceRoot
    \/ \E w \in Publishers, k \in Keys : (\E v \in Values : Publish(w, k, v)) \/ Delete(w, k)
    \/ \E w \in Publishers :
          WriteTemporary(w) \/ Commit(w) \/ Abandon(w) \/ RemoveLeaf(w) \/ ClosePublisher(w)
    \/ \E s \in Subs, k \in Keys : Observe(s, k)
    \/ \E s \in Subs : ObserveReturns(s) \/ CloseSubscription(s) \/ Next_(s)
    \/ Close
    \/ CloseResources
    \/ watchLoop

\* The watch goroutine runs whenever it can, and Close finishes once begun.
Fairness == WF_vars(watchLoop) /\ WF_vars(CloseResources)

Spec == Init /\ [][Next]_vars /\ Fairness

-----------------------------------------------------------------------------
\* A notification that makes the goroutine look at the key, or that stops it.
Announces(notice, k) == notice = k \/ notice \in {"write", "enoent", "gone", "overflow"}

\* Observe "atomically samples one key and registers" (reader.go:149): whenever
\* a registered subscription's state is not the leaf's, a notification that the
\* goroutine has still to handle will bring the difference to it or end it.
\* Publishing, coalescing, a full queue and a moved directory lose nothing.
NothingIsLost ==
    \A s \in Registered :
        \/ Same(subs[s], source[subs[s].key])
        \/ \E i \in 1 .. Len(notices) : Announces(notices[i], subs[s].key)
        \/ loop.pc = "process" /\ subs[s].key \in loop.todo
        \/ loop.pc = "interrupt"

\* A subscriber sees one chain of transitions and no content half written.
ChainsOnly ==
    \A s \in Subs : subs[s].phase \in {"made", "live"} =>
        /\ IsChain(subs[s])
        /\ \A i \in 1 .. Len(Chain(subs[s])) :
              Chain(subs[s])[i].state.value \in Values \cup {Missing}

Late(s) == s \in Registered /\ ~Same(subs[s], source[subs[s].key])
Stopped == loop.pc = "done" /\ ~reader.open /\ Registered = {}
=============================================================================
