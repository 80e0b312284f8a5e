--------------------------- MODULE MCConfigCenter ---------------------------
(***************************************************************************)
(* The two providers of the Config Center on small instances.  A behaviour *)
(* is one of a single part, which the first state names: "file" has one    *)
(* publisher, "keys" two keys and a watch that reports changes in all of   *)
(* its ways, "shared" two subscriptions to one key; "nacos" has many       *)
(* changes, "pollers" two subscriptions.  In "file" and "nacos" a queue of *)
(* two events overflows, in "shared" a queue of one does for one of two    *)
(* subscriptions; revisions run out at 2 or 3.  In "directory" the Router  *)
(* reads its instance directory from the file provider; one caller stands  *)
(* for all, which share nothing but the reader and leave nothing in it.    *)
(***************************************************************************)
EXTENDS Naturals, Sequences, FiniteSets, TLC

CONSTANT Parts

VARIABLES part, source, subs, reader,
          pinned, writers, notices, loop,     \* the file provider
          polls,                              \* the nacos provider
          calls                               \* the Router's instance directory

Single == {"s1"}
Pair == {"s1", "s2"}
Empty == ""       \* a key that is present with no content
Contents == {Empty, "v1"}
Digests == [v \in Contents |-> IF v = Empty THEN "d41d8c" ELSE "9e107d"]

F == INSTANCE ConfigFile WITH
        Missing <- "missing", Buffer <- 2, MaxOrder <- 3, Subs <- Single, Keys <- {"k1"},
        Values <- {"v1"}, Faults <- {"unsafe_state"}, Publishers <- {"w1"},
        Reports <- {"name"}, QueueLimit <- 1, MaxChanges <- 3

K == INSTANCE ConfigFile WITH
        Missing <- "missing", Buffer <- 2, MaxOrder <- 2, Subs <- Single, Keys <- {"k1", "k2"},
        Values <- {"v1"}, Faults <- {"payload_too_large"}, Publishers <- {},
        Reports <- {"name", "write", "enoent"}, QueueLimit <- 2, MaxChanges <- 2

S == INSTANCE ConfigFile WITH
        Missing <- "missing", Buffer <- 1, MaxOrder <- 2, Subs <- Pair, Keys <- {"k1"},
        Values <- {"v1"}, Faults <- {}, Publishers <- {},
        Reports <- {"name"}, QueueLimit <- 1, MaxChanges <- 2

N == INSTANCE ConfigNacos WITH
        Missing <- "missing", Buffer <- 2, MaxOrder <- 3, Subs <- Single, Keys <- {"k1"},
        Values <- Contents, MaxChanges <- 4

P == INSTANCE ConfigNacos WITH
        Missing <- "missing", Buffer <- 2, MaxOrder <- 2, Subs <- Pair, Keys <- {"k1"},
        Values <- {"v1"}, MaxChanges <- 1

\* Documents of the instance directory: a release with one ready instance, one
\* that was replaced by another instance while it drains, an entry for another
\* card of the same release besides it, and one with an address not canonical.
Endpoint(address) ==
    [addressType |-> 1, address |-> address, portName |-> 1, port |-> 8092, protocol |-> 1]
Runtime(id, address, ready) ==
    [id |-> id, endpoints |-> <<Endpoint(address)>>, ready |-> ready, serving |-> TRUE,
     terminating |-> ~ready, zone |-> 0]
Entry(target, instances) == [target |-> target, instances |-> instances]
Doc(targets) == [strict |-> TRUE, schemaVersion |-> "1", revision |-> 1, targets |-> targets]
Docs == [single |-> Doc(<<Entry("t1", <<Runtime(1, 1, TRUE)>>)>>),
         moved |-> Doc(<<Entry("t1", <<Runtime(1, 1, FALSE), Runtime(2, 2, TRUE)>>)>>),
         twice |-> Doc(<<Entry("t1", <<Runtime(1, 1, TRUE)>>), Entry("t2", <<>>)>>),
         spelled |-> Doc(<<Entry("t1", <<Runtime(1, 3, TRUE)>>)>>)]

D == INSTANCE ConfigDirectory WITH
        Missing <- "missing", Buffer <- 2, MaxOrder <- 2, Subs <- {}, Keys <- {"k1"},
        Values <- DOMAIN Docs, Faults <- {"unsafe_state"}, Publishers <- {},
        Reports <- {"name"}, QueueLimit <- 1, MaxChanges <- 2,
        Callers <- {"c1"}, DirectoryKey <- "k1", Targets <- {"t1", "t2"},
        ReleaseID <- [t1 |-> "r1", t2 |-> "r1"], Document <- Docs,
        Canonical <- [a \in {1} |-> {1, 2}], PortName <- 1, TCP <- 1,
        TargetLimit <- 2, InstanceLimit <- 2, EndpointLimit <- 1

\* What the proofs about the two providers assume holds of every part.
ASSUME ProviderConstants ==
    /\ F!ConfigFileConstants /\ K!ConfigFileConstants /\ S!ConfigFileConstants
    /\ D!ConfigFileConstants /\ N!ConfigNacosConstants /\ P!ConfigNacosConstants

Vars == <<part, source, subs, reader, pinned, writers, notices, loop, polls, calls>>

FileParts == {"file", "keys", "shared", "directory"}
notFile == <<polls, calls>>
notNacos == <<pinned, writers, notices, loop, calls>>

Off(owners, v) == IF part \in owners THEN TRUE ELSE v = "off"

Init ==
    /\ part \in Parts
    /\ CASE part = "file" -> F!Init
         [] part = "keys" -> K!Init
         [] part = "shared" -> S!Init
         [] part = "nacos" -> N!Init
         [] part = "pollers" -> P!Init
         [] part = "directory" -> D!DirectoryInit
    /\ Off({"nacos", "pollers"}, polls)
    /\ Off(FileParts, pinned) /\ Off(FileParts, writers)
    /\ Off(FileParts, notices) /\ Off(FileParts, loop)
    /\ Off({"directory"}, calls)

Next ==
    /\ UNCHANGED part
    /\ \/ part = "file" /\ F!Next /\ UNCHANGED notFile
       \/ part = "keys" /\ K!Next /\ UNCHANGED notFile
       \/ part = "shared" /\ S!Next /\ UNCHANGED notFile
       \/ part = "nacos" /\ N!Next /\ UNCHANGED notNacos
       \/ part = "pollers" /\ P!Next /\ UNCHANGED notNacos
       \/ part = "directory" /\ D!DirectoryNext /\ UNCHANGED polls

\* Only the goroutines of the part that runs can take a step.
FileSteps ==
    /\ UNCHANGED part
    /\ \/ part = "file" /\ F!watchLoop /\ UNCHANGED notFile
       \/ part = "keys" /\ K!watchLoop /\ UNCHANGED notFile
       \/ part = "shared" /\ S!watchLoop /\ UNCHANGED notFile
       \/ part = "directory" /\ D!watchLoop /\ UNCHANGED notFile

Closing ==
    /\ UNCHANGED part
    /\ \/ part = "file" /\ F!CloseResources /\ UNCHANGED notFile
       \/ part = "keys" /\ K!CloseResources /\ UNCHANGED notFile
       \/ part = "shared" /\ S!CloseResources /\ UNCHANGED notFile
       \/ part = "directory" /\ D!CloseResources /\ UNCHANGED notFile

Polling(s) ==
    /\ UNCHANGED part
    /\ \/ part = "nacos" /\ s \in Single /\ N!watch(s) /\ UNCHANGED notNacos
       \/ part = "pollers" /\ P!watch(s) /\ UNCHANGED notNacos

Ending(s) ==
    /\ UNCHANGED part
    /\ \/ part = "nacos" /\ s \in Single /\ N!TerminateTaken(s) /\ UNCHANGED notNacos
       \/ part = "pollers" /\ P!TerminateTaken(s) /\ UNCHANGED notNacos

Returning(s) ==
    /\ UNCHANGED part
    /\ \/ part = "nacos" /\ s \in Single /\ N!ObserveReturns(s) /\ UNCHANGED notNacos
       \/ part = "pollers" /\ P!ObserveReturns(s) /\ UNCHANGED notNacos

Fairness ==
    /\ WF_Vars(FileSteps) /\ WF_Vars(Closing)
    /\ \A s \in Pair : WF_Vars(Polling(s)) /\ WF_Vars(Ending(s)) /\ WF_Vars(Returning(s))

Spec == Init /\ [][Next]_Vars /\ Fairness
-----------------------------------------------------------------------------
\* Observe leaves no gap between the snapshot it returns and the transitions
\* that follow (config_center/file/reader.go:149, nacos/reader.go:171): whenever
\* a subscription is behind its key, something that has still to happen in the
\* reader brings it the difference or ends it.
NothingIsLost ==
    CASE part = "file" -> F!NothingIsLost
      [] part = "keys" -> K!NothingIsLost
      [] part = "shared" -> S!NothingIsLost
      [] part = "nacos" -> N!NothingIsLost
      [] part = "pollers" -> P!NothingIsLost
      [] part = "directory" -> D!NothingIsLost

\* "Subscription delivers ordered transitions for one Observe call"
\* (config_center/subscription.go): consecutive revisions, never the same
\* content twice in a row, never an older state after a newer one, never a leaf
\* that is half written, and none dropped between two that were delivered.  The
\* Router's directory, over the same reader, answers a call from one document
\* that was in force during the call, whole, or with the error of one.
ChainsOnly ==
    CASE part = "file" -> F!ChainsOnly
      [] part = "keys" -> K!ChainsOnly
      [] part = "shared" -> S!ChainsOnly
      [] part = "nacos" -> N!ChainsOnly
      [] part = "pollers" -> P!ChainsOnly
      [] part = "directory" -> D!RoutesAreWhole

Late(s) ==
    CASE part = "file" -> s \in Single /\ F!Late(s)
      [] part = "keys" -> s \in Single /\ K!Late(s)
      [] part = "shared" -> S!Late(s)
      [] part = "nacos" -> s \in Single /\ N!Late(s)
      [] part = "pollers" -> P!Late(s)
      [] part = "directory" -> FALSE

\* A subscription that is behind its key is brought up to date or ended.
ObservationsCatchUp == \A s \in Pair : Late(s) ~> ~Late(s)

Stopping == reader.closed \/ reader.interrupted

Stopped ==
    CASE part = "file" -> F!Stopped
      [] part = "keys" -> K!Stopped
      [] part = "shared" -> S!Stopped
      [] part = "nacos" -> N!Stopped
      [] part = "pollers" -> P!Stopped
      [] part = "directory" -> D!Stopped

\* A reader that is closed or interrupted ends every subscription, lets go of
\* its watch, and leaves no goroutine behind.
ReadersStop == Stopping ~> Stopped
=============================================================================
