-------------------------- MODULE ConfigDirectory --------------------------
(***************************************************************************)
(* apps/a2a-router/internal/configdirectory over the file provider of the  *)
(* Config Center: the Router reads its instance directory, one document,   *)
(* anew for every invocation and every readiness check, while publishers   *)
(* replace it.  The snapshot selector picks the endpoint.                  *)
(*                                                                         *)
(* A content is a model value; Document gives what it decodes to, with     *)
(* texts as their ranks (RegistryModel).                                   *)
(***************************************************************************)
EXTENDS ConfigFile, Routing

CONSTANTS
    Callers,            \* invocations and readiness checks of the Router
    DirectoryKey,       \* Directory.key
    Targets,            \* exact release targets that are valid
    ReleaseID,          \* the release identifier of each target
    Document,           \* wire document of each content
    Canonical,          \* by address type, the addresses it spells canonically
    TargetLimit, InstanceLimit, EndpointLimit

VARIABLE
    calls        \* the call each caller is in, or its last one; seen has every
                 \* content the directory's leaf had while it lasted

NoCall == [pc |-> "idle", target |-> "none", read |-> "none", seen |-> {},
           result |-> "none", endpoint |-> {}]

-----------------------------------------------------------------------------
(* The document *)

\* The endpoint checks of validateRouterInstanceDirectoryV1.
validEndpointV1(e) ==
    /\ e.addressType \in DOMAIN Canonical
    /\ validExactText(e.address) /\ validExactText(e.portName)
    /\ e.port \in 1 .. 65535 /\ e.protocol = TCP

validateRouterInstanceDirectoryV1(document) ==
    /\ Len(document.targets) <= TargetLimit
    /\ \A wire \in ToSet(document.targets) :
          /\ Len(wire.instances) <= InstanceLimit
          /\ \A i \in ToSet(wire.instances) :
                /\ validExactText(i.id)
                /\ Len(i.endpoints) \in 1 .. EndpointLimit
                /\ \A e \in ToSet(i.endpoints) : validEndpointV1(e)

\* DecodeRouterInstanceDirectoryV1 succeeds; "strict" stands for known members,
\* none of them twice, and nothing after the document.
Decodes(document) ==
    /\ document.strict /\ document.schemaVersion = "1"
    /\ validExactText(document.revision)
    /\ validateRouterInstanceDirectoryV1(document)

validAddress(e) == e.address \in Canonical[e.addressType]

\* instance: the wire instance is one the registry accepts.
instanceAcceptedV1(wire) ==
    /\ \A e \in ToSet(wire.endpoints) : validAddress(e) /\ e.protocol = TCP
    /\ instanceAccepted(wire)

\* releaseTarget
wireTargetAccepted(wire) == wire.target \in Targets

\* Mutant: a release may be listed more than once.
loadDocumentRepeated(content) ==
    CASE content = Missing -> "missing"
      [] content \notin Values -> "invalid"
      [] OTHER ->
          IF /\ Decodes(Document[content])
             /\ \A wire \in ToSet(Document[content].targets) :
                   /\ wireTargetAccepted(wire)
                   /\ \A i \in ToSet(wire.instances) : instanceAcceptedV1(i)
          THEN "ok" ELSE "invalid"

\* loadDocument, once the reader has answered: "ok", or the error.
loadDocument(content) ==
    LET wires == Document[content].targets IN
    CASE content = Missing -> "missing"
      [] content \notin Values -> "invalid"
      [] OTHER ->
          IF /\ Decodes(Document[content])
             /\ \A wire \in ToSet(wires) :
                   /\ wireTargetAccepted(wire)
                   /\ \A i \in ToSet(wire.instances) : instanceAcceptedV1(i)
             /\ \A i, j \in 1 .. Len(wires) :
                   i # j => ReleaseID[wires[i].target] # ReleaseID[wires[j].target]
          THEN "ok" ELSE "invalid"

\* The instances of the last entry that is the target's.
Matched(document, target) ==
    LET entries == SelectSeq(document.targets, LAMBDA wire : wire.target = target)
    IN IF entries = <<>> THEN {} ELSE {entries[Len(entries)].instances}

\* Directory.Snapshot of a document that is loaded.
DirectorySnapshot(document, target) ==
    IF Matched(document, target) = {} THEN [result |-> "missing"]
    ELSE LET wires == CHOOSE w \in Matched(document, target) : TRUE
             instances == [k \in 1 .. Len(wires) |-> NewInstance(wires[k])]
             state == IF wires = <<>> THEN "empty" ELSE "populated"
         IN IF snapshotAccepted(0, state, instances)
            THEN [result |-> "ok", snapshot |-> NewInstanceSnapshot(0, state, instances)]
            ELSE [result |-> "invalid"]

mapSourceError(code) ==
    CASE code = "missing" -> "missing"
      [] code \in {"invalid", "unsafe_state", "payload_too_large"} -> "invalid"
      [] code = "unauthorized" -> "unauthorized"
      [] code = "canceled" -> "canceled"
      [] code = "reader_closed" -> "closed"
      [] OTHER -> "unavailable"

-----------------------------------------------------------------------------
(* The calls *)

\* Reader.Get under the reader's lock: what it may answer.
Get ==
    LET content == source[DirectoryKey].value IN
    CASE reader.closed -> {"reader_closed"}
      [] ~reader.closed /\ reader.interrupted -> {"watch_interrupted"}
      [] OTHER -> {"canceled", "unavailable"}
                  \cup {IF content = Missing THEN "missing"
                        ELSE IF content \in Faults THEN content ELSE "ok"}

Answer(c, result, endpoint) ==
    calls' = [calls EXCEPT ![c].pc = "done", ![c].read = "none", ![c].result = result,
                           ![c].endpoint = endpoint]

\* SnapshotSelector.Select, or the readiness check, which names no target.
Call(c, target) ==
    /\ calls[c].pc \in {"idle", "done"}
    /\ calls' = [calls EXCEPT ![c] =
          [NoCall EXCEPT !.pc = "get", !.target = target,
                           !.seen = {source[DirectoryKey].value}]]

\* The reader has answered with an error, or with the content the leaf had.
CallReads(c) ==
    /\ calls[c].pc = "get"
    /\ \E code \in Get :
          IF code # "ok" THEN Answer(c, mapSourceError(code), {})
          ELSE calls' = [calls EXCEPT ![c].pc = "decode", ![c].read = source[DirectoryKey].value]

\* The content is decoded and the target looked for outside the reader's lock.
CallAnswered(c) ==
    LET content == calls[c].read
        target == calls[c].target
    IN  /\ calls[c].pc = "decode"
        /\ IF loadDocument(content) # "ok" \/ target = "none"
           THEN Answer(c, loadDocument(content), {})
           ELSE LET answer == DirectorySnapshot(Document[content], target)
                IN IF answer.result # "ok" THEN Answer(c, answer.result, {})
                   ELSE Answer(c, IF selectSnapshotTarget(answer.snapshot) = {}
                                  THEN "no_endpoint" ELSE "ok",
                               selectSnapshotTarget(answer.snapshot))

-----------------------------------------------------------------------------
DirectoryInit ==
    /\ Init
    /\ calls = [c \in Callers |-> NoCall]

\* The contents of the leaf are kept for the property.
Seen == calls' = [c \in Callers |-> IF calls[c].pc \notin {"get", "decode"} THEN calls[c]
                  ELSE [calls[c] EXCEPT !.seen = @ \cup {source'[DirectoryKey].value}]]

DirectoryNext ==
    \/ Next /\ Seen
    \/ \E c \in Callers, t \in Targets \cup {"none"} : Call(c, t) /\ UNCHANGED vars
    \/ \E c \in Callers : (CallReads(c) \/ CallAnswered(c)) /\ UNCHANGED vars

-----------------------------------------------------------------------------
\* The entries a document has for the release of a target.
Entries(content, target) ==
    {k \in 1 .. Len(Document[content].targets) :
        ReleaseID[Document[content].targets[k].target] = ReleaseID[target]}

Ready(instance) == instance.ready /\ instance.serving /\ ~instance.terminating

\* What a content says of a target, entry by entry.
Offers(content, target) ==
    {<<k, n, e>> \in (Entries(content, target) \X (1 .. InstanceLimit)
                      \X UNION {UNION {ToSet(i.endpoints) : i \in ToSet(w.instances)} :
                                   w \in ToSet(Document[content].targets)}) :
        LET instances == Document[content].targets[k].instances
        IN  /\ n \in 1 .. Len(instances) /\ Ready(instances[n])
            /\ e \in ToSet(instances[n].endpoints) /\ e.portName = PortName}

\* One document, whole, stands behind every answer of the Router's directory
\* (configdirectory/directory.go:23): the leaf had it while the call lasted, so
\* no call sees what was replaced before it.  An endpoint is the only ready one
\* which that document offers the release, in the only entry it has, and that
\* entry is of this very target.  "Missing" is true of the document, and a
\* readiness check passes only if no release is listed twice.
RoutesAreWhole ==
    \A c \in Callers : calls[c].pc = "done" /\ calls[c].result \in {"ok", "missing", "no_endpoint"} =>
        \E content \in calls[c].seen :
            LET target == calls[c].target
            IN IF content \notin Values THEN calls[c].result = "missing" /\ content = Missing
               ELSE CASE target = "none" ->
                           \A t \in Targets : Cardinality(Entries(content, t)) <= 1
                      [] target # "none" /\ calls[c].result = "ok" ->
                           /\ \A k \in Entries(content, target) :
                                 Document[content].targets[k].target = target
                           /\ \E k \in Entries(content, target), i \in 1 .. InstanceLimit,
                                  e \in calls[c].endpoint :
                                 Offers(content, target) = {<<k, i, e>>}
                           /\ Cardinality(Entries(content, target)) = 1
                      [] target # "none" /\ calls[c].result = "missing" ->
                           \A k \in Entries(content, target) :
                                 Document[content].targets[k].target # target
                      [] OTHER -> Cardinality(Offers(content, target)) # 1
=============================================================================
