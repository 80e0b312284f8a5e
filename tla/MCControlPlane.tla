--------------------------- MODULE MCControlPlane ---------------------------
(***************************************************************************)
(* The Control Plane's services on small instances.  The services meet in  *)
(* the facts of TrustFacts and CatalogFacts, on which their modules are    *)
(* built, so a behaviour is one of a single part, which the first state    *)
(* names; variables of other parts are Off.  "catalog" and "legacy" have    *)
(* one owner and many requests, "owners" rival owners; "pins" has many versions,         *)
(* "installs" rival installs, "grants" a Catalog that moves under them;    *)
(* "trace" reads the Router's Ledger through the Control Plane.            *)
(***************************************************************************)
EXTENDS Naturals, Sequences, FiniteSets, TLC

CONSTANTS Parts, CatalogCards, CatalogLegacy, CatalogBindings, Rivals, RivalCards, TrustRequests,
          CatalogRequests, Installers

VARIABLES part, req,
          provider, claim, binding, challenge, code, now,     \* trust
          version, release, clock, owner, bound,              \* catalog
          workspace, inst,                                    \* workspaces
          lock, tx, walk,                                     \* listings
          status, parent, row                                 \* traces

(* Values of the constants.  A constraint is a set of branches.             *)
LegacyFirst == <<"v1">>
NoneLegacy == <<>>
Pair == {"v1", "v2"}
PairAgent == [c \in Pair |-> "agent"]
PairRank == [c \in Pair |-> IF c = "v1" THEN 1 ELSE 2]
PairConstraints == {{[cards |-> Pair, pre |-> FALSE]}, {[cards |-> {"v1"}, pre |-> FALSE]}}
PairDeclared == [c \in Pair |-> IF c = "v1" THEN {"read"} ELSE {"read", "write"}]
PairRequired == [c \in Pair |-> IF c = "v1" THEN [search |-> {"read"}]
                                ELSE [search |-> {"read", "write"}, ping |-> {}]]
CatalogAgent == [c \in CatalogCards |-> "agent"]
RivalAgent == [c \in RivalCards |-> "agent"]
Lookups == {{"public"}, {"public", "private"}, {"private"}, {"lookup_error"}}

\* Two prereleases that differ in their build metadata only.
Versions == {"v2", "w2"}
LegacySecond == <<"v2">>
VersionAgent == [c \in Versions |-> "agent"]
VersionRank == [c \in Versions |-> 2]
VersionText == [c \in Versions |-> IF c = "v2" THEN 2 ELSE 3]
VersionConstraints == {{[cards |-> Versions, pre |-> TRUE]},
                       {[cards |-> {"v2"}, pre |-> FALSE], [cards |-> {"w2"}, pre |-> TRUE]}}
VersionDeclared == [c \in Versions |-> {}]
VersionRequired == [c \in Versions |-> [search |-> {}]]

One == {"v1"}
OneAgent == [c \in One |-> "agent"]
OneRank == [c \in One |-> 1]
OneConstraint == {{[cards |-> One, pre |-> FALSE]}}
OneDeclared == [c \in One |-> {}]
OneRequired == [c \in One |-> [search |-> {}]]

Listed == <<2, 1>>
Filters == {[match |-> 1..3, limit |-> 1], [match |-> {2, 3}, limit |-> 1]}
-----------------------------------------------------------------------------
T == INSTANCE Trust WITH
        Requests <- TrustRequests, Callers <- {"u1", "u2"}, Providers <- {"p1"},
        Cards <- Pair, AgentOf <- PairAgent, Evidence <- {1, 2}, MaxBindings <- 2,
        MaxChallenges <- 2, MaxTime <- 1, ChallengeTTL <- 1, AllowedPrivateHosts <- {"v2"},
        Answers <- {"unavailable"}

C == INSTANCE Catalog WITH
        Requests <- CatalogRequests, Callers <- {"u1"}, Providers <- {"p1"},
        Cards <- CatalogCards, LegacyPublished <- CatalogLegacy, AgentOf <- CatalogAgent,
        Evidence <- {1, 2}, MaxBindings <- CatalogBindings

E == INSTANCE Catalog WITH
        Requests <- CatalogRequests, Callers <- {"u1"}, Providers <- {"p1"},
        Cards <- One, LegacyPublished <- LegacyFirst, AgentOf <- OneAgent,
        Evidence <- {1}, MaxBindings <- 1

O == INSTANCE Catalog WITH
        Requests <- {"o1"}, Callers <- Rivals, Providers <- Rivals, Cards <- RivalCards,
        LegacyPublished <- NoneLegacy, AgentOf <- RivalAgent, Evidence <- {1}, MaxBindings <- 2

P == INSTANCE Workspace WITH
        Cards <- Versions, LegacyPublished <- LegacySecond, AgentOf <- VersionAgent,
        Precedence <- VersionRank, Text <- VersionText, Prerelease <- Versions,
        Constraints <- VersionConstraints, Declared <- VersionDeclared,
        Required <- VersionRequired, Capabilities <- {"search"}, Permissions <- {},
        Workspaces <- {"w"}, Callers <- {"u1"}, Requests <- {"i1"}, Times <- {1},
        MaxInstallations <- 1, MaxUpdated <- 1

I == INSTANCE Workspace WITH
        Cards <- One, LegacyPublished <- LegacyFirst, AgentOf <- OneAgent,
        Precedence <- OneRank, Text <- OneRank, Prerelease <- {}, Constraints <- OneConstraint,
        Declared <- OneDeclared, Required <- OneRequired, Capabilities <- {"search"},
        Permissions <- {}, Workspaces <- {"w"}, Callers <- {"u1", "u2"},
        Requests <- Installers, Times <- {1}, MaxInstallations <- 2, MaxUpdated <- 3

G == INSTANCE Workspace WITH
        Cards <- Pair, LegacyPublished <- LegacyFirst, AgentOf <- PairAgent,
        Precedence <- PairRank, Text <- PairRank, Prerelease <- {},
        Constraints <- PairConstraints, Declared <- PairDeclared, Required <- PairRequired,
        Capabilities <- {"search"}, Permissions <- {"read", "write"}, Workspaces <- {"w"},
        Callers <- {"u1"}, Requests <- {"g1"}, Times <- {1}, MaxInstallations <- 1,
        MaxUpdated <- 3

D == INSTANCE Discovery WITH
        Cards <- 1..3, Writers <- {"t1", "t2"}, Times <- {1, 2}, MaxSequence <- 4

L == INSTANCE InstallationList WITH
        Installations <- 1..3, Workspaces <- {"w1", "w2"}, Times <- {1, 2}, Limits <- {1, 2}

R == INSTANCE Trace WITH
        Invocations <- 1..3, NoParent <- 0, Times <- {1, 2}, MetadataLimit <- 2

ASSUME WorkspaceConstants == P!WorkspaceConstants /\ I!WorkspaceConstants /\ G!WorkspaceConstants

ASSUME TrustConstants == T!TrustConstants

Vars == <<part, req, provider, claim, binding, challenge, code, now, version, release, clock,
          owner, bound, workspace, inst, lock, tx, walk, status, parent, row>>

\* Requests, rival owners and their cards differ only in their names.  Different
\* parts may use the same names.
Symmetry == Permutations(TrustRequests) \cup Permutations(CatalogRequests) \cup Permutations(Rivals)
            \cup Permutations(RivalCards) \cup Permutations(Installers)
-----------------------------------------------------------------------------
(* One part at a time *)

WorkspaceParts == {"pins", "installs", "grants"}
CatalogParts == {"catalog", "legacy", "owners"}

Off(owners, v) == IF part \in owners THEN TRUE ELSE v = "off"

Init ==
    /\ part \in Parts
    /\ CASE part = "trust" -> T!Init
         [] part = "catalog" -> C!Init
         [] part = "legacy" -> E!Init
         [] part = "owners" -> O!Init
         [] part = "pins" -> P!Init
         [] part = "installs" -> I!Init
         [] part = "grants" -> G!Init
         [] part = "discovery" -> D!Init
         [] part = "list" -> L!Init
         [] part = "trace" -> R!Init
    /\ Off({"trust"} \cup CatalogParts \cup WorkspaceParts, req)
    /\ Off({"trust"} \cup CatalogParts, provider)
    /\ Off({"trust"} \cup CatalogParts, claim)
    /\ Off({"trust"} \cup CatalogParts, binding)
    /\ Off({"trust"}, challenge) /\ Off({"trust"}, code) /\ Off({"trust"}, now)
    /\ Off(CatalogParts \cup WorkspaceParts \cup {"discovery"}, version)
    /\ Off(CatalogParts \cup WorkspaceParts, release)
    /\ Off(CatalogParts \cup WorkspaceParts \cup {"discovery"}, clock)
    /\ Off(CatalogParts, owner) /\ Off(CatalogParts, bound)
    /\ Off(WorkspaceParts, workspace) /\ Off(WorkspaceParts \cup {"list"}, inst)
    /\ Off({"discovery"}, lock) /\ Off({"discovery"}, tx) /\ Off({"discovery", "list"}, walk)
    /\ Off({"trace"}, status) /\ Off({"trace"}, parent) /\ Off({"trace"}, row)

notTrust == <<version, release, clock, owner, bound, workspace, inst, lock, tx, walk>>
notCatalog == <<challenge, code, now, workspace, inst, lock, tx, walk>>
notWorkspace == <<provider, claim, binding, challenge, code, now, owner, bound, lock, tx, walk>>
notListing == <<req, provider, claim, binding, challenge, code, now, release, owner, bound, workspace>>
notRead == <<version, clock, inst, lock, tx, walk>>
traces == <<status, parent, row>>

Next ==
    /\ UNCHANGED part
    /\ part # "trace" => UNCHANGED traces
    /\ \/ part = "trust" /\ T!Next /\ UNCHANGED notTrust
       \/ part = "catalog" /\ C!Next /\ UNCHANGED notCatalog
       \/ part = "legacy" /\ E!Next /\ UNCHANGED notCatalog
       \/ part = "owners" /\ O!Next /\ UNCHANGED notCatalog
       \/ part = "pins" /\ P!Next /\ UNCHANGED notWorkspace
       \/ part = "installs" /\ I!Next /\ UNCHANGED notWorkspace
       \/ part = "grants" /\ G!Next /\ UNCHANGED notWorkspace
       \/ part = "discovery" /\ D!Next /\ UNCHANGED <<notListing, inst>>
       \/ part = "list" /\ L!Next /\ UNCHANGED <<notListing, version, clock, lock, tx>>
       \/ part = "trace" /\ R!Next /\ UNCHANGED <<notListing, notRead>>

Spec == Init /\ [][Next]_Vars
-----------------------------------------------------------------------------
(* A binding is verified only by a completion that fetched the proof of a   *)
(* challenge of this binding from an admitted address, before the challenge *)
(* expired, and that used it up (TrustService.CompleteChallenge).           *)
VerifiedByTimelyProof == part = "trust" => T!VerifiedByTimelyProof

(* The evidence of a release is that of its own binding, made for the same  *)
(* version by the same provider, and all releases of an Agent are of one    *)
(* provider, whoever else binds and releases at the same time.              *)
EvidenceIsBindings ==
    /\ part = "catalog" => C!EvidenceIsBindings
    /\ part = "owners" => O!EvidenceIsBindings /\ O!OneProviderPerAgent

(* A release is published only by a request inside which there was a moment *)
(* when the release and its provider were verified and its binding was      *)
(* verified with the evidence of the release; the row published is the one  *)
(* that was checked (PublishRelease).                                       *)
PublishLinearizes ==
    [][/\ part = "catalog" => C!PublishLinearizesStep
       /\ part = "legacy" => E!PublishLinearizesStep
       /\ part = "owners" => O!PublishLinearizesStep]_Vars

(* A workspace has at most one enabled or disabled installation of an       *)
(* Agent, however many installs passed the first check at the same time.    *)
OneCurrent == part = "installs" => I!OneCurrent

(* An installation pins the highest candidate that satisfies the            *)
(* constraint, by precedence and then by byte order; a version that fails   *)
(* the release gate is never replaced by a lower one.                       *)
PinsHighest ==
    [][(part = "pins" => P!PinsHighestStep) /\ (part = "grants" => G!PinsHighestStep)]_Vars

(* A grant had a moment inside the request when all of it was true at once: *)
(* the installation was enabled and its exact version was published, with   *)
(* its release published or as a marked legacy version.                     *)
GrantLinearizes == part = "grants" => G!GrantLinearizes

(* A paged traversal of Discovery or of the installations shows no row      *)
(* twice, none that does not belong, and every row that stayed in place.    *)
(* The read of a Trace shows every Invocation of it once and a parent       *)
(* before its children, or fails when the answer is above metadataLimit.    *)
ListingsAreExact ==
    /\ part = "discovery" => D!WalkIsExact
    /\ part = "list" => L!ListIsExact
    /\ part = "trace" => R!TraceIsExact

(* A published release is on a published version.  installabilityError and  *)
(* validateReleaseEligibility answer anything else with a dependency error, *)
(* and Store.transition refuses a version that has a release.               *)
PublishedReleaseIsVisible == part = "catalog" => C!PublishedReleaseIsVisible
=============================================================================
