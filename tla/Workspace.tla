----------------------------- MODULE Workspace -----------------------------
(***************************************************************************)
(* Workspaces and installations: workspace.Service over the transactions   *)
(* of workspace/postgres/store.go, reading the Catalog (CatalogFacts)      *)
(* through Service.SelectInstallable and Service.GetVersion.               *)
(*                                                                         *)
(* The handlers of gateway/workspace_handler.go admit any authenticated    *)
(* caller and any well-formed body.                                        *)
(*                                                                         *)
(* A request is a slot of req.  Every read of the Workspace tables, every  *)
(* read of the Catalog and every transaction is a step of its own, so that *)
(* the Catalog and other requests move in between.  A granted answer stays *)
(* in its slot until the slot is used again.  Timestamps are integers, in  *)
(* microseconds; every request takes its time from the clock of whatever   *)
(* replica serves it, so times are arbitrary.                              *)
(***************************************************************************)
EXTENDS CatalogFacts, FiniteSets

CONSTANTS
    AgentOf,            \* AgentOf[card]
    Precedence, Text,   \* SemVer precedence and byte order of the version string
    Prerelease,         \* cards whose version has a prerelease part
    Constraints,        \* sets of branches [cards: what satisfies it, pre: names a prerelease]
    Declared,           \* Declared[card]: permissions of the card
    Required,           \* Required[card][capability]; its domain are the skills
    Capabilities, Permissions,
    Workspaces, Callers, Requests,
    Times,              \* readings of the replicas' clocks
    MaxInstallations,   \* bound on the installation rows
    MaxUpdated          \* bound on updated_at

VARIABLES
    workspace,          \* workspace[w]: set holding the owner_id
    inst,               \* rows of workspace.installations; the index is the id
    req

workspaceVars == <<version, release, clock, workspace, inst, req>>

Agents == {AgentOf[c] : c \in Cards}

(* What the constants have to be: "none" is no version.                    *)
WorkspaceConstants ==
    /\ IsFiniteSet(Cards) /\ "none" \notin Cards
    /\ Precedence \in [Cards -> Nat] /\ Text \in [Cards -> Nat]
    /\ Times \subseteq Nat /\ LegacyPublished \in Seq(Cards)

Idle == [op |-> "none", pc |-> "start", w |-> "none", a |-> "none", c |-> "none",
         constraint |-> {}, perms |-> {}, cap |-> "none", i |-> 0, trusted |-> FALSE,
         valid |-> FALSE]

Init ==
    /\ CatalogFactsInit
    /\ workspace = [w \in Workspaces |-> {}]
    /\ inst = <<>>
    /\ req = [r \in Requests |-> Idle]

(* The request is answered and the slot is free.  The answer is not state:  *)
(* it may be a success, a refusal, or a dependency error after a COMMIT     *)
(* that took effect although it failed.                                     *)
End(r) == req' = [req EXCEPT ![r] = Idle]

Current(w, a) == {i \in DOMAIN inst : inst[i].w = w /\ inst[i].a = a
                                        /\ inst[i].status # "uninstalled"}

HasCurrentInstallation(w, a) == Current(w, a) # {}

(* CreateWorkspace: the primary key decides between concurrent creations.   *)
CreateWorkspace(w, caller) ==
    /\ workspace[w] = {}
    /\ workspace' = [workspace EXCEPT ![w] = {caller}]
    /\ UNCHANGED <<version, release, clock, inst, req>>

CatalogStep ==
    /\ CatalogFactsNext
    /\ UNCHANGED <<workspace, inst, req>>

-----------------------------------------------------------------------------
(* What Catalog says of a version: "" is no error.                          *)
installabilityError(c) ==
    CASE release[c] = "absent" ->
            IF version[c].legacy /\ version[c].status = "published" THEN "" ELSE "ErrReleaseUnpublished"
      [] release[c] = "published" -> IF version[c].status = "published" THEN "" ELSE "ErrDependency"
      [] release[c] = "suspended" -> "ErrReleaseSuspended"
      [] release[c] = "revoked" -> "ErrReleaseRevoked"
      [] OTHER -> "ErrReleaseUnpublished"

\* Mutant: an installation of a release follows the version row alone.
EligibleByStatus(c, trusted) ==
    IF version[c].status # "draft" THEN "" ELSE "ErrAgentDisabled"

(* trusted: the installation pins the release of the version.               *)
validateReleaseEligibility(c, trusted) ==
    CASE ~trusted /\ version[c].status # "published" -> "ErrAgentDisabled"
      [] ~trusted /\ version[c].status = "published" ->
            IF version[c].legacy THEN "" ELSE "ErrReleaseUnpublished"
      [] trusted /\ release[c] = "absent" -> "ErrDependency"
      [] OTHER -> installabilityError(c)

InstallationCandidates(a) ==
    {c \in Cards : AgentOf[c] = a /\ version[c].status # "absent"
                    /\ (version[c].status = "published" \/ release[c] # "absent")}

\* The rows of the query, ORDER BY version COLLATE "C".
CandidateRows(a) ==
    LET candidates == InstallationCandidates(a) IN
    {rows \in [1 .. Cardinality(candidates) -> candidates] :
        \A i, j \in DOMAIN rows : i < j => Text[rows[i]] < Text[rows[j]]}

constraintBranchAllowsVersion(k, c) ==
    c \in Prerelease => \E branch \in k : c \in branch.cards /\ branch.pre

Satisfies(k, c) ==
    (\E branch \in k : c \in branch.cards) /\ constraintBranchAllowsVersion(k, c)

Better(best, c) ==
    \/ best = "none"
    \/ Precedence[c] > Precedence[best]
    \/ Precedence[c] = Precedence[best] /\ Text[c] > Text[best]

\* Mutant: versions that cannot be installed are passed over.
SelectEligible(rows, k) ==
    LET selected[n \in 0 .. Len(rows)] ==
            IF n = 0 THEN "none"
            ELSE IF /\ Satisfies(k, rows[n]) /\ installabilityError(rows[n]) = ""
                    /\ Better(selected[n - 1], rows[n])
            THEN rows[n] ELSE selected[n - 1]
    IN selected[Len(rows)]

(* SelectInstallable: the loop over the candidates.                         *)
SelectInstallable(rows, k) ==
    LET selected[n \in 0 .. Len(rows)] ==
            IF n = 0 THEN "none"
            ELSE IF Satisfies(k, rows[n]) /\ Better(selected[n - 1], rows[n])
            THEN rows[n] ELSE selected[n - 1]
    IN selected[Len(rows)]

-----------------------------------------------------------------------------
(* Install: owner and current installation are read, then the Catalog       *)
(* selects, then the row is inserted with the workspace row locked.         *)
BeginInstall(r, w, caller, a, k, perms) ==
    /\ req[r].pc \in {"start", "granted"}
    /\ IF caller \in workspace[w] /\ ~HasCurrentInstallation(w, a)
       THEN req' = [req EXCEPT ![r] = [Idle EXCEPT
                !.op = "install", !.pc = "select", !.w = w, !.a = a,
                !.constraint = k, !.perms = perms]]
       ELSE End(r)
    /\ UNCHANGED <<version, release, clock, workspace, inst>>

Select(r) ==
    /\ req[r].pc = "select"
    /\ \E rows \in CandidateRows(req[r].a) :
        LET c == SelectInstallable(rows, req[r].constraint) IN
        IF c = "none" THEN End(r)
        ELSE IF \/ installabilityError(c) # ""
                \/ validateReleaseEligibility(c, release[c] # "absent") # ""
                \/ ~(req[r].perms \subseteq Declared[c])
        THEN End(r)
        ELSE req' = [req EXCEPT ![r].pc = "insert", ![r].c = c,
                                ![r].trusted = release[c] # "absent"]
    /\ UNCHANGED <<version, release, clock, workspace, inst>>

\* The row that Install builds.
Installed(q, at) ==
    [w |-> q.w, a |-> q.a, c |-> q.c, trusted |-> q.trusted, perms |-> q.perms,
     status |-> "enabled", installed |-> at, updated |-> at]

\* Mutant: the check made before the selection is trusted.
InsertUnchecked(r, at) ==
    /\ req[r].pc = "insert"
    /\ Len(inst) < MaxInstallations
    /\ inst' = Append(inst, Installed(req[r], at))
    /\ End(r)
    /\ UNCHANGED <<version, release, clock, workspace>>

CreateInstallation(r, at) ==
    /\ req[r].pc = "insert"
    /\ IF Current(req[r].w, req[r].a) = {}
       THEN /\ Len(inst) < MaxInstallations
            /\ inst' = Append(inst, Installed(req[r], at))
       ELSE inst' = inst
    /\ End(r)
    /\ UNCHANGED <<version, release, clock, workspace>>

nextLifecycleTime(previous, candidate) ==
    IF candidate > previous THEN candidate ELSE previous + 1

(* UpdateInstallation and Uninstall: the owner never changes, so its read   *)
(* joins the transaction that locks the row; a refusal changes nothing.     *)
Move(i, status, at) ==
    /\ nextLifecycleTime(inst[i].updated, at) <= MaxUpdated
    /\ inst' = [inst EXCEPT ![i].status = status,
                            ![i].updated = nextLifecycleTime(@, at)]
    /\ UNCHANGED <<version, release, clock, workspace, req>>

ChangeInstallationStatus(i, caller, status, at) ==
    /\ caller \in workspace[inst[i].w]
    /\ <<inst[i].status, status>> \in {<<"enabled", "disabled">>, <<"disabled", "enabled">>}
    /\ Move(i, status, at)

UninstallInstallation(i, caller, at) ==
    /\ caller \in workspace[inst[i].w]
    /\ inst[i].status = "disabled"
    /\ Move(i, "uninstalled", at)

-----------------------------------------------------------------------------
(* Whether an installation may be used now: a property-side definition, by  *)
(* what the version and its release are.                                    *)
Usable(c, trusted) ==
    /\ version[c].status = "published"
    /\ IF trusted THEN release[c] = "published" ELSE version[c].legacy

(* AuthorizeInvocation, ResolveInstalledVersion and Resolve read the        *)
(* current installation, then the version.  Resolve names an exact version  *)
(* and is refused when another one is installed.  "valid" records whether   *)
(* the version was usable when the installation was read.                   *)
BeginGrant(r, op, w, caller, c, a, cap) ==
    /\ req[r].pc \in {"start", "granted"}
    /\ workspace[w] # {}
    /\ op = "authorize" => caller \in workspace[w]
    /\ LET rows == {i \in Current(w, a) : inst[i].status = "enabled"
                                            /\ (op = "resolve" => inst[i].c = c)}
       IN IF rows = {} THEN End(r)
          ELSE LET i == CHOOSE i \in rows : TRUE IN
               req' = [req EXCEPT ![r] = [Idle EXCEPT
                    !.op = op, !.pc = "check", !.w = w, !.a = a, !.c = inst[i].c, !.cap = cap,
                    !.i = i, !.trusted = inst[i].trusted,
                    !.valid = Usable(inst[i].c, inst[i].trusted)]]
    /\ UNCHANGED <<version, release, clock, workspace, inst>>

containsAll(accepted, required) == required \subseteq accepted

resolveAuthorizedInvocation(r) ==
    LET c == req[r].c IN
    /\ req[r].pc = "check"
    /\ IF /\ validateReleaseEligibility(c, req[r].trusted) = ""
          /\ req[r].cap \in DOMAIN Required[c]
          /\ containsAll(inst[req[r].i].perms, Required[c][req[r].cap])
       THEN req' = [req EXCEPT ![r].pc = "granted"]
       ELSE End(r)
    /\ UNCHANGED <<version, release, clock, workspace, inst>>

(* The database is unreachable or the context ended before COMMIT: nothing  *)
(* is written.  With COMMIT in doubt, the row of CreateInstallation is      *)
(* there and the request is over, which is that action.                     *)
StoreFails(r) ==
    /\ req[r].pc \in {"select", "insert", "check"}
    /\ End(r)
    /\ UNCHANGED <<version, release, clock, workspace, inst>>

(* The routes.                                                              *)
createWorkspace == \E w \in Workspaces, u \in Callers : CreateWorkspace(w, u)

install(r) ==
    \E w \in Workspaces, u \in Callers, a \in Agents, k \in Constraints, p \in SUBSET Permissions :
        BeginInstall(r, w, u, a, k, p)

updateInstallation ==
    \E i \in DOMAIN inst, u \in Callers, at \in Times, s \in {"enabled", "disabled"} :
        ChangeInstallationStatus(i, u, s, at)

uninstall ==
    \E i \in DOMAIN inst, u \in Callers, at \in Times : UninstallInstallation(i, u, at)

authorizeInvocation(r) ==
    \E w \in Workspaces, u \in Callers, a \in Agents, cap \in Capabilities :
        BeginGrant(r, "authorize", w, u, "none", a, cap)

resolveAgent(r) ==
    \E w \in Workspaces, c \in Cards, cap \in Capabilities :
        BeginGrant(r, "resolve", w, "router", c, AgentOf[c], cap)

resolveInstalledVersion(r) ==
    \E w \in Workspaces, a \in Agents, cap \in Capabilities :
        BeginGrant(r, "installed_version", w, "router", "none", a, cap)

Next ==
    \/ createWorkspace
    \/ CatalogStep
    \/ updateInstallation
    \/ uninstall
    \/ \E r \in Requests :
        \/ install(r)
        \/ authorizeInvocation(r)
        \/ resolveAgent(r)
        \/ resolveInstalledVersion(r)
        \/ Select(r)
        \/ \E at \in Times : CreateInstallation(r, at)
        \/ resolveAuthorizedInvocation(r)
        \/ StoreFails(r)

Spec == Init /\ [][Next]_workspaceVars
-----------------------------------------------------------------------------
(* A workspace has at most one enabled or disabled installation of an       *)
(* Agent, however many installs passed the first check at the same time.    *)
OneCurrent == \A w \in Workspaces, a \in Agents : Cardinality(Current(w, a)) <= 1

(* An installation pins the highest candidate that satisfies the            *)
(* constraint, by precedence and then by byte order; a version that fails   *)
(* the release gate is never replaced by a lower one.                       *)
PinsHighestStep ==
    \A r \in Requests : req[r].pc = "select" /\ req'[r].pc = "insert" =>
        LET k == req[r].constraint
            c == req'[r].c IN
        /\ Satisfies(k, c) /\ Usable(c, req'[r].trusted)
        /\ \A d \in InstallationCandidates(req[r].a) : Satisfies(k, d) /\ d # c =>
            \/ Precedence[d] < Precedence[c]
            \/ Precedence[d] = Precedence[c] /\ Text[d] < Text[c]

PinsHighest == [][PinsHighestStep]_workspaceVars

(* A grant had a moment inside the request when all of it was true at once: *)
(* the installation was enabled and its exact version was published, with   *)
(* its release published or as a marked legacy version.  Installation and   *)
(* version are read at two different times; that there is such a moment     *)
(* rests on the Catalog never bringing a version back.                      *)
GrantLinearizes == \A r \in Requests : req[r].pc = "granted" => req[r].valid
=============================================================================
