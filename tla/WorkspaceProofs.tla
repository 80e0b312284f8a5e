------------------------- MODULE WorkspaceProofs -------------------------
(***************************************************************************)
(* Proofs about module Workspace, for any number of requests, workspaces,  *)
(* versions and installations.  The invariant WorkspaceInv says that no    *)
(* two current installations share a workspace and an Agent, and that what *)
(* a request or an installation holds of the Catalog can only get worse:   *)
(* a version once installable is disabled or its release taken back, and   *)
(* then never usable again.  The selection loop is shown, by the least     *)
(* counterexample, to find the highest row.                                *)
(***************************************************************************)
EXTENDS Workspace, WellFoundedInduction, FiniteSetTheorems, TLAPS

\* Induction on naturals, by the least counterexample.
LEMMA LeastNumber ==
    ASSUME NEW S \in SUBSET Nat, S # {}
    PROVE  \E n \in S : \A m \in S : n <= m
<1> DEFINE Less == OpToRel(<, Nat)
<1>1. \A m, n \in Nat : m < n => <<m, n>> \in Less
  BY Zenon DEF OpToRel
<1>2. \E n \in S : \A m \in S : ~(<<m, n>> \in Less)
  BY NatLessThanWellFounded, WFMin, Zenon
<1> HIDE DEF Less
<1>3. PICK n \in S : \A m \in S : ~(<<m, n>> \in Less)
  BY <1>2, Zenon
<1>4. ASSUME NEW m \in S PROVE n <= m
  <2>1. n \in Nat /\ m \in Nat
    BY Zenon
  <2>2. ~(m < n)
    BY <1>1, <1>3, <2>1, Zenon
  <2> QED
    BY <2>1, <2>2
<1> QED
  BY <1>3, <1>4, Zenon

\* The loop of SelectInstallable as a function of the number of rows seen.
Loop(rows, k, f) ==
    f = [n \in 0 .. Len(rows) |->
            IF n = 0 THEN "none"
            ELSE IF Satisfies(k, rows[n]) /\ Better(f[n - 1], rows[n])
            THEN rows[n] ELSE f[n - 1]]

LEMMA LoopExists ==
    ASSUME NEW rows, NEW k, Len(rows) \in Nat
    PROVE  \E f : Loop(rows, k, f)
<1> DEFINE Upto(n, f) == f = [m \in 0 .. n |->
                IF m = 0 THEN "none"
                ELSE IF Satisfies(k, rows[m]) /\ Better(f[m - 1], rows[m])
                THEN rows[m] ELSE f[m - 1]]
           Bad == {n \in Nat : ~\E f : Upto(n, f)}
<1>1. ASSUME NEW n \in Nat, n # 0, NEW g, Upto(n - 1, g)
      PROVE  \E f : Upto(n, f)
  <2> DEFINE last == IF Satisfies(k, rows[n]) /\ Better(g[n - 1], rows[n]) THEN rows[n] ELSE g[n - 1]
             h == [m \in 0 .. n |-> IF m = n THEN last ELSE g[m]]
  <2> HIDE DEF last
  <2>1. \A m \in 0 .. n - 1 : h[m] = g[m]
    OBVIOUS
  <2>2. h[n] = last
    OBVIOUS
  <2>3. \A m \in 0 .. n - 1 : m # 0 => m - 1 \in 0 .. n - 1
    OBVIOUS
  <2>4. Upto(n, h)
    BY <1>1, <2>1, <2>2, <2>3 DEF last
  <2> QED BY <2>4, Zenon
<1>2. Upto(0, [m \in 0 .. 0 |-> "none"])
  OBVIOUS
<1>3. Bad = {}
  <2> SUFFICES ASSUME Bad # {} PROVE FALSE OBVIOUS
  <2>1. PICK n \in Bad : \A m \in Bad : n <= m
    BY LeastNumber, Zenon
  <2>2. n # 0 BY <1>2, <2>1
  <2>3. n - 1 \in Nat /\ n - 1 \notin Bad BY <2>1, <2>2
  <2> QED BY <1>1, <2>1, <2>2, <2>3, Zenon
<1> QED BY <1>3, Zenon DEF Loop

LEMMA SelectIsLoop ==
    ASSUME NEW rows, NEW k, Len(rows) \in Nat
    PROVE  \E f : Loop(rows, k, f) /\ SelectInstallable(rows, k) = f[Len(rows)]
<1> DEFINE f == CHOOSE g : Loop(rows, k, g)
<1>1. Loop(rows, k, f)
  BY LoopExists, Zenon
<1>2. SelectInstallable(rows, k) = f[Len(rows)]
  BY Zenon DEF SelectInstallable, Loop
<1> QED
  BY <1>1, <1>2, Zenon

\* c goes before d.
Below(d, c) == \/ Precedence[d] < Precedence[c]
               \/ Precedence[d] = Precedence[c] /\ Text[d] < Text[c]

\* What the loop of SelectInstallable has found after n rows.
Found(rows, k, best, n) ==
    \/ /\ best = "none"
       /\ \A j \in 1 .. n : ~Satisfies(k, rows[j])
    \/ /\ best \in Cards
       /\ Satisfies(k, best)
       /\ \E i \in 1 .. n : rows[i] = best
       /\ \A j \in 1 .. n : Satisfies(k, rows[j]) => rows[j] = best \/ Below(rows[j], best)

LEMMA LoopStep ==
    ASSUME WorkspaceConstants, NEW rows, NEW k, NEW best, NEW n \in Nat,
           \A i \in 1 .. n + 1 : rows[i] \in Cards,
           \A i \in 1 .. n : Text[rows[i]] < Text[rows[n + 1]],
           Found(rows, k, best, n)
    PROVE  Found(rows, k, IF Satisfies(k, rows[n + 1]) /\ Better(best, rows[n + 1])
                          THEN rows[n + 1] ELSE best, n + 1)
<1> DEFINE c == rows[n + 1]
<1>1. c \in Cards /\ c # "none"
  BY DEF WorkspaceConstants
<1>2. \A j \in 1 .. n + 1 : j \in 1 .. n \/ j = n + 1
  OBVIOUS
<1>3. \A d \in Cards : Precedence[d] \in Nat /\ Text[d] \in Nat
  BY Zenon DEF WorkspaceConstants
<1>4. CASE ~Satisfies(k, c)
  BY <1>1, <1>2, <1>4 DEF Found
<1>5. CASE Satisfies(k, c) /\ best = "none"
  <2>1. \A j \in 1 .. n : ~Satisfies(k, rows[j])
    BY <1>5, Zenon DEF Found, WorkspaceConstants
  <2>2. Better(best, c)
    BY <1>5, Zenon DEF Better
  <2> QED
    BY <1>1, <1>2, <1>5, <2>1, <2>2 DEF Found
<1>6. CASE Satisfies(k, c) /\ best # "none"
  <2>1. PICK i \in 1 .. n : rows[i] = best
    BY <1>6, Zenon DEF Found
  <2>2. best \in Cards /\ Satisfies(k, best) /\ Text[best] < Text[c]
    BY <1>6, <2>1, Zenon DEF Found
  <2>3. \A j \in 1 .. n : Satisfies(k, rows[j]) => rows[j] = best \/ Below(rows[j], best)
    BY <1>6, Zenon DEF Found
  <2>4. CASE Better(best, c)
    <3>1. Below(best, c)
      BY <1>6, <2>4, Zenon DEF Better, Below
    <3>2. \A j \in 1 .. n : Satisfies(k, rows[j]) => Below(rows[j], c)
      BY <1>1, <1>3, <2>2, <2>3, <3>1 DEF Below
    <3> QED
      BY <1>1, <1>2, <1>6, <2>4, <3>2 DEF Found
  <2>5. CASE ~Better(best, c)
    <3>1. Below(c, best)
      BY <1>1, <1>3, <1>6, <2>2, <2>5 DEF Better, Below
    <3> QED
      BY <1>2, <2>1, <2>2, <2>3, <2>5, <3>1 DEF Found
  <2> QED
    BY <2>4, <2>5, Zenon
<1> QED
  BY <1>4, <1>5, <1>6, Zenon

\* The loop finds the highest row that satisfies the constraint.
LEMMA SelectPicks ==
    ASSUME WorkspaceConstants, NEW rows, NEW k, NEW L \in Nat, Len(rows) = L,
           \A i \in 1 .. L : rows[i] \in Cards,
           \A i, j \in 1 .. L : i < j => Text[rows[i]] < Text[rows[j]]
    PROVE  Found(rows, k, SelectInstallable(rows, k), L)
<1>1. PICK f : Loop(rows, k, f) /\ SelectInstallable(rows, k) = f[L]
  BY SelectIsLoop, Zenon
<1>2. f[0] = "none" /\ \A n \in 0 .. L : n # 0 =>
          f[n] = IF Satisfies(k, rows[n]) /\ Better(f[n - 1], rows[n]) THEN rows[n] ELSE f[n - 1]
  BY <1>1 DEF Loop
<1> DEFINE Bad == {n \in 0 .. L : ~Found(rows, k, f[n], n)}
<1>3. Bad = {}
  <2> SUFFICES ASSUME Bad # {} PROVE FALSE
    BY Zenon
  <2>1. Bad \in SUBSET Nat
    OBVIOUS
  <2> HIDE DEF Bad
  <2>2. PICK n \in Bad : \A m \in Bad : n <= m
    BY <2>1, LeastNumber, Zenon
  <2>3. n \in 0 .. L /\ ~Found(rows, k, f[n], n)
    BY <2>2, Zenon DEF Bad
  <2>4. n # 0
    BY <1>2, <2>3 DEF Found
  <2>5. n - 1 \in 0 .. L /\ ~(n <= n - 1)
    BY <2>3, <2>4
  <2>6. Found(rows, k, f[n - 1], n - 1)
    BY <2>2, <2>5, Zenon DEF Bad
  <2>7. n - 1 \in Nat /\ (n - 1) + 1 = n /\ n \in 1 .. L /\ n - 1 \in 0 .. L
    BY <2>3, <2>4
  <2>8. /\ \A i \in 1 .. n : rows[i] \in Cards
        /\ \A i \in 1 .. n - 1 : Text[rows[i]] < Text[rows[n]]
    BY <2>7
  <2>9. Found(rows, k, IF Satisfies(k, rows[n]) /\ Better(f[n - 1], rows[n])
                       THEN rows[n] ELSE f[n - 1], n)
    <3> DEFINE m == n - 1
    <3>1. m \in Nat /\ m + 1 = n
      BY <2>7, Zenon
    <3>2. \A i \in 1 .. m + 1 : rows[i] \in Cards
      BY <2>8, <3>1, Zenon
    <3>3. \A i \in 1 .. m : Text[rows[i]] < Text[rows[m + 1]]
      BY <2>8, <3>1, Zenon
    <3>4. Found(rows, k, f[m], m)
      BY <2>6, Zenon
    <3> HIDE DEF m
    <3>5. Found(rows, k, IF Satisfies(k, rows[m + 1]) /\ Better(f[m], rows[m + 1])
                       THEN rows[m + 1] ELSE f[m], m + 1)
      BY <3>1, <3>2, <3>3, <3>4, LoopStep, Zenon
    <3> QED
      BY <3>1, <3>5, Zenon DEF m
  <2> QED
    BY <1>2, <2>3, <2>4, <2>9, Zenon
<1> QED
  BY <1>1, <1>3

\* The query returns every candidate of the Agent, in order.
LEMMA RowsAreCandidates ==
    ASSUME WorkspaceConstants, NEW a, NEW rows \in CandidateRows(a)
    PROVE  /\ Len(rows) \in Nat
           /\ \A i \in 1 .. Len(rows) : rows[i] \in InstallationCandidates(a)
           /\ \A i, j \in 1 .. Len(rows) : i < j => Text[rows[i]] < Text[rows[j]]
           /\ \A c \in InstallationCandidates(a) : \E i \in 1 .. Len(rows) : rows[i] = c
<1> DEFINE S == InstallationCandidates(a)
           N == Cardinality(S)
<1>1. S \in SUBSET Cards
  BY Zenon DEF InstallationCandidates
<1>2. IsFiniteSet(S) /\ N \in Nat
  BY <1>1, FS_Subset, FS_CardinalityType, Zenon DEF WorkspaceConstants
<1>3. /\ rows \in [1 .. N -> S]
      /\ \A i, j \in 1 .. N : i < j => Text[rows[i]] < Text[rows[j]]
  BY Zenon DEF CandidateRows
<1> HIDE DEF S, N
<1>4. Len(rows) = N
  BY <1>2, <1>3
<1>5. \A i \in 1 .. N : Text[rows[i]] \in Nat
  BY <1>1, <1>3, Zenon DEF WorkspaceConstants
<1>6. rows \in Injection(1 .. N, S)
  <2> SUFFICES ASSUME NEW i \in 1 .. N, NEW j \in 1 .. N, rows[i] = rows[j] PROVE i = j
    BY <1>3, Zenon DEF Injection, IsInjective
  <2>1. ~(i < j) /\ ~(j < i)
    BY <1>3, <1>5
  <2> QED
    BY <1>2, <2>1
<1>7. Cardinality(1 .. N) = N
  BY <1>2, FS_Interval
<1>8. rows \in Surjection(1 .. N, S)
  BY <1>2, <1>6, <1>7, FS_Injection, Zenon DEF N
<1>9. \A c \in S : \E i \in 1 .. N : rows[i] = c
  BY <1>8, Zenon DEF Surjection
<1> QED
  BY <1>2, <1>3, <1>4, <1>9, Zenon DEF S

-----------------------------------------------------------------------------
(* Types *)

Names == Workspaces \cup {"none"}
AgentNames == Agents \cup {"none"}
CardNames == Cards \cup {"none"}
CapabilityNames == Capabilities \cup {"none"}
Branches == Constraints \cup {{}}
Grants == SUBSET Permissions
Flags == BOOLEAN
Ops == {"none", "install", "authorize", "resolve", "installed_version"}
Places == {"start", "select", "insert", "check", "granted"}
InstallationStatus == {"enabled", "disabled", "uninstalled"}

RequestSlots ==
    [op : Ops, pc : Places, w : Names, a : AgentNames, c : CardNames, constraint : Branches,
     perms : Grants, cap : CapabilityNames, i : Nat, trusted : Flags, valid : Flags]

InstallationRows ==
    [w : Workspaces, a : Agents, c : Cards, trusted : Flags, perms : Grants,
     status : InstallationStatus, installed : Nat, updated : Nat]

VersionStatus == {"absent", "draft", "published", "disabled"}
ReleaseStatus == {"absent", "pending_verification", "verified", "published", "suspended", "revoked"}
VersionRows == [status : VersionStatus, legacy : Flags, seq : Nat]

CatalogTypes ==
    /\ version \in [Cards -> VersionRows]
    /\ release \in [Cards -> ReleaseStatus]
    /\ clock \in Nat

WorkspaceTypes ==
    /\ CatalogTypes
    /\ workspace \in [Workspaces -> SUBSET Callers]
    /\ inst \in Seq(InstallationRows)
    /\ req \in [Requests -> RequestSlots]

\* The Catalog has once let version c be installed, pinned to its release or
\* not: the version can be disabled and the release taken back, no more.
Decided(c, trusted) ==
    /\ c \in Cards
    /\ version[c].status \in {"published", "disabled"}
    /\ IF trusted THEN release[c] \in {"published", "suspended", "revoked"} ELSE version[c].legacy

InstallationsDecided == \A i \in DOMAIN inst : Decided(inst[i].c, inst[i].trusted)

\* No two installations of one Agent in one workspace are current.
CurrentUnique ==
    \A i, j \in DOMAIN inst :
        /\ inst[i].w = inst[j].w /\ inst[i].a = inst[j].a
        /\ inst[i].status # "uninstalled" /\ inst[j].status # "uninstalled"
        => i = j

RequestHolds(q) ==
    /\ q.pc \in {"select", "insert"} => q.w \in Workspaces /\ q.a \in Agents
    /\ q.pc \in {"insert", "check"} => Decided(q.c, q.trusted)
    /\ q.pc = "check" /\ Usable(q.c, q.trusted) => q.valid
    /\ q.pc = "granted" => q.valid

RequestsHold == \A r \in Requests : RequestHolds(req[r])

WorkspaceInv ==
    /\ WorkspaceTypes
    /\ InstallationsDecided
    /\ CurrentUnique
    /\ RequestsHold

-----------------------------------------------------------------------------
(* The Catalog never brings a version back *)

\* What a step may do to the rows of card d.
RowStep(d) ==
    /\ version'[d].legacy = version[d].legacy
    /\ \/ version'[d].status = version[d].status
       \/ version'[d].status = "draft" /\ version[d].status = "absent"
       \/ version'[d].status = "published" /\ version[d].status # "disabled"
       \/ version'[d].status = "disabled"
    /\ release'[d] = release[d] \/ Allowed(release[d], release'[d]) \/ release[d] = "absent"

LEMMA CatalogStepRows ==
    ASSUME CatalogTypes, CatalogFactsNext
    PROVE  CatalogTypes' /\ \A d \in Cards : RowStep(d)
<1> USE DEF CatalogTypes
<1>1. PICK c \in Cards :
        \/ InsertVersion(c) \/ PublishDraft(c) \/ DisableVersion(c)
        \/ \E s \in {"pending_verification", "verified"} : InsertRelease(c, s)
        \/ \E s \in {"verified", "published", "suspended", "revoked"} : MoveRelease(c, s)
  BY Zenon DEF CatalogFactsNext
<1>2. version[c] \in VersionRows /\ clock + 1 \in Nat
  OBVIOUS
<1> DEFINE Disabled == [version[c] EXCEPT !.status = "disabled"]
           Draft == [version[c] EXCEPT !.status = "draft"]
           Published == [version[c] EXCEPT !.status = "published", !.seq = clock + 1]
<1>3. "disabled" \in VersionStatus /\ "draft" \in VersionStatus /\ "published" \in VersionStatus
  BY Zenon DEF VersionStatus
<1>4. Disabled \in VersionRows /\ Disabled.status = "disabled" /\ Disabled.legacy = version[c].legacy
  BY <1>2, <1>3, Zenon DEF VersionRows
<1>5. Draft \in VersionRows /\ Draft.status = "draft" /\ Draft.legacy = version[c].legacy
  BY <1>2, <1>3, Zenon DEF VersionRows
<1>6. Published \in VersionRows /\ Published.status = "published" /\ Published.legacy = version[c].legacy
  BY <1>2, <1>3, Zenon DEF VersionRows
<1> HIDE DEF Disabled, Draft, Published
<1>7. CASE InsertVersion(c)
  <2>1. version' = [version EXCEPT ![c] = Draft] /\ version[c].status = "absent"
    BY <1>7, Zenon DEF InsertVersion, Draft
  <2> QED
    BY <1>5, <1>7, <2>1, Zenon DEF InsertVersion, RowStep
<1>8. CASE PublishDraft(c)
  <2>1. version' = [version EXCEPT ![c] = Published] /\ version[c].status = "draft"
    BY <1>8, Zenon DEF PublishDraft, Published
  <2> QED
    BY <1>2, <1>6, <1>8, <2>1, Zenon DEF PublishDraft, RowStep
<1>9. CASE DisableVersion(c)
  <2>1. version' = [version EXCEPT ![c] = Disabled]
    BY <1>9, Zenon DEF DisableVersion, Disabled
  <2> QED
    BY <1>4, <1>9, <2>1, Zenon DEF DisableVersion, RowStep
<1>10. ASSUME NEW s \in {"pending_verification", "verified"}, InsertRelease(c, s)
      PROVE  CatalogTypes' /\ \A d \in Cards : RowStep(d)
  BY <1>10, Zenon DEF InsertRelease, RowStep, ReleaseStatus
<1>11. ASSUME NEW s \in {"verified", "published", "suspended", "revoked"}, MoveRelease(c, s)
      PROVE  CatalogTypes' /\ \A d \in Cards : RowStep(d)
  <2>1. /\ release' = [release EXCEPT ![c] = s] /\ Allowed(release[c], s)
        /\ clock' \in Nat /\ release' \in [Cards -> ReleaseStatus]
    BY <1>2, <1>11, Zenon DEF MoveRelease, ReleaseStatus
  <2>2. CASE s = "published"
    <3>1. version' = [version EXCEPT ![c] = Published] /\ version[c].status # "disabled"
      BY <1>11, <2>2, Zenon DEF MoveRelease, Published
    <3> QED
      BY <1>6, <2>1, <3>1, Zenon DEF RowStep
  <2>3. CASE s \in {"suspended", "revoked"}
    <3>1. version' = [version EXCEPT ![c] = Disabled]
      BY <1>11, <2>3, Zenon DEF MoveRelease, Disabled
    <3> QED
      BY <1>4, <2>1, <3>1, Zenon DEF RowStep
  <2>4. CASE s = "verified"
    <3>1. version' = version
      BY <1>11, <2>4, Zenon DEF MoveRelease
    <3> QED
      BY <2>1, <3>1, Zenon DEF RowStep
  <2> QED
    BY <2>2, <2>3, <2>4, Zenon
<1> QED
  BY <1>1, <1>7, <1>8, <1>9, <1>10, <1>11, Zenon

\* What was once decided stays so, and what is not usable any more never is.
LEMMA DecidedForGood ==
    ASSUME CatalogTypes, CatalogFactsNext, NEW c, NEW t \in BOOLEAN, Decided(c, t)
    PROVE  Decided(c, t)' /\ (Usable(c, t)' => Usable(c, t))
<1>1. RowStep(c) /\ c \in Cards
  BY CatalogStepRows, Zenon DEF Decided
<1>2. version'[c].status \in {"published", "disabled"} /\ version'[c].legacy = version[c].legacy
  BY <1>1, Zenon DEF RowStep, Decided
<1>3. version'[c].status = "published" => version[c].status = "published"
  BY <1>1, Zenon DEF RowStep, Decided
<1>4. CASE t = TRUE
  BY <1>1, <1>2, <1>3, <1>4, Zenon DEF RowStep, Decided, Allowed, Usable
<1>5. CASE t = FALSE
  BY <1>1, <1>2, <1>3, <1>5, Zenon DEF Decided, Usable
<1> QED
  BY <1>4, <1>5, Zenon

-----------------------------------------------------------------------------
(* The requests *)

LEMMA IdleHolds == Idle \in RequestSlots /\ RequestHolds(Idle)
<1>1. /\ "none" \in Ops /\ "start" \in Places /\ "none" \in Names /\ "none" \in AgentNames
      /\ "none" \in CardNames /\ {} \in Branches /\ {} \in Grants /\ "none" \in CapabilityNames
      /\ FALSE \in Flags
  BY Zenon DEF Ops, Places, Names, AgentNames, CardNames, Branches, Grants, CapabilityNames, Flags
<1>2. Idle \in RequestSlots
  BY <1>1, Zenon DEF Idle, RequestSlots
<1>3. Idle.pc = "start"
  BY Zenon DEF Idle
<1> QED
  BY <1>2, <1>3, Zenon DEF RequestHolds

\* A step that changes one slot only, and leaves a slot that holds.
LEMMA OneSlot ==
    ASSUME WorkspaceInv, NEW r \in Requests, NEW q \in RequestSlots, RequestHolds(q),
           req' = [req EXCEPT ![r] = q],
           UNCHANGED <<version, release, clock, workspace, inst>>
    PROVE  WorkspaceInv'
<1>1. WorkspaceTypes'
  BY Zenon DEF WorkspaceInv, WorkspaceTypes, CatalogTypes
<1>2. \A c, t : (Decided(c, t)' <=> Decided(c, t)) /\ (Usable(c, t)' <=> Usable(c, t))
  BY Zenon DEF Decided, Usable
<1>3. RequestsHold'
  <2> SUFFICES ASSUME NEW s \in Requests PROVE RequestHolds(req[s])'
    BY Zenon DEF RequestsHold
  <2>1. RequestHolds(req'[s])
    BY Zenon DEF WorkspaceInv, WorkspaceTypes, RequestsHold
  <2> QED
    BY <1>2, <2>1, Zenon DEF RequestHolds
<1>4. InstallationsDecided' /\ CurrentUnique'
  BY <1>2, Zenon DEF WorkspaceInv, InstallationsDecided, CurrentUnique
<1> QED
  BY <1>1, <1>3, <1>4, Zenon DEF WorkspaceInv

LEMMA EndKeeps ==
    ASSUME WorkspaceInv, NEW r \in Requests, End(r),
           UNCHANGED <<version, release, clock, workspace, inst>>
    PROVE  WorkspaceInv'
BY IdleHolds, OneSlot, Zenon DEF End

LEMMA InstallKeeps ==
    ASSUME WorkspaceInv, NEW r \in Requests, install(r)
    PROVE  WorkspaceInv'
<1>1. PICK w \in Workspaces, u \in Callers, a \in Agents, k \in Constraints,
           p \in SUBSET Permissions : BeginInstall(r, w, u, a, k, p)
  BY Zenon DEF install
<1> DEFINE q == [Idle EXCEPT !.op = "install", !.pc = "select", !.w = w, !.a = a,
                             !.constraint = k, !.perms = p]
<1>2. CASE End(r)
  BY <1>1, <1>2, EndKeeps, Zenon DEF BeginInstall
<1>3. CASE req' = [req EXCEPT ![r] = q]
  <2>1. /\ "install" \in Ops /\ "select" \in Places /\ w \in Names /\ a \in AgentNames
        /\ k \in Branches /\ p \in Grants
    BY Zenon DEF Ops, Places, Names, AgentNames, Branches, Grants
  <2>2. q \in RequestSlots /\ q.pc = "select" /\ q.w = w /\ q.a = a
    BY <2>1, IdleHolds, Zenon DEF RequestSlots
  <2>3. RequestHolds(q)
    BY <2>2, Zenon DEF RequestHolds
  <2> QED
    BY <1>1, <1>3, <2>2, <2>3, OneSlot, Zenon DEF BeginInstall
<1> QED
  BY <1>1, <1>2, <1>3, Zenon DEF BeginInstall

\* A version that the Catalog and the service let pass is usable, and decided.
LEMMA EligibleUsable ==
    ASSUME NEW c \in Cards, NEW t \in BOOLEAN, validateReleaseEligibility(c, t) = ""
    PROVE  Usable(c, t) /\ (CatalogTypes => Decided(c, t))
<1>1. CASE t = TRUE
  BY <1>1, Zenon DEF validateReleaseEligibility, installabilityError, Usable, Decided
<1>2. CASE t = FALSE
  BY <1>2, Zenon DEF validateReleaseEligibility, installabilityError, Usable, Decided
<1> QED
  BY <1>1, <1>2, Zenon

\* What the selection step does when it does not fail.
LEMMA SelectStep ==
    ASSUME WorkspaceConstants, WorkspaceInv, NEW r \in Requests, Select(r), ~End(r)
    PROVE  \E c \in Cards :
             /\ req' = [req EXCEPT ![r].pc = "insert", ![r].c = c,
                                   ![r].trusted = release[c] # "absent"]
             /\ validateReleaseEligibility(c, release[c] # "absent") = ""
             /\ Satisfies(req[r].constraint, c)
             /\ \A d \in InstallationCandidates(req[r].a) :
                   Satisfies(req[r].constraint, d) => d = c \/ Below(d, c)
<1> DEFINE k == req[r].constraint
<1>1. PICK rows \in CandidateRows(req[r].a) :
        LET c == SelectInstallable(rows, k) IN
        /\ c # "none"
        /\ validateReleaseEligibility(c, release[c] # "absent") = ""
        /\ req' = [req EXCEPT ![r].pc = "insert", ![r].c = c,
                              ![r].trusted = release[c] # "absent"]
  BY Zenon DEF Select
<1>2. /\ Len(rows) \in Nat
      /\ \A i \in 1 .. Len(rows) : rows[i] \in InstallationCandidates(req[r].a)
      /\ \A i, j \in 1 .. Len(rows) : i < j => Text[rows[i]] < Text[rows[j]]
      /\ \A d \in InstallationCandidates(req[r].a) : \E i \in 1 .. Len(rows) : rows[i] = d
  BY RowsAreCandidates, Zenon
<1>3. \A i \in 1 .. Len(rows) : rows[i] \in Cards
  BY <1>2, Zenon DEF InstallationCandidates
<1>4. Found(rows, k, SelectInstallable(rows, k), Len(rows))
  BY <1>2, <1>3, SelectPicks, Zenon
<1> DEFINE c == SelectInstallable(rows, k)
<1>5. /\ c \in Cards /\ Satisfies(k, c)
      /\ \A j \in 1 .. Len(rows) : Satisfies(k, rows[j]) => rows[j] = c \/ Below(rows[j], c)
  BY <1>1, <1>4, Zenon DEF Found
<1>6. \A d \in InstallationCandidates(req[r].a) : Satisfies(k, d) => d = c \/ Below(d, c)
  BY <1>2, <1>5, Zenon
<1> QED
  BY <1>1, <1>5, <1>6, Zenon

LEMMA SelectKeeps ==
    ASSUME WorkspaceConstants, WorkspaceInv, NEW r \in Requests, Select(r)
    PROVE  WorkspaceInv'
<1>1. CASE End(r)
  BY <1>1, EndKeeps, Zenon DEF Select
<1>2. CASE ~End(r)
  <2>1. PICK c \in Cards :
             /\ req' = [req EXCEPT ![r].pc = "insert", ![r].c = c,
                                   ![r].trusted = release[c] # "absent"]
             /\ validateReleaseEligibility(c, release[c] # "absent") = ""
    BY <1>2, SelectStep, Zenon
  <2> DEFINE t == release[c] # "absent"
             q == [req[r] EXCEPT !.pc = "insert", !.c = c, !.trusted = t]
  <2>2. t \in BOOLEAN /\ Decided(c, t)
    BY <2>1, EligibleUsable, Zenon DEF WorkspaceInv, WorkspaceTypes
  <2>3. req[r] \in RequestSlots /\ RequestHolds(req[r]) /\ req[r].pc = "select"
    BY Zenon DEF Select, WorkspaceInv, WorkspaceTypes, RequestsHold
  <2>4. "insert" \in Places /\ c \in CardNames /\ t \in Flags
    BY <2>2, Zenon DEF Places, CardNames, Flags
  <2>5. req' = [req EXCEPT ![r] = q]
    BY <2>1, Zenon
  <2> HIDE DEF t
  <2>6. /\ q \in RequestSlots /\ q.pc = "insert" /\ q.c = c /\ q.trusted = t
        /\ q.w = req[r].w /\ q.a = req[r].a
    BY <2>3, <2>4, Zenon DEF RequestSlots
  <2> HIDE DEF q
  <2>7. RequestHolds(q)
    BY <2>2, <2>3, <2>6, Zenon DEF RequestHolds
  <2> QED
    BY <2>5, <2>6, <2>7, OneSlot, Zenon DEF Select
<1> QED
  BY <1>1, <1>2, Zenon

LEMMA GrantKeeps ==
    ASSUME WorkspaceInv, NEW r \in Requests, NEW op \in Ops, NEW w \in Workspaces, NEW u,
           NEW c, NEW a \in Agents, NEW cap \in Capabilities, BeginGrant(r, op, w, u, c, a, cap)
    PROVE  WorkspaceInv'
<1> DEFINE rows == {i \in Current(w, a) : inst[i].status = "enabled"
                                            /\ (op = "resolve" => inst[i].c = c)}
           j == CHOOSE i \in rows : TRUE
           v == Usable(inst[j].c, inst[j].trusted)
           q == [Idle EXCEPT !.op = op, !.pc = "check", !.w = w, !.a = a, !.c = inst[j].c,
                    !.cap = cap, !.i = j, !.trusted = inst[j].trusted, !.valid = v]
<1>1. CASE End(r)
  BY <1>1, EndKeeps, Zenon DEF BeginGrant
<1>2. CASE rows # {} /\ req' = [req EXCEPT ![r] = q]
  <2>1. j \in DOMAIN inst
    BY <1>2, Zenon DEF Current
  <2> HIDE DEF j
  <2>2. inst[j] \in InstallationRows /\ j \in Nat
    BY <2>1 DEF WorkspaceInv, WorkspaceTypes
  <2>3. inst[j].c \in Cards /\ inst[j].trusted \in Flags
    BY <2>2, Zenon DEF InstallationRows
  <2>4. v \in Flags
    BY Zenon DEF Flags, Usable
  <2>5. Decided(inst[j].c, inst[j].trusted)
    BY <2>1, Zenon DEF WorkspaceInv, InstallationsDecided
  <2>6. /\ "check" \in Places /\ w \in Names /\ a \in AgentNames /\ inst[j].c \in CardNames
        /\ cap \in CapabilityNames
    BY <2>3, Zenon DEF Places, Names, AgentNames, CardNames, CapabilityNames
  <2>7. v <=> Usable(inst[j].c, inst[j].trusted)
    BY Zenon
  <2> HIDE DEF v
  <2>8. /\ q \in RequestSlots /\ q.pc = "check" /\ q.c = inst[j].c /\ q.trusted = inst[j].trusted
        /\ q.valid = v
    BY <2>2, <2>3, <2>4, <2>6, IdleHolds, Zenon DEF RequestSlots
  <2>9. req' = [req EXCEPT ![r] = q]
    BY <1>2, Zenon
  <2> HIDE DEF q
  <2>10. RequestHolds(q)
    BY <2>5, <2>7, <2>8, Zenon DEF RequestHolds
  <2> QED
    BY <2>8, <2>9, <2>10, OneSlot, Zenon DEF BeginGrant
<1> QED
  BY <1>1, <1>2, Zenon DEF BeginGrant

LEMMA ResolveKeeps ==
    ASSUME WorkspaceInv, NEW r \in Requests, resolveAuthorizedInvocation(r)
    PROVE  WorkspaceInv'
<1> DEFINE q == [req[r] EXCEPT !.pc = "granted"]
<1>1. CASE End(r)
  BY <1>1, EndKeeps, Zenon DEF resolveAuthorizedInvocation
<1>2. CASE /\ validateReleaseEligibility(req[r].c, req[r].trusted) = ""
           /\ req' = [req EXCEPT ![r].pc = "granted"]
  <2>1. /\ req[r] \in RequestSlots /\ RequestHolds(req[r]) /\ req[r].pc = "check"
        /\ req[r].trusted \in BOOLEAN
    BY Zenon
       DEF resolveAuthorizedInvocation, WorkspaceInv, WorkspaceTypes, RequestsHold, RequestSlots, Flags
  <2>2. Decided(req[r].c, req[r].trusted)
    BY <2>1, Zenon DEF RequestHolds
  <2>3. Usable(req[r].c, req[r].trusted)
    BY <1>2, <2>1, <2>2, EligibleUsable, Zenon DEF Decided
  <2>4. req[r].valid
    BY <2>1, <2>3, Zenon DEF RequestHolds
  <2>5. "granted" \in Places
    BY Zenon DEF Places
  <2>6. q \in RequestSlots /\ q.pc = "granted" /\ q.valid = req[r].valid
    BY <2>1, <2>5, Zenon DEF RequestSlots
  <2>7. req' = [req EXCEPT ![r] = q]
    BY <1>2, Zenon
  <2> HIDE DEF q
  <2>8. RequestHolds(q)
    BY <2>4, <2>6, Zenon DEF RequestHolds
  <2> QED
    BY <2>6, <2>7, <2>8, OneSlot, Zenon DEF resolveAuthorizedInvocation
<1> QED
  BY <1>1, <1>2, Zenon DEF resolveAuthorizedInvocation

-----------------------------------------------------------------------------
(* The tables *)

\* The row lock of the workspace makes the check and the insert one step.
LEMMA CreateKeeps ==
    ASSUME WorkspaceConstants, WorkspaceInv, NEW r \in Requests, NEW at \in Times,
           CreateInstallation(r, at)
    PROVE  WorkspaceInv'
<1> DEFINE row == Installed(req[r], at)
<1>1. /\ Idle \in RequestSlots /\ RequestHolds(Idle) /\ req' = [req EXCEPT ![r] = Idle]
      /\ UNCHANGED <<version, release, clock, workspace>>
  BY IdleHolds, Zenon DEF CreateInstallation, End
<1>2. CASE inst' = inst
  BY <1>1, <1>2, OneSlot, Zenon
<1>3. CASE Current(req[r].w, req[r].a) = {} /\ inst' = Append(inst, row)
  <2>1. /\ req[r] \in RequestSlots /\ RequestHolds(req[r]) /\ req[r].pc = "insert"
        /\ inst \in Seq(InstallationRows)
    BY Zenon DEF CreateInstallation, WorkspaceInv, WorkspaceTypes, RequestsHold
  <2>2. /\ req[r].w \in Workspaces /\ req[r].a \in Agents
        /\ Decided(req[r].c, req[r].trusted) /\ req[r].c \in Cards
    BY <2>1, Zenon DEF RequestHolds, Decided
  <2>3. req[r].trusted \in Flags /\ req[r].perms \in Grants
    BY <2>1, Zenon DEF RequestSlots
  <2>4. "enabled" \in InstallationStatus /\ at \in Nat
    BY Zenon DEF InstallationStatus, WorkspaceConstants
  <2>5. /\ row \in InstallationRows /\ row.w = req[r].w /\ row.a = req[r].a /\ row.c = req[r].c
        /\ row.trusted = req[r].trusted
    BY <2>2, <2>3, <2>4, Zenon DEF Installed, InstallationRows
  <2> HIDE DEF row
  <2>6. /\ inst' \in Seq(InstallationRows)
        /\ DOMAIN inst' = DOMAIN inst \cup {Len(inst) + 1}
        /\ inst'[Len(inst) + 1] = row
        /\ \A i \in DOMAIN inst : inst'[i] = inst[i]
    BY <1>3, <2>1, <2>5
  <2>7. \A c, t : (Decided(c, t)' <=> Decided(c, t)) /\ (Usable(c, t)' <=> Usable(c, t))
    BY <1>1, Zenon DEF Decided, Usable
  <2>8. WorkspaceTypes'
    BY <1>1, <2>6, Zenon DEF WorkspaceInv, WorkspaceTypes, CatalogTypes
  <2>9. InstallationsDecided'
    BY <2>2, <2>5, <2>6, <2>7, Zenon DEF WorkspaceInv, InstallationsDecided
  <2>10. RequestsHold'
    <3> SUFFICES ASSUME NEW x \in Requests PROVE RequestHolds(req[x])'
      BY Zenon DEF RequestsHold
    <3>1. RequestHolds(req'[x])
      BY <1>1, Zenon DEF WorkspaceInv, WorkspaceTypes, RequestsHold
    <3> QED
      BY <2>7, <3>1, Zenon DEF RequestHolds
  <2>11. CurrentUnique'
    <3>1. \A i \in DOMAIN inst : inst[i].w = row.w /\ inst[i].a = row.a => inst[i].status = "uninstalled"
      BY <1>3, <2>5, Zenon DEF Current
    <3> QED
      BY <2>6, <3>1, Zenon DEF WorkspaceInv, CurrentUnique
  <2> QED
    BY <2>8, <2>9, <2>10, <2>11, Zenon DEF WorkspaceInv
<1> QED
  BY <1>2, <1>3, Zenon DEF CreateInstallation

\* An installation that is moved was current: nothing becomes current again.
LEMMA MoveKeeps ==
    ASSUME WorkspaceConstants, WorkspaceInv, NEW i \in DOMAIN inst, NEW at \in Times,
           NEW status \in InstallationStatus, inst[i].status # "uninstalled", Move(i, status, at)
    PROVE  WorkspaceInv'
<1> DEFINE t == nextLifecycleTime(inst[i].updated, at)
           row == [inst[i] EXCEPT !.status = status, !.updated = t]
<1>1. inst \in Seq(InstallationRows) /\ inst[i] \in InstallationRows /\ at \in Nat
  BY DEF WorkspaceInv, WorkspaceTypes, WorkspaceConstants
<1>2. t \in Nat
  BY <1>1 DEF nextLifecycleTime, InstallationRows
<1> HIDE DEF t
<1>3. /\ row \in InstallationRows /\ row.w = inst[i].w /\ row.a = inst[i].a /\ row.c = inst[i].c
      /\ row.trusted = inst[i].trusted
  BY <1>1, <1>2, Zenon DEF InstallationRows
<1>4. inst' = [inst EXCEPT ![i] = row]
  BY Zenon DEF Move, t
<1> HIDE DEF row
<1>5. /\ inst' \in Seq(InstallationRows) /\ DOMAIN inst' = DOMAIN inst
      /\ inst'[i] = row /\ \A j \in DOMAIN inst : j # i => inst'[j] = inst[j]
  BY <1>1, <1>3, <1>4
<1>6. \A c, x : (Decided(c, x)' <=> Decided(c, x)) /\ (Usable(c, x)' <=> Usable(c, x))
  BY Zenon DEF Move, Decided, Usable
<1>7. WorkspaceTypes'
  BY <1>5, Zenon DEF Move, WorkspaceInv, WorkspaceTypes, CatalogTypes
<1>8. RequestsHold'
  BY <1>6, Zenon DEF Move, WorkspaceInv, RequestsHold, RequestHolds
<1>9. InstallationsDecided'
  BY <1>3, <1>5, <1>6, Zenon DEF WorkspaceInv, InstallationsDecided
<1>10. CurrentUnique'
  <2> SUFFICES ASSUME NEW j \in DOMAIN inst, NEW k \in DOMAIN inst,
                      inst'[j].w = inst'[k].w, inst'[j].a = inst'[k].a,
                      inst'[j].status # "uninstalled", inst'[k].status # "uninstalled"
               PROVE  j = k
    BY <1>5, Zenon DEF CurrentUnique
  <2>1. inst[j].w = inst[k].w /\ inst[j].a = inst[k].a
    BY <1>3, <1>5, Zenon
  <2>2. inst[j].status # "uninstalled" /\ inst[k].status # "uninstalled"
    BY <1>5, Zenon
  <2> QED
    BY <2>1, <2>2, Zenon DEF WorkspaceInv, CurrentUnique
<1> QED
  BY <1>7, <1>8, <1>9, <1>10, Zenon DEF WorkspaceInv

LEMMA CatalogKeeps ==
    ASSUME WorkspaceInv, CatalogStep
    PROVE  WorkspaceInv'
<1>1. CatalogTypes' /\ UNCHANGED <<workspace, inst, req>> /\ CatalogTypes /\ CatalogFactsNext
  BY CatalogStepRows, Zenon DEF CatalogStep, WorkspaceInv, WorkspaceTypes
<1>2. WorkspaceTypes' /\ CurrentUnique'
  BY <1>1, Zenon DEF WorkspaceInv, WorkspaceTypes, CurrentUnique
<1>3. InstallationsDecided'
  <2> SUFFICES ASSUME NEW i \in DOMAIN inst PROVE Decided(inst[i].c, inst[i].trusted)'
    BY <1>1, Zenon DEF InstallationsDecided
  <2>1. inst[i] \in InstallationRows
    BY DEF WorkspaceInv, WorkspaceTypes
  <2>2. inst[i].trusted \in Flags
    BY <2>1, Zenon DEF InstallationRows
  <2>3. inst[i].trusted \in BOOLEAN /\ Decided(inst[i].c, inst[i].trusted)
    BY <2>2, Zenon DEF Flags, WorkspaceInv, InstallationsDecided
  <2>4. \A x, y : y \in BOOLEAN /\ Decided(x, y) => Decided(x, y)'
    BY <1>1, DecidedForGood, Zenon
  <2> QED
    BY <1>1, <2>3, <2>4, Zenon DEF Decided
<1>4. RequestsHold'
  <2> SUFFICES ASSUME NEW r \in Requests PROVE RequestHolds(req[r])'
    BY <1>1, Zenon DEF RequestsHold
  <2>1. req[r].trusted \in BOOLEAN /\ RequestHolds(req[r])
    BY Zenon DEF WorkspaceInv, WorkspaceTypes, RequestSlots, Flags, RequestsHold
  <2>2. \A x, y : y \in BOOLEAN /\ Decided(x, y) => Decided(x, y)' /\ (Usable(x, y)' => Usable(x, y))
    BY <1>1, DecidedForGood, Zenon
  <2> QED
    BY <1>1, <2>1, <2>2, Zenon DEF RequestHolds, Decided, Usable
<1> QED
  BY <1>2, <1>3, <1>4, Zenon DEF WorkspaceInv

LEMMA CreateWorkspaceKeeps ==
    ASSUME WorkspaceInv, createWorkspace
    PROVE  WorkspaceInv'
<1>1. /\ workspace' \in [Workspaces -> SUBSET Callers]
      /\ UNCHANGED <<version, release, clock, inst, req>>
  BY Zenon DEF createWorkspace, CreateWorkspace, WorkspaceInv, WorkspaceTypes
<1>2. WorkspaceTypes' /\ InstallationsDecided' /\ CurrentUnique'
  BY <1>1, Zenon
     DEF WorkspaceInv, WorkspaceTypes, CatalogTypes, InstallationsDecided, Decided, CurrentUnique
<1>3. RequestsHold'
  BY <1>1, Zenon DEF WorkspaceInv, RequestsHold, RequestHolds, Decided, Usable
<1> QED
  BY <1>2, <1>3, Zenon DEF WorkspaceInv

-----------------------------------------------------------------------------
LEMMA WorkspaceInit ==
    ASSUME WorkspaceConstants, Init
    PROVE  WorkspaceInv
<1>1. CatalogTypes
  <2>1. \A c \in Cards : version[c] \in VersionRows
    <3> TAKE c \in Cards
    <3> DEFINE yes == TRUE
               no == FALSE
               Legacy == \E i \in DOMAIN LegacyPublished : LegacyPublished[i] = c
               place == CHOOSE i \in DOMAIN LegacyPublished : LegacyPublished[i] = c
    <3>1. Legacy => place \in Nat
      BY DEF WorkspaceConstants
    <3>2. version[c] = IF Legacy THEN [status |-> "published", legacy |-> yes, seq |-> place]
                       ELSE [status |-> "absent", legacy |-> no, seq |-> 0]
      BY Zenon DEF Init, CatalogFactsInit
    <3>3. /\ yes \in Flags /\ no \in Flags
          /\ "published" \in VersionStatus /\ "absent" \in VersionStatus
      BY Zenon DEF Flags, VersionStatus
    <3> HIDE DEF Legacy, place, yes, no
    <3>4. CASE Legacy
      BY <3>1, <3>2, <3>3, <3>4 DEF VersionRows
    <3>5. CASE ~Legacy
      BY <3>2, <3>3, <3>5 DEF VersionRows
    <3> QED
      BY <3>4, <3>5, Zenon
  <2>2. DOMAIN version = Cards /\ version = [c \in Cards |-> version[c]]
    BY Zenon DEF Init, CatalogFactsInit
  <2>3. release \in [Cards -> ReleaseStatus] /\ clock \in Nat
    BY DEF Init, CatalogFactsInit, ReleaseStatus, WorkspaceConstants
  <2> QED
    BY <2>1, <2>2, <2>3, Zenon DEF CatalogTypes
<1>2. inst = <<>> /\ req = [r \in Requests |-> Idle] /\ workspace \in [Workspaces -> SUBSET Callers]
  BY Zenon DEF Init
<1>3. WorkspaceTypes
  BY <1>1, <1>2, IdleHolds DEF WorkspaceTypes
<1>4. RequestsHold
  BY <1>2, IdleHolds, Zenon DEF RequestsHold
<1>5. InstallationsDecided /\ CurrentUnique
  BY <1>2 DEF InstallationsDecided, CurrentUnique
<1> QED
  BY <1>3, <1>4, <1>5, Zenon DEF WorkspaceInv

LEMMA WorkspaceStep ==
    ASSUME WorkspaceConstants, WorkspaceInv, [Next]_workspaceVars
    PROVE  WorkspaceInv'
<1>1. CASE createWorkspace
  BY <1>1, CreateWorkspaceKeeps, Zenon
<1>2. CASE CatalogStep
  BY <1>2, CatalogKeeps, Zenon
<1>3. CASE updateInstallation
  <2>1. PICK i \in DOMAIN inst, u \in Callers, at \in Times, s \in {"enabled", "disabled"} :
            ChangeInstallationStatus(i, u, s, at)
    BY <1>3, Zenon DEF updateInstallation
  <2>2. inst[i].status # "uninstalled" /\ Move(i, s, at) /\ s \in InstallationStatus
    BY <2>1, Zenon DEF ChangeInstallationStatus, InstallationStatus
  <2> QED
    BY <2>2, MoveKeeps, Zenon
<1>4. CASE uninstall
  <2>1. PICK i \in DOMAIN inst, u \in Callers, at \in Times : UninstallInstallation(i, u, at)
    BY <1>4, Zenon DEF uninstall
  <2>2. inst[i].status # "uninstalled" /\ Move(i, "uninstalled", at) /\ "uninstalled" \in InstallationStatus
    BY <2>1, Zenon DEF UninstallInstallation, InstallationStatus
  <2> QED
    BY <2>2, MoveKeeps, Zenon
<1>5. ASSUME NEW r \in Requests, install(r) PROVE WorkspaceInv'
  BY <1>5, InstallKeeps, Zenon
<1>6. ASSUME NEW r \in Requests, authorizeInvocation(r) PROVE WorkspaceInv'
  <2>1. "authorize" \in Ops
    BY Zenon DEF Ops
  <2> QED
    BY <1>6, <2>1, GrantKeeps, Zenon DEF authorizeInvocation
<1>7. ASSUME NEW r \in Requests, resolveAgent(r) PROVE WorkspaceInv'
  <2>1. "resolve" \in Ops /\ \A c \in Cards : AgentOf[c] \in Agents
    BY Zenon DEF Ops, Agents
  <2> QED
    BY <1>7, <2>1, GrantKeeps, Zenon DEF resolveAgent
<1>8. ASSUME NEW r \in Requests, resolveInstalledVersion(r) PROVE WorkspaceInv'
  <2>1. "installed_version" \in Ops
    BY Zenon DEF Ops
  <2> QED
    BY <1>8, <2>1, GrantKeeps, Zenon DEF resolveInstalledVersion
<1>9. ASSUME NEW r \in Requests, Select(r) PROVE WorkspaceInv'
  BY <1>9, SelectKeeps, Zenon
<1>10. ASSUME NEW r \in Requests, NEW at \in Times, CreateInstallation(r, at) PROVE WorkspaceInv'
  BY <1>10, CreateKeeps, Zenon
<1>11. ASSUME NEW r \in Requests, resolveAuthorizedInvocation(r) PROVE WorkspaceInv'
  BY <1>11, ResolveKeeps, Zenon
<1>12. ASSUME NEW r \in Requests, StoreFails(r) PROVE WorkspaceInv'
  BY <1>12, EndKeeps, Zenon DEF StoreFails
<1>13. CASE UNCHANGED workspaceVars
  <2>1. UNCHANGED <<version, release, clock, workspace, inst, req>>
    BY <1>13, Zenon DEF workspaceVars
  <2> QED
    BY <2>1, Zenon DEF WorkspaceInv, WorkspaceTypes, CatalogTypes, InstallationsDecided, CurrentUnique,
                RequestsHold, RequestHolds, Decided, Usable
<1> QED
  BY <1>1, <1>2, <1>3, <1>4, <1>5, <1>6, <1>7, <1>8, <1>9, <1>10, <1>11, <1>12, <1>13, Zenon
     DEF Next

LEMMA WorkspaceInvariant ==
    ASSUME WorkspaceConstants
    PROVE  Spec => []WorkspaceInv
<1>1. Init => WorkspaceInv
  BY WorkspaceInit, Zenon
<1>2. WorkspaceInv /\ [Next]_workspaceVars => WorkspaceInv'
  BY WorkspaceStep, Zenon
<1> QED
  BY <1>1, <1>2, PTL DEF Spec

\* However many installs have passed the first check, of any number of
\* requests, a workspace has one enabled or disabled installation of an Agent
\* at most: CreateInstallation looks again under the lock of the workspace row.
THEOREM InstallationsUnique ==
    ASSUME WorkspaceConstants
    PROVE  Spec => []OneCurrent
<1>1. WorkspaceInv => OneCurrent
  <2> SUFFICES ASSUME CurrentUnique, NEW w \in Workspaces, NEW a \in Agents
               PROVE  Cardinality(Current(w, a)) <= 1
    BY Zenon DEF WorkspaceInv, OneCurrent
  <2>1. \A i, j \in Current(w, a) : i = j
    BY Zenon DEF Current, CurrentUnique
  <2>2. CASE Current(w, a) = {}
    BY <2>2, FS_EmptySet
  <2>3. CASE Current(w, a) # {}
    <3>1. PICK i : Current(w, a) = {i}
      BY <2>1, <2>3, Zenon
    <3>2. Cardinality({i}) = 1
      BY FS_Singleton, Zenon
    <3> QED
      BY <3>1, <3>2
  <2> QED
    BY <2>2, <2>3, Zenon
<1> QED
  BY <1>1, WorkspaceInvariant, PTL

\* A grant that has read the installation and then the Catalog had a moment
\* when all of it was true at once, although both change between the reads:
\* the Catalog never makes a version usable again that has ceased to be.
THEOREM GrantsLinearize ==
    ASSUME WorkspaceConstants
    PROVE  Spec => []GrantLinearizes
<1>1. WorkspaceInv => GrantLinearizes
  BY Zenon DEF WorkspaceInv, RequestsHold, RequestHolds, GrantLinearizes
<1> QED
  BY <1>1, WorkspaceInvariant, PTL

\* Only the selection step of a request leads from "select" to "insert".
LEMMA OnlySelectInserts ==
    ASSUME WorkspaceInv, Next, NEW r \in Requests, req[r].pc = "select", req'[r].pc = "insert"
    PROVE  Select(r) /\ ~End(r)
<1>1. Idle.pc = "start" /\ req \in [Requests -> RequestSlots]
  BY Zenon DEF Idle, WorkspaceInv, WorkspaceTypes
<1>2. ~End(r)
  BY <1>1, Zenon DEF End
<1>3. ~UNCHANGED req
  BY Zenon
<1>4. PICK x \in Requests :
        \/ install(x) \/ authorizeInvocation(x) \/ resolveAgent(x) \/ resolveInstalledVersion(x)
        \/ Select(x) \/ (\E at \in Times : CreateInstallation(x, at))
        \/ resolveAuthorizedInvocation(x) \/ StoreFails(x)
  BY <1>3, Zenon DEF Next, createWorkspace, CreateWorkspace, CatalogStep, updateInstallation,
              ChangeInstallationStatus, uninstall, UninstallInstallation, Move
<1>5. \E q : req' = [req EXCEPT ![x] = q]
  <2>1. CASE install(x)
    BY <2>1, Zenon DEF install, BeginInstall, End
  <2>2. CASE authorizeInvocation(x) \/ resolveAgent(x) \/ resolveInstalledVersion(x)
    BY <2>2, ZenonT(60) DEF authorizeInvocation, resolveAgent, resolveInstalledVersion, BeginGrant, End
  <2>3. CASE Select(x)
    <3> DEFINE Put(c) == [req EXCEPT ![x].pc = "insert", ![x].c = c, ![x].trusted = release[c] # "absent"]
    <3>1. End(x) \/ \E c : req' = Put(c)
      BY <2>3, Zenon DEF Select
    <3>2. \A c : \E q : Put(c) = [req EXCEPT ![x] = q]
      BY Zenon
    <3> HIDE DEF Put
    <3> QED
      BY <3>1, <3>2, Zenon DEF End
  <2>4. CASE \E at \in Times : CreateInstallation(x, at)
    BY <2>4, Zenon DEF CreateInstallation, End
  <2>5. CASE resolveAuthorizedInvocation(x)
    BY <2>5, Zenon DEF resolveAuthorizedInvocation, End
  <2>6. CASE StoreFails(x)
    BY <2>6, Zenon DEF StoreFails, End
  <2> QED
    BY <1>4, <2>1, <2>2, <2>3, <2>4, <2>5, <2>6, Zenon
<1>6. x = r
  BY <1>1, <1>5, Zenon
<1>7. ~(install(r) \/ authorizeInvocation(r) \/ resolveAgent(r) \/ resolveInstalledVersion(r))
  BY DEF install, BeginInstall, authorizeInvocation, resolveAgent, resolveInstalledVersion, BeginGrant
<1>8. ~((\E at \in Times : CreateInstallation(r, at)) \/ resolveAuthorizedInvocation(r) \/ StoreFails(r))
  BY <1>2, Zenon DEF CreateInstallation, resolveAuthorizedInvocation, StoreFails
<1> QED
  BY <1>2, <1>4, <1>6, <1>7, <1>8, Zenon

\* An installation pins the highest version that satisfies the constraint, of
\* all the candidates the Catalog has at that moment, whatever their number and
\* the order in which the loop of SelectInstallable meets them; and that version
\* is one that may be used.
THEOREM InstallationsPinHighest ==
    ASSUME WorkspaceConstants
    PROVE  Spec => PinsHighest
<1>1. ASSUME WorkspaceInv, [Next]_workspaceVars
      PROVE  [PinsHighestStep]_workspaceVars
  <2> SUFFICES ASSUME Next PROVE PinsHighestStep
    BY <1>1, Zenon
  <2> SUFFICES ASSUME NEW r \in Requests, req[r].pc = "select", req'[r].pc = "insert"
               PROVE  /\ Satisfies(req[r].constraint, req'[r].c)
                      /\ Usable(req'[r].c, req'[r].trusted)
                      /\ \A d \in InstallationCandidates(req[r].a) :
                            Satisfies(req[r].constraint, d) /\ d # req'[r].c => Below(d, req'[r].c)
    BY Zenon DEF PinsHighestStep, Below
  <2>1. PICK c \in Cards :
             /\ req' = [req EXCEPT ![r].pc = "insert", ![r].c = c,
                                   ![r].trusted = release[c] # "absent"]
             /\ validateReleaseEligibility(c, release[c] # "absent") = ""
             /\ Satisfies(req[r].constraint, c)
             /\ \A d \in InstallationCandidates(req[r].a) :
                   Satisfies(req[r].constraint, d) => d = c \/ Below(d, c)
    BY <1>1, OnlySelectInserts, SelectStep, Zenon
  <2> DEFINE t == release[c] # "absent"
  <2>2. t \in BOOLEAN /\ Usable(c, t)
    BY <2>1, EligibleUsable, Zenon
  <2>3. req[r] \in RequestSlots /\ req'[r] = [req[r] EXCEPT !.pc = "insert", !.c = c, !.trusted = t]
    BY <1>1, <2>1, Zenon DEF WorkspaceInv, WorkspaceTypes
  <2> HIDE DEF t
  <2>4. req'[r].c = c /\ req'[r].trusted = t
    BY <2>3, Zenon DEF RequestSlots
  <2> QED
    BY <2>1, <2>2, <2>4, Zenon
<1> QED
  BY <1>1, WorkspaceInvariant, PTL DEF Spec, PinsHighest
=============================================================================
