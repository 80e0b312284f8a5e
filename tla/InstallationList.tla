-------------------------- MODULE InstallationList --------------------------
(***************************************************************************)
(* The listing of a workspace's installations: Service.ListInstallations   *)
(* page by page over Store.ListInstallations, while Agents are installed   *)
(* and their installations change status or are uninstalled.               *)
(*                                                                         *)
(* An identifier is drawn at random and installed_at comes from the clock  *)
(* of a replica, so a row may appear anywhere in the order.  Rows stay.    *)
(***************************************************************************)
EXTENDS Naturals, Sequences, FiniteSets, SequencesExt

CONSTANTS
    Installations,      \* installation identifiers, numbers in byte order
    Workspaces,
    Times,              \* readings of the replicas' clocks
    Limits              \* page sizes a client asks for

VARIABLES
    inst,               \* inst[i]: row of workspace.installations
    walk                \* one traversal of a client

listVars == <<inst, walk>>

Absent == [w |-> "none", at |-> 0, status |-> "absent"]

NoWalk == [pc |-> "idle", w |-> "none", limit |-> 0, after |-> 0, afterAt |-> 0,
           shown |-> <<>>, start |-> {}]

Init ==
    /\ inst = [i \in Installations |-> Absent]
    /\ walk = NoWalk

Insert(i, w, at) ==
    /\ inst[i] = Absent
    /\ inst' = [inst EXCEPT ![i] = [w |-> w, at |-> at, status |-> "enabled"]]
    /\ UNCHANGED walk

ChangeStatus(i, status) ==
    /\ <<inst[i].status, status>> \in {<<"enabled", "disabled">>, <<"disabled", "enabled">>,
                                       <<"disabled", "uninstalled">>}
    /\ inst' = [inst EXCEPT ![i].status = status]
    /\ UNCHANGED walk

Before(i, j) == inst[i].at < inst[j].at \/ (inst[i].at = inst[j].at /\ i < j)

AfterCursor(i) ==
    inst[i].at > walk.afterAt \/ (inst[i].at = walk.afterAt /\ i > walk.after)

Page(w, limit, rows, found) ==
    LET sorted == SetToSortSeq(rows, Before)
        hasMore == Len(sorted) > limit
        items == IF hasMore THEN SubSeq(sorted, 1, limit) ELSE sorted IN
    [found EXCEPT
        !.pc = IF hasMore THEN "next" ELSE "done", !.w = w, !.limit = limit,
        !.after = IF hasMore THEN Last(items) ELSE 0,
        !.afterAt = IF hasMore THEN inst[Last(items)].at ELSE 0,
        !.shown = @ \o items]

Rows(w) == {i \in Installations : inst[i].w = w}

ListFirst(w, limit) ==
    /\ walk.pc = "idle"
    /\ walk' = Page(w, limit, Rows(w), [NoWalk EXCEPT !.start = Rows(w)])
    /\ UNCHANGED inst

(* DecodeInstallationCursor: the cursor is of this workspace and limit.     *)
DecodeInstallationCursor(w, limit) == walk.w = w /\ walk.limit = limit

ListInstallations(w, limit) ==
    /\ walk.pc = "next"
    /\ DecodeInstallationCursor(w, limit)
    /\ walk' = Page(w, limit, {i \in Rows(w) : AfterCursor(i)}, walk)
    /\ UNCHANGED inst

Next ==
    \/ \E i \in Installations :
        \/ \E w \in Workspaces, at \in Times : Insert(i, w, at)
        \/ \E s \in {"enabled", "disabled", "uninstalled"} : ChangeStatus(i, s)
    \/ \E w \in Workspaces, limit \in Limits : ListFirst(w, limit) \/ ListInstallations(w, limit)

Spec == Init /\ [][Next]_listVars
-----------------------------------------------------------------------------
(* A traversal shows every installation of the workspace that was there     *)
(* when it began, none twice and none of another workspace, however they    *)
(* change status and whatever is installed meanwhile.                       *)
ListIsExact ==
    /\ IsInjective(walk.shown)
    /\ \A i \in Range(walk.shown) : inst[i].w = walk.w
    /\ walk.pc = "done" => walk.start \subseteq Range(walk.shown)
=============================================================================
