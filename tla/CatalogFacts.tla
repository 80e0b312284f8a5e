--------------------------- MODULE CatalogFacts ---------------------------
(***************************************************************************)
(* What the Catalog promises its readers, Workspace and Discovery: the     *)
(* publication status of every Agent version and the state of its release. *)
(* Each step is one committed transaction of                               *)
(* src/apps/control-plane/internal/catalog/postgres/store.go.  Module      *)
(* Catalog, the services behind the Gateway, writes by these steps only,   *)
(* and module Workspace reads what they leave.                             *)
(*                                                                         *)
(* A version and its release are named by the card: the unique index       *)
(* agent_releases_agent_version_idx admits one release per version.        *)
(***************************************************************************)
EXTENDS Naturals, Sequences

CONSTANTS
    Cards,              \* exact Agent versions
    LegacyPublished     \* sequence of the versions published before migration 004

VARIABLES
    version,            \* version[c]: row of catalog.agent_versions
    release,            \* release[c]: state of the row of catalog.agent_releases
    clock               \* publication_clock.last_sequence

catalogFacts == <<version, release, clock>>

(* Migration 004 marks what is published at that time legacy_unverified.    *)
CatalogFactsInit ==
    /\ version = [c \in Cards |->
            IF \E i \in DOMAIN LegacyPublished : LegacyPublished[i] = c
            THEN [status |-> "published", legacy |-> TRUE,
                  seq |-> CHOOSE i \in DOMAIN LegacyPublished : LegacyPublished[i] = c]
            ELSE [status |-> "absent", legacy |-> FALSE, seq |-> 0]]
    /\ release = [c \in Cards |-> "absent"]
    /\ clock = Len(LegacyPublished)

InsertVersion(c) ==
    /\ version[c].status = "absent"
    /\ version' = [version EXCEPT ![c].status = "draft"]
    /\ UNCHANGED <<release, clock>>

(* Store.transition with publish: a draft gets the next sequence.           *)
PublishDraft(c) ==
    /\ version[c].status = "draft"
    /\ clock' = clock + 1
    /\ version' = [version EXCEPT ![c].status = "published", ![c].seq = clock + 1]
    /\ UNCHANGED release

(* Store.transition without publish.                                        *)
DisableVersion(c) ==
    /\ version[c].status \in {"draft", "published"}
    /\ version' = [version EXCEPT ![c].status = "disabled"]
    /\ UNCHANGED <<release, clock>>

(* Store.CreateRelease: the version exists (foreign key), the release does  *)
(* not (unique index).                                                      *)
InsertRelease(c, state) ==
    /\ version[c].status # "absent" /\ release[c] = "absent"
    /\ state \in {"pending_verification", "verified"}
    /\ release' = [release EXCEPT ![c] = state]
    /\ UNCHANGED <<version, clock>>

(* The switch of Store.TransitionRelease.                                   *)
Allowed(from, to) ==
    \/ from = "pending_verification" /\ to = "verified"
    \/ from = "verified" /\ to = "published"
    \/ from \in {"verified", "published"} /\ to = "suspended"
    \/ from \in {"verified", "published", "suspended"} /\ to = "revoked"

(* The version row follows the release in the same transaction.  The check  *)
(* agent_versions_state_timestamps refuses to publish a row that carries a  *)
(* disabled_at, so a disabled version is never published.                   *)
MoveRelease(c, to) ==
    /\ Allowed(release[c], to)
    /\ to = "published" => version[c].status # "disabled"
    /\ release' = [release EXCEPT ![c] = to]
    /\ clock' = IF to = "published" THEN clock + 1 ELSE clock
    /\ version' =
        CASE to = "published" ->
                [version EXCEPT ![c].status = "published", ![c].seq = clock + 1]
          [] to \in {"suspended", "revoked"} -> [version EXCEPT ![c].status = "disabled"]
          [] OTHER -> version

CatalogFactsNext ==
    \E c \in Cards :
        \/ InsertVersion(c)
        \/ PublishDraft(c)
        \/ DisableVersion(c)
        \/ \E s \in {"pending_verification", "verified"} : InsertRelease(c, s)
        \/ \E s \in {"verified", "published", "suspended", "revoked"} : MoveRelease(c, s)
=============================================================================
