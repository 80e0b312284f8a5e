------------------------------ MODULE Catalog ------------------------------
(***************************************************************************)
(* The Catalog write side: registration, the publication API on versions   *)
(* (Service.Publish and Disable over Store.transition) and the release     *)
(* service of catalog/release.go over Store.CreateRelease and              *)
(* Store.TransitionRelease, reading the trust facts of module TrustFacts.  *)
(*                                                                         *)
(* A request is a slot of req, free again once answered.  What the service *)
(* reads before its transaction is a step of its own, and so is each of    *)
(* the reads that a transition of a release makes of provider and binding. *)
(* CreateRelease reads provider and binding one after the other; they are  *)
(* one step here, since a binding of a suspended provider is only failed   *)
(* or revoked: one that the second read accepts was there at the first.    *)
(*                                                                         *)
(* Store.transition is two steps.  Its query joins the release and locks   *)
(* only the version row (FOR UPDATE OF v): under READ COMMITTED PostgreSQL *)
(* re-reads the locked row after a wait, while the joined release stays    *)
(* the one of the statement's snapshot.                                    *)
(***************************************************************************)
EXTENDS CatalogFacts, FiniteSets

CONSTANTS Callers, Providers, AgentOf, Evidence, MaxBindings,
          Requests      \* concurrent requests

VARIABLES
    provider, claim, binding,   \* the trust facts
    owner,              \* owner[a]: set holding agent_identities.owner_id
    bound,              \* bound[c]: what the release of c copied for good
    req

INSTANCE TrustFacts

catalogVars == <<version, release, clock, provider, claim, binding, owner, bound, req>>

Unbound == [provider |-> "none", binding |-> 0, evidence |-> 0]

Idle == [op |-> "none", pc |-> "start", c |-> "none", to |-> "none",
         row |-> Unbound, joined |-> FALSE, fit |-> FALSE]

Errors == {"ErrNotFound", "ErrForbidden", "ErrConflict", "ErrDependency",
           "ErrProviderNotFound", "ErrBindingNotFound", "ErrReleaseNotFound",
           "ErrReleaseInvalid", "ErrReleaseConflict"}

Init ==
    /\ CatalogFactsInit /\ FactsInit
    /\ owner \in {o \in [Agents -> SUBSET Callers] : \A a \in Agents :
                    Cardinality(o[a]) = IF \E c \in Cards : AgentOf[c] = a /\ version[c].legacy
                                        THEN 1 ELSE 0}
    /\ bound = [c \in Cards |-> Unbound]
    /\ req = [r \in Requests |-> Idle]

(* The request is answered with err; the slot is free for the next one.     *)
Finish(r, err) == err \subseteq Errors /\ req' = [req EXCEPT ![r] = Idle]

(* The answer to a transaction that took effect: COMMIT may fail although   *)
(* it did, and the caller is told of a dependency error.                    *)
Committed(r) == \E err \in {{}, {"ErrDependency"}} : Finish(r, err)

(* Service.Register: the card names the caller as its owner; the Agent      *)
(* identity belongs to whoever registers its first version.                 *)
Register(c, caller) ==
    /\ owner[AgentOf[c]] \subseteq {caller}
    /\ InsertVersion(c)
    /\ owner' = [owner EXCEPT ![AgentOf[c]] = {caller}]
    /\ UNCHANGED <<provider, claim, binding, bound, req>>

(* The trust service at work: a binding is made for a registered card only. *)
TrustStep ==
    /\ FactsNext
    /\ \A b \in DOMAIN binding' : version[binding'[b].card].status # "absent"
    /\ UNCHANGED <<version, release, clock, owner, bound, req>>

-----------------------------------------------------------------------------
(* The snapshot of the statement in Store.transition.                       *)
ReadVersion(r, op, c, caller) ==
    /\ req[r].pc = "start"
    /\ CASE version[c].status = "absent" -> Finish(r, {"ErrNotFound"})
         [] version[c].status # "absent" /\ owner[AgentOf[c]] # {caller} -> Finish(r, {"ErrForbidden"})
         [] OTHER -> req' = [req EXCEPT ![r] = [Idle EXCEPT
                        !.op = op, !.pc = "lock", !.c = c, !.joined = release[c] # "absent"]]
    /\ UNCHANGED <<version, release, clock, provider, claim, binding, owner, bound>>

(* The rest of the transaction, with the version row locked.                *)
PublishVersion(r) ==
    LET c == req[r].c IN
    /\ req[r].pc = "lock" /\ req[r].op = "publish_version"
    /\ IF req[r].joined \/ version[c].status # "draft"
       THEN UNCHANGED catalogFacts /\ Finish(r, {"ErrConflict"})
       ELSE PublishDraft(c) /\ Committed(r)
    /\ UNCHANGED <<provider, claim, binding, owner, bound>>

DisableVersionRow(r) ==
    LET c == req[r].c IN
    /\ req[r].pc = "lock" /\ req[r].op = "disable_version"
    /\ IF req[r].joined
       THEN UNCHANGED catalogFacts /\ Finish(r, {"ErrConflict"})
       ELSE /\ IF version[c].status = "disabled" THEN UNCHANGED catalogFacts
               ELSE DisableVersion(c)
            /\ Committed(r)
    /\ UNCHANGED <<provider, claim, binding, owner, bound>>

-----------------------------------------------------------------------------
\* Mutant: the binding may be one of another version.
AnyBinding(c, p, b, caller) ==
    CASE provider[p].status = "absent" -> {"ErrProviderNotFound"}
      [] provider[p].owner # caller \/ provider[p].status = "suspended" -> {"ErrForbidden"}
      [] b \notin DOMAIN binding -> {"ErrBindingNotFound"}
      [] binding[b].provider # p -> {"ErrBindingNotFound"}
      [] OTHER -> {}

authorizeBinding(c, p, b, caller) ==
    CASE provider[p].status = "absent" -> {"ErrProviderNotFound"}
      [] provider[p].owner # caller \/ provider[p].status = "suspended" -> {"ErrForbidden"}
      [] b \notin DOMAIN binding -> {"ErrBindingNotFound"}
      [] binding[b].provider # p -> {"ErrBindingNotFound"}
      [] binding[b].card # c -> {"ErrReleaseInvalid"}
      [] OTHER -> {}

(* CreateRelease, up to the transaction: the row to insert copies what was  *)
(* read of the binding.                                                     *)
PrepareRelease(r, c, p, b, caller) ==
    /\ req[r].pc = "start"
    /\ LET denied == authorizeBinding(c, p, b, caller)
           err == IF denied = {} /\ binding[b].status \notin {"pending", "verified"}
                  THEN {"ErrReleaseConflict"} ELSE denied
       IN IF err # {} THEN Finish(r, err)
          ELSE req' = [req EXCEPT ![r] = [Idle EXCEPT
                    !.op = "create", !.pc = "insert", !.c = c,
                    !.to = IF binding[b].status = "verified" THEN "verified"
                           ELSE "pending_verification",
                    !.row = [provider |-> p, binding |-> b, evidence |-> binding[b].evidence]]]
    /\ UNCHANGED <<version, release, clock, provider, claim, binding, owner, bound>>

CreateRelease(r) ==
    LET c == req[r].c IN
    /\ req[r].pc = "insert"
    /\ IF release[c] = "absent"
       THEN /\ InsertRelease(c, req[r].to)
            /\ bound' = [bound EXCEPT ![c] = req[r].row]
            /\ Committed(r)
       ELSE UNCHANGED <<catalogFacts, bound>> /\ Finish(r, {"ErrReleaseConflict"})
    /\ UNCHANGED <<provider, claim, binding, owner>>

(* authorizeRelease and the check of the state it read.                     *)
ReleaseOps == {"verified", "published", "suspended", "revoked"}

ReadRelease(r, to, c, caller) ==
    /\ req[r].pc = "start"
    /\ LET err == CASE release[c] = "absent" -> {"ErrReleaseNotFound"}
                    [] provider[bound[c].provider].owner # caller -> {"ErrForbidden"}
                    [] ~Allowed(release[c], to) -> {"ErrReleaseConflict"}
                    [] OTHER -> {}
       IN IF err # {} THEN Finish(r, err)
          ELSE req' = [req EXCEPT ![r] = [Idle EXCEPT
                    !.op = "transition", !.c = c, !.to = to, !.row = bound[c],
                    !.pc = IF to \in {"verified", "published"} THEN "require"
                           ELSE "transition"]]
    /\ UNCHANGED <<version, release, clock, provider, claim, binding, owner, bound>>

(* Whether the release of c may be published with this row now: a           *)
(* property-side definition, of the three tables at one moment.             *)
Fit(c, row) ==
    /\ release[c] = "verified" /\ provider[row.provider].status = "verified"
    /\ binding[row.binding].status = "verified"
    /\ row.evidence # 0 /\ binding[row.binding].evidence = row.evidence

\* Mutant: the provider need not be verified any more.
RequireAnyProvider(r) ==
    /\ req[r].pc = "require"
    /\ req' = [req EXCEPT ![r].pc = "binding", ![r].fit = Fit(req[r].c, req[r].row)]
    /\ UNCHANGED <<version, release, clock, provider, claim, binding, owner, bound>>

(* requireCurrentVerifiedBinding, on the release read before: the provider  *)
(* is read, then the binding.  fit records whether all was as it has to be  *)
(* when the provider was read.                                              *)
RequireProvider(r) ==
    /\ req[r].pc = "require"
    /\ IF provider[req[r].row.provider].status # "verified"
       THEN Finish(r, {"ErrReleaseConflict"})
       ELSE req' = [req EXCEPT ![r].pc = "binding", ![r].fit = Fit(req[r].c, req[r].row)]
    /\ UNCHANGED <<version, release, clock, provider, claim, binding, owner, bound>>

RequireBinding(r) ==
    LET row == req[r].row
        b == binding[row.binding]
        unproved == req[r].to = "verified" /\ row.evidence = 0 IN
    /\ req[r].pc = "binding"
    /\ IF b.status # "verified" \/ b.evidence = 0 \/ (~unproved /\ row.evidence # b.evidence)
       THEN Finish(r, {"ErrReleaseConflict"})
       ELSE req' = [req EXCEPT ![r].pc = IF req[r].to = "verified" THEN "evidence" ELSE "transition"]
    /\ UNCHANGED <<version, release, clock, provider, claim, binding, owner, bound>>

(* transitionAfterBinding: VerifyRelease reads the binding once more, for   *)
(* the evidence.                                                            *)
ReadEvidence(r) ==
    LET b == binding[req[r].row.binding] IN
    /\ req[r].pc = "evidence"
    /\ IF b.evidence = 0 THEN Finish(r, {"ErrReleaseConflict"})
       ELSE req' = [req EXCEPT ![r].pc = "transition", ![r].row.evidence = b.evidence]
    /\ UNCHANGED <<version, release, clock, provider, claim, binding, owner, bound>>

(* Store.TransitionRelease locks the release row and decides again.  The    *)
(* evidence is written when a pending release is verified and kept by every *)
(* other move.                                                              *)
TransitionRelease(r) ==
    LET c == req[r].c
        to == req[r].to IN
    /\ req[r].pc = "transition"
    /\ CASE ~Allowed(release[c], to) ->
                UNCHANGED <<catalogFacts, bound>> /\ Finish(r, {"ErrReleaseConflict"})
         [] Allowed(release[c], to) /\ to = "published" /\ version[c].status = "disabled" ->
                UNCHANGED <<catalogFacts, bound>> /\ Finish(r, {"ErrDependency"})
         [] OTHER ->
                /\ MoveRelease(c, to)
                /\ bound' = IF to = "verified"
                            THEN [bound EXCEPT ![c].evidence = req[r].row.evidence] ELSE bound
                /\ Committed(r)
    /\ UNCHANGED <<provider, claim, binding, owner>>

(* The database is unreachable or the context ended before COMMIT: nothing  *)
(* is written.                                                              *)
StoreFails(r) ==
    /\ req[r].pc \in {"lock", "insert", "require", "binding", "evidence", "transition"}
    /\ Finish(r, {"ErrDependency"})
    /\ UNCHANGED <<version, release, clock, provider, claim, binding, owner, bound>>

Begin(r, c, u) ==
    \/ \E op \in {"publish_version", "disable_version"} : ReadVersion(r, op, c, u)
    \/ \E p \in Providers, b \in 1..MaxBindings : PrepareRelease(r, c, p, b, u)
    \/ \E to \in ReleaseOps : ReadRelease(r, to, c, u)

Next ==
    \/ \E c \in Cards, u \in Callers : Register(c, u)
    \/ TrustStep
    \/ \E r \in Requests :
        \/ \E c \in Cards, u \in Callers : Begin(r, c, u)
        \/ PublishVersion(r)
        \/ DisableVersionRow(r)
        \/ CreateRelease(r)
        \/ RequireProvider(r)
        \/ RequireBinding(r)
        \/ ReadEvidence(r)
        \/ TransitionRelease(r)
        \/ StoreFails(r)

Spec == Init /\ [][Next]_catalogVars
-----------------------------------------------------------------------------
(* The evidence of a release is that of its own binding: made for the same  *)
(* version by the same provider, verified with exactly this digest, and at  *)
(* most revoked by the operator since.                                      *)
EvidenceIsBindings ==
    \A c \in Cards : bound[c].evidence # 0 =>
        LET b == binding[bound[c].binding] IN
        /\ b.card = c /\ b.provider = bound[c].provider
        /\ b.evidence = bound[c].evidence \/ b.status = "revoked"

(* A release is published only by a request inside which there was a moment *)
(* when all of it was true at once: the release and its provider were       *)
(* verified, and its binding was verified with the evidence of the release. *)
(* The row published is the one that was checked.  The three tables are     *)
(* read at different times; the binding may have been revoked between the   *)
(* check and the write, but not before the request began.                   *)
PublishLinearizesStep ==
    \A c \in Cards : release[c] # "published" /\ release'[c] = "published" =>
        \E r \in Requests : /\ req[r].c = c /\ req[r].to = "published" /\ req[r].fit
                            /\ bound'[c] = req[r].row

PublishLinearizes == [][PublishLinearizesStep]_catalogVars

(* All releases of an Agent belong to one provider, the one whose binding   *)
(* came first.                                                              *)
OneProviderPerAgent ==
    \A c, d \in Cards : AgentOf[c] = AgentOf[d] /\ release[c] # "absent" /\ release[d] # "absent"
        => bound[c].provider = bound[d].provider

(* A published release is on a published version.  installabilityError and  *)
(* validateReleaseEligibility answer anything else with a dependency error, *)
(* and Store.transition refuses a version that has a release.               *)
PublishedReleaseIsVisible ==
    \A c \in Cards : release[c] = "published" => version[c].status = "published"
=============================================================================
