---------------------------- MODULE TrustFacts ----------------------------
(***************************************************************************)
(* What the trust half of the Catalog promises its readers (the release    *)
(* service): the provider rows, the claim of each Agent by one provider    *)
(* and the endpoint bindings with their verification status.  Every write  *)
(* is one database transaction.  Module Trust, the challenge protocol of   *)
(* src/apps/control-plane/internal/catalog/trust.go, writes by these steps *)
(* only, and module Catalog reads what they leave.                         *)
(***************************************************************************)
EXTENDS Naturals, Sequences

CONSTANTS
    Callers,        \* authenticated identities
    Providers,      \* provider identifiers
    Cards,          \* registered Agent versions
    AgentOf,        \* AgentOf[card]: the Agent identity of the card
    Evidence,       \* digests of proofs
    MaxBindings     \* bound on the bindings created

VARIABLES
    provider,       \* provider[p]: row of catalog.providers ("absent": no row)
    claim,          \* claim[a]: set holding the provider_id of Agent identity a
    binding         \* rows of catalog.endpoint_bindings; the index is the id

facts == <<provider, claim, binding>>

Agents == {AgentOf[c] : c \in Cards}

FactsInit ==
    /\ provider = [p \in Providers |-> [status |-> "absent", owner |-> "nobody"]]
    /\ claim = [a \in Agents |-> {}]
    /\ binding = <<>>

(* The transaction of Store.CreateBinding: the provider row is created on   *)
(* first use and locked, then the Agent identity is locked and claimed.     *)
OwnedBy(p, caller) ==
    \/ provider[p].status = "absent"
    \/ provider[p].owner = caller /\ provider[p].status # "suspended"

Claimable(p, card) == claim[AgentOf[card]] \subseteq {p}

Bind(p, card, caller) ==
    /\ Len(binding) < MaxBindings
    /\ OwnedBy(p, caller)
    /\ Claimable(p, card)
    /\ provider' = IF provider[p].status = "absent"
                   THEN [provider EXCEPT ![p] = [status |-> "unverified", owner |-> caller]]
                   ELSE provider
    /\ claim' = [claim EXCEPT ![AgentOf[card]] = {p}]
    /\ binding' = Append(binding, [provider |-> p, card |-> card,
                                   status |-> "pending", evidence |-> 0])

(* SetBindingVerification: only a pending or failed binding moves.          *)
Unsettled(b) == binding[b].status \in {"pending", "failed"}

FailBinding(b) ==
    /\ Unsettled(b)
    /\ binding' = [binding EXCEPT ![b].status = "failed"]
    /\ UNCHANGED <<provider, claim>>

VerifyBinding(b, evidence) ==
    /\ Unsettled(b)
    /\ provider[binding[b].provider].status # "suspended"
    /\ binding' = [binding EXCEPT ![b].status = "verified", ![b].evidence = evidence]
    /\ provider' = [provider EXCEPT ![binding[b].provider].status = "verified"]
    /\ UNCHANGED claim

(* No code writes these two states; the schema admits them and the services *)
(* read them, so an operator may set them at any time.                      *)
SuspendProvider(p) ==
    /\ provider[p].status \in {"unverified", "verified"}
    /\ provider' = [provider EXCEPT ![p].status = "suspended"]
    /\ UNCHANGED <<claim, binding>>

RevokeBinding(b) ==
    /\ binding[b].status # "revoked"
    /\ binding' = [binding EXCEPT ![b].status = "revoked", ![b].evidence = 0]
    /\ UNCHANGED <<provider, claim>>

FactsNext ==
    \/ \E p \in Providers, c \in Cards, u \in Callers : Bind(p, c, u)
    \/ \E b \in DOMAIN binding :
        \/ FailBinding(b)
        \/ \E e \in Evidence : VerifyBinding(b, e)
        \/ RevokeBinding(b)
    \/ \E p \in Providers : SuspendProvider(p)
=============================================================================
