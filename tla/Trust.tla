------------------------------- MODULE Trust -------------------------------
(***************************************************************************)
(* The endpoint ownership challenge: TrustService of                       *)
(* src/apps/control-plane/internal/catalog/trust.go over the transactions  *)
(* of postgres/trust_store.go, behind the handlers of                      *)
(* gateway/trust_handler.go.                                               *)
(*                                                                         *)
(* A request is a slot that starts once and ends with a set of joined      *)
(* errors ({} is success).  A database transaction is one step; what the   *)
(* service reads before it, and the network round trip of the proof, are   *)
(* steps of their own, so that other requests, the clock and an operator   *)
(* come in between.  A challenge proof is 32 random bytes: it is modelled  *)
(* by the index of its challenge, and so is its digest.                    *)
(***************************************************************************)
EXTENDS TrustFacts, FiniteSets

CONSTANTS
    Requests,           \* concurrent challenge requests
    MaxChallenges,      \* bound on the challenges created
    MaxTime,            \* bound of the clock
    ChallengeTTL,       \* challengeTTL
    Lookups,            \* answers of the resolver: sets of address kinds
    AllowedPrivateHosts,\* cards whose endpoint host the operator allowed
    Answers             \* what the endpoint answers besides a proof

VARIABLES
    challenge,          \* rows of catalog.verification_challenges
    code,               \* code[b]: verification_failure_code ("": NULL)
    now,                \* service.clock()
    req

trustVars == <<provider, claim, binding, challenge, code, now, req>>

(* The kinds of address that the policy tells apart; a link-local address   *)
(* counts as private.                                                       *)
AddressKinds == {"public", "loopback", "private", "unspecified", "multicast", "reserved"}

(* Evidence names at least every challenge; a lookup fails or gives a set   *)
(* of addresses.                                                            *)
TrustConstants ==
    /\ MaxBindings \in Nat /\ MaxChallenges \in Nat /\ ChallengeTTL \in Nat
    /\ 1..MaxChallenges \subseteq Evidence
    /\ Lookups \subseteq {{"lookup_error"}} \cup SUBSET AddressKinds

Idle == [op |-> "none", pc |-> "start", b |-> 0, c |-> 0, target |-> "none",
         code |-> "", dest |-> {}, provedAt |-> 0, err |-> {}]

Init ==
    /\ FactsInit
    /\ challenge = <<>> /\ code = <<>>
    /\ now = 0
    /\ req = [r \in Requests |-> Idle]

(* EndpointPolicy: an address kind outside "public" is disallowed; the      *)
(* reserved, multicast and unspecified kinds are so even for a host that    *)
(* the operator allowed.                                                    *)
isDisallowedIP(kind) == kind # "public"
isAlwaysDisallowedIP(kind) == kind \in {"unspecified", "multicast", "reserved"}

ExplicitlyAllowed(r) == binding[req[r].b].card \in AllowedPrivateHosts

ResolveDestination(r, ips) ==
    CASE ips = {"lookup_error"} -> {"ErrTrustDependency"}
      [] ips = {} -> {"ErrEndpointUnavailable"}
      [] OTHER ->
            IF \/ ~ExplicitlyAllowed(r) /\ \E ip \in ips : isDisallowedIP(ip)
               \/ \E ip \in ips : isAlwaysDisallowedIP(ip)
               \/ \E i, j \in ips : isDisallowedIP(i) /\ ~isDisallowedIP(j)
            THEN {"ErrDisallowedNetwork"} ELSE {}

(* fetchVerificationProof: the answers that are not a proof body.           *)
AnswerError(answer) ==
    CASE answer = "unavailable" -> {"ErrEndpointUnavailable"}
      [] answer = "redirect" -> {"ErrRedirectNotAllowed"}
      [] OTHER -> {"ErrWrongProof"}

verificationFailureCode(cause) ==
    CASE "ErrWrongProof" \in cause -> "wrong_proof"
      [] "ErrRedirectNotAllowed" \in cause -> "redirect_not_allowed"
      [] "ErrChallengeExpired" \in cause -> "challenge_expired"
      [] "ErrEndpointUnavailable" \in cause -> "endpoint_unavailable"
      [] "ErrDisallowedNetwork" \in cause -> "disallowed_network"
      [] "ErrTrustDependency" \in cause -> "dependency_failure"

(* What the handler answers for a joined error, and the HTTP status of it.  *)
trustErrorCode(err) ==
    CASE err = {} -> "OK"
      [] "ErrWrongProof" \in err -> "WRONG_PROOF"
      [] "ErrRedirectNotAllowed" \in err -> "REDIRECT_NOT_ALLOWED"
      [] "ErrForbidden" \in err -> "FORBIDDEN"
      [] err \cap {"ErrProviderNotFound", "ErrBindingNotFound", "ErrChallengeNotFound"} # {}
            -> "NOT_FOUND"
      [] "ErrChallengeExpired" \in err -> "CHALLENGE_EXPIRED"
      [] "ErrChallengeReused" \in err -> "CHALLENGE_REUSED"
      [] "ErrTrustConflict" \in err -> "CONFLICT"
      [] "ErrDisallowedNetwork" \in err -> "DISALLOWED_NETWORK"
      [] "ErrEndpointUnavailable" \in err -> "ENDPOINT_UNAVAILABLE"
      [] OTHER -> "DEPENDENCY_ERROR"

-----------------------------------------------------------------------------

(* TrustService.CreateBinding.  The registered card is immutable, so its    *)
(* read and the endpoint comparison join the transaction; a caller who is   *)
(* refused changes nothing.                                                 *)
CreateBinding(p, card, caller) ==
    /\ Bind(p, card, caller)
    /\ code' = Append(code, "")
    /\ UNCHANGED <<challenge, now, req>>

Finish(r, err) == req' = [req EXCEPT ![r].pc = "done", ![r].err = err]

(* The answer to a transaction that took effect: COMMIT may fail although   *)
(* it did, and the request ends with a dependency error.                    *)
Committed(r, err) == Finish(r, err) \/ Finish(r, {"ErrTrustDependency"})

(* authorizeProvider and GetBinding, read one after the other; the row of a *)
(* binding names its provider for good.                                     *)
authorizeProvider(p, caller) ==
    CASE provider[p].status = "absent" -> {"ErrProviderNotFound"}
      [] provider[p].owner # caller -> {"ErrForbidden"}
      [] provider[p].status = "suspended" -> {"ErrForbidden"}
      [] OTHER -> {}

ReadBinding(p, b, caller) ==
    LET denied == authorizeProvider(p, caller) IN
    CASE denied # {} -> denied
      [] b \notin DOMAIN binding -> {"ErrBindingNotFound"}
      [] binding[b].provider # p -> {"ErrBindingNotFound"}
      [] binding[b].status \in {"verified", "revoked"} -> {"ErrTrustConflict"}
      [] OTHER -> {}

Begin(r, op, p, b, c, caller) ==
    /\ req[r].pc = "start"
    /\ LET err == ReadBinding(p, b, caller) IN
        req' = [req EXCEPT ![r] =
                    IF err # {} THEN [Idle EXCEPT !.pc = "done", !.err = err]
                    ELSE [Idle EXCEPT !.op = op, !.b = b, !.c = c,
                                      !.pc = IF op = "create" THEN "insert" ELSE "reserve"]]
    /\ UNCHANGED <<provider, claim, binding, challenge, code, now>>

(* The insert of CreateChallenge; its expiry comes from the clock.          *)
InsertChallenge(r) ==
    /\ req[r].pc = "insert"
    /\ Len(challenge) < MaxChallenges
    /\ challenge' = Append(challenge, [b |-> req[r].b, expires |-> now + ChallengeTTL,
                                       used |-> FALSE])
    /\ Committed(r, {})
    /\ UNCHANGED <<provider, claim, binding, code, now>>

(* ReserveChallenge: the challenge row and then the binding row are locked, *)
(* and used_at is set, in one transaction.                                  *)
ReserveErrors(c, b) ==
    CASE c \notin DOMAIN challenge -> {"ErrChallengeNotFound"}
      [] challenge[c].b # b -> {"ErrChallengeNotFound"}
      [] challenge[c].used -> {"ErrChallengeReused"}
      [] now >= challenge[c].expires -> {"ErrChallengeExpired"}
      [] ~Unsettled(b) -> {"ErrTrustConflict"}
      [] OTHER -> {}

Record(r, cause) ==
    [req[r] EXCEPT !.pc = "record", !.target = "failed", !.err = cause,
                   !.code = verificationFailureCode(cause)]

ReserveChallenge(r) ==
    /\ req[r].pc = "reserve"
    /\ LET err == ReserveErrors(req[r].c, req[r].b) IN
       IF err = {}
       THEN /\ challenge' = [challenge EXCEPT ![req[r].c].used = TRUE]
            /\ \/ req' = [req EXCEPT ![r].pc = "fetch"]
               \/ Finish(r, {"ErrTrustDependency"})
       ELSE /\ IF err = {"ErrChallengeExpired"} THEN req' = [req EXCEPT ![r] = Record(r, err)]
               ELSE Finish(r, err)
            /\ UNCHANGED challenge
    /\ UNCHANGED <<provider, claim, binding, code, now>>

\* Mutant: the clock is not read again after the answer.
NotAgain(r) == FALSE

(* The name is resolved once and every address checked; the request goes to *)
(* one of these addresses.  The clock is read again after the answer.       *)
Expired(r) == now >= challenge[req[r].c].expires

VerificationFailed(r, cause) ==
    req' = [req EXCEPT ![r] = Record(r, IF Expired(r) THEN {"ErrChallengeExpired"} ELSE cause)]

ResolveFails(r, ips) ==
    /\ req[r].pc = "fetch"
    /\ ResolveDestination(r, ips) # {}
    /\ VerificationFailed(r, ResolveDestination(r, ips))
    /\ UNCHANGED <<provider, claim, binding, challenge, code, now>>

FetchFails(r, ips, answer) ==
    /\ req[r].pc = "fetch"
    /\ ResolveDestination(r, ips) = {}
    /\ req' = [req EXCEPT ![r] =
                [Record(r, IF Expired(r) THEN {"ErrChallengeExpired"} ELSE AnswerError(answer))
                    EXCEPT !.dest = ips]]
    /\ UNCHANGED <<provider, claim, binding, challenge, code, now>>

FetchProof(r, ips, proof) ==
    /\ req[r].pc = "fetch"
    /\ ResolveDestination(r, ips) = {}
    /\ req' = [req EXCEPT ![r] =
                CASE Expired(r) -> [Record(r, {"ErrChallengeExpired"}) EXCEPT !.dest = ips]
                  [] ~Expired(r) /\ proof # req[r].c -> [Record(r, {"ErrWrongProof"}) EXCEPT !.dest = ips]
                  [] OTHER -> [@ EXCEPT !.pc = "record", !.target = "verified", !.code = "",
                                        !.dest = ips, !.provedAt = now]]
    /\ UNCHANGED <<provider, claim, binding, challenge, code, now>>

(* SetBindingVerification.  The binding and the provider change in one      *)
(* transaction, which is rolled back when the provider is suspended; a      *)
(* failure that cannot be recorded is a conflict.  An expired reservation   *)
(* is reported as such even then.                                           *)
RecordFailure(r) ==
    /\ req[r].pc = "record" /\ req[r].target = "failed"
    /\ IF Unsettled(req[r].b)
       THEN /\ FailBinding(req[r].b)
            /\ code' = [code EXCEPT ![req[r].b] = req[r].code]
            /\ Committed(r, req[r].err)
       ELSE /\ UNCHANGED <<facts, code>>
            /\ Finish(r, IF challenge[req[r].c].used THEN {"ErrTrustConflict"} ELSE req[r].err)
    /\ UNCHANGED <<challenge, now>>

RecordVerified(r) ==
    /\ req[r].pc = "record" /\ req[r].target = "verified"
    /\ IF Unsettled(req[r].b) /\ provider[binding[req[r].b].provider].status # "suspended"
       THEN /\ VerifyBinding(req[r].b, req[r].c)
            /\ code' = [code EXCEPT ![req[r].b] = ""]
            /\ Committed(r, {})
       ELSE /\ UNCHANGED <<facts, code>>
            /\ Finish(r, IF Unsettled(req[r].b) THEN {"ErrForbidden"} ELSE {"ErrTrustConflict"})
    /\ UNCHANGED <<challenge, now>>

(* The database is unreachable or the request context ended before COMMIT:  *)
(* the step is rolled back and the request ends.                            *)
StoreFails(r) ==
    /\ req[r].pc \in {"insert", "reserve", "record"}
    /\ Finish(r, {"ErrTrustDependency"})
    /\ UNCHANGED <<provider, claim, binding, challenge, code, now>>

Tick ==
    /\ now < MaxTime
    /\ now' = now + 1
    /\ UNCHANGED <<provider, claim, binding, challenge, code, req>>

Operator ==
    /\ \/ \E p \in Providers : SuspendProvider(p) /\ UNCHANGED code
       \/ \E b \in DOMAIN binding : RevokeBinding(b) /\ code' = [code EXCEPT ![b] = ""]
    /\ UNCHANGED <<challenge, now, req>>

Step(r) ==
    \/ InsertChallenge(r)
    \/ ReserveChallenge(r)
    \/ \E ips \in Lookups :
        \/ ResolveFails(r, ips)
        \/ \E a \in Answers : FetchFails(r, ips, a)
        \/ \E c \in DOMAIN challenge : FetchProof(r, ips, c)
    \/ RecordFailure(r)
    \/ RecordVerified(r)

Next ==
    \/ \E p \in Providers, c \in Cards, u \in Callers : CreateBinding(p, c, u)
    \/ \E r \in Requests, p \in Providers, u \in Callers, b \in 1..MaxBindings :
        \/ Begin(r, "create", p, b, 0, u)
        \/ \E c \in 1..MaxChallenges : Begin(r, "complete", p, b, c, u)
    \/ \E r \in Requests : Step(r) \/ StoreFails(r)
    \/ Tick
    \/ Operator

Spec == Init /\ [][Next]_trustVars
-----------------------------------------------------------------------------
(* An address the policy admits: public, or private for an allowed host.    *)
Admitted(r) ==
    \/ req[r].dest = {"public"}
    \/ ExplicitlyAllowed(r) /\ req[r].dest \subseteq {"loopback", "private"}

Consumed(r, c) == req[r].op = "complete" /\ req[r].c = c /\ req[r].dest # {}

(* A binding is verified only by a completion that fetched the proof of a   *)
(* challenge of this binding from an admitted address, and had it in hand   *)
(* before that challenge expired; the clock may have moved on before the    *)
(* row was written.  It was answered OK, or DEPENDENCY_ERROR when its       *)
(* COMMIT was in doubt, and nothing else.  No other completion, concurrent  *)
(* or later, gets past ReserveChallenge with this challenge.  A completion  *)
(* answers OK only for a binding that is verified, or was until the         *)
(* operator revoked it, and a failure code is on failed bindings only.      *)
VerifiedByTimelyProof ==
    /\ \A b \in DOMAIN binding : binding[b].status = "verified" =>
        \E r \in Requests :
            /\ req[r].op = "complete" /\ req[r].b = b /\ req[r].c = binding[b].evidence
            /\ req[r].pc = "done" /\ req[r].target = "verified"
            /\ trustErrorCode(req[r].err) \in {"OK", "DEPENDENCY_ERROR"}
            /\ challenge[req[r].c].b = b /\ challenge[req[r].c].used
            /\ req[r].provedAt < challenge[req[r].c].expires
            /\ Admitted(r)
    /\ \A c \in DOMAIN challenge : Cardinality({r \in Requests : Consumed(r, c)}) <= 1
    /\ \A r \in Requests : req[r].pc = "done" /\ req[r].op = "complete"
            /\ trustErrorCode(req[r].err) = "OK" => binding[req[r].b].status \in {"verified", "revoked"}
    /\ \A b \in DOMAIN binding : (code[b] # "") <=> (binding[b].status = "failed")
=============================================================================
