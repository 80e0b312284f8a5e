---------------------------- MODULE TrustProofs ----------------------------
(***************************************************************************)
(* Proofs about modules Trust and Catalog.                                 *)
(*                                                                         *)
(* The first half is about the challenge protocol, for any number of       *)
(* requests, bindings, challenges and ticks of the clock.                  *)
(*                                                                         *)
(* RequestOK says what a request knows at each step of the protocol, of    *)
(* rows that other requests, the clock and the operator change meanwhile.  *)
(* It stays true because the rows move one way only (Moves): bindings and  *)
(* challenges are never deleted, a challenge keeps its binding and its     *)
(* expiry and stays used, and a settled binding stays settled.  SoleUse    *)
(* says that a used challenge has one completion that got past             *)
(* ReserveChallenge with it.                                               *)
(*                                                                         *)
(* The second half is about module Catalog, the release service, for any   *)
(* number of requests: CatalogInv says that the row a release copied, or   *)
(* that a request is about to write, is that of a binding of its version.  *)
(***************************************************************************)
EXTENDS Trust, FiniteSetTheorems, SequenceTheorems, TLAPS

CONSTANT LegacyPublished
VARIABLES version, release, clock, owner, bound, calls

Cat == INSTANCE Catalog WITH req <- calls

Flags == BOOLEAN
FailureCodes == {"", "wrong_proof", "redirect_not_allowed", "challenge_expired",
                 "endpoint_unavailable", "disallowed_network", "dependency_failure"}
TrustErrors == {"ErrWrongProof", "ErrRedirectNotAllowed", "ErrChallengeExpired",
                "ErrEndpointUnavailable", "ErrDisallowedNetwork", "ErrTrustDependency",
                "ErrForbidden", "ErrProviderNotFound", "ErrBindingNotFound",
                "ErrChallengeNotFound", "ErrChallengeReused", "ErrTrustConflict"}
Causes == {{"ErrWrongProof"}, {"ErrRedirectNotAllowed"}, {"ErrChallengeExpired"},
           {"ErrEndpointUnavailable"}, {"ErrDisallowedNetwork"}, {"ErrTrustDependency"}}

BindingRow == [provider : Providers, card : Cards,
               status : {"pending", "failed", "verified", "revoked"}, evidence : Nat]
ChallengeRow == [b : Nat, expires : Nat, used : Flags]
Completion == [op : {"none", "create", "complete"},
               pc : {"start", "insert", "reserve", "fetch", "record", "done"},
               b : Nat, c : 0..MaxChallenges, target : {"none", "failed", "verified"},
               code : FailureCodes,
               dest : SUBSET AddressKinds, provedAt : Nat, err : SUBSET TrustErrors]

Tables ==
    /\ provider \in [Providers -> [status : {"absent", "unverified", "verified", "suspended"},
                                   owner : Callers \cup {"nobody"}]]
    /\ claim \in [Agents -> SUBSET Providers]
    /\ binding \in Seq(BindingRow) /\ challenge \in Seq(ChallengeRow)
    /\ code \in Seq(FailureCodes) /\ Len(code) = Len(binding)
    /\ now \in Nat

-----------------------------------------------------------------------------
(* What holds of a request x, of the bindings B and the challenges C *)

\* It has used up a challenge of its binding.
Reserved(x, C) == x.c \in DOMAIN C /\ C[x.c].b = x.b /\ C[x.c].used

\* It had the proof in hand in time, from an address that the policy admits.
Proved(x, B, C) ==
    /\ x.op = "complete" /\ x.b \in DOMAIN B
    /\ Reserved(x, C) /\ x.provedAt < C[x.c].expires
    /\ \/ x.dest = {"public"}
       \/ B[x.b].card \in AllowedPrivateHosts /\ x.dest \subseteq {"loopback", "private"}

RequestOK(x, B, C) ==
    /\ x \in Completion
    /\ x.pc \in {"start", "insert", "reserve", "fetch"} =>
        x.err = {} /\ x.dest = {} /\ x.target = "none"
    /\ x.pc = "insert" => x.op = "create"
    /\ x.pc \in {"reserve", "fetch", "record"} => x.op = "complete"
    /\ x.pc \in {"insert", "reserve", "fetch", "record"} => x.b \in DOMAIN B
    /\ x.pc = "fetch" \/ x.dest # {} => Reserved(x, C)
    /\ x.pc = "record" =>
        \/ x.target = "failed" /\ x.err \in Causes /\ x.code # ""
        \/ x.target = "verified" /\ x.err = {}
    /\ x.target = "verified" => Proved(x, B, C)
    /\ x.pc = "done" /\ x.op = "complete" /\ x.err = {} =>
        x.target = "verified" /\ B[x.b].status \in {"verified", "revoked"}

\* It got past ReserveChallenge.
Past(x) == x.op = "complete" /\ (x.pc = "fetch" \/ x.dest # {})

Requested ==
    /\ req \in [Requests -> Completion]
    /\ \A r \in Requests : RequestOK(req[r], binding, challenge)

SoleUse ==
    \A r, q \in Requests : r # q /\ Past(req[r]) /\ Past(req[q]) => req[r].c # req[q].c

\* The answers to a completion whose last transaction took effect: COMMIT may
\* have been in doubt.
Effective == {{}, {"ErrTrustDependency"}}

\* Request x is the completion that verified binding b with evidence e.
Verifier(x, b, e) ==
    /\ x.pc = "done" /\ x.op = "complete" /\ x.target = "verified" /\ x.err \in Effective
    /\ x.b = b /\ x.c = e

\* A verified binding has its completion.
HasProof ==
    \A b \in DOMAIN binding : binding[b].status = "verified" =>
        \E r \in Requests : Verifier(req[r], b, binding[b].evidence)

FailuresOK == \A b \in DOMAIN binding : (code[b] # "") <=> (binding[b].status = "failed")

TrustInv == Tables /\ Requested /\ SoleUse /\ HasProof /\ FailuresOK

\* How the rows can change under a request.
Moves(B, C, B2, C2) ==
    /\ \A b \in DOMAIN B : /\ b \in DOMAIN B2 /\ B2[b].card = B[b].card
                           /\ B[b].status \in {"verified", "revoked"} =>
                                B2[b].status \in {"verified", "revoked"}
    /\ \A c \in DOMAIN C : /\ c \in DOMAIN C2 /\ C2[c].b = C[c].b /\ C2[c].expires = C[c].expires
                           /\ C[c].used => C2[c].used

\* One row of a table is replaced.
Put(s, i, e) == [s EXCEPT ![i] = e]

\* What replacing one row leaves.
LEMMA RowUpdate ==
    ASSUME NEW S, NEW s \in Seq(S), NEW i \in DOMAIN s, NEW e \in S
    PROVE  /\ Put(s, i, e) \in Seq(S) /\ Len(Put(s, i, e)) = Len(s)
           /\ DOMAIN Put(s, i, e) = DOMAIN s /\ Put(s, i, e)[i] = e
           /\ \A k \in DOMAIN s \ {i} : Put(s, i, e)[k] = s[k]
<1>1. i \in 1..Len(s) /\ DOMAIN s = 1..Len(s)
  OBVIOUS
<1>2. Put(s, i, e) \in Seq(S) /\ Len(Put(s, i, e)) = Len(s)
  BY <1>1, ExceptSeq, Zenon DEF Put
<1>3. /\ DOMAIN Put(s, i, e) = DOMAIN s /\ Put(s, i, e)[i] = e
      /\ \A k \in DOMAIN s \ {i} : Put(s, i, e)[k] = s[k]
  BY Zenon DEF Put
<1> QED
  BY <1>2, <1>3, Zenon

\* A binding has its failure code.
LEMMA SameLength ==
    ASSUME Tables
    PROVE  /\ DOMAIN code = DOMAIN binding /\ Len(code) = Len(binding)
           /\ binding \in Seq(BindingRow) /\ code \in Seq(FailureCodes)
  BY DEF Tables

\* What a request knows stays true as the rows move.
LEMMA RequestKept ==
    ASSUME NEW x, NEW B, NEW C, NEW B2, NEW C2, RequestOK(x, B, C), Moves(B, C, B2, C2)
    PROVE  RequestOK(x, B2, C2)
<1>1. Reserved(x, C) => Reserved(x, C2)
  BY Zenon DEF Reserved, Moves
<1>2. Proved(x, B, C) => Proved(x, B2, C2)
  BY <1>1, Zenon DEF Proved, Reserved, Moves
<1>3. x.b \in DOMAIN B => x.b \in DOMAIN B2
  BY Zenon DEF Moves
<1>4. Proved(x, B, C) /\ B[x.b].status \in {"verified", "revoked"} =>
        B2[x.b].status \in {"verified", "revoked"}
  BY Zenon DEF Moves, Proved
<1> QED
  BY <1>1, <1>2, <1>3, <1>4, ZenonT(60) DEF RequestOK

\* Rows that stay as they are have moved.
LEMMA MovesNot ==
    ASSUME NEW B, NEW C
    PROVE  Moves(B, C, B, C)
  BY Zenon DEF Moves

\* What is to be shown of the requests after a step.
LEMMA RequestedNext ==
    ASSUME req' \in [Requests -> Completion],
           \A r \in Requests : RequestOK(req'[r], binding', challenge')
    PROVE  Requested'
  BY Zenon DEF Requested, RequestOK, Proved, Reserved

\* A step of one request: it becomes y.
LEMMA RequestStep ==
    ASSUME Requested, SoleUse, NEW r \in Requests, NEW y, req' = [req EXCEPT ![r] = y],
           RequestOK(y, binding', challenge'), req[r].pc # "done",
           Moves(binding, challenge, binding', challenge'),
           Past(y) => \/ Past(req[r]) /\ y.c = req[r].c
                      \/ \A q \in Requests \ {r} : Past(req[q]) => req[q].c # y.c
    PROVE  /\ Requested' /\ SoleUse' /\ req'[r] = y
           /\ \A q \in Requests : req[q].pc = "done" => req'[q] = req[q]
<1>1. y \in Completion /\ req \in [Requests -> Completion]
  BY Zenon DEF RequestOK, Requested
<1>2. /\ req' \in [Requests -> Completion] /\ req'[r] = y
      /\ \A q \in Requests \ {r} : req'[q] = req[q]
  BY <1>1, Zenon
<1>3. ASSUME NEW q \in Requests
      PROVE  RequestOK(req'[q], binding', challenge')
  <2>1. CASE q = r
    BY <1>2, <2>1, Zenon
  <2>2. CASE q # r
    <3>1. RequestOK(req[q], binding, challenge) /\ req'[q] = req[q]
      BY <1>2, <2>2, Zenon DEF Requested
    <3> QED
      BY <3>1, RequestKept, Zenon
  <2> QED
    BY <2>1, <2>2, Zenon
<1>4. Requested'
  BY <1>2, <1>3, RequestedNext, Zenon
<1>5. SoleUse'
  <2> SUFFICES ASSUME NEW p \in Requests, NEW q \in Requests, p # q, Past(req'[p]), Past(req'[q])
               PROVE  req'[p].c # req'[q].c
    BY Zenon DEF SoleUse, Past
  <2>1. CASE p = r
    BY <1>2, <2>1 DEF SoleUse
  <2>2. CASE q = r
    BY <1>2, <2>2 DEF SoleUse
  <2>3. CASE p # r /\ q # r
    BY <1>2, <2>3, Zenon DEF SoleUse
  <2> QED
    BY <2>1, <2>2, <2>3, Zenon
<1> QED
  BY <1>2, <1>4, <1>5, Zenon

\* The requests stay as they are.
LEMMA RequestsStay ==
    ASSUME Requested, SoleUse, req' = req, Moves(binding, challenge, binding', challenge')
    PROVE  Requested' /\ SoleUse' /\ \A q \in Requests : req[q].pc = "done" => req'[q] = req[q]
<1>1. ASSUME NEW q \in Requests
      PROVE  RequestOK(req'[q], binding', challenge')
  BY RequestKept, Zenon DEF Requested
<1>2. Requested'
  BY <1>1, RequestedNext, Zenon DEF Requested
<1>3. SoleUse'
  BY Zenon DEF SoleUse, Past
<1> QED
  BY <1>2, <1>3, Zenon

\* Bindings that are not newly verified keep their completion.
LEMMA ProofStays ==
    ASSUME HasProof, \A q \in Requests : req[q].pc = "done" => req'[q] = req[q],
           \A b \in DOMAIN binding' : binding'[b].status = "verified" =>
              b \in DOMAIN binding /\ binding[b].status = "verified"
              /\ binding'[b].evidence = binding[b].evidence
    PROVE  HasProof'
<1> SUFFICES ASSUME NEW b \in DOMAIN binding', binding'[b].status = "verified"
             PROVE  \E r \in Requests : Verifier(req'[r], b, binding'[b].evidence)
  BY Zenon DEF HasProof, Verifier
<1>1. PICK r \in Requests : Verifier(req[r], b, binding[b].evidence)
  BY Zenon DEF HasProof
<1>2. req'[r] = req[r]
  BY <1>1, Zenon DEF Verifier
<1> QED
  BY <1>1, <1>2, Zenon

-----------------------------------------------------------------------------
(* Steps that leave the bindings alone *)

\* The types of the rows and what a request knows.
LEMMA RequestFacts ==
    ASSUME TrustInv, NEW r \in Requests
    PROVE  /\ req \in [Requests -> Completion] /\ req[r] \in Completion
           /\ RequestOK(req[r], binding, challenge)
           /\ binding \in Seq(BindingRow) /\ challenge \in Seq(ChallengeRow) /\ now \in Nat
  BY Zenon DEF TrustInv, Requested, Tables

\* One request becomes y; of the rows at most a challenge changes.
LEMMA QuietStep ==
    ASSUME TrustInv, NEW r \in Requests, NEW y, req' = [req EXCEPT ![r] = y],
           challenge' \in Seq(ChallengeRow), Moves(binding, challenge, binding, challenge'),
           RequestOK(y, binding, challenge'), req[r].pc # "done",
           Past(y) => \/ Past(req[r]) /\ y.c = req[r].c
                      \/ \A q \in Requests \ {r} : Past(req[q]) => req[q].c # y.c,
           UNCHANGED <<provider, claim, binding, code, now>>
    PROVE  TrustInv'
<1>1. Requested /\ SoleUse /\ binding' = binding
  BY Zenon DEF TrustInv
<1>2. /\ Requested' /\ SoleUse' /\ req'[r] = y
      /\ \A q \in Requests : req[q].pc = "done" => req'[q] = req[q]
  BY <1>1, RequestStep, Zenon
<1>3. HasProof'
  BY <1>1, <1>2, ProofStays DEF TrustInv
<1>4. Tables' /\ FailuresOK'
  BY Zenon DEF TrustInv, Tables, FailuresOK
<1> QED
  BY <1>2, <1>3, <1>4, Zenon DEF TrustInv

\* Reading the provider and the binding, one after the other.
LEMMA ReadErrors ==
    ASSUME NEW p, NEW b, NEW u
    PROVE  /\ ReadBinding(p, b, u) \in SUBSET TrustErrors
           /\ ReadBinding(p, b, u) = {} => b \in DOMAIN binding
<1>1. authorizeProvider(p, u) \in SUBSET TrustErrors
  BY Zenon DEF authorizeProvider, TrustErrors
<1> QED
  BY <1>1, Zenon DEF ReadBinding, TrustErrors

\* A request starts: authorizeProvider and GetBinding.
LEMMA BeginKeeps ==
    ASSUME TrustConstants, TrustInv, NEW r \in Requests, NEW op \in {"create", "complete"},
           NEW p, NEW b \in Nat, NEW c \in 0..MaxChallenges, NEW u, Begin(r, op, p, b, c, u)
    PROVE  TrustInv'
<1> DEFINE err == ReadBinding(p, b, u)
           to == IF op = "create" THEN "insert" ELSE "reserve"
           y == IF err # {} THEN [Idle EXCEPT !.pc = "done", !.err = err]
                ELSE [Idle EXCEPT !.op = op, !.b = b, !.c = c, !.pc = to]
<1>1. /\ req[r].pc = "start" /\ req' = [req EXCEPT ![r] = y]
      /\ UNCHANGED <<provider, claim, binding, challenge, code, now>>
  BY Zenon DEF Begin
<1>2. err \in SUBSET TrustErrors /\ (err = {} => b \in DOMAIN binding)
  BY ReadErrors, Zenon
<1> HIDE DEF err
<1>3. to \in {"insert", "reserve"} /\ (to = "insert" => op = "create") /\ (to = "reserve" => op = "complete")
  BY Zenon
<1> HIDE DEF to
<1>4. Idle \in Completion /\ Idle.dest = {} /\ Idle.target = "none" /\ Idle.op = "none" /\ Idle.err = {}
  BY DEF Idle, Completion, FailureCodes, TrustConstants
<1>5. RequestOK(y, binding, challenge) /\ ~Past(y)
  <2>1. CASE err # {}
    <3>1. /\ y \in Completion /\ y.op = "none" /\ y.pc = "done" /\ y.dest = {} /\ y.target = "none"
      BY <1>2, <1>4, <2>1, Zenon DEF Completion
    <3> HIDE DEF y
    <3> QED
      BY <3>1, Zenon DEF RequestOK, Past
  <2>2. CASE err = {}
    <3>1. /\ y \in Completion /\ y.op = op /\ y.b = b /\ y.err = {} /\ y.pc = to /\ y.dest = {}
          /\ y.target = "none"
      BY <1>2, <1>3, <1>4, <2>2, Zenon DEF Completion
    <3> HIDE DEF y
    <3> QED
      BY <1>2, <1>3, <2>2, <3>1, Zenon DEF RequestOK, Past
  <2> QED
    BY <2>1, <2>2, Zenon
<1> HIDE DEF y
<1> QED
  BY <1>1, <1>5, RequestFacts, MovesNot, QuietStep

\* The challenge that a request names.
LEMMA RequestNames ==
    ASSUME NEW x \in Completion
    PROVE  x.c \in Nat
  BY DEF Completion

\* A request ends.
Ended(x, err) == [x EXCEPT !.pc = "done", !.err = err]

\* A request that ends with an error, or after CreateChallenge, is as it should be.
LEMMA FailsOK ==
    ASSUME NEW x, NEW B, NEW C, RequestOK(x, B, C), x.pc # "done", x.pc # "start",
           NEW err \in SUBSET TrustErrors, err # {} \/ x.op = "create"
    PROVE  /\ RequestOK(Ended(x, err), B, C) /\ Ended(x, err).c = x.c
           /\ Past(Ended(x, err)) => Past(x)
<1> DEFINE y == Ended(x, err)
<1>1. /\ y \in Completion /\ y.pc = "done" /\ y.err = err /\ y.op = x.op /\ y.b = x.b /\ y.c = x.c
      /\ y.dest = x.dest /\ y.target = x.target /\ y.provedAt = x.provedAt
  BY Zenon DEF Ended, RequestOK, Completion
<1> HIDE DEF y
<1>2. Reserved(x, C) => Reserved(y, C)
  BY <1>1, Zenon DEF Reserved
<1>3. Proved(x, B, C) => Proved(y, B, C)
  BY <1>1, <1>2, Zenon DEF Proved
<1>4. RequestOK(y, B, C) /\ y.c = x.c /\ (Past(y) => Past(x))
  BY <1>1, <1>2, <1>3, Zenon DEF RequestOK, Past
<1> QED
  BY <1>4, Zenon DEF y

\* A failure is to be recorded.
LEMMA RecordOK ==
    ASSUME NEW x, NEW B, NEW C, RequestOK(x, B, C), x.pc \in {"reserve", "fetch"},
           NEW cause \in Causes, NEW y \in Completion, y.pc = "record", y.target = "failed",
           y.err = cause, y.code = verificationFailureCode(cause),
           y.op = x.op, y.b = x.b, y.c = x.c, y.dest = {} \/ x.pc = "fetch"
    PROVE  RequestOK(y, B, C) /\ (Past(y) => Past(x))
<1>1. verificationFailureCode(cause) # ""
  BY Zenon DEF verificationFailureCode, Causes
<1>2. x.pc = "fetch" => Reserved(y, C)
  BY Zenon DEF RequestOK, Reserved
<1>3. x.op = "complete" /\ x.b \in DOMAIN B
  BY Zenon DEF RequestOK
<1> QED
  BY <1>1, <1>2, <1>3, Zenon DEF RequestOK, Past

\* The fields of a request that is to record a failure.
LEMMA RecordFields ==
    ASSUME TrustInv, NEW r \in Requests, NEW cause \in Causes, NEW d \in SUBSET AddressKinds,
           NEW y, \/ y = [Record(r, cause) EXCEPT !.dest = d]
                  \/ y = Record(r, cause) /\ d = req[r].dest
    PROVE  /\ y \in Completion /\ y.pc = "record" /\ y.target = "failed" /\ y.err = cause
           /\ y.code = verificationFailureCode(cause) /\ y.op = req[r].op /\ y.b = req[r].b
           /\ y.c = req[r].c /\ y.dest = d
<1>1. verificationFailureCode(cause) \in FailureCodes /\ cause \in SUBSET TrustErrors
  BY Zenon DEF verificationFailureCode, Causes, FailureCodes, TrustErrors
<1>2. req[r] \in Completion
  BY RequestFacts, Zenon
<1> DEFINE z == Record(r, cause)
<1>3. /\ z \in Completion /\ z.pc = "record" /\ z.target = "failed" /\ z.err = cause
      /\ z.code = verificationFailureCode(cause) /\ z.op = req[r].op /\ z.b = req[r].b
      /\ z.c = req[r].c /\ z.dest = req[r].dest
  BY <1>1, <1>2, Zenon DEF Record, Completion
<1>4. y = [z EXCEPT !.dest = d] \/ (y = z /\ d = req[r].dest)
  BY Zenon
<1> HIDE DEF z
<1> QED
  BY <1>3, <1>4, Zenon DEF Completion

\* What a request records after it failed.
LEMMA RecordStep ==
    ASSUME TrustInv, NEW r \in Requests, req[r].pc \in {"reserve", "fetch"}, NEW cause \in Causes,
           NEW d \in SUBSET AddressKinds, d = {} \/ req[r].pc = "fetch",
           NEW y, \/ y = [Record(r, cause) EXCEPT !.dest = d]
                  \/ y = Record(r, cause) /\ d = req[r].dest,
           req' = [req EXCEPT ![r] = y],
           UNCHANGED <<provider, claim, binding, challenge, code, now>>
    PROVE  TrustInv'
<1>1. /\ y \in Completion /\ y.pc = "record" /\ y.target = "failed" /\ y.err = cause
      /\ y.code = verificationFailureCode(cause) /\ y.op = req[r].op /\ y.b = req[r].b
      /\ y.c = req[r].c /\ y.dest = d
  BY RecordFields
<1>2. RequestOK(y, binding, challenge) /\ (Past(y) => Past(req[r]))
  BY <1>1, RequestFacts, RecordOK, Zenon
<1> QED
  BY <1>1, <1>2, RequestFacts, MovesNot, QuietStep

\* The database fails under a request.
LEMMA StoreFailsKeeps ==
    ASSUME TrustInv, NEW r \in Requests, StoreFails(r)
    PROVE  TrustInv'
<1> DEFINE e == {"ErrTrustDependency"}
           y == Ended(req[r], e)
<1>1. /\ req[r].pc \in {"insert", "reserve", "record"} /\ req' = [req EXCEPT ![r] = y]
      /\ UNCHANGED <<provider, claim, binding, challenge, code, now>>
  BY RequestFacts, Zenon DEF StoreFails, Finish, Ended
<1>2. e \in SUBSET TrustErrors /\ e # {}
  BY Zenon DEF TrustErrors
<1> HIDE DEF e
<1>3. RequestOK(y, binding, challenge) /\ y.c = req[r].c /\ (Past(y) => Past(req[r]))
  BY <1>1, <1>2, RequestFacts, FailsOK
<1> HIDE DEF y
<1> QED
  BY <1>1, <1>3, RequestFacts, MovesNot, QuietStep, Zenon

\* CreateChallenge inserts its row.
LEMMA InsertChallengeKeeps ==
    ASSUME TrustConstants, TrustInv, NEW r \in Requests, InsertChallenge(r)
    PROVE  TrustInv'
<1>e. PICK e \in {{}, {"ErrTrustDependency"}} : Finish(r, e)
  BY Zenon DEF InsertChallenge, Committed
<1> DEFINE x == req[r]
           y == Ended(x, e)
           row == [b |-> x.b, expires |-> now + ChallengeTTL, used |-> FALSE]
<1>1. /\ x.pc = "insert" /\ req' = [req EXCEPT ![r] = y] /\ challenge' = Append(challenge, row)
      /\ UNCHANGED <<provider, claim, binding, code, now>>
  BY <1>e, RequestFacts, Zenon DEF InsertChallenge, Finish, Ended
<1>2. x \in Completion /\ RequestOK(x, binding, challenge) /\ challenge \in Seq(ChallengeRow)
      /\ now \in Nat
  BY RequestFacts, Zenon
<1>3. row \in ChallengeRow
  <2>1. x.b \in Nat /\ now + ChallengeTTL \in Nat
    BY <1>2 DEF Completion, TrustConstants
  <2> QED
    BY <2>1, Zenon DEF ChallengeRow, Flags
<1> HIDE DEF row
<1>4. /\ challenge' \in Seq(ChallengeRow) /\ \A c \in DOMAIN challenge :
            c \in DOMAIN challenge' /\ challenge'[c] = challenge[c]
  BY <1>1, <1>2, <1>3
<1>5. Moves(binding, challenge, binding, challenge')
  BY <1>4, Zenon DEF Moves
<1>6. RequestOK(x, binding, challenge')
  BY <1>2, <1>5, RequestKept, Zenon
<1>7. x.op = "create" /\ e \in SUBSET TrustErrors
  BY <1>e, <1>1, <1>2, Zenon DEF RequestOK, TrustErrors
<1> HIDE DEF x
<1>8. RequestOK(y, binding, challenge') /\ y.c = x.c /\ (Past(y) => Past(x))
  BY <1>1, <1>6, <1>7, FailsOK, Zenon
<1> HIDE DEF y
<1> QED
  BY <1>1, <1>4, <1>5, <1>8, QuietStep DEF x

\* A challenge that can be reserved is one of the binding, and unused.
LEMMA ReserveFacts ==
    ASSUME NEW c, NEW b
    PROVE  /\ ReserveErrors(c, b) \in SUBSET TrustErrors
           /\ ReserveErrors(c, b) = {} =>
                c \in DOMAIN challenge /\ challenge[c].b = b /\ challenge[c].used # TRUE
  BY Zenon DEF ReserveErrors, TrustErrors

\* The update that sets used_at of one challenge.
Used(x) == [x EXCEPT !.used = TRUE]

\* Setting used_at leaves the binding and the expiry of the challenge, and the others.
LEMMA UseChallenge ==
    ASSUME NEW C \in Seq(ChallengeRow), NEW c \in DOMAIN C
    PROVE  LET D == Put(C, c, Used(C[c]))
           IN /\ D \in Seq(ChallengeRow) /\ DOMAIN D = DOMAIN C
              /\ D[c].used /\ D[c].b = C[c].b /\ D[c].expires = C[c].expires
              /\ \A k \in DOMAIN C \ {c} : D[k] = C[k]
<1> DEFINE row == Used(C[c])
<1>1. C[c] \in ChallengeRow /\ TRUE \in Flags
  BY DEF Flags
<1>2. row \in ChallengeRow /\ row.used = TRUE /\ row.b = C[c].b /\ row.expires = C[c].expires
  BY <1>1, Zenon DEF Used, ChallengeRow
<1> HIDE DEF row
<1>3. /\ Put(C, c, row) \in Seq(ChallengeRow) /\ DOMAIN Put(C, c, row) = DOMAIN C
      /\ Put(C, c, row)[c] = row /\ \A k \in DOMAIN C \ {c} : Put(C, c, row)[k] = C[k]
  BY <1>2, RowUpdate
<1>4. /\ Put(C, c, row)[c].used /\ Put(C, c, row)[c].b = C[c].b
      /\ Put(C, c, row)[c].expires = C[c].expires
  BY <1>2, <1>3, Zenon
<1> QED
  BY <1>3, <1>4, Zenon DEF row

\* ReserveChallenge keeps the invariant: an unused challenge has no other holder.
LEMMA ReserveChallengeKeeps ==
    ASSUME TrustInv, NEW r \in Requests, ReserveChallenge(r)
    PROVE  TrustInv'
<1> DEFINE x == req[r]
           err == ReserveErrors(x.c, x.b)
<1>1. /\ x.pc = "reserve" /\ x.op = "complete" /\ x.dest = {} /\ x.b \in DOMAIN binding
      /\ x \in Completion /\ RequestOK(x, binding, challenge)
      /\ UNCHANGED <<provider, claim, binding, code, now>>
  BY RequestFacts, Zenon DEF ReserveChallenge, RequestOK
<1>2. /\ err = {} =>
           /\ challenge' = [challenge EXCEPT ![x.c].used = TRUE]
           /\ \/ req' = [req EXCEPT ![r] = [x EXCEPT !.pc = "fetch"]]
              \/ req' = [req EXCEPT ![r] = Ended(x, {"ErrTrustDependency"})]
      /\ err # {} =>
           /\ challenge' = challenge
           /\ IF err = {"ErrChallengeExpired"} THEN req' = [req EXCEPT ![r] = Record(r, err)]
              ELSE req' = [req EXCEPT ![r] = Ended(x, err)]
  BY RequestFacts, Zenon DEF ReserveChallenge, Finish, Ended
<1>3. /\ err \in SUBSET TrustErrors
      /\ err = {} => x.c \in DOMAIN challenge /\ challenge[x.c].b = x.b /\ challenge[x.c].used # TRUE
  BY ReserveFacts, Zenon
<1> HIDE DEF err
<1>4. CASE err = {}
  <2>1. challenge' = Put(challenge, x.c, Used(challenge[x.c]))
    BY <1>2, <1>4, Zenon DEF Put, Used
  <2> DEFINE f == [x EXCEPT !.pc = "fetch"]
             e == {"ErrTrustDependency"}
             y == Ended(x, e)
  <2>2. req' = [req EXCEPT ![r] = f] \/ req' = [req EXCEPT ![r] = y]
    BY <1>2, <1>4, Zenon
  <2>f. /\ f \in Completion /\ f.pc = "fetch" /\ f.op = "complete" /\ f.b = x.b /\ f.c = x.c
        /\ f.dest = {} /\ f.err = x.err /\ x.err = {} /\ f.target = "none"
    BY <1>1, Zenon DEF Completion, RequestOK
  <2>e. e \in SUBSET TrustErrors /\ e # {}
    BY Zenon DEF TrustErrors
  <2> HIDE DEF x, f, e
  <2>3. /\ challenge' \in Seq(ChallengeRow) /\ DOMAIN challenge' = DOMAIN challenge
        /\ challenge'[x.c].used /\ challenge'[x.c].b = challenge[x.c].b
        /\ challenge'[x.c].expires = challenge[x.c].expires
        /\ \A k \in DOMAIN challenge \ {x.c} : challenge'[k] = challenge[k]
    BY <1>3, <1>4, <2>1, RequestFacts, UseChallenge
  <2>4. Moves(binding, challenge, binding, challenge')
    BY <2>3, Zenon DEF Moves
  <2>5. CASE req' = [req EXCEPT ![r] = f]
    <3>1. Reserved(f, challenge')
      BY <1>3, <1>4, <2>f, <2>3 DEF Reserved
    <3>2. RequestOK(f, binding, challenge')
      BY <1>1, <2>f, <3>1, Zenon DEF RequestOK
    <3>3. ASSUME NEW q \in Requests, Past(req[q])
          PROVE  req[q].c # f.c
      <4>1. Reserved(req[q], challenge)
        BY <3>3, RequestFacts, Zenon DEF RequestOK, Past
      <4>2. challenge[req[q].c] \in ChallengeRow
        BY <4>1, RequestFacts DEF Reserved
      <4>3. challenge[req[q].c].used \in BOOLEAN
        BY <4>2, Zenon DEF ChallengeRow, Flags
      <4> QED
        BY <1>3, <1>4, <2>f, <4>1, <4>3 DEF Reserved
    <3> QED
      BY <1>1, <2>3, <2>4, <2>5, <3>2, <3>3, QuietStep DEF x
  <2>6. CASE req' = [req EXCEPT ![r] = y]
    <3>1. RequestOK(x, binding, challenge')
      BY <1>1, <2>4, RequestKept, Zenon
    <3>2. RequestOK(y, binding, challenge') /\ y.c = x.c /\ (Past(y) => Past(x))
      BY <1>1, <2>e, <3>1, FailsOK, Zenon
    <3> HIDE DEF y
    <3> QED
      BY <1>1, <2>3, <2>4, <2>6, <3>2, QuietStep DEF x
  <2> QED
    BY <2>2, <2>5, <2>6, Zenon
<1>5. CASE err = {"ErrChallengeExpired"}
  <2>1. req' = [req EXCEPT ![r] = Record(r, err)] /\ challenge' = challenge
    BY <1>2, <1>5, Zenon
  <2>2. err \in Causes /\ {} \in SUBSET AddressKinds
    BY <1>5, Zenon DEF Causes
  <2> QED
    BY <1>1, <2>1, <2>2, RecordStep, Zenon
<1>6. CASE err # {} /\ err # {"ErrChallengeExpired"}
  <2> DEFINE y == Ended(x, err)
  <2>1. req' = [req EXCEPT ![r] = y] /\ challenge' = challenge
    BY <1>2, <1>6, Zenon
  <2> HIDE DEF x
  <2>2. RequestOK(y, binding, challenge) /\ y.c = x.c /\ (Past(y) => Past(x))
    BY <1>1, <1>3, <1>6, FailsOK, Zenon
  <2> HIDE DEF y
  <2> QED
    BY <1>1, <2>1, <2>2, RequestFacts, MovesNot, QuietStep DEF x
<1> QED
  BY <1>4, <1>5, <1>6, Zenon

-----------------------------------------------------------------------------
(* The proof *)

\* What the resolver's answer must be like for the request to go out.
LEMMA ResolveAdmits ==
    ASSUME TrustConstants, NEW r, NEW ips \in Lookups
    PROVE  /\ ResolveDestination(r, ips) # {} => ResolveDestination(r, ips) \in Causes
           /\ ResolveDestination(r, ips) = {} =>
                /\ ips \in SUBSET AddressKinds
                /\ \/ ips = {"public"}
                   \/ ExplicitlyAllowed(r) /\ ips \subseteq {"loopback", "private"}
<1>1. ips = {"lookup_error"} \/ ips \in SUBSET AddressKinds
  BY Zenon DEF TrustConstants
<1>2. CASE ips = {"lookup_error"}
  BY <1>2, Zenon DEF ResolveDestination, Causes
<1>3. CASE ips # {"lookup_error"} /\ ips = {}
  BY <1>3, Zenon DEF ResolveDestination, Causes
<1>4. CASE ips # {"lookup_error"} /\ ips # {}
  <2> DEFINE bad == \/ ~ExplicitlyAllowed(r) /\ \E ip \in ips : isDisallowedIP(ip)
                    \/ \E ip \in ips : isAlwaysDisallowedIP(ip)
                    \/ \E i, j \in ips : isDisallowedIP(i) /\ ~isDisallowedIP(j)
  <2>1. ResolveDestination(r, ips) = IF bad THEN {"ErrDisallowedNetwork"} ELSE {}
    BY <1>4, Zenon DEF ResolveDestination
  <2>2. ASSUME ~bad
        PROVE  ips = {"public"} \/ (ExplicitlyAllowed(r) /\ ips \subseteq {"loopback", "private"})
    <3>1. ips \subseteq {"public", "loopback", "private"}
      BY <1>1, <1>4, <2>2, Zenon DEF AddressKinds, isAlwaysDisallowedIP
    <3>2. (\A ip \in ips : ip = "public") \/ (\A ip \in ips : ip # "public")
      BY <2>2, Zenon DEF isDisallowedIP
    <3>3. ~ExplicitlyAllowed(r) => \A ip \in ips : ip = "public"
      BY <2>2, Zenon DEF isDisallowedIP
    <3> HIDE DEF bad
    <3> QED
      BY <1>4, <3>1, <3>2, <3>3, Zenon
  <2> HIDE DEF bad
  <2> QED
    BY <1>1, <1>4, <2>1, <2>2, Zenon DEF Causes
<1> QED
  BY <1>2, <1>3, <1>4

\* The endpoint's name does not resolve to admitted addresses.
LEMMA ResolveFailsKeeps ==
    ASSUME TrustConstants, TrustInv, NEW r \in Requests, NEW ips \in Lookups, ResolveFails(r, ips)
    PROVE  TrustInv'
<1> DEFINE cause == IF Expired(r) THEN {"ErrChallengeExpired"} ELSE ResolveDestination(r, ips)
<1>1. /\ req[r].pc = "fetch" /\ ResolveDestination(r, ips) # {}
      /\ req' = [req EXCEPT ![r] = Record(r, cause)]
      /\ UNCHANGED <<provider, claim, binding, challenge, code, now>>
  BY Zenon DEF ResolveFails, VerificationFailed
<1>2. cause \in Causes
  BY <1>1, ResolveAdmits, Zenon DEF Causes
<1> HIDE DEF cause
<1>3. req[r].dest \in SUBSET AddressKinds
  BY RequestFacts, Zenon DEF Completion
<1> QED
  BY <1>1, <1>2, <1>3, RecordStep, Zenon

\* The endpoint answers something else than a proof.
LEMMA FetchFailsKeeps ==
    ASSUME TrustConstants, TrustInv, NEW r \in Requests, NEW ips \in Lookups, NEW answer,
           FetchFails(r, ips, answer)
    PROVE  TrustInv'
<1> DEFINE cause == IF Expired(r) THEN {"ErrChallengeExpired"} ELSE AnswerError(answer)
<1>1. /\ req[r].pc = "fetch" /\ ResolveDestination(r, ips) = {}
      /\ req' = [req EXCEPT ![r] = [Record(r, cause) EXCEPT !.dest = ips]]
      /\ UNCHANGED <<provider, claim, binding, challenge, code, now>>
  BY Zenon DEF FetchFails
<1>2. cause \in Causes
  BY Zenon DEF Causes, AnswerError
<1> HIDE DEF cause
<1>3. ips \in SUBSET AddressKinds
  BY <1>1, ResolveAdmits, Zenon
<1> QED
  BY <1>1, <1>2, <1>3, RecordStep, Zenon

\* The proof is in hand, in time.
LEMMA ProofInHand ==
    ASSUME TrustConstants, TrustInv, NEW r \in Requests, NEW ips \in Lookups,
           req[r].pc = "fetch", ResolveDestination(r, ips) = {}, ~Expired(r),
           req' = [req EXCEPT ![r] = [req[r] EXCEPT !.pc = "record", !.target = "verified",
                                        !.code = "", !.dest = ips, !.provedAt = now]],
           UNCHANGED <<provider, claim, binding, challenge, code, now>>
    PROVE  TrustInv'
<1> DEFINE x == req[r]
           y == [x EXCEPT !.pc = "record", !.target = "verified", !.code = "", !.dest = ips,
                          !.provedAt = now]
<1>1. /\ ips \in SUBSET AddressKinds
      /\ \/ ips = {"public"}
         \/ ExplicitlyAllowed(r) /\ ips \subseteq {"loopback", "private"}
  BY ResolveAdmits, Zenon
<1>2. /\ x \in Completion /\ RequestOK(x, binding, challenge) /\ now \in Nat
      /\ challenge \in Seq(ChallengeRow)
  BY RequestFacts, Zenon
<1>3. /\ x.op = "complete" /\ x.b \in DOMAIN binding /\ x.err = {} /\ Reserved(x, challenge)
  BY <1>2, Zenon DEF RequestOK
<1>4. now < challenge[x.c].expires
  <2>1. challenge[x.c] \in ChallengeRow
    BY <1>2, <1>3 DEF Reserved
  <2>2. challenge[x.c].expires \in Nat
    BY <2>1, Zenon DEF ChallengeRow
  <2> QED
    BY <1>2, <2>2 DEF Expired
<1>5. "" \in FailureCodes
  BY Zenon DEF FailureCodes
<1>6. /\ y \in Completion /\ y.pc = "record" /\ y.target = "verified" /\ y.err = x.err
      /\ y.op = x.op /\ y.b = x.b /\ y.c = x.c /\ y.dest = ips /\ y.provedAt = now
  BY <1>1, <1>2, <1>5, Zenon DEF Completion
<1>7. req' = [req EXCEPT ![r] = y] /\ x.pc = "fetch"
  BY Zenon
<1>8. ExplicitlyAllowed(r) => binding[x.b].card \in AllowedPrivateHosts
  BY Zenon DEF ExplicitlyAllowed
<1> HIDE DEF x, y
<1>9. Reserved(y, challenge)
  BY <1>3, <1>6, Zenon DEF Reserved
<1>10. Proved(y, binding, challenge)
  BY <1>1, <1>3, <1>4, <1>6, <1>8, <1>9 DEF Proved
<1>11. RequestOK(y, binding, challenge)
  BY <1>3, <1>6, <1>9, <1>10, Zenon DEF RequestOK
<1>12. Past(x)
  BY <1>3, <1>7, Zenon DEF Past
<1> QED
  BY <1>6, <1>7, <1>11, <1>12, RequestFacts, MovesNot, QuietStep DEF x

\* The endpoint answers a proof, right or wrong, in time or late.
LEMMA FetchProofKeeps ==
    ASSUME TrustConstants, TrustInv, NEW r \in Requests, NEW ips \in Lookups, NEW proof,
           FetchProof(r, ips, proof)
    PROVE  TrustInv'
<1>1. /\ req[r].pc = "fetch" /\ ResolveDestination(r, ips) = {}
      /\ UNCHANGED <<provider, claim, binding, challenge, code, now>>
  BY Zenon DEF FetchProof
<1>2. ips \in SUBSET AddressKinds
  BY <1>1, ResolveAdmits, Zenon
<1>3. {"ErrChallengeExpired"} \in Causes /\ {"ErrWrongProof"} \in Causes
  BY Zenon DEF Causes
<1>4. CASE Expired(r)
  <2>1. req' = [req EXCEPT ![r] = [Record(r, {"ErrChallengeExpired"}) EXCEPT !.dest = ips]]
    BY <1>4, Zenon DEF FetchProof
  <2> QED
    BY <1>1, <1>2, <1>3, <2>1, RecordStep
<1>5. CASE ~Expired(r) /\ proof # req[r].c
  <2>1. req' = [req EXCEPT ![r] = [Record(r, {"ErrWrongProof"}) EXCEPT !.dest = ips]]
    BY <1>5, Zenon DEF FetchProof
  <2> QED
    BY <1>1, <1>2, <1>3, <2>1, RecordStep
<1>6. CASE ~Expired(r) /\ proof = req[r].c
  <2>1. req' = [req EXCEPT ![r] = [req[r] EXCEPT !.pc = "record", !.target = "verified",
                                        !.code = "", !.dest = ips, !.provedAt = now]]
    BY <1>6, Zenon DEF FetchProof
  <2> QED
    BY <1>1, <1>6, <2>1, ProofInHand, ZenonT(60)
<1> QED
  BY <1>4, <1>5, <1>6, Zenon

-----------------------------------------------------------------------------
(* Steps that change a binding *)

\* Table t is s with row i replaced.
Written(s, t, i, e) ==
    /\ Len(t) = Len(s) /\ DOMAIN t = DOMAIN s /\ t[i] = e
    /\ \A k \in DOMAIN s \ {i} : t[k] = s[k]

\* The row of a binding is written.
LEMMA BindingPut ==
    ASSUME NEW B \in Seq(BindingRow), NEW b \in DOMAIN B, NEW row \in BindingRow
    PROVE  Put(B, b, row) \in Seq(BindingRow) /\ Written(B, Put(B, b, row), b, row)
  BY RowUpdate DEF Written

\* The failure code of a binding is written.
LEMMA CodePut ==
    ASSUME NEW K \in Seq(FailureCodes), NEW b \in DOMAIN K, NEW k \in FailureCodes
    PROVE  Put(K, b, k) \in Seq(FailureCodes) /\ Written(K, Put(K, b, k), b, k)
  BY RowUpdate DEF Written

\* Binding b becomes row, and its failure code k.
LEMMA BindingStep ==
    ASSUME Tables, FailuresOK, NEW b \in DOMAIN binding, NEW row \in BindingRow,
           NEW k \in FailureCodes, (k # "") <=> (row.status = "failed"),
           row.card = binding[b].card,
           binding[b].status \in {"verified", "revoked"} => row.status \in {"verified", "revoked"},
           binding' = Put(binding, b, row), code' = Put(code, b, k),
           UNCHANGED <<claim, challenge, now>>,
           provider' \in [Providers -> [status : {"absent", "unverified", "verified", "suspended"},
                                        owner : Callers \cup {"nobody"}]]
    PROVE  /\ Tables' /\ FailuresOK' /\ Moves(binding, challenge, binding', challenge')
           /\ binding'[b] = row /\ DOMAIN binding' = DOMAIN binding
           /\ \A d \in DOMAIN binding \ {b} : binding'[d] = binding[d]
<1>1. /\ DOMAIN code = DOMAIN binding /\ Len(code) = Len(binding)
      /\ binding \in Seq(BindingRow) /\ code \in Seq(FailureCodes)
  BY SameLength, Zenon
<1>2. /\ binding' \in Seq(BindingRow) /\ Len(binding') = Len(binding)
      /\ DOMAIN binding' = DOMAIN binding /\ binding'[b] = row
      /\ \A d \in DOMAIN binding \ {b} : binding'[d] = binding[d]
  <2>1. Put(binding, b, row) \in Seq(BindingRow) /\ Written(binding, Put(binding, b, row), b, row)
    BY <1>1, BindingPut, Zenon
  <2> QED
    BY <2>1, Zenon DEF Written
<1>3. /\ code' \in Seq(FailureCodes) /\ Len(code') = Len(code) /\ code'[b] = k
      /\ \A d \in DOMAIN binding \ {b} : code'[d] = code[d]
  <2>1. b \in DOMAIN code
    BY <1>1, Zenon
  <2>2. Put(code, b, k) \in Seq(FailureCodes) /\ Written(code, Put(code, b, k), b, k)
    BY <1>1, <2>1, CodePut, Zenon
  <2> QED
    BY <1>1, <2>2, Zenon DEF Written
<1>4. Tables'
  BY <1>1, <1>2, <1>3 DEF Tables
<1>5. FailuresOK'
  BY <1>2, <1>3, ZenonT(60) DEF FailuresOK
<1>6. Moves(binding, challenge, binding', challenge')
  BY <1>2, Zenon DEF Moves
<1> QED
  BY <1>2, <1>4, <1>5, <1>6, Zenon

\* The rows that the transactions write.
WithStatus(x, st) == [x EXCEPT !.status = st]
Settled(x, st, e) == [x EXCEPT !.status = st, !.evidence = e]

\* These rows are well formed; the card of a binding never changes.
LEMMA RowFields ==
    ASSUME NEW x \in BindingRow, NEW st \in {"pending", "failed", "verified", "revoked"}, NEW e \in Nat
    PROVE  /\ WithStatus(x, st) \in BindingRow /\ WithStatus(x, st).status = st
           /\ WithStatus(x, st).card = x.card
           /\ Settled(x, st, e) \in BindingRow /\ Settled(x, st, e).status = st
           /\ Settled(x, st, e).card = x.card /\ Settled(x, st, e).evidence = e
<1>1. /\ WithStatus(x, st) \in BindingRow /\ WithStatus(x, st).status = st
      /\ WithStatus(x, st).card = x.card
  BY Zenon DEF WithStatus, BindingRow
<1>2. /\ Settled(x, st, e) \in BindingRow /\ Settled(x, st, e).status = st
      /\ Settled(x, st, e).card = x.card /\ Settled(x, st, e).evidence = e
  BY Zenon DEF Settled, BindingRow
<1> QED
  BY <1>1, <1>2, Zenon

\* The row of a binding.
LEMMA BindingTyped ==
    ASSUME TrustInv, NEW b \in DOMAIN binding
    PROVE  binding[b] \in BindingRow /\ binding[b].provider \in Providers
<1>1. binding[b] \in BindingRow
  BY DEF TrustInv, Tables
<1> QED
  BY <1>1, Zenon DEF BindingRow

\* A request ends with an error and changes nothing else.
LEMMA EndKeeps ==
    ASSUME TrustInv, NEW r \in Requests, req[r].pc = "record",
           NEW err \in SUBSET TrustErrors, err # {},
           req' = [req EXCEPT ![r] = Ended(req[r], err)],
           UNCHANGED <<provider, claim, binding, challenge, code, now>>
    PROVE  TrustInv'
<1> DEFINE y == Ended(req[r], err)
<1>1. RequestOK(y, binding, challenge) /\ y.c = req[r].c /\ (Past(y) => Past(req[r]))
  BY RequestFacts, FailsOK, Zenon
<1>2. req' = [req EXCEPT ![r] = y]
  BY Zenon
<1> HIDE DEF y
<1> QED
  BY <1>1, <1>2, RequestFacts, MovesNot, QuietStep

\* SetBindingVerification with a failure.
LEMMA RecordFailureKeeps ==
    ASSUME TrustInv, NEW r \in Requests, RecordFailure(r)
    PROVE  TrustInv'
<1> DEFINE x == req[r]
           b == x.b
<1>1. /\ x.pc = "record" /\ x.target = "failed" /\ RequestOK(x, binding, challenge)
      /\ x \in Completion /\ UNCHANGED <<challenge, now>>
  BY RequestFacts, Zenon DEF RecordFailure
<1>2. x.err \in Causes /\ x.code # "" /\ b \in DOMAIN binding /\ x.code \in FailureCodes
  BY <1>1, Zenon DEF RequestOK, Completion
<1>3. x.err \in SUBSET TrustErrors /\ x.err # {}
  BY <1>2, Zenon DEF Causes, TrustErrors
<1>4. CASE Unsettled(b)
  <2>e. PICK e \in {x.err, {"ErrTrustDependency"}} : Finish(r, e)
    BY <1>4, Zenon DEF RecordFailure, Committed
  <2>t. e \in SUBSET TrustErrors /\ e # {}
    BY <1>3, <2>e, Zenon DEF TrustErrors
  <2> DEFINE y == Ended(x, e)
             row == WithStatus(binding[b], "failed")
  <2>1. /\ req' = [req EXCEPT ![r] = y] /\ binding' = Put(binding, b, row)
        /\ code' = Put(code, b, x.code) /\ UNCHANGED <<provider, claim>>
        /\ binding[b].status \in {"pending", "failed"}
    BY <1>4, <2>e, RequestFacts, Zenon
    DEF RecordFailure, Finish, FailBinding, Unsettled, Ended, Put, WithStatus
  <2>2. row \in BindingRow /\ row.status = "failed" /\ row.card = binding[b].card
    BY <1>2, BindingTyped, RowFields, ZenonT(60)
  <2> HIDE DEF x
  <2>3. RequestOK(y, binding, challenge) /\ y.c = x.c /\ (Past(y) => Past(x))
    BY <1>1, <2>t, FailsOK, Zenon
  <2> HIDE DEF y, row, b
  <2>4. Tables /\ FailuresOK /\ Requested /\ SoleUse /\ HasProof
    BY Zenon DEF TrustInv
  <2>5. /\ Tables' /\ FailuresOK' /\ Moves(binding, challenge, binding', challenge')
        /\ binding'[b] = row /\ DOMAIN binding' = DOMAIN binding
        /\ \A d \in DOMAIN binding \ {b} : binding'[d] = binding[d]
    BY <1>1, <1>2, <2>1, <2>2, <2>4, BindingStep DEF Tables
  <2>6. RequestOK(y, binding', challenge')
    BY <2>3, <2>5, RequestKept, Zenon
  <2>7. /\ Requested' /\ SoleUse'
        /\ \A q \in Requests : req[q].pc = "done" => req'[q] = req[q]
    BY <1>1, <2>1, <2>3, <2>4, <2>5, <2>6, RequestStep DEF x
  <2>8. HasProof'
    BY <2>2, <2>4, <2>5, <2>7, ProofStays
  <2> QED
    BY <2>5, <2>7, <2>8, Zenon DEF TrustInv
<1>5. CASE ~Unsettled(b)
  <2> DEFINE err == IF challenge[x.c].used THEN {"ErrTrustConflict"} ELSE x.err
  <2>1. /\ req' = [req EXCEPT ![r] = Ended(x, err)]
        /\ UNCHANGED <<provider, claim, binding, code>>
    BY <1>5, RequestFacts, Zenon DEF RecordFailure, Finish, facts, Ended
  <2>2. err \in SUBSET TrustErrors /\ err # {}
    BY <1>3, Zenon DEF TrustErrors
  <2> HIDE DEF err
  <2> QED
    BY <1>1, <2>1, <2>2, EndKeeps
<1> QED
  BY <1>4, <1>5, Zenon

\* The provider row after its binding was verified.
LEMMA ProviderRow ==
    ASSUME Tables, NEW p \in Providers, NEW st \in {"verified", "suspended"},
           provider' = [provider EXCEPT ![p].status = st]
    PROVE  provider' \in [Providers -> [status : {"absent", "unverified", "verified", "suspended"},
                                        owner : Callers \cup {"nobody"}]]
  BY Zenon DEF Tables

\* A proof is recorded: the completion of request r verifies its binding.
LEMMA VerifiedKeeps ==
    ASSUME TrustInv, NEW r \in Requests, req[r].pc = "record", req[r].target = "verified",
           VerifyBinding(req[r].b, req[r].c), code' = Put(code, req[r].b, ""),
           NEW e \in Effective, req' = [req EXCEPT ![r] = Ended(req[r], e)],
           UNCHANGED <<challenge, now>>
    PROVE  TrustInv'
<1> DEFINE x == req[r]
           b == x.b
           y == Ended(x, e)
           row == Settled(binding[b], "verified", x.c)
<1>1. /\ x \in Completion /\ RequestOK(x, binding, challenge) /\ Proved(x, binding, challenge)
      /\ b \in DOMAIN binding /\ x.op = "complete" /\ x.c \in Nat /\ x.target = "verified"
  <2>1. x \in Completion /\ RequestOK(x, binding, challenge)
    BY RequestFacts, Zenon
  <2>2. Proved(x, binding, challenge) /\ b \in DOMAIN binding /\ x.op = "complete"
    BY <2>1, Zenon DEF RequestOK
  <2>3. x.c \in Nat
    BY <2>1, RequestNames, Zenon
  <2> QED
    BY <2>1, <2>2, <2>3, Zenon
<1>2. /\ binding' = Put(binding, b, row) /\ UNCHANGED claim
      /\ provider' = [provider EXCEPT ![binding[b].provider].status = "verified"]
      /\ binding[b].status \in {"pending", "failed"}
  BY Zenon DEF VerifyBinding, Unsettled, Put, Settled
<1>3. row \in BindingRow /\ row.status = "verified" /\ row.evidence = x.c /\ row.card = binding[b].card
  BY <1>1, BindingTyped, RowFields, ZenonT(60)
<1>e. e \in SUBSET TrustErrors
  BY Zenon DEF Effective, TrustErrors
<1>4. /\ y \in Completion /\ y.pc = "done" /\ y.err = e /\ y.op = x.op /\ y.b = x.b /\ y.c = x.c
      /\ y.dest = x.dest /\ y.provedAt = x.provedAt /\ y.target = "verified"
  BY <1>1, <1>e, Zenon DEF Ended, Completion
<1>5. binding[b].provider \in Providers
  BY <1>1, BindingTyped, Zenon
<1>6. req' = [req EXCEPT ![r] = y] /\ code' = Put(code, b, "") /\ x.pc = "record"
  BY Zenon
<1> HIDE DEF x, y, row, b
<1>7. Tables /\ FailuresOK /\ Requested /\ SoleUse /\ HasProof /\ "" \in FailureCodes
  BY Zenon DEF TrustInv, FailureCodes
<1>8. /\ Tables' /\ FailuresOK' /\ Moves(binding, challenge, binding', challenge')
      /\ binding'[b] = row /\ DOMAIN binding' = DOMAIN binding
      /\ \A d \in DOMAIN binding \ {b} : binding'[d] = binding[d]
  BY <1>1, <1>2, <1>3, <1>5, <1>6, <1>7, ProviderRow, BindingStep, ZenonT(60)
<1>9. RequestOK(x, binding', challenge')
  BY <1>1, <1>8, RequestKept
<1>10. Reserved(x, challenge') /\ Proved(x, binding', challenge')
  <2>1. Proved(x, binding', challenge')
    BY <1>1, <1>9, Zenon DEF RequestOK
  <2> QED
    BY <2>1, Zenon DEF Proved
<1>11. Reserved(y, challenge') /\ Proved(y, binding', challenge')
  BY <1>4, <1>10, Zenon DEF Proved, Reserved
<1>12. binding'[y.b].status = "verified"
  BY <1>3, <1>4, <1>8, Zenon DEF b
<1>13. RequestOK(y, binding', challenge')
  BY <1>4, <1>11, <1>12, Zenon DEF RequestOK
<1>14. Past(y) => Past(x)
  BY <1>4, Zenon DEF Past
<1>15. /\ Requested' /\ SoleUse' /\ req'[r] = y
       /\ \A q \in Requests : req[q].pc = "done" => req'[q] = req[q]
  BY <1>4, <1>6, <1>7, <1>8, <1>13, <1>14, RequestStep DEF x
<1>16. HasProof'
  <2> SUFFICES ASSUME NEW d \in DOMAIN binding', binding'[d].status = "verified"
               PROVE  \E q \in Requests : Verifier(req'[q], d, binding'[d].evidence)
    BY Zenon DEF HasProof, Verifier
  <2>1. CASE d = b
    <3>1. Verifier(y, b, x.c)
      BY <1>1, <1>4, Zenon DEF Verifier, b
    <3> QED
      BY <1>3, <1>8, <1>15, <2>1, <3>1, Zenon
  <2>2. CASE d # b
    <3>1. binding'[d] = binding[d] /\ d \in DOMAIN binding
      BY <1>8, <2>2, Zenon
    <3>2. PICK q \in Requests : Verifier(req[q], d, binding[d].evidence)
      BY <1>7, <3>1 DEF HasProof
    <3>3. req'[q] = req[q]
      BY <1>15, <3>2, Zenon DEF Verifier
    <3> QED
      BY <3>1, <3>2, <3>3, Zenon
  <2> QED
    BY <2>1, <2>2, Zenon
<1> QED
  BY <1>8, <1>15, <1>16, Zenon DEF TrustInv

\* SetBindingVerification with a proof.
LEMMA RecordVerifiedKeeps ==
    ASSUME TrustInv, NEW r \in Requests, RecordVerified(r)
    PROVE  TrustInv'
<1> DEFINE ok == Unsettled(req[r].b) /\ provider[binding[req[r].b].provider].status # "suspended"
<1>1. req[r].pc = "record" /\ req[r].target = "verified" /\ UNCHANGED <<challenge, now>>
  BY Zenon DEF RecordVerified
<1>2. CASE ok
  <2>1. PICK e \in Effective : Finish(r, e)
    BY <1>2, Zenon DEF RecordVerified, Committed, Effective
  <2>2. /\ VerifyBinding(req[r].b, req[r].c) /\ code' = Put(code, req[r].b, "")
        /\ req' = [req EXCEPT ![r] = Ended(req[r], e)]
    BY <1>2, <2>1, RequestFacts, Zenon DEF RecordVerified, Finish, Ended, Put
  <2> QED
    BY <1>1, <2>2, VerifiedKeeps, Zenon
<1>3. CASE ~ok
  <2> DEFINE err == IF Unsettled(req[r].b) THEN {"ErrForbidden"} ELSE {"ErrTrustConflict"}
  <2>1. /\ req' = [req EXCEPT ![r] = Ended(req[r], err)]
        /\ UNCHANGED <<provider, claim, binding, code>>
    BY <1>3, RequestFacts, Zenon DEF RecordVerified, Finish, facts, Ended
  <2>2. err \in SUBSET TrustErrors /\ err # {}
    BY Zenon DEF TrustErrors
  <2> HIDE DEF err
  <2> QED
    BY <1>1, <2>1, <2>2, EndKeeps
<1> QED
  BY <1>2, <1>3, Zenon

\* The operator's updates.
LEMMA OperatorKeeps ==
    ASSUME TrustInv, Operator
    PROVE  TrustInv'
<1>1. Tables /\ FailuresOK /\ Requested /\ SoleUse /\ HasProof /\ UNCHANGED <<challenge, now, req>>
  BY Zenon DEF TrustInv, Operator
<1>2. ASSUME NEW p \in Providers, SuspendProvider(p), UNCHANGED code
      PROVE  TrustInv'
  <2>1. /\ provider' = [provider EXCEPT ![p].status = "suspended"] /\ UNCHANGED <<claim, binding>>
    BY <1>2, Zenon DEF SuspendProvider
  <2>2. Tables' /\ FailuresOK' /\ HasProof'
    <3>1. provider' \in [Providers -> [status : {"absent", "unverified", "verified", "suspended"},
                                       owner : Callers \cup {"nobody"}]]
      BY <1>1, <2>1, ProviderRow, Zenon
    <3>2. Tables'
      BY <1>1, <1>2, <2>1, <3>1, Zenon DEF Tables
    <3>3. FailuresOK' /\ HasProof'
      BY <1>1, <1>2, <2>1, ZenonT(60) DEF FailuresOK, HasProof
    <3> QED
      BY <3>2, <3>3, Zenon
  <2>3. Requested' /\ SoleUse'
    BY <1>1, <2>1, MovesNot, RequestsStay, Zenon
  <2> QED
    BY <2>2, <2>3, Zenon DEF TrustInv
<1>3. ASSUME NEW b \in DOMAIN binding, RevokeBinding(b), code' = [code EXCEPT ![b] = ""]
      PROVE  TrustInv'
  <2> DEFINE row == Settled(binding[b], "revoked", 0)
  <2>1. /\ binding' = Put(binding, b, row) /\ code' = Put(code, b, "")
        /\ UNCHANGED <<provider, claim>>
    BY <1>3, Zenon DEF RevokeBinding, Put, Settled
  <2>2. row \in BindingRow /\ row.status = "revoked" /\ row.card = binding[b].card
    <3>1. "revoked" \in {"pending", "failed", "verified", "revoked"} /\ 0 \in Nat
      BY Zenon
    <3> QED
      BY <3>1, BindingTyped, RowFields, ZenonT(60)
  <2> HIDE DEF row
  <2>3. "" \in FailureCodes
    BY Zenon DEF FailureCodes
  <2>4. /\ Tables' /\ FailuresOK' /\ Moves(binding, challenge, binding', challenge')
        /\ binding'[b] = row /\ DOMAIN binding' = DOMAIN binding
        /\ \A d \in DOMAIN binding \ {b} : binding'[d] = binding[d]
    BY <1>1, <1>3, <2>1, <2>2, <2>3, BindingStep, Zenon DEF Tables
  <2>5. Requested' /\ SoleUse' /\ \A q \in Requests : req[q].pc = "done" => req'[q] = req[q]
    BY <1>1, <2>4, RequestsStay, Zenon
  <2>6. HasProof'
    BY <1>1, <2>2, <2>4, <2>5, ProofStays
  <2> QED
    BY <2>4, <2>5, <2>6, Zenon DEF TrustInv
<1> QED
  BY <1>2, <1>3, Zenon DEF Operator

\* The two columns of a new binding.
LEMMA TablesAppend ==
    ASSUME Tables, NEW row \in BindingRow, NEW k \in FailureCodes
    PROVE  LET B == Append(binding, row)
               K == Append(code, k)
           IN /\ B \in Seq(BindingRow) /\ K \in Seq(FailureCodes) /\ Len(K) = Len(B)
              /\ DOMAIN B = DOMAIN binding \cup {Len(binding) + 1}
              /\ B[Len(binding) + 1] = row /\ K[Len(binding) + 1] = k
              /\ \A b \in DOMAIN binding : B[b] = binding[b] /\ K[b] = code[b]
<1>1. /\ DOMAIN code = DOMAIN binding /\ Len(code) = Len(binding)
      /\ binding \in Seq(BindingRow) /\ code \in Seq(FailureCodes)
  BY SameLength, Zenon
<1> QED
  BY <1>1

\* CreateBinding appends a pending binding.
LEMMA CreateBindingKeeps ==
    ASSUME TrustInv, NEW p \in Providers, NEW card \in Cards, NEW u \in Callers,
           CreateBinding(p, card, u)
    PROVE  TrustInv'
<1> DEFINE row == [provider |-> p, card |-> card, status |-> "pending", evidence |-> 0]
<1>1. Tables /\ FailuresOK /\ Requested /\ SoleUse /\ HasProof
  BY Zenon DEF TrustInv
<1>2. /\ binding' = Append(binding, row) /\ code' = Append(code, "")
      /\ claim' = [claim EXCEPT ![AgentOf[card]] = {p}]
      /\ provider' = IF provider[p].status = "absent"
                     THEN [provider EXCEPT ![p] = [status |-> "unverified", owner |-> u]]
                     ELSE provider
      /\ UNCHANGED <<challenge, now, req>>
  BY Zenon DEF CreateBinding, Bind
<1>3. row \in BindingRow /\ row.status = "pending"
  BY Zenon DEF BindingRow
<1> HIDE DEF row
<1>4. /\ binding \in Seq(BindingRow) /\ code \in Seq(FailureCodes) /\ Len(code) = Len(binding)
      /\ "" \in FailureCodes
  BY <1>1, Zenon DEF Tables, FailureCodes
<1>5. /\ binding' \in Seq(BindingRow) /\ code' \in Seq(FailureCodes) /\ Len(code') = Len(binding')
      /\ DOMAIN binding' = DOMAIN binding \cup {Len(binding) + 1}
      /\ binding'[Len(binding) + 1] = row /\ code'[Len(binding) + 1] = ""
      /\ \A b \in DOMAIN binding : binding'[b] = binding[b] /\ code'[b] = code[b]
  BY <1>1, <1>2, <1>3, <1>4, TablesAppend, ZenonT(60)
<1>6. Tables'
  <2>1. provider' \in [Providers -> [status : {"absent", "unverified", "verified", "suspended"},
                                     owner : Callers \cup {"nobody"}]]
    BY <1>1, <1>2, Zenon DEF Tables
  <2>2. claim' \in [Agents -> SUBSET Providers]
    BY <1>1, <1>2, Zenon DEF Tables, Agents
  <2> QED
    BY <1>1, <1>2, <1>5, <2>1, <2>2, Zenon DEF Tables
<1>7. FailuresOK'
  BY <1>1, <1>3, <1>5, Zenon DEF FailuresOK
<1>8. Moves(binding, challenge, binding', challenge')
  BY <1>2, <1>5, Zenon DEF Moves
<1>9. Requested' /\ SoleUse' /\ \A q \in Requests : req[q].pc = "done" => req'[q] = req[q]
  BY <1>1, <1>2, <1>8, RequestsStay
<1>10. HasProof'
  BY <1>1, <1>3, <1>5, <1>9, ProofStays
<1> QED
  BY <1>6, <1>7, <1>9, <1>10 DEF TrustInv

\* Only the clock moves, or nothing.
LEMMA TickKeeps ==
    ASSUME TrustInv, now' \in Nat, UNCHANGED <<provider, claim, binding, challenge, code, req>>
    PROVE  TrustInv'
<1>1. Requested' /\ SoleUse'
  BY MovesNot, RequestsStay DEF TrustInv
<1>2. Tables'
  BY Zenon DEF TrustInv, Tables
<1>3. HasProof' /\ FailuresOK'
  BY ZenonT(60) DEF TrustInv, HasProof, FailuresOK
<1> QED
  BY <1>1, <1>2, <1>3, Zenon DEF TrustInv

-----------------------------------------------------------------------------
(* The theorems *)

\* The invariant holds of the empty tables.
LEMMA TrustInvInit ==
    ASSUME TrustConstants, Init
    PROVE  TrustInv
<1>1. Idle \in Completion /\ Idle.pc = "start" /\ Idle.op = "none" /\ Idle.err = {} /\ Idle.dest = {}
      /\ Idle.target = "none"
  BY DEF Idle, Completion, FailureCodes, TrustConstants
<1>2. RequestOK(Idle, binding, challenge) /\ ~Past(Idle)
  BY <1>1, Zenon DEF RequestOK, Past
<1>3. req \in [Requests -> Completion] /\ \A r \in Requests : req[r] = Idle
  BY <1>1, Zenon DEF Init
<1>4. Requested /\ SoleUse
  BY <1>2, <1>3, Zenon DEF Requested, SoleUse
<1>5. Tables /\ HasProof /\ FailuresOK
  BY DEF Init, FactsInit, Tables, HasProof, FailuresOK
<1> QED
  BY <1>4, <1>5, Zenon DEF TrustInv

\* Every step keeps the invariant.
LEMMA TrustInvStep ==
    ASSUME TrustConstants, TrustInv, [Next]_trustVars
    PROVE  TrustInv'
<1>1. CASE \E p \in Providers, c \in Cards, u \in Callers : CreateBinding(p, c, u)
  BY <1>1, CreateBindingKeeps, Zenon
<1>2. ASSUME NEW r \in Requests, NEW p \in Providers, NEW u \in Callers, NEW b \in 1..MaxBindings,
             \/ Begin(r, "create", p, b, 0, u)
             \/ \E c \in 1..MaxChallenges : Begin(r, "complete", p, b, c, u)
      PROVE  TrustInv'
  <2>1. b \in Nat /\ 0 \in 0..MaxChallenges /\ 1..MaxChallenges \subseteq 0..MaxChallenges
    BY DEF TrustConstants
  <2> QED
    BY <1>2, <2>1, BeginKeeps, Zenon
<1>3. ASSUME NEW r \in Requests, Step(r)
      PROVE  TrustInv'
  <2>1. CASE InsertChallenge(r)
    BY <2>1, InsertChallengeKeeps, Zenon
  <2>2. CASE ReserveChallenge(r)
    BY <2>2, ReserveChallengeKeeps
  <2>3. ASSUME NEW ips \in Lookups,
               \/ ResolveFails(r, ips)
               \/ \E a \in Answers : FetchFails(r, ips, a)
               \/ \E c \in DOMAIN challenge : FetchProof(r, ips, c)
        PROVE  TrustInv'
    BY <2>3, ResolveFailsKeeps, FetchFailsKeeps, FetchProofKeeps
  <2>4. CASE RecordFailure(r)
    BY <2>4, RecordFailureKeeps, Zenon
  <2>5. CASE RecordVerified(r)
    BY <2>5, RecordVerifiedKeeps, Zenon
  <2> QED
    BY <1>3, <2>1, <2>2, <2>3, <2>4, <2>5 DEF Step
<1>4. ASSUME NEW r \in Requests, StoreFails(r)
      PROVE  TrustInv'
  BY <1>4, StoreFailsKeeps, Zenon
<1>5. CASE Tick
  <2>1. now' \in Nat
    BY <1>5 DEF Tick, TrustInv, Tables
  <2> QED
    BY <1>5, <2>1, TickKeeps DEF Tick
<1>6. CASE Operator
  BY <1>6, OperatorKeeps, Zenon
<1>7. CASE UNCHANGED trustVars
  <2>1. now' \in Nat
    BY <1>7, Zenon DEF trustVars, TrustInv, Tables
  <2> QED
    BY <1>7, <2>1, TickKeeps, Zenon DEF trustVars
<1> QED
  BY <1>1, <1>2, <1>3, <1>4, <1>5, <1>6, <1>7 DEF Next

\* The inductive invariant of the challenge protocol (trust.go with
\* trust_store.go): a request past ReserveChallenge holds a used challenge of its
\* binding that no other request holds, and a request that is about to record
\* "verified" had the proof in time.
THEOREM TrustInvariant ==
    ASSUME TrustConstants PROVE Spec => []TrustInv
<1>1. Init => TrustInv
  BY TrustInvInit, Zenon
<1>2. TrustInv /\ [Next]_trustVars => TrustInv'
  BY TrustInvStep, Zenon
<1> QED
  BY <1>1, <1>2, PTL DEF Spec

\* A challenge has at most one completion past ReserveChallenge.
LEMMA OneConsumer ==
    ASSUME TrustInv, NEW c
    PROVE  Cardinality({r \in Requests : Consumed(r, c)}) <= 1
<1> DEFINE S == {r \in Requests : Consumed(r, c)}
<1>1. \A r, q \in S : r = q
  BY Zenon DEF TrustInv, SoleUse, Past, Consumed
<1>2. S = {} \/ \E r \in S : S = {r}
  BY <1>1, Zenon
<1> HIDE DEF S
<1>3. Cardinality(S) <= 1
  BY <1>2, FS_EmptySet, FS_Singleton
<1> QED
  BY <1>3, Zenon DEF S

\* The invariant implies VerifiedByTimelyProof.
LEMMA TimelyProof ==
    ASSUME TrustInv
    PROVE  VerifiedByTimelyProof
<1>1. \A err : trustErrorCode(err) = "OK" <=> err = {}
  BY Zenon DEF trustErrorCode
<1>d. trustErrorCode({"ErrTrustDependency"}) = "DEPENDENCY_ERROR"
  BY Zenon DEF trustErrorCode
<1>2. ASSUME NEW r \in Requests, req[r].pc = "done", req[r].op = "complete", req[r].err = {}
      PROVE  binding[req[r].b].status \in {"verified", "revoked"}
  BY <1>2, RequestFacts, Zenon DEF RequestOK
<1>3. ASSUME NEW b \in DOMAIN binding, binding[b].status = "verified"
      PROVE  \E r \in Requests :
                /\ req[r].op = "complete" /\ req[r].b = b /\ req[r].c = binding[b].evidence
                /\ req[r].pc = "done" /\ req[r].target = "verified"
                /\ trustErrorCode(req[r].err) \in {"OK", "DEPENDENCY_ERROR"}
                /\ challenge[req[r].c].b = b /\ challenge[req[r].c].used
                /\ req[r].provedAt < challenge[req[r].c].expires
                /\ Admitted(r)
  <2>1. PICK r \in Requests : Verifier(req[r], b, binding[b].evidence)
    BY <1>3, Zenon DEF TrustInv, HasProof
  <2>2. /\ req[r].op = "complete" /\ req[r].b = b /\ req[r].c = binding[b].evidence
        /\ req[r].pc = "done" /\ req[r].target = "verified" /\ req[r].err \in Effective
    BY <2>1, Zenon DEF Verifier
  <2>3. Proved(req[r], binding, challenge)
    BY <2>2, RequestFacts, Zenon DEF RequestOK
  <2>4. Admitted(r)
    BY <2>3, Zenon DEF Proved, Admitted, ExplicitlyAllowed
  <2>5. trustErrorCode(req[r].err) \in {"OK", "DEPENDENCY_ERROR"}
    BY <1>1, <1>d, <2>2, Zenon DEF Effective
  <2> QED
    BY <2>2, <2>3, <2>4, <2>5, Zenon DEF Proved, Reserved
<1>4. \A c \in DOMAIN challenge : Cardinality({r \in Requests : Consumed(r, c)}) <= 1
  BY OneConsumer, Zenon
<1>5. FailuresOK
  BY Zenon DEF TrustInv
<1> QED
  BY <1>1, <1>2, <1>3, <1>4, <1>5, ZenonT(60) DEF VerifiedByTimelyProof, FailuresOK

\* VerifiedByTimelyProof: a binding is verified only by a completion that had
\* the proof of its challenge in hand, from an admitted address, before the
\* challenge expired, and that answered OK, or DEPENDENCY_ERROR with its COMMIT in
\* doubt; no challenge serves two completions.
THEOREM TrustIsEarned ==
    ASSUME TrustConstants PROVE Spec => []VerifiedByTimelyProof
<1>1. Spec => []TrustInv
  BY TrustInvariant, Zenon
<1>2. TrustInv => VerifiedByTimelyProof
  BY TimelyProof, Zenon
<1> QED
  BY <1>1, <1>2, PTL

-----------------------------------------------------------------------------
(* The release service: the inductive invariant *)

FactRow == [provider : Providers, card : Cards,
            status : {"pending", "failed", "verified", "revoked"}, evidence : Evidence \cup {0}]
ReleaseRow == [provider : Providers \cup {"none"}, binding : Nat, evidence : Evidence \cup {0}]
ReleaseStates == {"pending_verification", "verified", "published", "suspended", "revoked"}
Call == [op : {"none", "publish_version", "disable_version", "create", "transition"},
         pc : {"start", "lock", "insert", "require", "binding", "evidence", "transition"},
         c : Cards \cup {"none"}, to : ReleaseStates \cup {"none"}, row : ReleaseRow, joined : Flags,
         fit : Flags]

\* An Agent is claimed by the provider of all of its bindings, and a binding has
\* no evidence before it is verified.
FactsOK ==
    /\ claim \in [Agents -> SUBSET Providers] /\ binding \in Seq(FactRow)
    /\ \A a \in Agents : \A p, q \in claim[a] : p = q
    /\ \A b \in DOMAIN binding :
          /\ binding[b].provider \in claim[AgentOf[binding[b].card]]
          /\ binding[b].status \in {"pending", "failed"} => binding[b].evidence = 0

\* A row of a release of the version c, among the bindings B.
RowOK(c, row, B) ==
    /\ row.binding \in DOMAIN B
    /\ B[row.binding].card = c /\ B[row.binding].provider = row.provider
    /\ row.evidence # 0 =>
          B[row.binding].evidence = row.evidence \/ B[row.binding].status = "revoked"

\* What the publication x of a release knows: the release is past verification,
\* so its row is final.  A check that was not met when the provider was read will
\* be refused: the release is no longer verified, has no evidence, or its binding
\* is revoked, and none of these is ever undone.
PublishOK(x, rel, bnd, B) ==
    x.to = "published" /\ x.pc \in {"require", "binding", "evidence", "transition"} =>
        /\ rel[x.c] \in Cat!ReleaseOps /\ bnd[x.c] = x.row
        /\ x.pc = "binding" => \/ x.fit \/ rel[x.c] # "verified"
                               \/ x.row.evidence = 0 \/ B[x.row.binding].status = "revoked"
        /\ x.pc = "transition" => x.fit \/ rel[x.c] # "verified"
        /\ x.pc # "evidence"

\* What a request x of the release service knows of the releases rel and of the
\* rows bnd that they copied.
CallOK(x, rel, bnd, B) ==
    /\ x \in Call
    /\ x.pc # "start" => x.c \in Cards
    /\ x.pc = "insert" => x.to \in {"pending_verification", "verified"} /\ RowOK(x.c, x.row, B)
    /\ x.pc \in {"require", "binding", "evidence", "transition"} =>
          /\ x.to \in Cat!ReleaseOps /\ rel[x.c] # "absent" /\ RowOK(x.c, x.row, B)
          /\ x.row.binding = bnd[x.c].binding /\ x.row.provider = bnd[x.c].provider
    /\ PublishOK(x, rel, bnd, B)

ReleasesOK(rel, bnd, B) ==
    \A c \in Cards : IF rel[c] = "absent" THEN bnd[c].evidence = 0 ELSE RowOK(c, bnd[c], B)

CatalogInv ==
    /\ FactsOK
    /\ release \in [Cards -> ReleaseStates \cup {"absent"}] /\ bound \in [Cards -> ReleaseRow]
    /\ ReleasesOK(release, bound, binding)
    /\ calls \in [Requests -> Call] /\ \A r \in Requests : CallOK(calls[r], release, bound, binding)

-----------------------------------------------------------------------------
(* The release service: steps *)

\* How the bindings can change under a release.
RowsMove(B, B2) ==
    \A b \in DOMAIN B :
        /\ b \in DOMAIN B2 /\ B2[b].card = B[b].card /\ B2[b].provider = B[b].provider
        /\ B[b].evidence # 0 => B2[b].evidence = B[b].evidence \/ B2[b].status = "revoked"
        /\ B[b].status = "revoked" => B2[b].status = "revoked"

\* A row stays right as the bindings change.
LEMMA RowKept ==
    ASSUME NEW c, NEW row, NEW B, NEW B2, RowOK(c, row, B), RowsMove(B, B2)
    PROVE  RowOK(c, row, B2)
  BY Zenon DEF RowOK, RowsMove

\* One binding is settled.
LEMMA OneBinding ==
    ASSUME FactsOK, NEW b \in DOMAIN binding, NEW y \in FactRow, UNCHANGED claim,
           binding' = Put(binding, b, y), y.card = binding[b].card, y.provider = binding[b].provider,
           y.status \in {"pending", "failed"} => y.evidence = 0,
           y.status = "revoked" \/ (binding[b].status # "revoked" /\ binding[b].evidence = 0)
    PROVE  FactsOK' /\ RowsMove(binding, binding')
<1>1. binding \in Seq(FactRow)
  BY Zenon DEF FactsOK
<1>2. /\ binding' \in Seq(FactRow) /\ DOMAIN binding' = DOMAIN binding /\ binding'[b] = y
      /\ \A k \in DOMAIN binding \ {b} : binding'[k] = binding[k]
  BY <1>1, RowUpdate
<1>3. RowsMove(binding, binding')
  BY <1>2, Zenon DEF RowsMove
<1>4. ASSUME NEW k \in DOMAIN binding'
      PROVE  /\ binding'[k].provider \in claim[AgentOf[binding'[k].card]]
             /\ binding'[k].status \in {"pending", "failed"} => binding'[k].evidence = 0
  <2>1. /\ binding[k].provider \in claim[AgentOf[binding[k].card]]
        /\ binding[k].status \in {"pending", "failed"} => binding[k].evidence = 0
    BY <1>2, <1>4, Zenon DEF FactsOK
  <2>2. CASE k = b
    BY <1>2, <2>1, <2>2
  <2>3. CASE k # b
    BY <1>2, <1>4, <2>1, <2>3
  <2> QED
    BY <2>2, <2>3, Zenon
<1> QED
  BY <1>2, <1>3, <1>4 DEF FactsOK

\* The transactions of the trust service.
LEMMA FactsKept ==
    ASSUME FactsOK, Cat!FactsNext
    PROVE  FactsOK' /\ RowsMove(binding, binding')
<1>1. /\ binding \in Seq(FactRow) /\ claim \in [Agents -> SUBSET Providers] /\ Len(binding) \in Nat
      /\ DOMAIN binding = 1 .. Len(binding)
  BY LenProperties, Zenon DEF FactsOK
<1>2. ASSUME NEW p \in Providers, NEW c \in Cards, NEW u \in Callers, Cat!Bind(p, c, u)
      PROVE  FactsOK' /\ RowsMove(binding, binding')
  <2> DEFINE y == [provider |-> p, card |-> c, status |-> "pending", evidence |-> 0]
             n == Len(binding)
             a == AgentOf[c]
  <2>1. claim' = [claim EXCEPT ![a] = {p}] /\ claim[a] \subseteq {p} /\ binding' = Append(binding, y)
    BY <1>2, Zenon DEF Cat!Bind, Cat!Claimable
  <2>2. /\ y \in FactRow /\ y.provider = p /\ y.card = c /\ y.status = "pending" /\ y.evidence = 0
        /\ a \in Agents
    BY Zenon DEF FactRow, Agents
  <2> HIDE DEF y, a
  <2>3. /\ binding' \in Seq(FactRow) /\ Len(binding') = n + 1 /\ binding'[n + 1] = y
        /\ DOMAIN binding' = 1 .. n + 1 /\ \A k \in 1 .. n : binding'[k] = binding[k]
    BY <1>1, <2>1, <2>2, AppendProperties
  <2>4. RowsMove(binding, binding')
    BY <1>1, <2>3 DEF RowsMove
  <2>5. /\ claim' \in [Agents -> SUBSET Providers] /\ claim'[a] = {p}
        /\ \A x \in Agents \ {a} : claim'[x] = claim[x]
    BY <1>1, <2>1, <2>2
  <2>6. \A x \in Agents : \A q, o \in claim'[x] : q = o
    BY <2>5 DEF FactsOK
  <2>7. ASSUME NEW k \in DOMAIN binding'
        PROVE  /\ binding'[k].provider \in claim'[AgentOf[binding'[k].card]]
               /\ binding'[k].status \in {"pending", "failed"} => binding'[k].evidence = 0
    <3>1. CASE k = n + 1
      BY <2>2, <2>3, <2>5, <3>1, Zenon DEF a
    <3>2. CASE k # n + 1
      <4>1. k \in 1 .. n /\ binding'[k] = binding[k] /\ k \in DOMAIN binding
        BY <1>1, <2>3, <2>7, <3>2
      <4>2. /\ binding[k].provider \in claim[AgentOf[binding[k].card]]
            /\ binding[k].status \in {"pending", "failed"} => binding[k].evidence = 0
        BY <4>1, Zenon DEF FactsOK
      <4>3. AgentOf[binding[k].card] \in Agents
        <5>1. binding[k] \in FactRow
          BY <1>1, <4>1, ElementOfSeq, Zenon
        <5> QED
          BY <5>1, Zenon DEF FactRow, Agents
      <4>4. binding[k].provider \in claim'[AgentOf[binding[k].card]]
        BY <2>1, <2>5, <4>2, <4>3
      <4> QED
        BY <4>1, <4>2, <4>4
    <3> QED
      BY <3>1, <3>2, Zenon
  <2> QED
    BY <2>3, <2>4, <2>5, <2>6, <2>7 DEF FactsOK
<1>3. ASSUME NEW b \in DOMAIN binding, Cat!FailBinding(b)
      PROVE  FactsOK' /\ RowsMove(binding, binding')
  <2> DEFINE x == binding[b]
             y == [x EXCEPT !.status = "failed"]
  <2>1. /\ x.status \in {"pending", "failed"} /\ binding' = Put(binding, b, y) /\ UNCHANGED claim
    BY <1>3, Zenon DEF Cat!FailBinding, Cat!Unsettled, Put
  <2>2. x \in FactRow /\ x.evidence = 0
    BY <1>1, <2>1, ElementOfSeq, Zenon DEF FactsOK
  <2>3. /\ y \in FactRow /\ y.card = x.card /\ y.provider = x.provider /\ y.evidence = x.evidence
        /\ y.status = "failed"
    BY <2>2, Zenon DEF FactRow
  <2> HIDE DEF y
  <2> QED
    BY <2>1, <2>2, <2>3, OneBinding
<1>4. ASSUME NEW b \in DOMAIN binding, NEW e \in Evidence, Cat!VerifyBinding(b, e)
      PROVE  FactsOK' /\ RowsMove(binding, binding')
  <2> DEFINE x == binding[b]
             y == [x EXCEPT !.status = "verified", !.evidence = e]
  <2>1. /\ x.status \in {"pending", "failed"} /\ binding' = Put(binding, b, y) /\ UNCHANGED claim
    BY <1>4, Zenon DEF Cat!VerifyBinding, Cat!Unsettled, Put
  <2>2. x \in FactRow /\ x.evidence = 0
    BY <1>1, <2>1, ElementOfSeq DEF FactsOK
  <2>3. y \in FactRow /\ y.card = x.card /\ y.provider = x.provider /\ y.status = "verified"
    BY <2>2, Zenon DEF FactRow
  <2> HIDE DEF y
  <2> QED
    BY <2>1, <2>2, <2>3, OneBinding
<1>5. ASSUME NEW b \in DOMAIN binding, Cat!RevokeBinding(b)
      PROVE  FactsOK' /\ RowsMove(binding, binding')
  <2> DEFINE x == binding[b]
             y == [x EXCEPT !.status = "revoked", !.evidence = 0]
  <2>1. binding' = Put(binding, b, y) /\ UNCHANGED claim
    BY <1>5, Zenon DEF Cat!RevokeBinding, Put
  <2>2. x \in FactRow
    BY <1>1, ElementOfSeq, Zenon
  <2>3. y \in FactRow /\ y.card = x.card /\ y.provider = x.provider /\ y.status = "revoked"
    BY <2>2, Zenon DEF FactRow
  <2> HIDE DEF y
  <2> QED
    BY <2>1, <2>3, OneBinding
<1>6. ASSUME NEW p \in Providers, Cat!SuspendProvider(p)
      PROVE  FactsOK' /\ RowsMove(binding, binding')
  <2>1. UNCHANGED <<claim, binding>>
    BY <1>6, Zenon DEF Cat!SuspendProvider
  <2> QED
    BY <2>1, Zenon DEF FactsOK, RowsMove
<1> QED
  BY <1>2, <1>3, <1>4, <1>5, <1>6 DEF Cat!FactsNext

\* An answered request.
LEMMA IdleCall ==
    ASSUME NEW rel, NEW bnd, NEW B
    PROVE  Cat!Idle \in Call /\ CallOK(Cat!Idle, rel, bnd, B)
<1>1. Cat!Unbound \in ReleaseRow
  BY Zenon DEF Cat!Unbound, ReleaseRow
<1>2. Cat!Idle \in Call /\ Cat!Idle.pc = "start"
  BY <1>1 DEF Cat!Idle, Call, Flags
<1> QED
  BY <1>2, Zenon DEF CallOK, PublishOK

\* A request that moves while the tables stay.
LEMMA CallStep ==
    ASSUME CatalogInv, NEW r \in Requests, NEW y, CallOK(y, release, bound, binding),
           calls' = [calls EXCEPT ![r] = y], UNCHANGED <<claim, binding, release, bound>>
    PROVE  CatalogInv'
<1>1. calls \in [Requests -> Call] /\ y \in Call
  BY Zenon DEF CatalogInv, CallOK
<1>2. /\ calls' \in [Requests -> Call] /\ calls'[r] = y
      /\ \A q \in Requests \ {r} : calls'[q] = calls[q]
  BY <1>1, Zenon
<1>3. \A q \in Requests : CallOK(calls'[q], release, bound, binding)
  BY <1>2, Zenon DEF CatalogInv
<1>4. FactsOK'
  BY Zenon DEF CatalogInv, FactsOK
<1> QED
  BY <1>2, <1>3, <1>4 DEF CatalogInv

\* How a release past verification can change: it keeps its row, and never
\* returns to verified.
Onward(s, row, s2, row2) ==
    s \in Cat!ReleaseOps =>
        s2 \in Cat!ReleaseOps /\ row2 = row /\ (s # "verified" => s2 # "verified")

\* A request that ends with a release made or moved.
LEMMA ReleaseStep ==
    ASSUME CatalogInv, NEW r \in Requests, calls' = [calls EXCEPT ![r] = Cat!Idle],
           UNCHANGED <<claim, binding>>, release' \in [Cards -> ReleaseStates \cup {"absent"}],
           bound' \in [Cards -> ReleaseRow], ReleasesOK(release', bound', binding),
           \A c \in Cards : release[c] # "absent" =>
               /\ release'[c] # "absent"
               /\ bound'[c].binding = bound[c].binding /\ bound'[c].provider = bound[c].provider,
           \A c \in Cards : Onward(release[c], bound[c], release'[c], bound'[c])
    PROVE  CatalogInv'
<1>1. calls \in [Requests -> Call] /\ Cat!Idle \in Call
  BY IdleCall, Zenon DEF CatalogInv
<1>2. /\ calls' \in [Requests -> Call] /\ calls'[r] = Cat!Idle
      /\ \A q \in Requests \ {r} : calls'[q] = calls[q]
  BY <1>1, Zenon
<1>3. ASSUME NEW q \in Requests
      PROVE  CallOK(calls[q], release', bound', binding)
  <2>1. CallOK(calls[q], release, bound, binding)
    BY Zenon DEF CatalogInv
  <2>2. calls[q].pc # "start" => calls[q].c \in Cards
    BY <2>1, Zenon DEF CallOK
  <2>3. PublishOK(calls[q], release', bound', binding)
    BY <2>1, <2>2, Zenon DEF CallOK, PublishOK, Onward
  <2> QED
    BY <2>1, <2>3, Zenon DEF CallOK
<1>4. \A q \in Requests : CallOK(calls'[q], release', bound', binding)
  BY <1>2, <1>3, IdleCall
<1>5. FactsOK'
  BY DEF CatalogInv, FactsOK
<1> QED
  BY <1>2, <1>4, <1>5 DEF CatalogInv

\* Steps of the trust service and of registration.
LEMMA OutsideStep ==
    ASSUME CatalogInv, Cat!TrustStep \/ \E c \in Cards, u \in Callers : Cat!Register(c, u)
    PROVE  CatalogInv'
<1>1. CASE Cat!TrustStep
  <2>1. Cat!FactsNext /\ UNCHANGED <<release, bound, calls>>
    BY <1>1, Zenon DEF Cat!TrustStep
  <2>2. FactsOK' /\ RowsMove(binding, binding')
    BY <2>1, FactsKept, Zenon DEF CatalogInv
  <2>3. ReleasesOK(release, bound, binding')
    BY <2>2, RowKept DEF CatalogInv, ReleasesOK
  <2>4. ASSUME NEW r \in Requests
        PROVE  CallOK(calls[r], release, bound, binding')
    <3>1. CallOK(calls[r], release, bound, binding)
      BY Zenon DEF CatalogInv
    <3>2. RowOK(calls[r].c, calls[r].row, binding) => RowOK(calls[r].c, calls[r].row, binding')
      BY <2>2, RowKept
    <3>3. PublishOK(calls[r], release, bound, binding')
      BY <2>2, <3>1, Zenon DEF CallOK, PublishOK, RowOK, RowsMove
    <3> QED
      BY <3>1, <3>2, <3>3, Zenon DEF CallOK
  <2> QED
    BY <2>1, <2>2, <2>3, <2>4, Zenon DEF CatalogInv
<1>2. CASE \E c \in Cards, u \in Callers : Cat!Register(c, u)
  <2>1. UNCHANGED <<claim, binding, release, bound, calls>>
    BY <1>2, Zenon DEF Cat!Register, Cat!InsertVersion
  <2> QED
    BY <2>1, Zenon DEF CatalogInv, FactsOK
<1> QED
  BY <1>1, <1>2, Zenon

\* What a request reads before its transaction.
LEMMA BeginStep ==
    ASSUME CatalogInv, NEW r \in Requests, NEW c \in Cards, NEW u, Cat!Begin(r, c, u)
    PROVE  CatalogInv'
<1>1. ASSUME NEW err, Cat!Finish(r, err), UNCHANGED <<claim, binding, release, bound>>
      PROVE  CatalogInv'
  BY <1>1, IdleCall, CallStep DEF Cat!Finish
<1>2. Cat!Unbound \in ReleaseRow /\ Cat!Idle.row = Cat!Unbound
  BY Zenon DEF Cat!Unbound, ReleaseRow, Cat!Idle
<1>3. ASSUME NEW op \in {"publish_version", "disable_version"}, Cat!ReadVersion(r, op, c, u)
      PROVE  CatalogInv'
  <2> DEFINE joined == release[c] # "absent"
             y == [Cat!Idle EXCEPT !.op = op, !.pc = "lock", !.c = c, !.joined = joined]
  <2>1. /\ UNCHANGED <<claim, binding, release, bound>>
        /\ calls' = [calls EXCEPT ![r] = y] \/ \E err : Cat!Finish(r, err)
    BY <1>3, Zenon DEF Cat!ReadVersion
  <2>2. joined \in Flags /\ Cat!Idle \in Call
    BY IdleCall, Zenon DEF Flags
  <2>3. y \in Call /\ y.pc = "lock" /\ y.c = c
    <3> HIDE DEF joined
    <3> QED
      BY <2>2, Zenon DEF Call
  <2> HIDE DEF y
  <2>4. CallOK(y, release, bound, binding)
    BY <2>3, Zenon DEF CallOK, PublishOK
  <2> QED
    BY <1>1, <2>1, <2>4, CallStep
<1>4. ASSUME NEW p \in Providers, NEW b, Cat!PrepareRelease(r, c, p, b, u)
      PROVE  CatalogInv'
  <2> DEFINE row == [provider |-> p, binding |-> b, evidence |-> binding[b].evidence]
             to == IF binding[b].status = "verified" THEN "verified" ELSE "pending_verification"
             y == [Cat!Idle EXCEPT !.op = "create", !.pc = "insert", !.c = c, !.to = to, !.row = row]
  <2>1. /\ UNCHANGED <<claim, binding, release, bound>>
        /\ \/ calls' = [calls EXCEPT ![r] = y] /\ Cat!authorizeBinding(c, p, b, u) = {}
           \/ \E err : Cat!Finish(r, err)
    BY <1>4, Zenon DEF Cat!PrepareRelease
  <2>2. CASE calls' = [calls EXCEPT ![r] = y] /\ Cat!authorizeBinding(c, p, b, u) = {}
    <3>1. b \in DOMAIN binding /\ binding[b].provider = p /\ binding[b].card = c
      BY <2>2, Zenon DEF Cat!authorizeBinding
    <3>2. binding \in Seq(FactRow) /\ binding[b] \in FactRow /\ b \in Nat
      BY <3>1, ElementOfSeq DEF CatalogInv, FactsOK
    <3>3. row \in ReleaseRow /\ row.binding = b /\ row.provider = p /\ row.evidence = binding[b].evidence
      BY <3>2, Zenon DEF ReleaseRow, FactRow
    <3>4. to \in {"pending_verification", "verified"} /\ to \in ReleaseStates
      BY Zenon DEF ReleaseStates
    <3> HIDE DEF row, to
    <3>5. RowOK(c, row, binding)
      BY <3>1, <3>3, Zenon DEF RowOK
    <3>6. Cat!Idle \in Call
      BY IdleCall, Zenon
    <3>7. y \in Call /\ y.pc = "insert" /\ y.c = c /\ y.to = to /\ y.row = row
      BY <3>3, <3>4, <3>6, Zenon DEF Call
    <3> HIDE DEF y
    <3>8. PublishOK(y, release, bound, binding)
      BY <3>7, Zenon DEF PublishOK
    <3>9. CallOK(y, release, bound, binding)
      BY <3>4, <3>5, <3>7, <3>8 DEF CallOK
    <3> QED
      BY <2>1, <2>2, <3>9, CallStep
  <2> QED
    BY <1>1, <2>1, <2>2
<1>5. ASSUME NEW to \in Cat!ReleaseOps, Cat!ReadRelease(r, to, c, u)
      PROVE  CatalogInv'
  <2> DEFINE pc == IF to \in {"verified", "published"} THEN "require" ELSE "transition"
             y == [Cat!Idle EXCEPT !.op = "transition", !.c = c, !.to = to, !.row = bound[c], !.pc = pc]
  <2>1. /\ UNCHANGED <<claim, binding, release, bound>>
        /\ \/ /\ calls' = [calls EXCEPT ![r] = y] /\ release[c] # "absent"
              /\ Cat!Allowed(release[c], to)
           \/ \E err : Cat!Finish(r, err)
    BY <1>5, Zenon DEF Cat!ReadRelease
  <2>2. CASE /\ calls' = [calls EXCEPT ![r] = y] /\ release[c] # "absent"
             /\ Cat!Allowed(release[c], to)
    <3>1. RowOK(c, bound[c], binding) /\ bound[c] \in ReleaseRow
      BY <2>2, Zenon DEF CatalogInv, ReleasesOK
    <3>2. pc \in {"require", "transition"} /\ to \in ReleaseStates
      BY Zenon DEF Cat!ReleaseOps, ReleaseStates
    <3>p. to = "published" => pc = "require" /\ release[c] \in Cat!ReleaseOps
      BY <2>2, Zenon DEF Cat!Allowed, Cat!ReleaseOps
    <3> HIDE DEF pc
    <3>3. Cat!Idle \in Call
      BY IdleCall, Zenon
    <3>4. y \in Call /\ y.pc = pc /\ y.c = c /\ y.to = to /\ y.row = bound[c]
      BY <3>1, <3>2, <3>3, Zenon DEF Call
    <3> HIDE DEF y
    <3>o. PublishOK(y, release, bound, binding)
      BY <3>p, <3>4, Zenon DEF PublishOK
    <3>5. CallOK(y, release, bound, binding)
      BY <2>2, <3>1, <3>2, <3>4, <3>o DEF CallOK
    <3> QED
      BY <2>1, <2>2, <3>5, CallStep
  <2> QED
    BY <1>1, <2>1, <2>2
<1> QED
  BY <1>3, <1>4, <1>5 DEF Cat!Begin

\* What a request reads between its first read and its transaction.
LEMMA CheckStep ==
    ASSUME CatalogInv, NEW r \in Requests,
           Cat!RequireProvider(r) \/ Cat!RequireBinding(r) \/ Cat!ReadEvidence(r)
    PROVE  CatalogInv'
<1> DEFINE x == calls[r]
           b == binding[x.row.binding]
<1>1. x.pc \in {"require", "binding", "evidence"} /\ UNCHANGED <<claim, binding, release, bound>>
  BY Zenon DEF Cat!RequireProvider, Cat!RequireBinding, Cat!ReadEvidence
<1>2. /\ CallOK(x, release, bound, binding) /\ x \in Call /\ x.c \in Cards
      /\ x.to \in Cat!ReleaseOps /\ release[x.c] # "absent" /\ RowOK(x.c, x.row, binding)
      /\ x.row.binding = bound[x.c].binding /\ x.row.provider = bound[x.c].provider
      /\ x.row \in ReleaseRow /\ PublishOK(x, release, bound, binding)
  BY <1>1, Zenon DEF CatalogInv, CallOK, Call
<1>3. ASSUME NEW err, Cat!Finish(r, err)
      PROVE  CatalogInv'
  BY <1>1, <1>3, IdleCall, CallStep DEF Cat!Finish
<1>4. b \in FactRow /\ (b.status \in {"pending", "failed"} => b.evidence = 0)
  <2>1. x.row.binding \in DOMAIN binding
    BY <1>2, Zenon DEF RowOK
  <2>2. binding \in Seq(FactRow)
    BY Zenon DEF CatalogInv, FactsOK
  <2>3. b.status \in {"pending", "failed"} => b.evidence = 0
    BY <2>1, Zenon DEF CatalogInv, FactsOK
  <2> HIDE DEF x
  <2>4. x.row.binding \in 1 .. Len(binding)
    BY <2>1, <2>2
  <2> QED
    BY <2>2, <2>3, <2>4, ElementOfSeq, Zenon DEF b
<1>5. CASE Cat!RequireProvider(r)
  <2> DEFINE fit == Cat!Fit(x.c, x.row)
             y == [x EXCEPT !.pc = "binding", !.fit = fit]
  <2>1. /\ x.pc = "require"
        /\ \/ /\ calls' = [calls EXCEPT ![r].pc = "binding", ![r].fit = fit]
              /\ provider[x.row.provider].status = "verified"
           \/ \E err : Cat!Finish(r, err)
    BY <1>5, Zenon DEF Cat!RequireProvider
  <2>2. CASE /\ calls' = [calls EXCEPT ![r].pc = "binding", ![r].fit = fit]
             /\ provider[x.row.provider].status = "verified"
    <3>1. calls' = [calls EXCEPT ![r] = y]
      BY <2>2, Zenon
    <3>2. fit \in Flags
      BY Zenon DEF Cat!Fit, Flags
    <3>3. \/ fit \/ release[x.c] # "verified" \/ x.row.evidence = 0 \/ b.status = "revoked"
      <4>1. b.status \in {"pending", "failed", "verified", "revoked"}
        BY <1>4, Zenon DEF FactRow
      <4>2. x.row.evidence # 0 => b.evidence = x.row.evidence \/ b.status = "revoked"
        BY <1>2, Zenon DEF RowOK
      <4> QED
        BY <1>4, <2>2, <4>1, <4>2, Zenon DEF Cat!Fit
    <3> HIDE DEF fit
    <3>4. y \in Call /\ y.pc = "binding" /\ y.c = x.c /\ y.to = x.to /\ y.row = x.row /\ y.fit = fit
      BY <1>2, <3>2, Zenon DEF Call
    <3> HIDE DEF y
    <3>5. PublishOK(y, release, bound, binding)
      <4>1. x.to = "published" => release[x.c] \in Cat!ReleaseOps /\ bound[x.c] = x.row
        BY <1>2, <2>1, Zenon DEF PublishOK
      <4> QED
        BY <3>3, <3>4, <4>1, Zenon DEF PublishOK
    <3>6. CallOK(y, release, bound, binding)
      BY <1>2, <3>4, <3>5, Zenon DEF CallOK
    <3> QED
      BY <1>1, <3>1, <3>6, CallStep
  <2> QED
    BY <1>3, <2>1, <2>2, Zenon
<1>6. CASE Cat!RequireBinding(r)
  <2> DEFINE pc == IF x.to = "verified" THEN "evidence" ELSE "transition"
             y == [x EXCEPT !.pc = pc]
  <2>1. /\ x.pc = "binding"
        /\ \/ /\ calls' = [calls EXCEPT ![r].pc = pc] /\ b.status = "verified" /\ b.evidence # 0
              /\ x.to = "published" => x.row.evidence = b.evidence
           \/ \E err : Cat!Finish(r, err)
    BY <1>6, Zenon DEF Cat!RequireBinding
  <2>2. CASE /\ calls' = [calls EXCEPT ![r].pc = pc] /\ b.status = "verified" /\ b.evidence # 0
             /\ x.to = "published" => x.row.evidence = b.evidence
    <3>1. calls' = [calls EXCEPT ![r] = y]
      BY <2>2, Zenon
    <3>2. pc \in {"evidence", "transition"} /\ (x.to = "published" => pc = "transition")
      BY Zenon
    <3>3. x.to = "published" => x.fit \/ release[x.c] # "verified"
      BY <1>2, <2>1, <2>2, Zenon DEF PublishOK
    <3> HIDE DEF pc
    <3>4. y \in Call /\ y.pc = pc /\ y.c = x.c /\ y.to = x.to /\ y.row = x.row /\ y.fit = x.fit
      BY <1>2, <3>2, Zenon DEF Call
    <3> HIDE DEF y
    <3>5. PublishOK(y, release, bound, binding)
      BY <1>2, <2>1, <3>2, <3>3, <3>4, Zenon DEF PublishOK
    <3>6. CallOK(y, release, bound, binding)
      BY <1>2, <3>2, <3>4, <3>5, Zenon DEF CallOK
    <3> QED
      BY <1>1, <3>1, <3>6, CallStep
  <2> QED
    BY <1>3, <2>1, <2>2, Zenon
<1>7. CASE Cat!ReadEvidence(r)
  <2> DEFINE row == [x.row EXCEPT !.evidence = b.evidence]
             y == [x EXCEPT !.pc = "transition", !.row = row]
  <2>1. /\ x.pc = "evidence"
        /\ \/ calls' = [calls EXCEPT ![r].pc = "transition", ![r].row.evidence = b.evidence]
           \/ \E err : Cat!Finish(r, err)
    BY <1>7, Zenon DEF Cat!ReadEvidence
  <2>2. CASE calls' = [calls EXCEPT ![r].pc = "transition", ![r].row.evidence = b.evidence]
    <3>1. calls' = [calls EXCEPT ![r] = y]
      BY <2>2, Zenon
    <3>2. b.evidence \in Evidence \cup {0}
      BY <1>4, Zenon DEF FactRow
    <3>3. x.to # "published"
      BY <1>2, <2>1, Zenon DEF PublishOK
    <3> HIDE DEF b
    <3>4. /\ row \in ReleaseRow /\ row.binding = x.row.binding /\ row.provider = x.row.provider
          /\ row.evidence = b.evidence
      BY <1>2, <3>2, Zenon DEF ReleaseRow
    <3> HIDE DEF row
    <3>5. y \in Call /\ y.pc = "transition" /\ y.c = x.c /\ y.to = x.to /\ y.row = row
      BY <1>2, <3>4, Zenon DEF Call
    <3> HIDE DEF y
    <3>6. RowOK(x.c, row, binding)
      BY <1>2, <3>4, Zenon DEF RowOK, b
    <3>7. CallOK(y, release, bound, binding)
      BY <1>2, <3>3, <3>4, <3>5, <3>6, Zenon DEF CallOK, PublishOK
    <3> QED
      BY <1>1, <3>1, <3>7, CallStep
  <2> QED
    BY <1>3, <2>1, <2>2, Zenon
<1> QED
  BY <1>5, <1>6, <1>7, Zenon

\* What a request does in its transaction.
LEMMA TransactionStep ==
    ASSUME CatalogInv, NEW r \in Requests,
           \/ Cat!PublishVersion(r) \/ Cat!DisableVersionRow(r) \/ Cat!StoreFails(r)
           \/ Cat!CreateRelease(r) \/ Cat!TransitionRelease(r)
    PROVE  CatalogInv'
<1> DEFINE x == calls[r]
           c == x.c
<1>1. /\ CallOK(x, release, bound, binding) /\ x \in Call
      /\ release \in [Cards -> ReleaseStates \cup {"absent"}] /\ bound \in [Cards -> ReleaseRow]
      /\ ReleasesOK(release, bound, binding)
  BY Zenon DEF CatalogInv, CallOK
<1>2. ASSUME NEW err, Cat!Finish(r, err), UNCHANGED <<claim, binding, release, bound>>
      PROVE  CatalogInv'
  BY <1>2, IdleCall, CallStep DEF Cat!Finish
<1>3. CASE Cat!PublishVersion(r) \/ Cat!DisableVersionRow(r) \/ Cat!StoreFails(r)
  <2>1. UNCHANGED <<claim, binding, release, bound>> /\ \E err : Cat!Finish(r, err)
    BY <1>3, Zenon DEF Cat!PublishVersion, Cat!DisableVersionRow, Cat!StoreFails, Cat!PublishDraft,
                Cat!DisableVersion, Cat!catalogFacts, Cat!Committed
  <2> QED
    BY <1>2, <2>1, Zenon
<1>5. CASE Cat!CreateRelease(r)
  <2>1. x.pc = "insert" /\ UNCHANGED <<claim, binding>>
    BY <1>5, Zenon DEF Cat!CreateRelease
  <2>2. /\ c \in Cards /\ x.to \in {"pending_verification", "verified"} /\ RowOK(c, x.row, binding)
        /\ x.row \in ReleaseRow
    BY <1>1, <2>1, Zenon DEF CallOK, Call
  <2>3. CASE UNCHANGED <<release, bound>> /\ \E err : Cat!Finish(r, err)
    BY <1>2, <2>1, <2>3
  <2>4. CASE /\ release[c] = "absent" /\ Cat!InsertRelease(c, x.to)
             /\ bound' = [bound EXCEPT ![c] = x.row] /\ Cat!Committed(r)
    <3>1. release' = [release EXCEPT ![c] = x.to] /\ calls' = [calls EXCEPT ![r] = Cat!Idle]
      BY <2>4, Zenon DEF Cat!InsertRelease, Cat!Finish, Cat!Committed
    <3>2. /\ release' \in [Cards -> ReleaseStates \cup {"absent"}] /\ bound' \in [Cards -> ReleaseRow]
          /\ release'[c] = x.to /\ release'[c] # "absent" /\ bound'[c] = x.row
          /\ \A d \in Cards \ {c} : release'[d] = release[d] /\ bound'[d] = bound[d]
      BY <1>1, <2>2, <2>4, <3>1 DEF ReleaseStates
    <3>3. ReleasesOK(release', bound', binding)
      BY <1>1, <2>2, <3>2 DEF ReleasesOK
    <3>4. \A d \in Cards : Onward(release[d], bound[d], release'[d], bound'[d])
      BY <2>4, <3>2, Zenon DEF Onward, Cat!ReleaseOps
    <3> QED
      BY <2>1, <2>4, <3>1, <3>2, <3>3, <3>4, ReleaseStep
  <2> QED
    BY <1>5, <2>3, <2>4 DEF Cat!CreateRelease, Cat!catalogFacts
<1>6. CASE Cat!TransitionRelease(r)
  <2>1. x.pc = "transition" /\ UNCHANGED <<claim, binding>>
    BY <1>6, Zenon DEF Cat!TransitionRelease
  <2>2. /\ c \in Cards /\ x.to \in Cat!ReleaseOps /\ release[c] # "absent" /\ RowOK(c, x.row, binding)
        /\ x.row.binding = bound[c].binding /\ x.row.provider = bound[c].provider
        /\ x.row \in ReleaseRow /\ x.to \in ReleaseStates
    BY <1>1, <2>1, Zenon DEF CallOK, Call, Cat!ReleaseOps, ReleaseStates
  <2>3. CASE UNCHANGED <<release, bound>> /\ \E err : Cat!Finish(r, err)
    BY <1>2, <2>1, <2>3
  <2>4. CASE /\ Cat!MoveRelease(c, x.to) /\ Cat!Committed(r)
             /\ bound' = IF x.to = "verified" THEN [bound EXCEPT ![c].evidence = x.row.evidence]
                         ELSE bound
    <3> DEFINE row == [bound[c] EXCEPT !.evidence = x.row.evidence]
    <3>1. release' = [release EXCEPT ![c] = x.to] /\ calls' = [calls EXCEPT ![r] = Cat!Idle]
      BY <2>4, Zenon DEF Cat!MoveRelease, Cat!Finish, Cat!Committed
    <3>a. release[c] \in Cat!ReleaseOps => x.to # "verified" /\ bound' = bound
      BY <2>4, Zenon DEF Cat!MoveRelease, Cat!Allowed, Cat!ReleaseOps
    <3>2. /\ release' \in [Cards -> ReleaseStates \cup {"absent"}] /\ release'[c] # "absent"
          /\ \A d \in Cards \ {c} : release'[d] = release[d]
      BY <1>1, <2>2, <3>1 DEF ReleaseStates
    <3>3. bound' = [bound EXCEPT ![c] = row] \/ bound' = bound
      BY <2>4, Zenon
    <3>4. bound[c] \in ReleaseRow /\ x.row.evidence \in Evidence \cup {0} /\ RowOK(c, bound[c], binding)
      BY <1>1, <2>2, Zenon DEF ReleaseRow, ReleasesOK
    <3>5. /\ row \in ReleaseRow /\ row.binding = bound[c].binding /\ row.provider = bound[c].provider
          /\ row.evidence = x.row.evidence
      BY <3>4, Zenon DEF ReleaseRow
    <3> HIDE DEF row
    <3>6. RowOK(c, row, binding)
      BY <2>2, <3>5, Zenon DEF RowOK
    <3>7. /\ bound' \in [Cards -> ReleaseRow] /\ RowOK(c, bound'[c], binding)
          /\ bound'[c].binding = bound[c].binding /\ bound'[c].provider = bound[c].provider
          /\ \A d \in Cards \ {c} : bound'[d] = bound[d]
      <4>1. c \in Cards /\ bound \in [Cards -> ReleaseRow]
        BY <1>1, <2>2, Zenon
      <4>2. CASE bound' = bound
        BY <3>4, <4>1, <4>2, Zenon
      <4>3. CASE bound' = [bound EXCEPT ![c] = row]
        <5>1. /\ bound' \in [Cards -> ReleaseRow] /\ bound'[c] = row
              /\ \A d \in Cards \ {c} : bound'[d] = bound[d]
          BY <3>5, <4>1, <4>3, Zenon
        <5> QED
          BY <3>5, <3>6, <5>1, Zenon
      <4> QED
        BY <3>3, <4>2, <4>3, Zenon
    <3>8. ReleasesOK(release', bound', binding)
      <4> SUFFICES ASSUME NEW d \in Cards
                   PROVE  IF release'[d] = "absent" THEN bound'[d].evidence = 0
                          ELSE RowOK(d, bound'[d], binding)
        BY Zenon DEF ReleasesOK
      <4>1. CASE d = c
        BY <3>2, <3>7, <4>1, Zenon
      <4>2. CASE d # c
        BY <1>1, <3>2, <3>7, <4>2, Zenon DEF ReleasesOK
      <4> QED
        BY <4>1, <4>2, Zenon
    <3>9. \A d \in Cards : release[d] # "absent" =>
              /\ release'[d] # "absent"
              /\ bound'[d].binding = bound[d].binding /\ bound'[d].provider = bound[d].provider
      BY <3>2, <3>7, Zenon
    <3>10. release'[c] = x.to
      BY <1>1, <2>2, <3>1, Zenon
    <3>11. \A d \in Cards : Onward(release[d], bound[d], release'[d], bound'[d])
      BY <2>2, <3>a, <3>2, <3>7, <3>10, Zenon DEF Onward
    <3> QED
      BY <2>1, <3>1, <3>2, <3>7, <3>8, <3>9, <3>11, ReleaseStep
  <2> QED
    BY <1>6, <2>3, <2>4 DEF Cat!TransitionRelease, Cat!catalogFacts
<1> QED
  BY <1>3, <1>5, <1>6, Zenon

\* The tables start with no release and no binding.
LEMMA CatalogInit == Cat!Init => CatalogInv
<1> SUFFICES ASSUME Cat!Init PROVE CatalogInv
  BY Zenon
<1>1. /\ claim = [a \in Cat!Agents |-> {}] /\ binding = <<>>
      /\ release = [c \in Cards |-> "absent"] /\ bound = [c \in Cards |-> Cat!Unbound]
      /\ calls = [r \in Requests |-> Cat!Idle]
  BY Zenon DEF Cat!Init, Cat!FactsInit, Cat!CatalogFactsInit
<1>2. Cat!Agents = Agents
  BY Zenon DEF Cat!Agents, Agents
<1>3. FactsOK
  BY <1>1, <1>2 DEF FactsOK
<1>4. Cat!Unbound \in ReleaseRow /\ Cat!Unbound.evidence = 0
  BY Zenon DEF Cat!Unbound, ReleaseRow
<1> QED
  BY <1>1, <1>3, <1>4, IdleCall DEF CatalogInv, ReleasesOK

\* Every step of the Catalog keeps the invariant.
LEMMA CatalogStep == CatalogInv /\ [Cat!Next]_Cat!catalogVars => CatalogInv'
<1> SUFFICES ASSUME CatalogInv, [Cat!Next]_Cat!catalogVars PROVE CatalogInv'
  BY Zenon
<1>1. CASE UNCHANGED Cat!catalogVars
  BY <1>1, Zenon DEF Cat!catalogVars, CatalogInv, FactsOK
<1>2. CASE Cat!TrustStep \/ \E c \in Cards, u \in Callers : Cat!Register(c, u)
  BY <1>2, OutsideStep, Zenon
<1>3. ASSUME NEW r \in Requests, NEW c \in Cards, NEW u \in Callers, Cat!Begin(r, c, u)
      PROVE  CatalogInv'
  BY <1>3, BeginStep, Zenon
<1>4. ASSUME NEW r \in Requests,
             \/ Cat!PublishVersion(r) \/ Cat!DisableVersionRow(r) \/ Cat!StoreFails(r)
             \/ Cat!CreateRelease(r) \/ Cat!TransitionRelease(r)
      PROVE  CatalogInv'
  BY <1>4, TransactionStep, Zenon
<1>5. ASSUME NEW r \in Requests,
             Cat!RequireProvider(r) \/ Cat!RequireBinding(r) \/ Cat!ReadEvidence(r)
      PROVE  CatalogInv'
  BY <1>5, CheckStep, Zenon
<1> QED
  BY <1>1, <1>2, <1>3, <1>4, <1>5, Zenon DEF Cat!Next

\* The invariant of the release service: every row that a release copied, or
\* that a request in flight is about to write, names a binding of its own version
\* and provider, with the evidence of that binding unless it was revoked since.
THEOREM CatalogInvariant == Cat!Spec => []CatalogInv
<1> QED
  BY CatalogInit, CatalogStep, PTL DEF Cat!Spec

\* The evidence of a release is that of its own binding: however requests of the
\* release service interleave with proofs, revocations and suspensions, no
\* release carries a digest that its provider did not earn for this version.
THEOREM ReleaseEvidence == Cat!Spec => []Cat!EvidenceIsBindings
<1>1. CatalogInv => Cat!EvidenceIsBindings
  BY Zenon DEF CatalogInv, ReleasesOK, RowOK, Cat!EvidenceIsBindings
<1> QED
  BY <1>1, CatalogInvariant, PTL

\* All releases of an Agent belong to one provider.
THEOREM OneProvider == Cat!Spec => []Cat!OneProviderPerAgent
<1>1. CatalogInv => Cat!OneProviderPerAgent
  <2> SUFFICES ASSUME CatalogInv, NEW c \in Cards, NEW d \in Cards, AgentOf[c] = AgentOf[d],
                      release[c] # "absent", release[d] # "absent"
               PROVE  bound[c].provider = bound[d].provider
    BY Zenon DEF Cat!OneProviderPerAgent
  <2>1. RowOK(c, bound[c], binding) /\ RowOK(d, bound[d], binding)
    BY Zenon DEF CatalogInv, ReleasesOK
  <2>2. bound[c].provider \in claim[AgentOf[c]] /\ bound[d].provider \in claim[AgentOf[c]]
    BY <2>1 DEF RowOK, CatalogInv, FactsOK
  <2>3. AgentOf[c] \in Agents
    BY Zenon DEF Agents
  <2> QED
    BY <2>2, <2>3, Zenon DEF CatalogInv, FactsOK
<1> QED
  BY <1>1, CatalogInvariant, PTL

\* What publishes a release.
LEMMA OnlyTransitions ==
    ASSUME NEW c \in Cards, [Cat!Next]_Cat!catalogVars, CatalogInv,
           release[c] # "published", release'[c] = "published"
    PROVE  \E r \in Requests : Cat!TransitionRelease(r)
<1>0. release \in [Cards -> ReleaseStates \cup {"absent"}]
  BY Zenon DEF CatalogInv
<1>1. CASE UNCHANGED release
  BY <1>1, Zenon
<1>2. ASSUME NEW r \in Requests, Cat!CreateRelease(r), ~UNCHANGED release
      PROVE  FALSE
  <2>1. calls[r].pc = "insert" /\ release' = [release EXCEPT ![calls[r].c] = calls[r].to]
    BY <1>2, Zenon DEF Cat!CreateRelease, Cat!InsertRelease, Cat!catalogFacts
  <2>2. calls[r].to # "published" /\ calls[r].c \in Cards
    BY <2>1, Zenon DEF CatalogInv, CallOK
  <2> QED
    BY <1>0, <2>1, <2>2, Zenon
<1>3. CASE Cat!TrustStep \/ \E d \in Cards, u \in Callers : Cat!Register(d, u)
  BY <1>1, <1>3, Zenon DEF Cat!TrustStep, Cat!Register, Cat!InsertVersion
<1>4. ASSUME NEW r \in Requests, NEW d \in Cards, NEW u \in Callers, Cat!Begin(r, d, u)
      PROVE  UNCHANGED release
  BY <1>4, Zenon DEF Cat!Begin, Cat!ReadVersion, Cat!PrepareRelease, Cat!ReadRelease
<1>5. ASSUME NEW r \in Requests,
             \/ Cat!PublishVersion(r) \/ Cat!DisableVersionRow(r) \/ Cat!StoreFails(r)
             \/ Cat!RequireProvider(r) \/ Cat!RequireBinding(r) \/ Cat!ReadEvidence(r)
      PROVE  UNCHANGED release
  BY <1>5, Zenon DEF Cat!PublishVersion, Cat!DisableVersionRow, Cat!StoreFails, Cat!PublishDraft,
              Cat!DisableVersion, Cat!catalogFacts, Cat!RequireProvider, Cat!RequireBinding,
              Cat!ReadEvidence
<1>6. CASE UNCHANGED Cat!catalogVars
  BY <1>1, <1>6, Zenon DEF Cat!catalogVars
<1> QED
  BY <1>1, <1>2, <1>3, <1>4, <1>5, <1>6, Zenon DEF Cat!Next

\* A release is published only by a request inside which all of it was true at
\* one moment: the release and its provider verified, the binding verified with
\* the release's evidence.  PublishRelease reads the release, the provider and
\* the binding one after the other and writes later; what holds it together is
\* that a check that fails at any of these moments stays failed.
THEOREM PublishedWhenFit == Cat!Spec => Cat!PublishLinearizes
<1>1. CatalogInv /\ [Cat!Next]_Cat!catalogVars => Cat!PublishLinearizesStep
  <2> SUFFICES ASSUME CatalogInv, [Cat!Next]_Cat!catalogVars, NEW c \in Cards,
                      release[c] # "published", release'[c] = "published"
               PROVE  \E r \in Requests : /\ calls[r].c = c /\ calls[r].to = "published"
                                          /\ calls[r].fit /\ bound'[c] = calls[r].row
    BY Zenon DEF Cat!PublishLinearizesStep
  <2>1. PICK r \in Requests : Cat!TransitionRelease(r)
    BY OnlyTransitions, Zenon
  <2> DEFINE x == calls[r]
  <2>2. CallOK(x, release, bound, binding) /\ release \in [Cards -> ReleaseStates \cup {"absent"}]
    BY Zenon DEF CatalogInv
  <2>3. /\ x.pc = "transition" /\ Cat!Allowed(release[x.c], x.to)
        /\ release' = [release EXCEPT ![x.c] = x.to]
        /\ x.to # "verified" => bound' = bound
    BY <2>1, Zenon DEF Cat!TransitionRelease, Cat!MoveRelease, Cat!catalogFacts
  <2>4. x.c = c /\ x.to = "published"
    BY <2>2, <2>3, Zenon DEF CallOK
  <2>5. release[c] = "verified"
    BY <2>3, <2>4, Zenon DEF Cat!Allowed
  <2> QED
    BY <2>2, <2>3, <2>4, <2>5, Zenon DEF CallOK, PublishOK
<1> QED
  BY <1>1, CatalogInvariant, PTL DEF Cat!Spec, Cat!PublishLinearizes
=============================================================================
