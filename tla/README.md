# Verification of NeKiro in TLA+

NeKiro lets Agents be catalogued, installed into Workspaces and invoked over the
A2A protocol. This directory holds TLA+ models of the parts of it where the order
of events decides correctness, the TLC configurations that check them on small
instances, and TLAPS proofs of what matters most, for instances of every size.

Paths below are relative to `src/`; `router` stands for
`apps/a2a-router/internal`, `cp` for `apps/control-plane/internal`.
`PROJECT.json` maps every definition to the lines it models, and lists every part
of the system, modelled or not, and the hazards of each at the line where they
bite.

## 1. The system and its parts

| Part | Where | Actors and state |
|---|---|---|
| Invocation Ledger | `router/ledger` | PostgreSQL: one projection row per Invocation and its immutable events. Any number of handlers append; readers use repeatable-read transactions. |
| Runtime validators | `contracts` | Pure: event schema, transition table, sequence replay, nested correlation, trace validation. |
| Dispatch handlers | `router/api`, `router/nested` | One goroutine per HTTP request: resolve, append the initial events, select a target, call the Agent, append the terminal event, answer. |
| A2A transport | `router/transport/a2a` | The call to the Agent; a terminal stream event is held back until the stream has ended; one cancellation attempt. |
| Invocation gateway | `cp/invocation`, `cp/gateway` | Admission of a public invocation, relay of the Router's answer, reads of Invocations and Traces. |
| Target selection | `router/routing`, `router/configdirectory` | One observation session per Release, fed by an instance watch; or a snapshot of a configured document per invocation. |
| Instance directories | `registry`, `registry/nacos`, `registry/kubernetes` | A bounded watch queue between a provider session and its consumer; the Nacos push stream; two Kubernetes watches behind a barrier; self-registration with heartbeats. |
| Config Center | `config_center` | A file provider (rename, fsnotify) and a Nacos provider (long polling), each with subscriptions. |
| Catalog, releases, Discovery, trust | `cp/catalog` | Agent versions and releases with statuses, provider bindings and domain challenges, paged search. |
| Workspaces | `cp/workspace` | Installations with statuses; authorisation and resolution against the Catalog. |

A root invocation enters at the gateway, is authorised against the Workspace and
sent to the Router. The Router resolves it again at the Control Plane, records
`created`, `routing` and `started` in the Ledger, selects an instance, calls the
Agent, records the terminal event and answers. An Agent that is being called may
itself send a nested invocation, which the Router ties to its parent through the
Ledger. The databases are the only state that survives a crash.

## 2. Modules

    Lifecycle        Feed                                  abstract
       ^ refines       ^ refines
    Ledger         InstanceWatch
       ^ refines       | uses
    LedgerTx       WatchQueue
       (statements)
    TrustFacts <-- Trust, Catalog           transactions, and services over them
    CatalogFacts <-- Catalog, Workspace
    Ledger <-- Dispatch <-- Gateway         composition, outwards
    WatchQueue <-- Nacos, Kubernetes, WatchSelector
    ConfigObservation <-- ConfigFile <-- ConfigDirectory
    ConfigObservation <-- ConfigNacos

### The Router and the gateway

* **Lifecycle** is what the Ledger promises: an Invocation is created once, as
  pending, its status moves along the lifecycle, a child needs a running parent.
* **Ledger** models `Store.Append` and all it calls. `rows` is
  `ledger.invocations`, `events` is `ledger.invocation_events`; `LedgerAppend(e)`
  is a whole successful Append and a refused one changes nothing. The validators
  keep their names. Contexts keep the fields the code compares between two
  Invocations; latency, sizes, Card version and provenance are compared only
  within one Invocation, where they travel with the context, and are left out.
* **LedgerTx** takes the same Append apart into its SQL statements, with row
  locks, the primary key and the unique sequence. The INSERT of the event, the
  UPDATE of the row and the COMMIT are steps of their own, and the transaction may
  fail before each of them. A detail read is a snapshot and two statements.
* **Trace** models `GetTrace`, `orderTraceProjections` and the validation of a
  trace over rows that come into being as Lifecycle says, and the gateway's limit
  on the answer.
* **Dispatch** models a handler per request as a record `h[r]`. `pc` is its place
  in `dispatch`, `serve`, `dispatchNonStreamingWithLedger` or
  `dispatchStreamingWithLedger`, with one step per call to the outside; `err` is
  `ctx.Err()` and `out` what the caller has been sent. Two history variables
  excuse an outcome: `faulty` says that the database failed an append of this
  handler or left its commit in doubt, `lost` that the instance directory or the
  caller's connection failed. A nested request reads its parent, derives the
  child's context and asks for the installed version in steps of their own, each
  of which can fail or be cut by the context. `AppendFailed` covers
  a refused event, a done context, a database failure and a COMMIT whose result
  is unknown. Environment actions are `DeadlineExpires`, `ClientDisconnects` and
  `Crash`.
* **Gateway** puts the Control Plane's handler in front of the Router: admission,
  authorisation, the identifiers, the request with its own deadline and a
  connection that may break, the relay frame by frame, and the metadata read
  through both services. A body above `metadataLimit` is answered with a
  dependency error; its size is counted in events, the part that grows.

### Instances and targets

* **WatchQueue** holds the critical sections of `registry/watch.go` as operators
  on a record: `queue`, `terminal`, `deletion` (`targetDeletedPending`), `active`
  (`nextActive`) and `signal`, the channel as the one Next that may wait on it
  sees it.
* **InstanceWatch** lets a provider publish and terminate, anyone close, and any
  number of goroutines call Next, which is taken apart where it releases the
  mutex. **Feed** is what the consumer may rely on.
* **RegistryInstances** and **RegistryModel** have the normalisation and validation
  of instances, and of snapshots and changes; **RegistryDeltas** a provider and a consumer that only applies the
  deltas, up to the deletion of the target. **EndpointSlices** goes from the slices of a Service to instances.
* **Nacos** and **Kubernetes** are one observation each, from Observe's first
  request to the last goroutine, over a server that may fail at any point.
* **Registrar** is self-registration: one POST, periodic PUTs, one DELETE, with
  requests that are lost, refused, or arrive after the client gave up. Here and in
  WatchSelector Close may be called again while the first call is at work; the
  second returns at once, as the code does.
* **Routing** is the endpoint a snapshot offers; **WatchSelector** the sessions,
  observers, `Select` and `Close` of the watching selector.

### Config Center

* **ConfigObservation** is what both providers hand out: a snapshot and a bounded
  queue of numbered transitions.
* **ConfigFile** has publishers that replace a leaf by a rename, a reader with one
  watch on the directory and the goroutine that turns notifications into
  transitions. **ConfigNacos** has a long-polling goroutine per subscription.
  **ConfigDirectory** is the Router's instance directory over the file provider:
  the read under the reader's lock and what is made of it are two steps. Callers
  share the reader only and leave nothing in it, so the run has one caller.
  ConfigFile.Observe is one step: `Reader.Observe` holds the lock from the sample
  of the leaf to the entry in the table, and nobody reads the table without it.

### Control Plane services

* **TrustFacts** and **CatalogFacts** are the tables and the transactions that
  write them, a step each. **Trust** is the ownership challenge, **Catalog**
  registration, publication and releases, both over these transactions; each
  transaction, and each read before it, is a step of its own. A COMMIT may take
  effect and its caller be told of a dependency error all the same.
* **Workspace** has Install, status changes, AuthorizeInvocation, resolution and
  `SelectInstallable`, over a Catalog that moves between any two of its reads.
* **Discovery** and **InstallationList** are paged traversals while rows change.

`MCLedger`, `MCLedgerTx`, `MCDispatch`, `MCGateway`, `MCRegistry`,
`MCControlPlane` and `MCConfigCenter` give constants their values. In the last
three a behaviour is one of a single part, which the initial state names: the
parts share no state, and one run checks them all. Modules named `...Proofs` hold
the theorems (section 5).

Operators described as *mutants* in comments are faulty variants of the operator
that follows them. No specification uses them; substituting one must make the
named property fail, which shows that the property can fail.

## 3. Runs

| Run | Instance | Shows |
|---|---|---|
| `ledger` | 2 Invocations that may be parent and child, 5 events each, matching and mismatching contexts, 2 instants | The tables never disagree (`ProjectionIsReplay`), lineage is sound, a child needs a running parent, and the Ledger implements Lifecycle. |
| `ledger_transactions` | 2 sessions and a reader, at most 2 open at once, 2 Invocations, 4 events | What a transaction checked still holds when it commits (`ChecksStillHold`), each change of the tables is one Append (`AppendsAreAtomic`), a detail read passes its own validation (`ReadsAreConsistent`). |
| `dispatch` | through the gateway, one JSON or one streaming request with 3 Agent events; 2 database failures; crash, both deadlines, broken connection, disconnect | The stream's shape (`StreamWellFormed`), cancellation only after the outcome, what a caller is told against what it can read (`ToldIsTrue`), and termination on both sides. |
| `dispatch_pairs` | pairs of 4 requests: a duplicate, a nested request, one of an Agent that was not called; 1 failure, crash | `AgentCalledOnce`, `OutcomeIsRecorded`. |
| `registry` | each part with 2 to 3 states of its source and every kind of failure | Snapshots are the truth, consumers are behind by exactly the queue, nothing leaks, no silent orphan, Close is complete, deltas rebuild snapshots, no heartbeat after the DELETE. |
| `registry_live` | smaller instances (the watch queue holds 2 of up to 4 changes), fair scheduling | Gapless delivery, refinement of Feed, changes arrive, views converge, Close ends every goroutine, every Select returns. |
| `control_plane` | ten parts: 3 trust requests with 2 challenges, 2 catalog requests, rival owners, 2 installers, moving Catalog, 3 rows per listing | Ownership is proved in time and once, evidence is the binding's, at most one current installation, grants linearise, the highest version is pinned, listings are exact, and what a publication rests on was true at one moment (`PublishLinearizes`). |
| `config_center` | six parts: 1 or 2 keys and subscriptions, queues of 2 events (1 where two subscriptions share a file), 2 or 3 revisions, up to 4 changes | No gap between snapshot and transitions, chains only, observations catch up, readers stop. |
| `dispatch_cancel` (violation) | 1 JSON request | A disconnect is recorded as `DEPENDENCY_ERROR`. |
| `dispatch_gap` (violation) | 1 streaming request | An oversized chunk leaves a gap in the sequence numbers. |
| `dispatch_failed_code` (violation) | 1 streaming request, tiny SSE limit | `failed` is asked for with code `TIMEOUT` or `CANCELED`. |
| `catalog_stale` (violation) | 1 version, 2 requests | A version is disabled under a published release. |

**Bounds.** `MaxEvents` caps a history, `MaxChunks` the Agent's stream events,
`MaxFaults` database failures. The longest lifecycle without chunks has four
events; a fifth allows a chunk, so every transition of the table is taken. Two
Invocations are enough for lineage because each check relates one Invocation to
one parent. Two faults are the least that can fail both an append and the terminal
append that follows. A queue of one or two is full, and overflows, within the
`MaxChanges`, `MaxOrder` or `MaxStates` changes allowed. `Workloads` and `MaxOpen`
bound how many requests or transactions overlap, `MaxBeats` heartbeats,
`MaxDetections` the server's `ClientDetectionRequest`s, `MaxTime` the
challenge clock (one unit past the expiry), `MaxBindings`, `MaxChallenges`,
`MaxInstallations`, `MaxSequence` and `MaxUpdated` the rows and counters of the
Control Plane, chosen so that two rivals can meet. Requests,
calls, rival owners and sessions are symmetric where no liveness is checked.

**Deadlock** is not checked: in every part the system may come to rest, with all
Invocations terminal, all requests answered or every goroutine ended.

**Fairness.** `FairGatewaySpec`: weak fairness of a handler's own steps (a
goroutine is scheduled, the database driver returns) and of the deadlines
(`context.WithTimeout` on both sides). Nothing is assumed of the Control Plane,
the instance directory, the Agent or the caller, so liveness shows that the
deadlines alone bring every handler to its end. `MCRegistry!Fairness`: goroutines
are scheduled, requests are answered or end at their deadline, events on an open
stream arrive, and the consumer of a watch keeps calling Next, as the loop of
`WatchSelector.observe` does. Strong fairness is assumed once, of a heartbeat
loop's `select` that again and again finds its stop channel closed: Go chooses
among ready cases at random. Providers need not publish and nothing has to fail.
`MCConfigCenter!Fairness`: the watch and polling goroutines are scheduled and a
close that has begun goes on. Nothing is assumed of publishers, of the consumer
of a subscription, or of a caller's Close.

## 4. Findings

1. **A disconnect is recorded as a dependency failure.** `dispatchErrorCode`
   (`router/api/dispatch_handler.go:1060`) has a case for
   `context.DeadlineExceeded` and none for `context.Canceled`. On the
   non-streaming path a caller that leaves is then `failed`/`DEPENDENCY_ERROR`,
   while `docs/architecture/phase-1-spec.md:228` asks that cancellation stay
   distinguishable.
2. **A gap in the stream.** A chunk above the SSE limit takes a sequence number
   and is not sent (`dispatch_handler.go:730`), so the failure frame skips one,
   against IRT-STREAM-001 (`contracts/invocation-runtime/v1/semantic-rules.md:11`).
3. **`failed` with `TIMEOUT`.** If even the accepted frame exceeds the limit and
   the context is done, the handler builds an event the schema refuses
   (`dispatch_handler.go:672`) and the Invocation stays `running`, against
   `docs/architecture/phase-1-spec.md:196`.
4. **A version is disabled under its published release.** `Store.transition`
   (`cp/catalog/postgres/store.go:305`) locks the version row only. After a wait
   PostgreSQL re-reads that row, while the joined release stays that of the
   statement's snapshot: a release created and published meanwhile is taken for
   absent, and the refusal at `store.go:318` is not reached.

Met on the way, without a run of their own: refusals that the Router makes before
it has decoded a request carry a Trace of its own, and the gateway reports them as
a correlated `DEPENDENCY_ERROR`; a relay that is cut ends without an error frame;
siblings of a Trace are in creation order except where a child's `created_at`
equals its parent's; `configdirectory.Check`, which "validates … the complete
current document", accepts a target that names an instance ID twice, for which
`Snapshot` then answers invalid.

## 5. Proofs

Every theorem is checked by TLAPS for all values of the constants that the named
assumptions allow: any sets of Invocations, requests, sessions, versions and
callers, any capacity, any number of faults. TLC evaluates the assumptions on the
instances of the runs, and every inductive invariant was checked by TLC on the
instances of its run before it was proved.

**LedgerProofs.** The inductive invariant is typing, `ProjectionIsReplay` and
lineage. Replay is not inductive alone: that Append keeps it needs that a prefix
of a valid history is valid and that an accepted event extends one, which are
lemmas about `SequenceAccept` and `SubSeq`. Lineage needs that no status ever
leaves running except to a terminal one. Theorems: `LedgerTyping`,
`ProjectionAlwaysReplays`, `LineageAlwaysSound`, `LedgerAppendOnly`,
`LedgerChildUnderRunningParent`, `LedgerImplementsLifecycle`.

**LedgerTxProofs.** The invariant says which lock each phase of a transaction
holds and that what it checked under that lock is still true; a commit of another
session needs the lock it would have to hold to falsify it. `TxImplementsLedger`
gives every theorem of LedgerProofs to the interleaved transactions: their own
statements change nothing that others see (`WritesKeep`), and the COMMIT is the
Append.
`ReadsAlwaysConsistent` follows because a snapshot is taken in a state where the
tables agree.

**RegistryProofs.** The instance watch: gapless delivery is not inductive alone.
The invariant adds that at most one Next is under way (else two could wait on the
signal), that a watch with an outcome has an empty queue, that a pending deletion
is the last change of the queue, and the position of every change: delivered ones
first, queued ones next. Taking the deletion then empties the queue, which is the
condition under which Next latches `closed`.

Self-registration: `NoSilentOrphan` speaks of quiet states only, so it is not
inductive. `OrphansOK` says of every moment that an address the server has is owned
(by a session that the registrar holds, or by a Register that has yet to clean up)
or reported (someone was given, or is about to be given, an error that leaves room
for it), and that a POST or PUT that may still arrive is of an address that is
reported. `SessionOK` says which steps of Register, heartbeat and close one session
can be at together, which request it waits for and when its DELETE has been sent;
`CloserOK` that Registrar.Close has every session on its list. Theorems:
`RegistrarInvariant`, `OrphansAreReported`, `RegistrarCloseIsComplete` and the
action property `QuietAfterWithdrawal`.

**DispatchProofs.** The argument is ownership. `OneOwner`: of the
requests that share an Invocation at most one has had its `created` event
committed, because the Ledger accepts one event of sequence 0. Only that one
appends to the history, so what it knows about the history stays true whatever the
others, the deadline, the caller and the database do. `HandlerOK` says, for each
place of the handler, what it knows: the outcome it carries and that it is one the
schema accepts, its two sequence numbers, what it has written, and, as long as
nothing let it down, the exact length of the history and the status of the row.
The first half shows that each step keeps this for the values of one handler; the
second puts the handlers together, with `CallsOK` (a call was made by the owner,
once, after `started`) and `RowsOK` (all rows belong to one tree).
Theorems: `DispatchCallsAgentOnce`, `DispatchStreamsWellFormed`,
`DispatchCancelsAfterOutcome`, `DispatchOutcomesRecorded` and the refinement
`DispatchImplementsLedger`, from which `DispatchKeepsLedger` carries all of
LedgerProofs over to the Router. `DispatchOutcomesRecorded` assumes that the
accepted frame fits the SSE limit; without it the code is wrong, as finding 3
shows.

**GatewayProofs.** `GatewayImplementsDispatch`: no step of the gateway touches the
Router's state, so DispatchProofs holds of both together. `GatewayInv` adds to its
invariant that what was relayed is the beginning of what the Router wrote
(`RelayOK`; the Router only ever appends to it), that an answer without
identifiers is given only before the request leaves, and that a refusal of the
Router ends its handler before there is a row (`RefusalOK`), which is why none
can come later: only the request itself appends under its identifiers. With
`HandlerOK` and `ProjectionIsReplay` this gives `GatewayTellsTheTruth`. The
metadata limit is the one reason left why a stored detail fails a read: the
validation of the detail itself never does.

**WorkspaceProofs.** `WorkspaceInv` says that two current installations never
share a workspace and an Agent (the insert locks the workspace's row and looks
again), and that what a request or an installation holds of the Catalog can only
get worse: a version once installable is disabled, or its release taken back, for
good. With that, `GrantsLinearize`: if the second read of a grant succeeds, the
first was still true. `InstallationsPinHighest` is about the selection loop, a
recursive function; what it returns is proved by taking the least number of rows
at which the claim would fail.

**TrustProofs.** `RequestOK` says what a request knows at each step of the
ownership challenge. It concerns rows that other requests, the clock and an
operator change meanwhile, and stays true because the rows move one way only
(`Moves`): none is deleted, a challenge keeps its binding and its expiry and stays
used, a settled binding stays settled. `SoleUse` is the part that
VerifiedByTimelyProof lacks to be inductive: two completions past ReserveChallenge
never hold the same challenge, because the transaction takes an unused one and
whoever is past it holds a used one. A COMMIT whose answer is lost costs the
challenge: the request ends, and nobody else can take it. Theorems:
`TrustInvariant` and `TrustIsEarned` (VerifiedByTimelyProof).

The second half is about the release service (module Catalog), whose requests read
outside the transaction that writes. `CatalogInv` says that an Agent is claimed by
the one provider of its bindings, and that every row a release has copied, or a
request in flight is about to write, names a binding of its own version and
provider, with the evidence of that binding unless it was revoked since
(`RowOK`). It stays true because a binding keeps its version and provider for good,
and its evidence until it is revoked (`RowsMove`). Theorems: `CatalogInvariant`,
`ReleaseEvidence` (EvidenceIsBindings of Catalog), `OneProvider`
(OneProviderPerAgent) and `PublishedWhenFit`. The last one is about the window
between the checks of PublishRelease and its write. The release, the provider and
the binding are read one after the other and the write comes later. `PublishOK`
says: if at the moment of the provider's read the release was not verified, had no
evidence, or its binding had been revoked, then this is still so, because none of
it is ever undone, and the read of the binding or the locked transition refuses.
So a publication that succeeds had a moment at which everything held.

**ConfigProofs.** The two providers share what a subscription is: the transition
handed out last and the queue form one chain (`IsChain`), and the state the
subscription compares with is one its key has or had (`SubOK`, `Seen`). Each
operation on a subscription keeps this; the lemmas are stated once and used for
both providers. For files, `NothingIsLost` is inductive together with: a stopped
reader holds no subscription, only a stopped one gives up its watch, and a
temporary leaf that can be renamed is written whole (`FileInv`). For Nacos the
difficulty is that an answer is used after the moment it was true: `PollOK` says
that an unused answer lies between the state the subscription has and the one the
server has now, that a subscription in the table has a goroutine that polls for it,
and that one that waits at the server waits with the digest of the state the
subscription has (`NacosInv`). Theorems: `FileInvariant`, `FileNothingIsLost`,
`FileChainsOnly`, `NacosInvariant`, `NacosNothingIsLost`, `NacosChainsOnly`.

**Assumptions.** `ContextsAssumption`, `CodesAssumption`, `TimesAssumption`,
`SessionsAssumption`, `DispatchAssumption`, `GatewayAssumption` (the identifiers
of a root Invocation are drawn for one request; an Agent's failure is never one of
the two codes with which the Router refuses a body), `CapacityAssumption`
(`NewInstanceWatch` refuses others), `CallersAssumption`,
`WorkspaceConstants`, `TrustConstants` (an evidence value for every challenge; a
lookup fails or gives addresses of the kinds that the policy tells apart),
`ConfigFileConstants` (queue sizes; no key is named like a notification that names
none), `ConfigNacosConstants` (queue sizes) and `RegistrarConstants` (the answers
the client tells apart), each in the module that declares the constants.
`DispatchAssumption` asks that `MaxEvents` leaves room for the `MaxChunks` stream
events and the four of the lifecycle; both are bounds of the model.

**Only model-checked.** All liveness (`EveryoneFinishes`, `AcceptedTerminates`,
`TaskIsCancelled`, `ChangesArrive`, `ViewsConverge`, `ClosesEnd`,
`EverySelectReturns`, `ObservationsCatchUp`, `ReadersStop`): fairness and ENABLED
are out of the prover's reach. The safety properties of the two directories, the
selector and the deltas, of the listings and the traces, and `RoutesAreWhole` of
the route directory over the Config Center: `RegistryModel`'s merges, the listings
and the traces are recursive over data, where the prover has no induction; for the
others the proof has not been written.

## 6. Not modelled

Schema validation of single documents and of the Agent Card, authentication and
signing (their outcome is a choice of the admission step), configuration parsing,
start-up and migrations, the HTTP translation of the Catalog, trust and share
handlers, the gateway library (value types for an ingress provider that the
repository does not contain), `Directory.Snapshot` of the two adapters (one
stateless request), the artifact bookkeeping of `SendStreaming` (one protocol-error
choice), and the conformance test kits. Sizes appear as "fits or does not".
