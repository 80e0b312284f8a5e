-------------------------- MODULE RegistryDeltas --------------------------
(***************************************************************************)
(* A provider that goes from one reported topology to the next, and a      *)
(* consumer that only applies the deltas of the changes it is given.       *)
(***************************************************************************)
EXTENDS RegistryModel

CONSTANTS IDs,          \* ranks of instance IDs, invalid ones included
          Ports,        \* ports an endpoint may have
          MaxReported,  \* bound: instances in one report
          MaxOrder      \* bound: changes of one observation

VARIABLES provider,     \* kubernetes or nacos
          current,      \* the provider's snapshot
          change,       \* the last change built
          view          \* the instances the consumer derives from the deltas

modelVars == <<provider, current, change, view>>

Endpoint(port) == [addressType |-> 1, address |-> 1, portName |-> 1, port |-> port, protocol |-> 1]

EndpointLists == {<<Endpoint(p)>> : p \in Ports} \cup {<<Endpoint(p), Endpoint(q)>> : p, q \in Ports}

Inputs == [id : IDs, endpoints : EndpointLists, ready : BOOLEAN, serving : {TRUE},
           terminating : {FALSE}, zone : {NoText}]

Reports == UNION {[1 .. n -> Inputs] : n \in 0 .. MaxReported}

NoChange == [kind |-> "none"]

ModelInit ==
  /\ provider \in {"kubernetes", "nacos"}
  /\ current \in {NewInstanceSnapshot(0, state, <<>>) : state \in {"missing", "empty"}}
  /\ provider = "nacos" => current.state = "empty"
  /\ change = NoChange
  /\ view = {}

\* What a consumer makes of a change: the end of the target has no delta.
ApplyDelta(instances, c) ==
  IF c.kind = "target_deleted" THEN {}
  ELSE {i \in instances : i.id \notin ToSet(c.deleted) /\ \A u \in ToSet(c.upserts) : u.id # i.id}
       \cup ToSet(c.upserts)

Publishes(next, c) == current' = next /\ change' = c /\ view' = ApplyDelta(view, c) /\ UNCHANGED provider

\* The deletion of the target is the last change of an observation.
Open == change.kind # "target_deleted" /\ current.order < MaxOrder

\* One event of a source: the instances behind the bound Service, which is there.
\* While a Kubernetes Service has not been created, slices change nothing.
Report(report) ==
  LET instances == [k \in DOMAIN report |-> NewInstance(report[k])]
      state == IF report = <<>> THEN "empty" ELSE "populated"
      next == NewInstanceSnapshot(current.order + 1, state, instances)
  IN /\ Open
     /\ \A k \in DOMAIN report : instanceAccepted(report[k])
     /\ snapshotAccepted(current.order + 1, state, instances)
     /\ ~samePublicTopology(current, next)
     /\ Publishes(next, IF provider = "nacos" THEN acceptChange(current, next)
                        ELSE currentStateChange(current, next))

\* The bound Kubernetes Service is deleted, whatever slices are left.
DeleteTarget ==
  LET next == NewInstanceSnapshot(current.order + 1, "missing", <<>>)
  IN /\ Open /\ provider = "kubernetes" /\ current.state # "missing"
     /\ Publishes(next, targetDeletedChange(next))

ModelNext == DeleteTarget \/ \E report \in Reports : Report(report)

-----------------------------------------------------------------------------

\* A change that a session builds from a new topology is never refused by
\* NewInstanceChange, which would end the observation, and its delta is complete:
\* a consumer that applies only upserts and deletions, and drops everything when
\* the target is deleted, holds the instances of the snapshot the change carries.
DeltasRebuildSnapshot ==
  /\ change # NoChange => validChange(change)
  /\ view = ToSet(current.instances)

=============================================================================
