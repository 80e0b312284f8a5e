--------------------------- MODULE RegistryModel ---------------------------
(***************************************************************************)
(* registry/model.go, the second half: complete snapshots and the changes  *)
(* that lead from one snapshot to the next, with the delta the providers   *)
(* compute.                                                                *)
(***************************************************************************)
EXTENDS RegistryInstances, FiniteSets, SequencesExt

Distinct(s) == \A i, j \in 1 .. Len(s) : i # j => s[i] # s[j]

-----------------------------------------------------------------------------
(* Snapshots *)

byID(left, right) == left.id < right.id

normalizeInstances(instances) == SortedBy(instances, byID)

instancesNormalize(instances) ==
  /\ \A k \in 1 .. Len(instances) : validInstance(instances[k])
  /\ \A j, k \in 1 .. Len(instances) : j # k => instances[j].id # instances[k].id

validSnapshotState(state) == state \in {"missing", "empty", "populated"}

\* Validate; the target and the source tokens are checked by their providers.
validSnapshot(s) ==
  /\ instancesNormalize(s.instances)
  /\ s.instances = normalizeInstances(s.instances)
  /\ validSnapshotState(s.state)
  /\ (s.state = "populated") <=> (s.instances # <<>>)

NewInstanceSnapshot(order, state, instances) ==
  [order |-> order, state |-> state, instances |-> normalizeInstances(instances)]

snapshotAccepted(order, state, instances) ==
  instancesNormalize(instances) /\ validSnapshot(NewInstanceSnapshot(order, state, instances))

-----------------------------------------------------------------------------
(* Changes *)

ascending(left, right) == left < right

snapshotIDs(s) == {s.instances[k].id : k \in 1 .. Len(s.instances)}

\* normalizeDeletedInstanceIDs succeeds.
deletedNormalize(ids) == Distinct(ids) /\ \A k \in 1 .. Len(ids) : validExactText(ids[k])

validChange(c) ==
  /\ c.order > 0 /\ validSnapshot(c.snapshot) /\ c.order = c.snapshot.order
  /\ instancesNormalize(c.upserts) /\ c.upserts = normalizeInstances(c.upserts)
  /\ deletedNormalize(c.deleted) /\ c.deleted = SortedBy(c.deleted, ascending)
  /\ ToSet(c.upserts) \subseteq ToSet(c.snapshot.instances)
  /\ ToSet(c.deleted) \cap snapshotIDs(c.snapshot) = {}
  /\ \/ /\ c.kind = "instances_changed"
        /\ c.upserts # <<>> \/ c.deleted # <<>>
        /\ c.previousState = "none"
     \/ /\ c.kind = "state_changed"
        /\ {c.previousState, c.snapshot.state} = {"missing", "empty"}
        /\ c.upserts = <<>> /\ c.deleted = <<>>
     \/ /\ c.kind = "target_deleted"
        /\ c.previousState = "none" /\ c.snapshot.state = "missing"
        /\ c.upserts = <<>> /\ c.deleted = <<>>

NewInstanceChange(kind, upserts, deleted, previousState, snapshot) ==
  [kind |-> kind, order |-> snapshot.order, upserts |-> normalizeInstances(upserts),
   deleted |-> SortedBy(deleted, ascending), previousState |-> previousState,
   snapshot |-> snapshot]

-----------------------------------------------------------------------------
(* The delta of the Kubernetes and Nacos sessions *)

samePublicTopology(left, right) == left.state = right.state /\ left.instances = right.instances

\* Instance.Equal compares endpoints position by position; they are sorted.
instanceEqual(left, right) == left = right

\* Mutant: a changed instance is not an upsert.
upsertsNewOnly(previous, next) ==
  SelectSeq(next.instances, LAMBDA i : i.id \notin snapshotIDs(previous))

\* topologyDelta's upserts: instances that are new or differ.
upsertsOf(previous, next) ==
  SelectSeq(next.instances, LAMBDA i : ~ \E k \in 1 .. Len(previous.instances) : instanceEqual(i, previous.instances[k]))

\* topologyDelta's deleted IDs; the code takes them from a map in any order, and
\* NewInstanceChange sorts them.
deletedOf(previous, next) ==
  SetToSortSeq(snapshotIDs(previous) \ snapshotIDs(next), ascending)

\* emitCurrentStateLocked of the Kubernetes session.
currentStateChange(previous, next) ==
  LET upserts == upsertsOf(previous, next)
      deleted == deletedOf(previous, next)
  IN IF upserts = <<>> /\ deleted = <<>>
     THEN NewInstanceChange("state_changed", upserts, deleted, previous.state, next)
     ELSE NewInstanceChange("instances_changed", upserts, deleted, "none", next)

\* emitTargetDeletedLocked of the Kubernetes session: the change carries no delta.
targetDeletedChange(next) == NewInstanceChange("target_deleted", <<>>, <<>>, "none", next)

\* accept of the Nacos session.
acceptChange(previous, next) ==
  NewInstanceChange("instances_changed", upsertsOf(previous, next), deletedOf(previous, next),
                    "none", next)
=============================================================================
