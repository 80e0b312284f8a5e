------------------------------ MODULE Routing ------------------------------
(***************************************************************************)
(* apps/a2a-router/internal/routing/selector.go: the exact Release of an   *)
(* invocation's target, and the one endpoint a snapshot offers for it.     *)
(***************************************************************************)
EXTENDS RegistryModel

CONSTANTS PortName, TCP     \* the configured port name, and the protocol

\* releaseTarget: an empty path is spelled "/"; any other spelling that is not
\* canonical is refused.
releaseTargetAccepted(raw) == raw.path \in {"", "/"}

releaseTarget(raw) == raw.release

\* selectSnapshotTarget: the endpoints it may pick.
Selectable(snapshot) ==
  {e \in UNION {ToSet(i.endpoints) : i \in {i \in ToSet(snapshot.instances) : i.state = "ready"}} :
     e.portName = PortName /\ e.protocol = TCP}

\* The endpoint selected, or none. Two instances with equal endpoints are more
\* than one, too.
selectSnapshotTarget(snapshot) ==
  LET ready == SelectSeq(snapshot.instances, LAMBDA i : i.state = "ready")
      offers == {<<k, e>> : k \in 1 .. Len(ready), e \in Selectable(snapshot)}
      matching == {o \in offers : o[2] \in ToSet(ready[o[1]].endpoints)}
  IN IF Cardinality(matching) = 1 THEN Selectable(snapshot) ELSE {}
=============================================================================
