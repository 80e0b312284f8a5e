------------------------- MODULE RegistryInstances -------------------------
(***************************************************************************)
(* registry/model.go, the first half: network endpoints and instances, how *)
(* they are built, normalised and validated.                               *)
(*                                                                         *)
(* A text is its rank in byte order. 0 is the empty text and a negative    *)
(* rank one with surrounding space or a control character.                 *)
(***************************************************************************)
EXTENDS Integers, Sequences, TLC

NoText == 0

validExactText(value) == value > 0

EndpointFields == <<"addressType", "address", "portName", "port", "protocol">>

validEndpoint(e) ==
  /\ \A f \in {"addressType", "address", "portName", "protocol"} : validExactText(e[f])
  /\ e.port \in 1 .. 65535

\* compareNetworkEndpoints(left, right) < 0
compareNetworkEndpoints(left, right) ==
  \E k \in 1 .. 5 :
    /\ left[EndpointFields[k]] < right[EndpointFields[k]]
    /\ \A j \in 1 .. (k - 1) : left[EndpointFields[j]] = right[EndpointFields[j]]

\* sort.Slice, with the order given as the operator less.
SortedBy(s, less(_, _)) == SortSeq(s, less)

\* normalizeNetworkEndpoints succeeds; equal neighbours of the sorted copy are
\* exactly the duplicates of a total order.
endpointsNormalize(endpoints) ==
  /\ \A k \in 1 .. Len(endpoints) : validEndpoint(endpoints[k])
  /\ LET sorted == SortedBy(endpoints, compareNetworkEndpoints)
     IN \A k \in 2 .. Len(sorted) : compareNetworkEndpoints(sorted[k - 1], sorted[k])

normalizeNetworkEndpoints(endpoints) == SortedBy(endpoints, compareNetworkEndpoints)

DeriveLifecycleState(ready, serving, terminating) ==
  IF terminating /\ serving THEN "draining"
  ELSE IF ~terminating /\ serving /\ ready THEN "ready" ELSE "unavailable"

\* zone NoText is an absent zone. The optional weight and the metadata behave
\* as the zone does and are left out.
validInstance(i) ==
  /\ validExactText(i.id)
  /\ i.endpoints # <<>> /\ endpointsNormalize(i.endpoints)
  /\ i.endpoints = normalizeNetworkEndpoints(i.endpoints)
  /\ i.state = DeriveLifecycleState(i.ready, i.serving, i.terminating)
  /\ i.zone = NoText \/ validExactText(i.zone)

\* The instance NewInstance builds; it is refused unless instanceAccepted.
NewInstance(in) ==
  [id |-> in.id, endpoints |-> normalizeNetworkEndpoints(in.endpoints), ready |-> in.ready,
   serving |-> in.serving, terminating |-> in.terminating, zone |-> in.zone,
   state |-> DeriveLifecycleState(in.ready, in.serving, in.terminating)]

instanceAccepted(in) == endpointsNormalize(in.endpoints) /\ validInstance(NewInstance(in))

=============================================================================
