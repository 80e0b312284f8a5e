--------------------------- MODULE EndpointSlices ---------------------------
(***************************************************************************)
(* registry/kubernetes, normalize.go and wire.go: from the EndpointSlices  *)
(* of one Service to instances. A wire slice has a uid, labels (whether    *)
(* they match the binding), owners, an address type, ports and endpoints.  *)
(***************************************************************************)
EXTENDS RegistryModel

CONSTANTS EndpointSliceCount, EndpointCount,   \* Bounds of the binding
          PortName, Protocol, AddressType      \* of the binding, as texts

validateEndpointSliceIdentity(slice) ==
  /\ slice.labels
  /\ slice.addressType \in {NoText, AddressType}
  /\ \A k \in 1 .. Len(slice.owners) : slice.owners[k] # "other service"
  /\ \E k \in 1 .. Len(slice.owners) : slice.owners[k] = "service"

MatchingPorts(ports) ==
  SelectSeq(ports, LAMBDA p : p.name = PortName /\ p.protocol = Protocol)

\* configuredPort succeeds.
portConfigured(ports) ==
  Len(MatchingPorts(ports)) = 1 /\ MatchingPorts(ports)[1].port \in 1 .. 65535

configuredPort(ports) == MatchingPorts(ports)[1].port

\* An endpoint needs a target UID and canonical addresses. Ready and serving
\* default to true, terminating to false.
endpointAccepted(e) ==
  validExactText(e.uid) /\ e.addresses # {} /\ \A a \in e.addresses : validExactText(a)

normalizeEndpoint(e, port) ==
  [id |-> e.uid, addresses |-> e.addresses, port |-> port, ready |-> e.ready # "false",
   serving |-> e.serving # "false", terminating |-> e.terminating = "true"]

sliceAccepted(slice) ==
  /\ validateEndpointSliceIdentity(slice)
  /\ slice.addressType = AddressType
  /\ portConfigured(slice.ports)
  /\ \A k \in 1 .. Len(slice.endpoints) : endpointAccepted(slice.endpoints[k])

\* normalizeEndpointSlice: the endpoint records of one slice.
normalizeEndpointSlice(slice) ==
  [k \in 1 .. Len(slice.endpoints) |->
     normalizeEndpoint(slice.endpoints[k], configuredPort(slice.ports))]

\* All endpoint records of a map from slice UIDs to records.
RecordsOf(slices) == UNION {ToSet(slices[u]) : u \in DOMAIN slices}

countEndpoints(slices) == MapThenSumSet(LAMBDA u : Len(slices[u]), DOMAIN slices)

Conditions(r) == <<r.ready, r.serving, r.terminating>>

Tuples(r) == {<<a, r.port>> : a \in r.addresses}

\* topologyState.instances succeeds: the records of one instance agree, and no
\* address and port belongs to two instances. The code folds over maps; the
\* answer does not depend on the order.
aggregateAccepted(slices) ==
  \A r, s \in RecordsOf(slices) :
    IF r.id = s.id THEN Conditions(r) = Conditions(s) ELSE Tuples(r) \cap Tuples(s) = {}

aggregateInstance(slices, id) ==
  LET records == {r \in RecordsOf(slices) : r.id = id}
      one == CHOOSE r \in records : TRUE
      tuples == UNION {Tuples(r) : r \in records}
  IN NewInstance([id |-> id, zone |-> NoText, ready |-> one.ready, serving |-> one.serving,
       terminating |-> one.terminating,
       endpoints |-> SetToSeq({[addressType |-> AddressType, address |-> t[1], portName |-> PortName,
                                port |-> t[2], protocol |-> Protocol] : t \in tuples})])

topologyInstances(present, slices) ==
  IF ~present THEN <<>>
  ELSE LET ids == {r.id : r \in RecordsOf(slices)}
       IN [k \in 1 .. Cardinality(ids) |->
             aggregateInstance(slices, SetToSortSeq(ids, ascending)[k])]

topologySnapshot(present, slices, order) ==
  LET instances == topologyInstances(present, slices)
  IN NewInstanceSnapshot(order,
       IF ~present THEN "missing" ELSE IF instances = <<>> THEN "empty" ELSE "populated", instances)

\* decodeEndpointSliceList succeeds on a set of slices with distinct UIDs.
listAccepted(list) ==
  /\ Cardinality(list) <= EndpointSliceCount
  /\ \A slice \in list : sliceAccepted(slice)
  /\ MapThenSumSet(LAMBDA slice : Len(slice.endpoints), list) <= EndpointCount

listRecords(list) ==
  [u \in {slice.uid : slice \in list} |->
     normalizeEndpointSlice(CHOOSE slice \in list : slice.uid = u)]
=============================================================================
