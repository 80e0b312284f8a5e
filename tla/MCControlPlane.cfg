SPECIFICATION Spec
CONSTANTS
  Parts = {"trust", "catalog", "legacy", "owners", "pins", "installs", "grants", "discovery", "list", "trace"}
  CatalogCards = {"v1"}
  CatalogLegacy <- NoneLegacy
  CatalogBindings = 2
  Rivals = {q1, q2}
  RivalCards = {k1, k2}
  TrustRequests = {t1, t2, t3}
  CatalogRequests = {q1, q2}
  Installers = {q1, q2}
SYMMETRY Symmetry
INVARIANTS
  VerifiedByTimelyProof
  EvidenceIsBindings
  OneCurrent
  GrantLinearizes
  ListingsAreExact
PROPERTIES
  PublishLinearizes
  PinsHighest
CHECK_DEADLOCK FALSE
