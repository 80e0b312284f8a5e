SPECIFICATION Spec
CONSTANTS
  Parts = {"catalog"}
  CatalogCards = {"v1"}
  CatalogLegacy <- NoneLegacy
  CatalogBindings = 1
  Rivals = {q1, q2}
  RivalCards = {k1, k2}
  TrustRequests = {t1}
  CatalogRequests = {q1, q2}
  Installers = {q1}
INVARIANT PublishedReleaseIsVisible
CHECK_DEADLOCK FALSE
