CONSTANT Parts = {"file", "keys", "shared", "nacos", "pollers", "directory"}
SPECIFICATION Spec
INVARIANTS NothingIsLost ChainsOnly
PROPERTIES ObservationsCatchUp ReadersStop
CHECK_DEADLOCK FALSE
