SPECIFICATION Spec
CONSTANTS
    Instances <- AllInstances
    Paths = {"fast", "generic", "kernel"}
INVARIANTS
    TypeOK
    RowsAreSubtrees
    FoundIsSolution
    MissesOnlyWhenCapped
\* A search ends.
CHECK_DEADLOCK FALSE
