SPECIFICATION Spec
CONSTANTS
    Instances <- PartByteDigit
    Paths = {"generic"}
INVARIANTS
    NeverPanics
\* A search ends.
CHECK_DEADLOCK FALSE
