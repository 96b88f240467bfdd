SPECIFICATION Spec
CONSTANT B = 4
INVARIANTS
    ScaledExactly
    ComparedExactly
