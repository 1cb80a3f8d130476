SPECIFICATION Spec
CONSTANTS
    BufferSize = 16
    Bodies <- MCBodies
    Families <- MCFamilies
INVARIANTS
    TypeOK
    AssertionsHold
    BufferSuffices
    Understood
    NothingRefused
    RoundTrip
\* A text has an end.
CHECK_DEADLOCK FALSE
