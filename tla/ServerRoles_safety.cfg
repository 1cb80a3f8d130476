SPECIFICATION Spec
CONSTANTS
    Hosts <- ServerNames
    Dashed <- DashedNames
    MaxVaults = 2
    MaxRuns = 5
INVARIANTS
    TypeOK
    RoleHasPolicy
    EnrolledReadsItsOwn
    TokenReadsItsOwn
CHECK_DEADLOCK FALSE
