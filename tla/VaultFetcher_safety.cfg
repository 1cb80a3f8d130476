\* Three versions: one served, one half written, one that overtakes both.
SPECIFICATION Spec
CONSTANTS
    Files = {crt, key, password}
    MaxVersion = 3
    Lifetimes = {0, 2}
    RenewBefore = 1
    RetryWait = 1
    RecheckWait = 2
    MaxFaults = 2
SYMMETRY FileSymmetry
INVARIANTS
    TypeOK
    SignalledWhole
    RestLeavesTimeToRenew
    RestingServesCurrent
PROPERTIES
    NoRollback
    RefinesDelivery
