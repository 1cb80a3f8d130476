\* Liveness: one file fewer and one version fewer, no symmetry.
SPECIFICATION FairSpec
CONSTANTS
    Files = {crt, key}
    MaxVersion = 2
    Lifetimes = {0, 2}
    RenewBefore = 1
    RetryWait = 1
    RecheckWait = 2
    MaxFaults = 2
PROPERTY
    Delivered
