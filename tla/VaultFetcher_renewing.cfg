\* One version whose certificate is already in its renewal window.
SPECIFICATION Spec
CONSTANTS
    Files = {crt, key}
    MaxVersion = 1
    Lifetimes = {2}
    RenewBefore = 1
    RetryWait = 1
    RecheckWait = 2
    MaxFaults = 0
PROPERTY
    ImmediateRenewalRenews
