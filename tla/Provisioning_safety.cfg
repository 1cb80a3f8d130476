\* Two Vaults one after the other; four scripts: some by hand, one that fails,
\* and one that runs over what they left.
SPECIFICATION FairSpec
CONSTANTS
    MaxInits = 2
    MaxScripts = 4
    MaxFaults = 1
INVARIANTS
    TypeOK
    ProvisionerDelivers
    FinishedMeansProvisioned
    NeverPrompts
PROPERTY
    FreshConfigProvisions
