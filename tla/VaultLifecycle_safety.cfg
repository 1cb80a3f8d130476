\* Three initialisations: the second after one reset, the third after a reset
\* that followed a lost key.
SPECIFICATION FairSpec
CONSTANTS
    MaxInits = 3
    MaxFaults = 3
INVARIANTS
    TypeOK
    KeyMatchesVault
    SetupUnseals
PROPERTIES
    KeyGivenUpKnowingly
    ScratchRecovers
