SPECIFICATION FairSpec
CONSTANTS
    MaxVersion <- VersionsPerType
INVARIANTS
    TypeOK
    StalenessHasACause
PROPERTIES
    RefinesDelivery
    OneTypeNeverReloads
    DeliveredUnlessHookFails
