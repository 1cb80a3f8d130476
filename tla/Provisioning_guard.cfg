\* One Vault, two root CAs, nothing fails.
SPECIFICATION Spec
CONSTANTS
    MaxInits = 1
    MaxScripts = 3
    MaxFaults = 0
PROPERTIES
    GuardStopsRerun
