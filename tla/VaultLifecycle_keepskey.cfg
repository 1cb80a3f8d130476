\* One initialisation and one fault.
SPECIFICATION Spec
CONSTANTS
    MaxInits = 1
    MaxFaults = 1
PROPERTY
    SetupKeepsKey
