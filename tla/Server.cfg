\* Three calls after the initialisation, one fault.
SPECIFICATION Spec
CONSTANTS
    BSMP_MAX_VARIABLES = 3
    BSMP_MAX_GROUPS = 5
    Variables <- SomeVariables
    Functions <- SomeFunctions
    NBlocks = 2
    BlockSize = 2
    Calls <- SomeCalls
    Others <- SomeOthers
    MaxCalls = 3
    MaxFaults = 1
INVARIANTS
    TypeOK
    GroupsSound
    
    ChecksumHonest
PROPERTIES
    ReadOnlyKept
    Refines
    CallsReturn
CHECK_DEADLOCK FALSE
