SPECIFICATION Spec
CONSTANTS
    Ids <- MCIds
    MaxElements = 2
    Classes <- MCClasses
    MaxModules = 1
    Inputs = {7}
    ModelInputs = {1, 2, 3, 4, 5, 6, 7, 8, 9, 10, 11, 12, 14, 15, 101}
    Factory = {15, 65535}
    PackedEnums = TRUE
    MaxCalls = 2
    MaxRestarts = 1
INVARIANTS TypeOK   BootComplete
PROPERTY Returns
CHECK_DEADLOCK FALSE
