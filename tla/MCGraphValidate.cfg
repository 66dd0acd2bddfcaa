SPECIFICATION ValidateSpec
CONSTANTS
    MaxTasks = 3
    TaskIds <- MCTaskIds
INVARIANTS
    ValidateTypeOK
    SearchIsSound
PROPERTIES
    ValidateReturns
CHECK_DEADLOCK FALSE
