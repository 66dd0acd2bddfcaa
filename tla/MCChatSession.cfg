SPECIFICATION Spec
CONSTANTS
    Specs <- MCSpecs
    MaxRevision = 3
INVARIANTS
    ApprovalIsInformed
PROPERTIES
    SavedPlanIsKept
    CallsComeBack
CHECK_DEADLOCK FALSE
