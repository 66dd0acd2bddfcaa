SPECIFICATION Spec
CONSTANTS
    Criteria = {AC1, AC2}
    Commands <- MCCommands
    SuiteCommands <- MCSuiteCommands
    Elsewhere = AC9
    MaxGates = 2
SYMMETRY CriteriaSymmetry
INVARIANTS
    TypeOK
    PassedHasAWitness
    FailureIsAnswered
PROPERTIES
    LateEvidenceIsTheSuites
CHECK_DEADLOCK FALSE
