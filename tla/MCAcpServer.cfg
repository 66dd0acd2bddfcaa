SPECIFICATION Spec
CONSTANTS
    Specs <- MCSpecs
    MaxRevision = 2
    Conns = {editor, terminal}
    MaxRuns = 2
    MaxSecond = 1
    Nobody = Nobody
INVARIANTS
    TypeOK
    StatusIsHonest
    OnePlanPerSpec
PROPERTIES
    EveryRunEnds
CHECK_DEADLOCK FALSE
