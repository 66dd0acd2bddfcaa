SPECIFICATION FairSpec
CONSTANTS
    MaxTasks = 3
    TaskIds <- MCTaskIds
    MaxTurns = 2
    MaxReviewRounds = 2
INVARIANTS
    TypeOK
    ScheduleIsSound
    WorkIsReviewed
PROPERTIES
    Terminates
    ImplementsSchedule
CHECK_DEADLOCK FALSE
