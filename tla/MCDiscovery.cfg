SPECIFICATION Spec
CONSTANTS
    Remarks <- MCRemarks
    Objects <- MCObjects
    Drafts <- MCDrafts
    HandWritten <- MCHandWritten
    MaxRound = 4
INVARIANTS
    AnswerIsFound
    CriteriaSurvive
CHECK_DEADLOCK FALSE
