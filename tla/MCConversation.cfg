SPECIFICATION ConversationSpec
CONSTANTS
    Tools <- MCTools
    MaxTurns = 2
    MaxCalls = 2
INVARIANTS
    ResultsAnswerCalls
    StreamsAgree
    OnlyTransientIsRetried
CHECK_DEADLOCK FALSE
