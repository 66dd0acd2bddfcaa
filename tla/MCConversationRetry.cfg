SPECIFICATION ConversationSpec
CONSTANTS
    Tools <- MCTools
    MaxTurns = 2
    MaxCalls = 2
INVARIANTS
    TransientIsRetried
CHECK_DEADLOCK FALSE
