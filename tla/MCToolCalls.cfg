SPECIFICATION Spec
CONSTANTS
    Servers <- MCServers
    Plugins <- MCPlugins
    Commands <- MCCommands
    Paths <- MCPaths
    Text <- MCText
    Real <- MCReal
    Nothing <- MCNothing
    Configs <- MCConfigs
    MaxUnasked = 1
    MaxRequests = 4
INVARIANTS
    TypeOK
    
    StickyAnswersHold
    PipesKeepStep
PROPERTIES
    EveryCallReturns
CHECK_DEADLOCK FALSE
