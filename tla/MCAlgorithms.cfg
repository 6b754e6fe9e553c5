SPECIFICATION PickSpec
CONSTANTS
    LIMIT = 7
    MAX_PATH_LENGTH = 3
    MAX_FLOWS = 5
    LAST_K = 2
    TOP_N = 2
    Missing = Missing
    None = None
    NameRatio <- MCNameRatio
    Graphs <- MCGraphs
    Rankings <- MCRankings
    Elements <- MCElements
    Names <- MCNames
    HealLedgers <- MCHealLedgers
    Databases <- MCDatabases
    Mined <- MCMined
    Truths <- MCTruths
    Discoveries <- MCDiscoveries
    Soaks <- MCSoaks
    Thresholds <- MCThresholds
INVARIANTS
    MiningIsExact
    RiskOrdersFlows
    HealScoresAreSound
    ChainsNest
    
    ReportsAreExact
    ClassificationIsCautious
CHECK_DEADLOCK FALSE
