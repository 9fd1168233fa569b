SPECIFICATION Spec
CONSTANTS
    RuntimeReserve = 7
    MinExpertCache = 6
    ExpertSlot = 2
    MostSlots = 40
    MostBudget = 200
    RowBytes = 1
    IndexBytes = 1
    NearRatio = 2
    FarRatio = 4
    Config <- MCConfig
    Environment <- MCEnvironment
    Command <- MCCommand
    Ram <- MCRam
    Gib = 6
    LeastGib = 2
    MostGib = 20
    BaseContext = 4
    MaxLayers = 4
    MaxStages = 2
    MaxTopk = 3
    MaxBlock = 3
    NgramBlocks = {1, 2, 16}
    Prompt = {0, 1, 4, 12}
INVARIANTS ReadyToServe LongContextKeepsPace CacheAsAsked
