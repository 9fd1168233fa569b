SPECIFICATION Spec
CONSTANTS
    NLayers = 2
    NHash = 0
    NExperts = 3
    Topk = 3
    NSlots = 2
    ForceGlobal = FALSE
    ForceLru = FALSE
    MaxTopk = 3
    MaxTokens = 2
    HalfGroups = TRUE
    ReadFaults = TRUE
    NoKey = NoKey
    NotComputed = NotComputed
INVARIANTS TagsTrue BatchNeverSerial
PROPERTIES CallReturns
