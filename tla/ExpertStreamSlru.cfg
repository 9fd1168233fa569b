SPECIFICATION Spec
CONSTANTS
    NLayers = 1
    NHash = 0
    NExperts = 4
    Topk = 2
    NSlots = 3
    ForceGlobal = FALSE
    ForceLru = FALSE
    MaxTopk = 3
    MaxTokens = 2
    HalfGroups = TRUE
    ReadFaults = TRUE
    NoKey = NoKey
    NotComputed = NotComputed
INVARIANTS OwnWeights GroupsDisjoint TokenResident
