SPECIFICATION Spec
CONSTANTS
    NLayers = 2
    NHash = 1
    NExperts = 2
    Topk = 1
    NSlots = 3
    ForceGlobal = FALSE
    ForceLru = FALSE
    MaxTopk = 2
    MaxTokens = 2
    HalfGroups = TRUE
    ReadFaults = FALSE
    NoKey = NoKey
    NotComputed = NotComputed
INVARIANTS BuffersDistinct NoDuplicate ProtectedCounted
PROPERTIES ImplementsLayer
