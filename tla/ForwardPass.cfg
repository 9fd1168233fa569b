SPECIFICATION Spec
SYMMETRY BufferSymmetry
CONSTANTS
    NLayers = 2
    NHash = 0
    NExperts = 3
    Topk = 1
    NSlots = 4
    ForceGlobal = FALSE
    ForceLru = FALSE
    MaxTopk = 2
    WoaLayers = 2
    MaxChunks = 2
    Routes <- MCRoutes
    Memory = {m1, m2, m3, m4, m5, m6}
    NoKey = NoKey
    NoLayer = NoLayer
INVARIANTS SlotsTrue OwnWeights ReadsEndInTheirLayer LayerWeights
PROPERTIES NeededKept
