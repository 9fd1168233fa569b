SPECIFICATION Spec
CONSTANTS
    Eos = Eos
    A = A
    B = B
    Token <- MCToken
    NoToken = NoToken
    Turn <- MCTurn
    Context = 9
    Window = 3
    MaxTokens = 5
    Block = 3
    RejectCooldown = 2
    Setup <- MCSetup
    Answer <- MCAnswer
    MaxDrawn = 3
INVARIANTS InStep WithinArrays LayoutRestored TargetIsOfText NgramIsContinuation
PROPERTIES ImplementsPlain TurnsEnd
