SPECIFICATION SafetySpec
CONSTANTS
    MaxTopk = 2
    SqEntries = 2
    EnterFails = {"scales"}
    WaitFails = FALSE
    MaxGroups = 2
PROPERTIES DispatchedWhenRead
CHECK_DEADLOCK FALSE
