SPECIFICATION Spec
CONSTANTS
    MaxTopk = 2
    SqEntries = 2
    EnterFails = {"scales", "weights"}
    WaitFails = TRUE
    MaxGroups = 2
INVARIANTS RecordsTrue
PROPERTIES ImplementsServiceSafety GroupsComplete
