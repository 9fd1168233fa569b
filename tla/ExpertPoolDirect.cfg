SPECIFICATION Spec
CONSTANTS
    Workers = {w1, w2}
    MaxTopk = 2
    QueueCap = 1
    Phased = FALSE
    NoJob = NoJob
PROPERTIES GroupsComplete
