SPECIFICATION Spec
CONSTANTS
    Workers = {w1, w2}
    MaxTopk = 2
    QueueCap = 4
    Phased = TRUE
    NoJob = NoJob
INVARIANTS TypeOK JobsConserved QueueFits DoneMeansLoaded NoIdleReader
PROPERTIES CloseTerminates ImplementsService
