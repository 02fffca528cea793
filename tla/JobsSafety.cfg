SPECIFICATION Spec
CONSTANTS
    p1 = p1
    p2 = p2
    c1 = c1
    neo4jSync = neo4jSync
    NoJob = NoJob
    Stop = Stop
    NoSlot = NoSlot
    NoTotal = NoTotal
    Slots <- MCSlots
    Jobs <- MCJobs
    SlotOf <- MCSlotOf
    Cancellable = {}
    MaxWork = 1
    MaxFaults = 1
    MaxCrashes = 1
INVARIANTS
    TypeOK
    NoOrphanJobs
    SingleRunner
    ExecutorMatchesRow
    ProgressConsistent
PROPERTY
    ImplementsLifecycle
CHECK_DEADLOCK FALSE
