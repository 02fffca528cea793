SPECIFICATION Spec
CONSTANTS
    p1 = p1
    p2 = p2
    c1 = c1
    neo4jSync = neo4jSync
    NoJob = NoJob
    Stop = Stop
    NoSlot = NoSlot
    NoTotal = NoTotal
    Slots <- MCSlots
    Jobs <- MCJobs
    SlotOf <- MCSlotOf
    Cancellable = {}
    MaxWork = 0
    MaxFaults = 0
    MaxCrashes = 0
INVARIANT
    NoDuplicateProjection
CHECK_DEADLOCK FALSE
