\* The ACTIVE knowledge is replaced from full, module and screen crawls.
SPECIFICATION Spec
CONSTANTS
    m1 = m1
    m2 = m2
    s1 = s1
    s2 = s2
    a1 = a1
    a2 = a2
    k = k
    t = t
    None = None
    Item <- MCItem
    KindOf <- MCKindOf
    Observe <- MCObserve
    FirstContent <- Known
    MaxCrawls = 3
    MaxRepeats <- MCRepeats
    MaxUses = 1
    MaxOpen = 1
    MaxRevision = 2
    MaxFaults = 1
INVARIANTS
    TypeOK
    OriginIsUnique
    DecisionsAreFinal
    NothingElseIsLost
PROPERTIES
    StoredVersionsAreSound
    OnlyTheScopeChanges
    PublishesOnlyConfirmedRemovals
CHECK_DEADLOCK FALSE
