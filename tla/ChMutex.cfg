SPECIFICATION Spec
CONSTANTS
    idle = idle
    low = low
    mid = mid
    peer = peer
    high = high
    mA = mA
    mB = mB
    mC = mC
    NoThread = NoThread
    Thread <- MCThread
    Mutex <- MCMutex
    Idle = idle
    BasePrio <- MCPrio
    Rank <- MCRank
INVARIANTS TypeOK PriorityOrder Inherited NoInversion
PROPERTIES IsMutex TopGetsMutex
