SPECIFICATION Spec
CONSTANTS
    Thread = {t1, t2}
    TxBytes = 2
    RxSizes = {0, 1, 2}
    None = None
    t1 = t1
    t2 = t2
INVARIANTS TypeOK RefValid OwnResult OwnBytes DmaInOwnCall BusLeftFree
PROPERTY CallReturns
