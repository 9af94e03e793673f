SPECIFICATION Spec
CONSTANTS
    Size = 4
    ReqSize = 3
    MaxSent = 9
    StoreOrder <- ProgramOrder
INVARIANTS TypeOK RingConsistent ReadableFresh ReadInOrder CommandContiguous
PROPERTIES ReadReturns
