SPECIFICATION Spec
CONSTANTS
    Size = 4
    ReqSize = 3
    MaxSent = 6
    StoreOrder <- ProgramOrder
INVARIANT ChecksOneRead
