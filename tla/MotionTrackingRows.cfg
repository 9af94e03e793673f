SPECIFICATION Spec
CONSTANTS
    Thread = {"main", "serial", "mpu", "idle"}
    Mutex = {"print", "ser", "acc", "bus"}
    NoThread = "nobody"
    Commands = {"stp"}
    CounterLimit = 0
    MaxFaults = 1
    Updates = 2
INVARIANTS AllRowsReceived
