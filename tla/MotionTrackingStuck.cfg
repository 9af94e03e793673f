SPECIFICATION Spec
CONSTANTS
    Thread = {"main", "serial", "mpu", "idle"}
    Mutex = {"print", "ser", "acc", "bus"}
    NoThread = "nobody"
    Commands = {"r02"}
    CounterLimit = 0
    MaxFaults = 1
    Updates = 2
PROPERTIES ReadsWhileEnabled
