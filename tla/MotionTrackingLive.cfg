SPECIFICATION Spec
CONSTANTS
    Thread = {"main", "serial", "mpu", "idle"}
    Mutex = {"print", "ser", "acc", "bus"}
    NoThread = "nobody"
    Commands = {"str","stp","reg"}
    CounterLimit = 1
    MaxFaults = 0
    Updates = 2
INVARIANTS FlagsAgree
PROPERTIES StopMeansStop ThreadsLoop StartObeyed
