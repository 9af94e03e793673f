SPECIFICATION Spec
CONSTANTS
    Printer = {mpu, serial}
    Formatter = serial
    Size = 3
    PrintLen = 5
    FormatLen = 2
    None = None
    mpu = mpu
    serial = serial
INVARIANTS TypeOK NeverStalls NoLostWakeup
PROPERTIES MessagesWhole IsStream WritersWoken
