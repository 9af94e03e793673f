SPECIFICATION LiveSpec
CONSTANTS
    Thread = {t1, t2}
    MaxCalls = 1
    Modulus = 20
    Delays = {3, 4}
    TimeDelta = 2
    MaxLate = 2
    NotArmed = NotArmed
    None = None
    t1 = t1
    t2 = t2
VIEW Clockless
PROPERTY SleepEnds
