SPECIFICATION Spec
CONSTANTS
    Thread = {t1, t2, t3}
    MaxCalls = 1
    Modulus = 92
    Delays = {3, 4}
    TimeDelta = 2
    MaxLate = 2
    NotArmed = NotArmed
    None = None
    t1 = t1
    t2 = t2
    t3 = t3
SYMMETRY Symmetry
VIEW Clockless
INVARIANTS TypeOK FiresOnTime NoDangling
PROPERTIES AnswerKept IsTimers
