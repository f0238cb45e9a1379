\* Two orders, two instances of the job, and a failure. The batch holds both.
SPECIFICATION Spec
CONSTANTS
    Order = {o1, o2}
    Runner = {r1, r2}
    OnlineTtl = 1
    CashTtl = 2
    BatchSize = 2
    Period = 2
    JobTime = 1
    MaxAttempts = 1
    MaxFaults = 1
SYMMETRY MCSymmetry
INVARIANTS ExpiredOnTime
PROPERTIES ExpiredWhenDue
