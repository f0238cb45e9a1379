\* Two tabs in one browser or in two, two forms submitted, one lost answer.
SPECIFICATION Spec
CONSTANTS
    Tab = {t1, t2}
    Device = {d1, d2}
    MaxSessions = 3
    MaxAttempts = 2
    MaxSubmits = 2
    MaxLost = 1
SYMMETRY MCSymmetry
INVARIANTS NoDeviceLosesItsSession NoFalseAlarm OnlyOvertakenSurvive SignedOutIsFinal
CHECK_DEADLOCK FALSE
