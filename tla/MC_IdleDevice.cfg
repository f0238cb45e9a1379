\* Two devices, nothing submitted and nothing lost: only an hour of inactivity.
SPECIFICATION Spec
CONSTANTS
    Tab = {t1, t2}
    Device = {d1, d2}
    MaxSessions = 4
    MaxAttempts = 2
    MaxSubmits = 0
    MaxLost = 0
SYMMETRY MCSymmetry
PROPERTIES LoggedOutOnlyIfInactive
CHECK_DEADLOCK FALSE
