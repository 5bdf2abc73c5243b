SPECIFICATION Spec
CONSTANTS
    a1 = a1
    Jobs = {j1, j2}
    Requests = {q1, q2}
    Sessions = {s1, s2}
    Assets = {a1, a2}
    MaxRunning = 2
    Quota = 1
    Attempts = 2
    Optional = 1
    Deployments <- LocalStudio
    None = None
CHECK_DEADLOCK FALSE
INVARIANTS OutputIsAlwaysKept
