CONSTANTS
    s = s
    m = m
    t = t
    None = None
    Crash = Crash
    Procs = {s, m, t}
    Slaves = {s, t}
    MaxClients = 4
    OpensOverlap = FALSE
    MaxOpens = 1
SPECIFICATION Spec
CHECK_DEADLOCK FALSE
INVARIANT Registered
