CONSTANTS
    s = s
    m = m
    t = t
    None = None
    Crash = Crash
    Procs = {s, m, t}
    Slaves = {s, t}
    MaxClients = 2
    OpensOverlap = FALSE
    MaxOpens = 2
SPECIFICATION Spec
CHECK_DEADLOCK FALSE
INVARIANTS TypeOK RegisteredInOrder ZoneOutlivesClients
