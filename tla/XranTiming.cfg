CONSTANTS
    N = 5
    SubframesPerFrame = 1
    FramesPerSecond = 2
    SfnModulus = 3
    MaxFrame = 2
    TimerMu = 1
    Mus = {0, 1}
    PartTimeMus = {0}
    DlCpProcBurst = TRUE
    DlCpSyms = {0, 1, 2, 3, 4}
    T1aSyms <- MCT1aSyms
    SkipTtis = {1}
    TimeDiffs <- MCTimeDiffs
    SecondsCycle = 3
    MaxLag = 1
    MaxPending = 2
    WorkerSlack = 3
    MaxCalls = 3
SPECIFICATION Spec
INVARIANTS TypeOK InStep CountersAgree
PROPERTIES DlCpIsOnTime DeadlineCoversWindow TtisFollowSfn
CHECK_DEADLOCK FALSE
