CONSTANTS
    N = 5
    SubframesPerFrame = 1
    FramesPerSecond = 2
    SfnModulus = 3
    MaxFrame = 2
    TimerMu = 1
    Mus = {0, 1}
    PartTimeMus = {0}
    DlCpProcBurst = TRUE
    DlCpSyms = {0, 1, 2, 3, 4}
    T1aSyms <- MCT1aSyms
    SkipTtis = {1}
    TimeDiffs <- MCWholeSlotTimeDiffs
    SecondsCycle = 3
    MaxLag = 2
    MaxPending = 2
    WorkerSlack = 5
    MaxCalls = 1
SPECIFICATION Spec
PROPERTY DeadlineAlwaysCoversWindow
CHECK_DEADLOCK FALSE
