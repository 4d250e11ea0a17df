SPECIFICATION FairSpec
CONSTANTS
    k1 = k1
    k2 = k2
    d1 = d1
    d2 = d2
    Keys = {k1, k2}
    Dirs = {d1, d2}
    Home <- TwoVolumes
    Good = {a}
    Bad = Bad
    Fatal = Fatal
    Absent = Absent
    Written = {a, Bad, Fatal, Absent}
    MaxUpdates = 2
    AtomicSwap = FALSE
    WatcherMayFail = TRUE
    MayEndAlone = TRUE
INVARIANTS
    NoLostUpdate
PROPERTIES
    FollowsFiles
    ShutdownReturns
    KeepsLifecycle
CHECK_DEADLOCK FALSE
