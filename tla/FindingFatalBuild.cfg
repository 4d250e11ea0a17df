SPECIFICATION Spec
CONSTANTS
    k1 = k1
    k2 = k2
    d1 = d1
    d2 = d2
    Keys = {k1, k2}
    Dirs = {d1}
    Home <- OneVolume
    Good = {a}
    Bad = Bad
    Fatal = Fatal
    Absent = Absent
    Written = {Fatal}
    MaxUpdates = 1
    AtomicSwap = TRUE
    WatcherMayFail = FALSE
    MayEndAlone = FALSE
INVARIANT
    BadReloadIsHarmless
CHECK_DEADLOCK FALSE
