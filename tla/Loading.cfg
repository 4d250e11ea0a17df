SPECIFICATION JSpec
CONSTANTS
    Table = Table
    NaN = NaN
    Unparseable = Unparseable
    Processes <- MCProcesses
    Mounts <- MCMounts
    MaxSwaps = 1
INVARIANTS
    OneSupplier
    HighestLayerWins
    ReportIsTrue
    LoadersAgree
CHECK_DEADLOCK FALSE
