SPECIFICATION Spec
CONSTANTS
    one = one
    two = two
    Table = Table
    NaN = NaN
    Bad = Bad
    Trees <- MCTrees
    Leaves <- MCLeaves
    RestartPaths <- MCRestart
    PinOrder <- MCPinOrder
    Clashes <- MCClashes
INVARIANTS
    RestartKeysAtBoot
    PendingIsHeldBack
    MixturesExtract
    ApplyMatchesReference
CHECK_DEADLOCK FALSE
