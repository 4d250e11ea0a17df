SPECIFICATION LiveSpec
CONSTANTS
    Keys <- MCKeys
    Reserved <- MCReserved
    Containers <- MCContainers
    Workloads <- MCWorkloads
    Images <- MCImages
    Spelling <- MCSpelling
    Aliases <- MCAliases
    Deliveries <- MCDeliveries
    Mounts <- MCMounts
    Overrides <- MCOverrides
    MaxChanges = 3
INVARIANTS
    NothingIsStranded
    HonestImages
PROPERTIES
    ChangesArrive
CHECK_DEADLOCK FALSE
