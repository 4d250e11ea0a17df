SPECIFICATION MCSpec
CONSTANTS
    Contracts <- MCContracts
    Aliases <- MCAliases
    Containers <- MCContainers
    Renders <- MCRenders
    Runtime <- MCRuntime
    Charts <- MCCharts
INVARIANTS
    ErrorsAreReal
    SilenceBoots
    FilesAreReportedOnce
    UndeliveredExactly
PROPERTIES
    ShownReadsBack
CHECK_DEADLOCK FALSE
