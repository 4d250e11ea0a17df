SPECIFICATION Spec
CONSTANTS
    Docs <- MCDocs
    KeyOrder <- MCKeyOrder
    NameOrder <- MCNameOrder
    Camel <- MCCamel
    ServiceKey <- MCServiceKey
    Charts <- MCCharts
    Releases <- MCReleases
    Stricter <- MCStricter
    Asked <- MCAsked
    MaxReleases = 1
    MaxEdits = 1
INVARIANTS
    GreenMeansAccounted
PROPERTIES
    AdoptionSettles
    RewritingSettles
CHECK_DEADLOCK FALSE
