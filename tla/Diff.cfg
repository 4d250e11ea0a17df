SPECIFICATION BranchSpec
CONSTANTS
    Files = {"app"}
    Revisions <- MCDocuments
    Deployments <- MCDeployments
    Namespace <- MCNamespace
    Matches <- MCMatches
    Admits <- MCAdmits
    MaxVersion = 1
    MaxRefreshes = 2
INVARIANTS
    StepsAddUp
PROPERTIES
    MajorMeansMajor
CHECK_DEADLOCK FALSE
