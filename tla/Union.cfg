SPECIFICATION Spec
CONSTANTS
    Contracts <- MCContracts
    MaxItems = 3
    Documents <- MCDocuments
    Exemptions <- MCExemptions
INVARIANTS
    RefusedExactlyOnDisagreement
    OrderDoesNotMatter
    PassedAsRead
CHECK_DEADLOCK FALSE
