CONSTANTS
    Length <- MCLength
    Language <- MCLanguage
    Portable <- MCPortable
    MaxDepth <- MCMaxDepth
    Atoms <- MCAtoms
    Lower <- MCLower
    Programs <- MCPrograms
    Prefix <- MCPrefix
    MaxNesting <- MCMaxNesting
SPECIFICATION MCSpec
CHECK_DEADLOCK FALSE
INVARIANTS
    RefusalIsCertain
    RefinementsHold
    NamesReach
    DocumentHolds
    ProducersAgree
    ConformIsNormative
    
