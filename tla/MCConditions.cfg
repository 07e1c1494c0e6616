SPECIFICATION FairSpec
CONSTANTS
    Documents <- MCDocs
    Vault <- MCVault
    JSONText <- MCJSONText
    Base64 <- MCBase64
    JSONForm <- JSONValue
    Resource <- MCResource
    Configuration <- MCConfiguration
    RefsOf <- Refs
    Inlined <- Inline
    Evaluated <- EvaluateAll
    Queried <- EvaluateQuery
    Conditional <- ConditionsOf
    SpecMeaning <- MeaningOfSpec
    MaxPolls = 2
    MaxLost = 1
    MaxWrites = 3
    MaxAnswers = 1
INVARIANTS
    RunsOnlyIfTrue
    SkippedOnlyIfFalse
    ExpiredOnlyUndecided
    SpecServed
    StagedSame
    QueryAgrees
PROPERTY StepSettles
CHECK_DEADLOCK FALSE
