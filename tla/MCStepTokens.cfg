SPECIFICATION TokenFairSpec
CONSTANTS
    a = a  b = b
    StepList <- MCStepList
    Conditional = {a}
    MaxRuns = 2
    MaxNamespaces = 2
    MaxFailures = 1
INVARIANTS Credentials
PROPERTIES TokenOnce RunApplied ImplementsTokenStore
CHECK_DEADLOCK FALSE
