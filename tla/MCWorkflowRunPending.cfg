SPECIFICATION Spec
CONSTANTS
    Step = {"a", "b", "c"}
    Workflows <- MCFork
    Absent = Absent
    MaxTimeouts = 0
    MaxFailures = 0
    MaxCancels = 0
    MaxDeletes = 0
    MaxTogether = 3
INVARIANTS NoStepLeftPending
CHECK_DEADLOCK FALSE
