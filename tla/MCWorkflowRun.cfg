SPECIFICATION Spec
CONSTANTS
    Step = {"a", "b", "c"}
    Workflows <- MCSafety
    Absent = Absent
    MaxTimeouts = 0
    MaxFailures = 1
    MaxCancels = 1
    MaxDeletes = 0
    MaxTogether = 3
INVARIANTS TypeOK ReportConsistent LogsComplete SettledReport
PROPERTIES OutcomeStable CancelSticks
CHECK_DEADLOCK FALSE
