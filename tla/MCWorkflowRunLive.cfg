SPECIFICATION FairSpec
CONSTANTS
    Step = {"a"}
    Workflows <- MCLive
    Absent = Absent
    MaxTimeouts = 1
    MaxFailures = 1
    MaxCancels = 1
    MaxDeletes = 1
    MaxTogether = 1
PROPERTIES LogsUploaded CancelDelivered RunEnds OperatorRests DeletedRunCleaned
CHECK_DEADLOCK FALSE
