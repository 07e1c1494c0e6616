SPECIFICATION FairSpec
CONSTANTS
    Client = {c1, c2}
    Output = {o1, o2}
    Value = {v1}
    None = None
    Absent = Absent
    MaxRequests = 1
    MaxState = 1
    MaxDeletes = 1
    MaxFailures = 1
INVARIANTS
    TypeOK
    CopiesAreHonest
PROPERTIES
    StateNeverRegresses
    ImplementsOutputStore
    RequestsAnswered
    StateDelivered
CHECK_DEADLOCK FALSE
