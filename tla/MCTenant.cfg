SPECIFICATION FairSpec
CONSTANTS
    Namespace = {n1}
    Own = Own
    None = None
    Absent = Absent
    Kinds <- MCKinds
    MaxChanges = 2
    MaxTogether = 2
    MaxFailures = 1
INVARIANTS TypeOK NamespacesTracked ReadyMeansTools
PROPERTIES OthersNamespacesKept TenantDeleted TenantBecomesReady
CHECK_DEADLOCK FALSE
