SPECIFICATION Spec
CONSTANTS
    Namespace = {n1, n2}
    Own = Own
    None = None
    Absent = Absent
    Kinds <- MCPlain
    MaxChanges = 2
    MaxTogether = 0
    MaxFailures = 0
SYMMETRY NamespaceSymmetry
INVARIANTS ReadyNamespaceExists
CHECK_DEADLOCK FALSE
