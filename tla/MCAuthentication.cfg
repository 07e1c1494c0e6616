SPECIFICATION FairSpec
CONSTANTS
    a = a   p1 = p1  p2 = p2  i1 = i1  w = w
    Steps = {a}
    Conditional = {a}
    MaxNamespaces = 2
    MaxFailures = 1
    Pods = {p1, p2}
    Askers = {p1}
    IPs = {i1}
    Triggers = {w}
    EventSink = TRUE
    ProxyHops = 2
    Headers <- MCHeaders
    Proxy = Proxy
    Garbled = Garbled
    Delegates <- MCDelegates
    VaultPaths = {"engine", "secrets"}
INVARIANTS ServedAsSender
PROPERTY PodServed
CHECK_DEADLOCK FALSE
