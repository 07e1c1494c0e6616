SPECIFICATION FairSpec
CONSTANTS
    t1 = t1  t2 = t2  s1 = s1  s2 = s2
    Tenants = {t1, t2}
    Occupied = {t2}
    Sinks = {s1, s2}
    MaxTriggers = 1
    MaxChanges = 1
    MaxFailures = 1
PROPERTIES OthersMapsKept ServicesCollected TriggerDeleted TriggerServed
CHECK_DEADLOCK FALSE
