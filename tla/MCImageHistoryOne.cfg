\* One worker (max_workers: 1, one instance).
CONSTANTS
    s1 = s1
    s2 = s2
    t1 = t1
    t2 = t2
    Services = {s1, s2}
    Tags = {t1, t2}
    Users <- MCUsers
    Workers = {w1}
    Inputs = {"push", "delete", "watch"}
    MaxInputs = 2
    MaxFailures = 1
    MaxCrashes = 1
SPECIFICATION FairSpec
INVARIANTS
    TypeOK
    KnownIsRecorded
PROPERTIES
    RemovedImagesCleaned
