\* One worker (max_workers: 1, one instance) and one crash of the overseer or
\* of scaler_docker.  The image v2 has no scale_info.
CONSTANTS
    s1 = s1
    s2 = s2
    v1 = v1
    v2 = v2
    c1 = c1
    c2 = none
    Services = {s1, s2}
    Images = {v1, v2}
    ConfigOf <- MCConfigOf
    NoConfig = none
    Global <- MCGlobal
    Replicas = {1, 2}
    InitialStates <- MCInitial
    Workers = {w1}
    Inputs = {"deploy", "remove", "monitor", "unmonitor", "scale", "upgrade"}
    MaxInputs = 2
    MaxFailures = 1
    MaxCrashes = 1
SPECIFICATION Spec
INVARIANTS
    TypeOK
    KnownStateIsReal
    SubscribersKnow
