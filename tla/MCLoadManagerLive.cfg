\* One worker; the services are already monitored.
CONSTANTS
    Services = {a, b}
    Global <- MCGlobal
    DefaultMax = 3
    InitialScales = {1}
    MaxReplicas = 2
    Configs <- MCLiveConfigs
    Workers = {w1}
    Inputs = {"hand", "config", "load", "unmonitor"}
    MaxInputs = 2
    MaxOrders = 1
    MaxCrashes = 0
    MaxFailures = 1
SPECIFICATION FairSpec
INVARIANTS
    TypeOK
    KnownScaleIsReal
PROPERTIES
    OrdersJustified
    ScalesUpToMax
