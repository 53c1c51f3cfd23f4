\* One worker; services come and go, at the overseer and at the load manager.
CONSTANTS
    Services = {a}
    Global <- MCGlobal
    DefaultMax = 3
    InitialScales <- MCInitialScales
    MaxReplicas = 2
    Configs <- MCConfigs
    Workers = {w1}
    Inputs = {"hand", "config", "load", "monitor", "unmonitor", "unwatch"}
    MaxInputs = 3
    MaxOrders = 1
    MaxCrashes = 1
    MaxFailures = 1
SPECIFICATION Spec
INVARIANTS
    RulesFollowServices
PROPERTIES
    NoResurrection
