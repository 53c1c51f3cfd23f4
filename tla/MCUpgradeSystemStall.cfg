\* A new image and its plan, for two services that have a replica.
CONSTANTS
    Services <- MCServices
    Versions <- MCVersions
    Latest = 99
    SolveDependencies = TRUE
    Solvable <- MCPhases
    Explained <- MCPhases
    InitialCatalogs <- MCCatalogs
    ConfigOf <- MCConfigOf
    NoConfig = none
    Global <- MCGlobal
    Replicas = {1}
    InitialStates <- MCInitial
    Workers = {p1}
    Overseers = {o1}
    Manual = {"b"}
    Inputs = {"image"}
    MaxInputs = 1
    MaxFailures = 0
    MaxCrashes = 0
    MaxRestarts = 0
    MaxDisturbances = 1
SPECIFICATION FairSystemSpec
PROPERTY StepsEnd
