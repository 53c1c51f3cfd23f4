\* One worker of each; services with a replica or none.
CONSTANTS
    Services <- MCServices
    Versions <- MCVersions
    Latest = 99
    SolveDependencies = TRUE
    Solvable <- MCPhases
    Explained <- MCPhases
    InitialCatalogs <- MCCatalogs
    ConfigOf <- MCConfigOf
    NoConfig = none
    Global <- MCGlobal
    Replicas = {0, 1}
    InitialStates <- MCInitial
    Workers = {p1}
    Overseers = {o1}
    Manual = {"b"}
    Inputs = {"upgrade", "image"}
    MaxInputs = 2
    MaxFailures = 0
    MaxCrashes = 1
    MaxRestarts = 1
    MaxDisturbances = 2
SPECIFICATION MCSpec
INVARIANTS
    CatalogFollowsDocker
    DonePlansComplete
    EmptyStepsEnd
PROPERTIES
    UpgradesAreRolling
    DoneStepsDeployed
