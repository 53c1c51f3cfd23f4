\* One worker (max_workers: 1, one instance): every handler runs to its end
\* before the next one starts, unless it crashes.
CONSTANTS
    Services <- MCServices
    Versions <- MCVersions
    Latest = 99
    SolveDependencies = TRUE
    Solvable <- MCCompatible
    Explained <- MCCompatible
    InitialCatalogs <- MCInitialCatalogs
    Workers = {w1}
    Inputs = {"deployed", "cleaned", "image", "sanity", "upgrade"}
    MaxInputs = 5
    MaxCrashes = 1
    None = None
    LatestTag = latest
    Numberless = {alpine}
    Images = {"image"}
    Digests = {"digest"}
    Builds = {""}
SPECIFICATION Spec
INVARIANTS
    OneRunningPlan
    PhaseLogsDeployment
PROPERTIES
    PlansFollowLifecycle
    NoVersionLost
