\* Two workers: handlers interleave at every access to mongo and every RPC.
CONSTANTS
    Services <- MCThreeServices
    Versions <- MCVersions
    Latest = 99
    SolveDependencies = FALSE
    Solvable <- MCThreeCompatible
    Explained <- MCThreeCompatible
    InitialCatalogs <- MCThreeCatalogs
    Workers = {w1, w2}
    Inputs = {"deployed", "upgrade", "continue"}
    MaxInputs = 4
    MaxCrashes = 1
    None = None
    LatestTag = latest
    Numberless = {alpine}
    Images = {"image"}
    Digests = {"digest"}
    Builds = {""}
SPECIFICATION Spec
INVARIANTS
    TypeOK
    StepsLaunchedInOrder
    PlanProgress
    RunningStepsRequested
SYMMETRY WorkerSymmetry
