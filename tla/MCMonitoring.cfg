\* One or two instances of the monitorer, one worker of the trigger.
CONSTANTS
    Queues = {"qa", "qb", "qc"}
    Instances = {"i1", "i2"}
    Levels = {"low", "none"}
    InitialLevels = {"low"}
    NoLatency = "none"
    Unreadable = {"qc"}
    NoMetrics = NoMetrics
    Over = {}
    Under = {"low"}
    Rulesets = {"svc"}
    Installed <- MCInstalled
    Resources <- MCResources
    RulesOf <- MCRules
    Workers = {w1}
    MaxReports = 1
    Inputs = {"add", "delete", "restart", "change", "outage", "fail"}
    MaxInputs = 1
SPECIFICATION MCFairSpec
INVARIANTS
    TypeOK
    OwnerKnows
PROPERTIES
    OnePollPerPeriod
    EveryQueuePolled
    SinceCountsFromChange
    SinceIsWaited
    OwnerToldTheTruth
