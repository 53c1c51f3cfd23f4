\* Two workers, a ruleset about two queues and one that raises.
CONSTANTS
    Queues = {"qa", "qb"}
    Levels <- MCLevels
    InitialLevels = {"low"}
    NoMetrics = NoMetrics
    Over <- MCOver
    Under <- MCUnder
    Rulesets = {"svc", "bad"}
    Installed <- MCInstalled
    Resources <- MCResources
    RulesOf <- MCRules
    Workers = {w1, w2}
    MaxReports = 1
    Inputs = {"add", "delete", "change", "crash", "restart"}
    MaxInputs = 1
SPECIFICATION FairSpec
INVARIANTS
    TypeOK
PROPERTIES
    ResultsConverge
