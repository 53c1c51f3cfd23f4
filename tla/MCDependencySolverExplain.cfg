CONSTANTS
    Services = {"a", "b", "c"}
    Features = {"fa", "fb", "fc"}
    Root <- MCRoot
    Catalogs <- MCCatalogs
SPECIFICATION Spec
INVARIANTS
    ExplainIsRight
