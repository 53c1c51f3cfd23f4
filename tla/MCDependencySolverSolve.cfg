CONSTANTS
    Services = {"a", "b", "c"}
    Features = {"fa", "fb", "fc"}
    Root <- MCRoot
    Catalogs <- MCCatalogs
SPECIFICATION FairSpec
INVARIANTS
    TypeOK
    ResultsStartable
    SolvesSimpleCatalogs
    SolutionsExplained
PROPERTIES
    Terminates
