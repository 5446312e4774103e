SPECIFICATION Spec
CONSTANTS
    Threads = {h1, h2}
    Ids <- MCIds
    HistoryCap = 1
    Deployments <- MCDeployments
SYMMETRY Sym
CHECK_DEADLOCK FALSE
INVARIANTS
    MigrationLossless
    ReportsOwned
    RegistrationSound
    RoutedHome
