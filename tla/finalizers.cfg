\* The spec changes, users strip finalizers, a call fails or the operator restarts,
\* Prometheus may be removed; with everything fair.
SPECIFICATION SomeSpec
\* Once the VarnishCluster is gone and cleaned up, nothing happens any more.
CHECK_DEADLOCK FALSE
CONSTANTS
    Home = Home
    Other = Other
    Ghost = Ghost
    Namespaces = {Home, Other}
    Missing = {Ghost}
    Placements <- SomePlacements
    NoCluster = NoCluster
    MaxEdits = 1
    MaxStrips = 1
    MaxFaults = 1
    MayUninstall = TRUE
INVARIANTS
    TypeOK
    NothingLeft
    CoveredByFinalizers
    SpecFollowed
PROPERTIES
    DeletionCompletes
    SpecReached
