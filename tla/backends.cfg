\* Pods and the spec change, and the process restarts, in any order.
SPECIFICATION FairSpec
\* Once nothing may change any more the process rests.
CHECK_DEADLOCK FALSE
CONSTANTS
    NoZone = NoZone
    NoName = NoName
    Own = Own
    Other = Other
    App = App
    Canary = Canary
    Everything = Everything
    Z1 = Z1
    Z2 = Z2
    Http = Http
    Metrics = Metrics
    p1 = p1
    p2 = p2
    p3 = p3
    NoPod = NoPod
    Pods = {p1, p2, p3}
    Namespaces = {Own, Other}
    Labels = {App, Canary}
    Where <- NamedPorts
    OwnNodes <- AnyOwnNode
    Specs <- AllSpecs
    IPs = {1, 2, 3}
    Initial <- Starts
    MaxEvents = 2
    MaxChanges = 2
    MaxFaults = 1
INVARIANTS
    TypeOK
    SettledIsCurrent
    RenderingIsStable
    NoBackendWithoutWeight
    TightestThreshold
PROPERTIES
    NoHotspot
    Settles
