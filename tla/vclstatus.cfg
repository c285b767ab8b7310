\* The labels of the VarnishCluster are changed, and changed back, versions published and
\* reported, pods replaced, calls failing, in any order.
SPECIFICATION FairSpec
\* With nothing left to do the operator rests.
CHECK_DEADLOCK FALSE
CONSTANTS
    p1 = p1
    p2 = p2
    Pods = {p1, p2}
    NoPod = NoPod
    MaxVersion = 2
    MaxRestarts = 1
    MaxRelabels = 2
    MaxFaults = 1
INVARIANTS
    TypeOK
    RestIsTrue
PROPERTIES
    StatusSettles
