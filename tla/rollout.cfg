\* A delay longer than termination and status take, quick passes; calls fail without
\* effect, and labels change.
SPECIFICATION Spec
CONSTANTS
    Pods = {p1, p2, p3}
    NoPod = NoPod
    Delay = 3
    MaxLag = 1
    MaxEnding = 1
    SlowPasses = FALSE
    MaxRevision = 3
    MaxEdits = 0
    MaxRelabels = 2
    MaxRestarts = 0
    MaxLosses = 0
    MaxFailures = 1
SYMMETRY Symmetry
INVARIANTS
    TypeOK
    OneDownAtATime
PROPERTIES
    WarmUp
