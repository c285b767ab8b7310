\* The status as late as the delay, slow passes, a change of strategy, labels that are
\* changed and changed back, a restart and a deletion whose answer is lost; with everything
\* fair.
SPECIFICATION FairSpec
CONSTANTS
    Pods = {p1, p2}
    NoPod = NoPod
    Delay = 1
    MaxLag = 1
    MaxEnding = 1
    SlowPasses = TRUE
    MaxRevision = 2
    MaxEdits = 1
    MaxRelabels = 2
    MaxRestarts = 1
    MaxLosses = 1
    MaxFailures = 0
PROPERTIES
    PauseBetweenUpdates
    RolloutCompletes
