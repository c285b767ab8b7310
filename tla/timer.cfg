\* Timers that take a while, and goroutines that get the mutex within a pass.
SPECIFICATION FairSpec
CONSTANTS
    Clusters = {c1, c2}
    Timers = {t1, t2}
    None = None
    Delays = {"later"}
    PromptCallbacks = TRUE
    Pods = 2
    MaxEdits = 1
    MaxPostponed = 1
    MaxFaults = 1
INVARIANTS
    ExistingTimerFires
    NoHangingTimers
PROPERTIES
    RolloutCompletes
