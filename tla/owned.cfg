\* Two edits, of the VarnishCluster or of any object, and a failing call or a crash.
SPECIFICATION FairSpec
\* With nothing left to do the operator rests.
CHECK_DEADLOCK FALSE
CONSTANTS
    l1 = l1
    l2 = l2
    s1 = s1
    s2 = s2
    b1 = b1
    b2 = b2
    d1 = d1
    d2 = d2
    LabelSets = {l1, l2}
    SpecValues = {s1, s2}
    Budgets = {b1, b2}
    Storages = {d1, d2}
    None = None
    NoObject = NoObject
    Tampered = Tampered
    Generated = Generated
    Empty = Empty
    Initial <- WithBudget
    Touched = {"Role", "Secret", "StatefulSet", "ConfigMap", "PodDisruptionBudget"}
    MaxLag = 1
    MaxChanges = 2
    MaxFaults = 1
INVARIANTS
    TypeOK
    RestIsDesired
PROPERTIES
    UsersDataKept
    ComesToRest
