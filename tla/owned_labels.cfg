\* The labels of the VarnishCluster change.
SPECIFICATION Spec
\* With nothing left to do the operator rests.
CHECK_DEADLOCK FALSE
CONSTANTS
    l1 = l1
    l2 = l2
    s1 = s1
    s2 = s2
    b1 = b1
    b2 = b2
    d1 = d1
    d2 = d2
    LabelSets = {l1, l2}
    SpecValues = {s1, s2}
    Budgets = {b1, b2}
    Storages = {d1, d2}
    None = None
    NoObject = NoObject
    Tampered = Tampered
    Generated = Generated
    Empty = Empty
    Initial <- WithBudget
    Touched = {}
    MaxLag = 1
    MaxChanges = 1
    MaxFaults = 0
INVARIANTS
    PodsSelected
