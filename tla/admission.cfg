\* Two submissions, with and without webhooks.
SPECIFICATION Spec
CONSTANTS
    Absent = Absent
    Words <- SomeWords
    Keys <- SomeKeys
    Flags <- SomeFlags
    Submissions <- AllSubmissions
    MaxEdits = 2
    MaxDeploys = 2
INVARIANTS
    OurOptionsHold
    CheckedIsSane
PROPERTIES
    OrderRestartsNothing
