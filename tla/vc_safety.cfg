\* Everything the pod does, with every kind of fault.
SPECIFICATION Spec
CONSTANTS
    Entry = Entry
    Backends = Backends
    Vcl = Vcl
    OtherVcl = OtherVcl
    Bad = Bad
    Tmpl = Tmpl
    BadTmpl = BadTmpl
    NoFile = NoFile
    Torn = Torn
    NoEndpoints = NoEndpoints
    Files <- BothFiles
    VclFiles <- BothFiles
    Templates = {Backends}
    EntryPoint = Entry
    Texts <- AllTexts
    Broken = {Bad}
    Unparsable = {BadTmpl}
    Bodies <- SafetyBodies
    Endpoints = {e1, e2}
    MaxVersion = 3
    MaxMoves = 1
    MaxFaults = 2
    MaxNow = 2
INVARIANTS
    TypeOK
    NameTellsTheTruth
    SettledServesLatest
    LeftoversAreFaults
PROPERTIES
    ReportedIsOnVolume
    ReloadOnlyWhenOwed
    InOrder
