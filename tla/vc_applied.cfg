\* Everything the pod does, with every kind of fault.
SPECIFICATION FairSpec
CONSTANTS
    Entry = Entry
    Backends = Backends
    Vcl = Vcl
    OtherVcl = OtherVcl
    Bad = Bad
    Tmpl = Tmpl
    BadTmpl = BadTmpl
    NoFile = NoFile
    Torn = Torn
    NoEndpoints = NoEndpoints
    Files <- BothFiles
    VclFiles <- BothFiles
    Templates = {Backends}
    EntryPoint = Entry
    Texts <- AllTexts
    Broken = {Bad}
    Unparsable = {BadTmpl}
    Bodies <- GoodBodies
    Endpoints = {e1}
    MaxVersion = 2
    MaxMoves = 0
    MaxFaults = 1
    MaxNow = 4
PROPERTY
    ModificationsAreApplied
