\* Everything the pod does, with every kind of fault.
SPECIFICATION FairSpec
CONSTANTS
    Entry = Entry
    Backends = Backends
    Vcl = Vcl
    OtherVcl = OtherVcl
    Bad = Bad
    Tmpl = Tmpl
    BadTmpl = BadTmpl
    NoFile = NoFile
    Torn = Torn
    NoEndpoints = NoEndpoints
    Files <- BothFiles
    VclFiles <- BothFiles
    Templates = {Backends}
    EntryPoint = Entry
    Texts <- AllTexts
    Broken = {Bad}
    Unparsable = {BadTmpl}
    Bodies <- AllBodies
    Endpoints = {e1, e2}
    MaxVersion = 2
    MaxMoves = 1
    MaxFaults = 1
    MaxNow = 4
PROPERTIES
    EventuallyReported
    EventuallyServed
