------------------------ MODULE MCVarnishController ------------------------
(* Instances of VarnishController for TLC: a VCL ConfigMap with an           *)
(* entrypoint and a template of the backends, and a few Data for it.         *)
EXTENDS VarnishController

CONSTANTS Entry, Backends,            \* file names
          Vcl, OtherVcl, Bad, Tmpl, BadTmpl   \* texts

BothFiles == {Entry, Backends}
AllTexts == {Vcl, OtherVcl, Bad, Tmpl, BadTmpl}

\* A file of the ConfigMap is absent unless given.
Data(e, b) == [f \in BothFiles |-> IF f = Entry THEN e ELSE b]

Good == Data(Vcl, Tmpl)
AlsoGood == Data(OtherVcl, Tmpl)
NoTemplate == Data(OtherVcl, NoFile)
DoesNotCompile == Data(Bad, Tmpl)
DoesNotParse == Data(Vcl, BadTmpl)
NoEntrypoint == Data(NoFile, Tmpl)

SafetyBodies == {Good, NoTemplate, DoesNotCompile}
AllBodies == {Good, AlsoGood, NoTemplate, DoesNotCompile, DoesNotParse, NoEntrypoint}
GoodBodies == {Good, AlsoGood}
=============================================================================
