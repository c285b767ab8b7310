---------------------- MODULE VarnishControllerProofs ----------------------
(***************************************************************************)
(* Proofs about VarnishController, for every set of files, backends and    *)
(* ConfigMap data and for every bound.                                     *)
(***************************************************************************)
EXTENDS VarnishController, SequenceTheorems, FiniteSetTheorems, TLAPS

----------------------------------------------------------------------------
(* Lemmas about the data *)

\* Rendering a ConfigMap yields a directory.
LEMMA RenderType ==
    ASSUME NEW b \in Bodies, NEW e \in Endpoints
    PROVE  Render(b, e) \in Dirs
BY FilesAssumption DEF Render, Dirs, FileStates

\* Publishing a version keeps every earlier one.
LEMMA PublishedStays ==
    ASSUME NEW s \in Seq(Bodies), NEW b \in Bodies
    PROVE  /\ Append(s, b) \in Seq(Bodies)
           /\ Len(Append(s, b)) = Len(s) + 1
           /\ \A i \in 1 .. Len(s) : Append(s, b)[i] = s[i]
BY AppendProperties

----------------------------------------------------------------------------
(* Type correctness *)

\* Every variable starts in its type.
LEMMA TypeInit == Init => TypeOK
<1> SUFFICES ASSUME Init PROVE TypeOK
  OBVIOUS
<1>1. Boot \in Names /\ EmptyDir \in Dirs
  BY DEF Boot, Names, EmptyDir, Dirs, FileStates
<1>2. versions \in Seq(Bodies) /\ Len(versions) = 0
  BY EmptySeq DEF Init
<1>3. loaded \subseteq [name : Names, body : Dirs] /\ active \in VclNames
  BY <1>1 DEF Init, VclNames
<1>4. PassTypeOK
  <2>1. rd \in 0 .. Len(versions)
    BY <1>2 DEF Init
  <2>2. touched \in BOOLEAN
    BY DEF Init
  <2> QED
    BY <2>1, <2>2 DEF Init, PassTypeOK
<1>5. ann \in [configMapVersion : 0 .. MaxVersion, active : Names \cup {NoVCL}]
  BY BoundsAssumption DEF Init
<1>6. Len(versions) <= MaxVersion /\ seen \in 0 .. Len(versions)
  BY <1>2, BoundsAssumption DEF Init
<1>7. pending \in BOOLEAN /\ owed \in BOOLEAN
  BY DEF Init
<1> QED
  BY <1>1, <1>2, <1>3, <1>4, <1>5, <1>6, <1>7 DEF Init, TypeOK

\* A pass that ends leaves its variables in their types.
LEMMA PassEndsType ==
    ASSUME TypeOK, PassEnds, Len(versions') \in Nat
    PROVE  PassTypeOK'
<1>1. rd' \in 0 .. Len(versions')
  BY DEF PassEnds
<1>2. touched' \in BOOLEAN
  BY DEF PassEnds
<1> QED
  BY <1>1, <1>2 DEF PassEnds, PassTypeOK

\* A step that leaves the pass alone does too.
LEMMA PassKeptType ==
    ASSUME TypeOK, UNCHANGED passVars, UNCHANGED versions
    PROVE  PassTypeOK'
BY DEF passVars, TypeOK, PassTypeOK

\* Every step of the controller, of a fault and of the cluster keeps the types; what
\* a load or a write produces rests on the version and the backends the pass read.
LEMMA TypeStep == TypeOK /\ PassInv /\ [Next]_vars => TypeOK'
<1> SUFFICES ASSUME TypeOK, PassInv, [Next]_vars PROVE TypeOK'
  OBVIOUS
<1> USE DEF clusterVars, varnishVars, passVars, boundVars
<1>0. Len(versions) \in Nat
  BY DEF TypeOK
<1>1. CASE UNCHANGED vars
  BY <1>1, PassKeptType DEF vars, TypeOK, VclNames
<1>2. CASE PublishConfigMap
  <2>1. versions' \in Seq(Bodies) /\ Len(versions') = Len(versions) + 1
    BY <1>2, PublishedStays DEF PublishConfigMap, TypeOK
  <2>2. Len(versions') <= MaxVersion
    BY <1>0, <1>2, <2>1, BoundsAssumption DEF PublishConfigMap
  <2>3. PassTypeOK'
    BY <1>0, <1>2, <2>1 DEF PublishConfigMap, TypeOK, PassTypeOK
  <2> QED
    BY <1>0, <1>2, <2>1, <2>2, <2>3 DEF PublishConfigMap, TypeOK, VclNames
<1>3. CASE CacheSync
  BY <1>3, PassKeptType DEF CacheSync, TypeOK, VclNames
<1>4. CASE EndpointsChange
  BY <1>4, PassKeptType DEF EndpointsChange, TypeOK, VclNames
<1>5. CASE VarnishClusterEvent
  BY <1>5, PassKeptType DEF VarnishClusterEvent, TypeOK, VclNames
<1>6. CASE Tick
  BY <1>6, PassKeptType DEF Tick, TypeOK, VclNames
<1>7. CASE VarnishStops
  BY <1>7, PassKeptType DEF VarnishStops, Fault, TypeOK, VclNames
<1>8. CASE VarnishStarts
  BY <1>8, PassKeptType DEF VarnishStarts, TypeOK, VclNames, Names, Boot, EmptyDir, Dirs, FileStates
<1>9. CASE Start
  BY <1>9 DEF Start, TypeOK, PassTypeOK, VclNames
<1>10. CASE ReadConfigMap
  BY <1>0, <1>10, PassEndsType DEF ReadConfigMap, Abort, TypeOK, PassTypeOK, VclNames
<1>11. CASE RenderFiles
  BY <1>0, <1>11, PassEndsType DEF RenderFiles, diffFiles, Abort, TypeOK, PassTypeOK, VclNames
<1>12. CASE WriteFile
  <2>1. rd \in 1 .. Len(versions) /\ rdEps \in Endpoints
    BY <1>12 DEF WriteFile, PassInv, HasRendered, HasRead, TypeOK
  <2>2. newFiles \in Dirs
    BY <2>1, RenderType, ElementOfSeq DEF newFiles, TypeOK
  <2>3. dir' \in Dirs
    BY <1>12, <2>2 DEF WriteFile, TypeOK, Dirs
  <2> QED
    BY <1>12, <2>3 DEF WriteFile, TypeOK, PassTypeOK, VclNames
<1>13. CASE GetActive
  BY <1>0, <1>13, PassEndsType DEF GetActive, Abort, TypeOK, PassTypeOK, VclNames
<1>14. CASE Load
  BY <1>14 DEF Load, newName, nameVersion, createVCLConfigName, Names, TypeOK, PassTypeOK, VclNames
<1>15. CASE CompilationFails
  BY <1>15 DEF CompilationFails, failedMetric, TypeOK, PassTypeOK, VclNames
<1>16. CASE LoadRefused
  BY <1>0, <1>16, PassEndsType DEF LoadRefused, Abort, TypeOK, VclNames
<1>17. CASE Use
  BY <1>0, <1>17, PassEndsType DEF Use, Abort, TypeOK, PassTypeOK, VclNames
<1>18. CASE ListVCLs
  <2>1. VclNames \subseteq Names
    BY DEF VclNames, TypeOK
  <2>2. PassTypeOK'
    BY <1>0, <1>18, <2>1, PassEndsType DEF ListVCLs, discardable, Abort, TypeOK, PassTypeOK
  <2> QED
    BY <1>18, <2>2 DEF ListVCLs, Abort, TypeOK, VclNames
<1>19. CASE Discard
  BY <1>19 DEF Discard, TypeOK, PassTypeOK, VclNames
<1>20. CASE CleanedUp
  BY <1>20 DEF CleanedUp, TypeOK, PassTypeOK, VclNames
<1>21. CASE Annotate
  <2>1. annotatedVersion \in 0 .. MaxVersion
    BY <1>0, BoundsAssumption DEF annotatedVersion, TypeOK, PassTypeOK
  <2>2. active \in Names \cup {NoVCL}
    BY DEF TypeOK, VclNames
  <2>3. ann' \in [configMapVersion : 0 .. MaxVersion, active : Names \cup {NoVCL}]
    BY <1>21, <2>1, <2>2 DEF Annotate, TypeOK
  <2>4. PassTypeOK'
    BY <1>0, <1>21, PassEndsType DEF Annotate, Abort
  <2> QED
    BY <1>21, <2>3, <2>4 DEF Annotate, Abort, TypeOK, VclNames
<1>22. CASE CallFails
  BY <1>0, <1>22, PassEndsType DEF CallFails, Fault, Abort, TypeOK, VclNames
<1>23. CASE WriteTorn
  <2>1. dir' \in Dirs
    BY <1>23 DEF WriteTorn, TypeOK, Dirs, FileStates
  <2>2. PassTypeOK'
    BY <1>0, <1>23, PassEndsType DEF WriteTorn, Abort
  <2> QED
    BY <1>23, <2>1, <2>2 DEF WriteTorn, Fault, Abort, TypeOK, VclNames
<1>24. CASE LoadTimesOut
  <2>1. newName \in Names
    BY DEF newName, nameVersion, createVCLConfigName, Names, TypeOK, PassTypeOK
  <2>2. PassTypeOK'
    BY <1>0, <1>24, PassEndsType DEF LoadTimesOut, Abort
  <2> QED
    BY <1>24, <2>1, <2>2 DEF LoadTimesOut, Fault, Abort, TypeOK, VclNames
<1>25. CASE UseTimesOut
  <2>1. PassTypeOK'
    BY <1>0, <1>25, PassEndsType DEF UseTimesOut, Abort
  <2>2. active' \in VclNames'
    BY <1>25 DEF UseTimesOut, VclNames
  <2>3. pending' \in BOOLEAN /\ owed' \in BOOLEAN
    BY <1>25 DEF UseTimesOut, Abort
  <2> QED
    BY <1>25, <2>1, <2>2, <2>3 DEF UseTimesOut, Fault, TypeOK
<1>26. CASE DiscardFails
  BY <1>26 DEF DiscardFails, Fault, TypeOK, PassTypeOK, VclNames
<1>27. CASE AnnotateTimesOut
  <2>1. annotatedVersion \in 0 .. MaxVersion
    BY <1>0, BoundsAssumption DEF annotatedVersion, TypeOK, PassTypeOK
  <2>2. active \in Names \cup {NoVCL}
    BY DEF TypeOK, VclNames
  <2>3. ann' \in [configMapVersion : 0 .. MaxVersion, active : Names \cup {NoVCL}]
    BY <1>27, <2>1, <2>2 DEF AnnotateTimesOut, TypeOK
  <2>4. PassTypeOK'
    BY <1>0, <1>27, PassEndsType DEF AnnotateTimesOut, Abort
  <2> QED
    BY <1>27, <2>3, <2>4 DEF AnnotateTimesOut, Fault, Abort, TypeOK, VclNames
<1>28. CASE Restart
  BY <1>0, <1>28, PassEndsType DEF Restart, Fault, TypeOK, VclNames
<1> QED
  BY <1>1, <1>2, <1>3, <1>4, <1>5, <1>6, <1>7, <1>8, <1>9, <1>10, <1>11, <1>12,
     <1>13, <1>14, <1>15, <1>16, <1>17, <1>18, <1>19, <1>20, <1>21, <1>22, <1>23,
     <1>24, <1>25, <1>26, <1>27, <1>28
  DEF Next, Step, Failure, Environment

----------------------------------------------------------------------------
(* The invariants of a pass *)

\* No step loses a version of the ConfigMap, and the cache never goes back.
LEMMA VersionsKept ==
    ASSUME TypeOK, [Next]_vars
    PROVE  /\ seen <= seen'
           /\ Len(versions) <= Len(versions')
           /\ \A i \in 1 .. Len(versions) : versions'[i] = versions[i]
<1> USE DEF clusterVars
<1>0. Len(versions) \in Nat /\ seen \in Nat /\ seen <= Len(versions)
  BY DEF TypeOK
<1>1. CASE PublishConfigMap
  BY <1>0, <1>1, PublishedStays DEF PublishConfigMap, TypeOK
<1>2. CASE CacheSync
  BY <1>0, <1>2 DEF CacheSync
<1>3. CASE Restart
  BY <1>0, <1>3 DEF Restart
<1>4. CASE Step
  BY <1>0, <1>4 DEF Step, Start, ReadConfigMap, RenderFiles, WriteFile, GetActive, Load,
     CompilationFails, LoadRefused, Use, ListVCLs, Discard, CleanedUp, Annotate
<1>5. CASE CallFails \/ WriteTorn \/ LoadTimesOut \/ UseTimesOut \/ DiscardFails
           \/ AnnotateTimesOut \/ VarnishStops
  BY <1>0, <1>5 DEF CallFails, WriteTorn, LoadTimesOut, UseTimesOut, DiscardFails,
     AnnotateTimesOut, VarnishStops
<1>6. CASE EndpointsChange \/ VarnishClusterEvent \/ Tick \/ VarnishStarts
  BY <1>0, <1>6 DEF EndpointsChange, VarnishClusterEvent, Tick, VarnishStarts
<1>7. CASE UNCHANGED vars
  BY <1>0, <1>7 DEF vars
<1> QED
  BY <1>1, <1>2, <1>3, <1>4, <1>5, <1>6, <1>7 DEF Next, Failure, Environment

\* The steps that leave the pass and the volume alone.
Aside ==
    \/ PublishConfigMap \/ CacheSync \/ EndpointsChange \/ VarnishClusterEvent
    \/ Tick \/ VarnishStarts \/ VarnishStops \/ UNCHANGED vars

\* The steps of the cluster, of varnishd and of the clock leave the pass, the volume
\* and the annotations alone.
LEMMA AsideFrame == Aside => UNCHANGED <<passVars, dir, ann>>
BY DEF Aside, PublishConfigMap, CacheSync, EndpointsChange, VarnishClusterEvent, Tick,
   VarnishStarts, VarnishStops, clusterVars, vars

\* The files a pass is to write do not change under it.
LEMMA NewFilesKept ==
    ASSUME TypeOK, PassInv, [Next]_vars, pc \in HasRead, rd' = rd, rdEps' = rdEps
    PROVE  newFiles' = newFiles
<1>1. versions'[rd] = versions[rd]
  BY VersionsKept DEF PassInv, TypeOK
<1> QED
  BY <1>1 DEF newFiles, Render

\* Before the first pass there is nothing to be true of it.
LEMMA PassInit == Init => PassInv
BY DEF Init, PassInv, HasRead, HasRendered, HasWritten

\* A pass that returns, or aborts, leaves nothing to be true of it.
LEMMA PassEndsInv == PassEnds => PassInv'
BY DEF PassEnds, PassInv, HasRead, HasRendered, HasWritten

\* A pass works on a version the cache has held, and each file it has dealt with is
\* on the volume as that version has it.
LEMMA PassStep == TypeOK /\ PassInv /\ [Next]_vars => PassInv'
<1> SUFFICES ASSUME TypeOK, PassInv, [Next]_vars PROVE PassInv'
  OBVIOUS
<1> USE DEF HasRead, HasRendered, HasWritten
<1>0. seen \in Nat /\ seen' \in Nat /\ seen <= seen'
  BY VersionsKept, TypeStep DEF TypeOK
<1>1. CASE Aside
  <2>1. UNCHANGED passVars /\ UNCHANGED dir
    BY <1>1, AsideFrame
  <2>2. pc \in HasRead => newFiles' = newFiles
    BY <2>1, NewFilesKept DEF passVars
  <2> QED
    BY <1>0, <2>1, <2>2 DEF PassInv, passVars
<1>2. CASE PassEnds
  BY <1>2, PassEndsInv
<1>3. CASE Start
  BY <1>3 DEF Start, PassInv
<1>4. CASE ReadConfigMap /\ ~PassEnds
  BY <1>0, <1>4 DEF ReadConfigMap, Abort, PassInv
<1>5. CASE RenderFiles /\ ~PassEnds
  <2>1. rdEps' \in Endpoints /\ UNCHANGED <<rd, seen, versions, dir>> /\ pc = "render"
    BY <1>5 DEF RenderFiles, Abort, TypeOK, clusterVars
  <2>2. rd \in 1 .. seen
    BY <2>1 DEF PassInv
  <2>3. newFiles' = Render(versions[rd], eps)
    BY <1>5, <2>1 DEF RenderFiles, Abort, newFiles, Render
  <2>4. todo' = {f \in Files : newFiles'[f] # currFile(f)}
    BY <1>5, <2>3 DEF RenderFiles, Abort, diffFiles
  <2>5. \A f \in VclFiles \ todo' : dir'[f] = newFiles'[f]
    BY <2>1, <2>4, FilesAssumption DEF currFile
  <2>6. pc' = "write"
    BY <1>5 DEF RenderFiles, Abort
  <2> QED
    BY <2>1, <2>2, <2>5, <2>6 DEF PassInv
<1>6. CASE WriteFile
  <2>1. UNCHANGED <<pc, rd, rdEps, seen>> /\ pc = "write"
    BY <1>6 DEF WriteFile
  <2>2. newFiles' = newFiles
    BY <2>1, NewFilesKept
  <2>3. \A f \in VclFiles \ todo' : dir'[f] = newFiles'[f]
    BY <1>6, <2>1, <2>2, FilesAssumption DEF WriteFile, PassInv, TypeOK, Dirs
  <2> QED
    BY <2>1, <2>3 DEF PassInv
<1>7. CASE (GetActive \/ ListVCLs) /\ ~PassEnds
  <2>1. UNCHANGED <<rd, rdEps, seen, dir, todo, name>> /\ pc' # "use"
    BY <1>7 DEF GetActive, ListVCLs, Abort
  <2>2. pc \in HasRendered /\ todo = {}
    BY <1>7 DEF GetActive, ListVCLs, PassInv
  <2>3. newFiles' = newFiles
    BY <2>1, <2>2, NewFilesKept
  <2> QED
    BY <2>1, <2>2, <2>3 DEF PassInv
<1>8. CASE Load
  <2>1. UNCHANGED <<rd, rdEps, seen, dir, todo>> /\ pc = "load" /\ pc' = "use"
    BY <1>8 DEF Load
  <2>2. newFiles' = newFiles
    BY <2>1, NewFilesKept
  <2>3. name' \in Names /\ name'.rv = rd
    BY <1>8 DEF Load, newName, nameVersion, createVCLConfigName, Names, TypeOK, PassTypeOK
  <2> QED
    BY <2>1, <2>2, <2>3 DEF PassInv
<1>9. CASE CompilationFails \/ Discard \/ CleanedUp \/ DiscardFails \/ (Use /\ ~PassEnds)
  <2>1. /\ UNCHANGED <<rd, rdEps, seen, dir, todo>>
        /\ pc \in HasWritten
        /\ pc' \in {"annotate", "discard", "cleanup"}
    BY <1>9 DEF CompilationFails, Discard, CleanedUp, DiscardFails, Use, Abort
  <2>2. newFiles' = newFiles
    BY <2>1, NewFilesKept
  <2> QED
    BY <2>1, <2>2 DEF PassInv
<1>10. CASE LoadRefused \/ Annotate \/ CallFails \/ WriteTorn \/ LoadTimesOut
            \/ UseTimesOut \/ AnnotateTimesOut \/ Restart
  <2>1. PassEnds
    BY <1>10 DEF LoadRefused, Annotate, CallFails, WriteTorn, LoadTimesOut, UseTimesOut,
       AnnotateTimesOut, Restart, Abort
  <2> QED
    BY <2>1, PassEndsInv
<1> QED
  BY <1>1, <1>2, <1>3, <1>4, <1>5, <1>6, <1>7, <1>8, <1>9, <1>10
  DEF Next, Step, Failure, Environment, Aside

----------------------------------------------------------------------------
(* The invariant of what is loaded and reported *)

\* The VCLs varnishd holds: after a step, those it held, "boot", or the one a load
\* adds, made of the files of the version in its name.
LEMMA LoadedStep ==
    ASSUME IInv, [Next]_vars, NEW c \in loaded', c \notin loaded, c.name # Boot
    PROVE  /\ pc \in HasRead /\ c.name.rv = rd
           /\ \E e \in Endpoints : SameVCL(c.body, Render(versions[rd], e))
<1> USE DEF varnishVars
<1>1. CASE Load \/ LoadTimesOut
  <2>1. pc = "load" /\ c = [name |-> newName, body |-> dir]
    BY <1>1 DEF Load, LoadTimesOut
  <2>2. rdEps \in Endpoints /\ \A f \in VclFiles : dir[f] = newFiles[f]
    BY <2>1 DEF IInv, PassInv, HasWritten, HasRendered, HasRead
  <2>3. SameVCL(dir, Render(versions[rd], rdEps))
    BY <2>2 DEF SameVCL, newFiles
  <2> QED
    BY <2>1, <2>2, <2>3 DEF HasRead, newName, nameVersion, createVCLConfigName
<1>2. CASE VarnishStarts
  BY <1>2 DEF VarnishStarts
<1>3. CASE VarnishStops
  BY <1>3 DEF VarnishStops
<1>4. CASE Discard
  BY <1>4 DEF Discard
<1>5. CASE UNCHANGED loaded
  BY <1>5
<1>6. Next \/ UNCHANGED vars
  OBVIOUS
<1>7. CASE Step
  BY <1>1, <1>4, <1>5, <1>7 DEF Step, Start, ReadConfigMap, RenderFiles, WriteFile,
     GetActive, CompilationFails, LoadRefused, Use, ListVCLs, CleanedUp, Annotate
<1>8. CASE Failure
  BY <1>1, <1>3, <1>5, <1>8 DEF Failure, CallFails, WriteTorn, UseTimesOut, DiscardFails,
     AnnotateTimesOut, Restart
<1>9. CASE Environment
  BY <1>2, <1>5, <1>9 DEF Environment, PublishConfigMap, CacheSync, EndpointsChange,
     VarnishClusterEvent, Tick
<1> QED
  BY <1>5, <1>6, <1>7, <1>8, <1>9 DEF Next, vars

\* A version keeps its files, so what was made of it stays made of it.
LEMMA MadeOfKept ==
    ASSUME TypeOK, [Next]_vars, NEW d, NEW v \in 1 .. Len(versions), MadeOf(d, v)
    PROVE  MadeOf(d, v)'
BY VersionsKept DEF MadeOf, SameVCL, Render

\* The annotation configMapVersion only changes to the version the pass works on, or
\* to the one it had.
LEMMA ReportedStep ==
    ASSUME IInv, [Next]_vars, ann'.configMapVersion # ann.configMapVersion
    PROVE  /\ pc = "annotate"
           /\ ann'.configMapVersion = rd
<1> USE DEF clusterVars
<1>1. CASE Annotate \/ AnnotateTimesOut
  BY <1>1 DEF Annotate, AnnotateTimesOut, annotatedVersion
<1>2. CASE UNCHANGED ann
  BY <1>2
<1>3. CASE Step
  BY <1>1, <1>2, <1>3 DEF Step, Start, ReadConfigMap, RenderFiles, WriteFile, GetActive,
     Load, CompilationFails, LoadRefused, Use, ListVCLs, Discard, CleanedUp
<1>4. CASE Failure
  BY <1>1, <1>2, <1>4 DEF Failure, CallFails, WriteTorn, LoadTimesOut, UseTimesOut,
     DiscardFails, Restart, VarnishStops
<1>5. CASE Environment \/ UNCHANGED vars
  BY <1>2, <1>5 DEF Environment, PublishConfigMap, CacheSync, EndpointsChange,
     VarnishClusterEvent, Tick, VarnishStarts, vars
<1> QED
  BY <1>3, <1>4, <1>5 DEF Next

\* The active VCL only changes to the one the pass has just loaded, or to none.
LEMMA ServedStep ==
    ASSUME IInv, [Next]_vars, active'.rv # active.rv
    PROVE  \/ active'.rv = 0
           \/ pc = "use" /\ active'.rv = rd
<1> USE DEF varnishVars
<1>1. CASE Use \/ UseTimesOut
  BY <1>1 DEF Use, UseTimesOut, IInv, PassInv
<1>2. CASE VarnishStarts \/ VarnishStops
  BY <1>2 DEF VarnishStarts, VarnishStops, Boot, NoVCL
<1>3. CASE UNCHANGED active
  BY <1>3
<1>4. CASE Step
  BY <1>1, <1>3, <1>4 DEF Step, Start, ReadConfigMap, RenderFiles, WriteFile, GetActive,
     Load, CompilationFails, LoadRefused, ListVCLs, Discard, CleanedUp, Annotate
<1>5. CASE Failure
  BY <1>1, <1>2, <1>3, <1>5 DEF Failure, CallFails, WriteTorn, LoadTimesOut,
     DiscardFails, AnnotateTimesOut, Restart
<1>6. CASE Environment \/ UNCHANGED vars
  BY <1>2, <1>3, <1>6 DEF Environment, PublishConfigMap, CacheSync, EndpointsChange,
     VarnishClusterEvent, Tick, vars
<1> QED
  BY <1>4, <1>5, <1>6 DEF Next

\* The version a pass works on is the one it read from the cache.
LEMMA ReadStep ==
    ASSUME IInv, [Next]_vars, pc' \in HasRead
    PROVE  \/ pc \in HasRead /\ rd' = rd
           \/ pc = "read" /\ rd' = seen /\ UNCHANGED <<seen, ann, active>>
<1> USE DEF HasRead
<1>1. CASE Aside
  BY <1>1, AsideFrame DEF passVars
<1>2. CASE ReadConfigMap
  BY <1>2 DEF ReadConfigMap, Abort, PassEnds, clusterVars, varnishVars
<1>3. CASE Start \/ PassEnds
  BY <1>3 DEF Start, PassEnds
<1>4. CASE Step
  BY <1>2, <1>3, <1>4 DEF Step, RenderFiles, WriteFile, GetActive, Load, CompilationFails,
     LoadRefused, Use, ListVCLs, Discard, CleanedUp, Annotate, Abort
<1>5. CASE CallFails \/ WriteTorn \/ LoadTimesOut \/ UseTimesOut \/ DiscardFails
           \/ AnnotateTimesOut \/ Restart
  BY <1>3, <1>5 DEF CallFails, WriteTorn, LoadTimesOut, UseTimesOut, DiscardFails,
     AnnotateTimesOut, Restart, Abort
<1> QED
  BY <1>1, <1>4, <1>5 DEF Next, Failure, Environment, Aside

\* At the start nothing is reported and nothing of ours is loaded.
LEMMA OrderInit == Init => OrderInv /\ NameTellsTheTruth
BY DEF Init, OrderInv, NameTellsTheTruth, HasRead, Boot

\* Nothing newer than the cached version is loaded, served or reported, and a pass
\* never works on a version older than the one served or the one reported.
LEMMA OrderStep == IInv /\ [Next]_vars => OrderInv'
<1> SUFFICES ASSUME IInv, [Next]_vars PROVE OrderInv'
  OBVIOUS
<1>0. /\ seen \in Nat /\ seen' \in Nat /\ seen <= seen'
      /\ rd \in Nat /\ rd' \in Nat
      /\ ann.configMapVersion \in Nat /\ ann'.configMapVersion \in Nat
      /\ active.rv \in Nat /\ active'.rv \in Nat
  <2>1. TypeOK /\ TypeOK'
    BY TypeStep DEF IInv
  <2>2. ASSUME TypeOK
        PROVE  /\ seen \in Nat /\ rd \in Nat
               /\ ann.configMapVersion \in Nat /\ active.rv \in Nat
    BY <2>2, BoundsAssumption DEF TypeOK, PassTypeOK, VclNames, Names, NoVCL
  <2>3. ASSUME TypeOK'
        PROVE  /\ seen' \in Nat /\ rd' \in Nat
               /\ ann'.configMapVersion \in Nat /\ active'.rv \in Nat
    BY <2>3, BoundsAssumption DEF TypeOK, PassTypeOK, VclNames, Names, NoVCL
  <2> QED
    BY <2>1, <2>2, <2>3, VersionsKept
<1>1. pc \in HasRead => rd \in 1 .. seen
  BY DEF IInv, PassInv
<1>2. ann'.configMapVersion <= seen'
  BY <1>0, <1>1, ReportedStep DEF IInv, OrderInv, HasRead
<1>3. active'.rv <= seen'
  BY <1>0, <1>1, ServedStep DEF IInv, OrderInv, HasRead
<1>4. ASSUME pc' \in HasRead PROVE ann'.configMapVersion <= rd' /\ active'.rv <= rd'
  BY <1>0, <1>4, ReadStep, ReportedStep, ServedStep DEF IInv, OrderInv
<1>5. ASSUME NEW c \in loaded', c.name # Boot PROVE c.name.rv \in 1 .. seen'
  <2>1. CASE c \in loaded
    BY <1>0, <1>5, <2>1 DEF IInv, OrderInv
  <2>2. CASE c \notin loaded
    BY <1>0, <1>1, <1>5, <2>2, LoadedStep
  <2> QED
    BY <2>1, <2>2
<1> QED
  BY <1>2, <1>3, <1>4, <1>5 DEF OrderInv, HasRead

\* A VCL is named after the version whose files it was compiled from, also when the
\* load times out or the ConfigMap changes during the pass.
LEMMA NameStep == IInv /\ [Next]_vars => NameTellsTheTruth'
<1> SUFFICES ASSUME IInv, [Next]_vars, NEW c \in loaded', c.name # Boot
             PROVE  MadeOf(c.body, c.name.rv)'
  BY DEF NameTellsTheTruth, Boot
<1>0. TypeOK /\ seen \in Nat /\ seen <= Len(versions) /\ Len(versions) \in Nat
  BY DEF IInv, TypeOK
<1>1. CASE c \in loaded
  BY <1>0, <1>1, MadeOfKept DEF IInv, OrderInv, NameTellsTheTruth
<1>2. CASE c \notin loaded
  <2>1. c.name.rv = rd /\ rd \in 1 .. seen /\ MadeOf(c.body, rd)
    BY <1>2, LoadedStep DEF MadeOf, IInv, PassInv
  <2> QED
    BY <1>0, <2>1, MadeOfKept
<1> QED
  BY <1>1, <1>2

----------------------------------------------------------------------------
(* What a step changes, variable by variable *)

\* What varnishd holds and runs changes by a vcl.load, vcl.use or vcl.discard and when
\* its container stops or starts.
LEMMA VarnishdFrame ==
    [Next]_vars =>
        \/ UNCHANGED varnishVars
        \/ Load \/ LoadTimesOut \/ Discard \/ UseTimesOut \/ VarnishStarts \/ VarnishStops
        \/ (Use /\ pc' = "cleanup")
<1> SUFFICES ASSUME [Next]_vars, ~UNCHANGED varnishVars
             PROVE  \/ Load \/ LoadTimesOut \/ Discard \/ UseTimesOut
                    \/ VarnishStarts \/ VarnishStops
                    \/ (Use /\ pc' = "cleanup")
  OBVIOUS
<1> USE DEF varnishVars
<1>1. CASE Step
  BY <1>1 DEF Step, Start, ReadConfigMap, RenderFiles, WriteFile, GetActive,
     CompilationFails, LoadRefused, Use, ListVCLs, CleanedUp, Annotate
<1>2. CASE Failure
  BY <1>2 DEF Failure, CallFails, WriteTorn, DiscardFails, AnnotateTimesOut, Restart
<1>3. CASE Environment \/ UNCHANGED vars
  BY <1>3 DEF Environment, PublishConfigMap, CacheSync, EndpointsChange,
     VarnishClusterEvent, Tick, vars
<1> QED
  BY <1>1, <1>2, <1>3 DEF Next

\* The volume changes by a write, and what is owed by varnishd's answer too.
LEMMA VolumeFrame ==
    [Next]_vars =>
        \/ UNCHANGED <<dir, owed>>
        \/ WriteFile \/ WriteTorn \/ CompilationFails \/ UseTimesOut
        \/ (Use /\ pc' = "cleanup")
<1> SUFFICES ASSUME [Next]_vars, ~UNCHANGED <<dir, owed>>
             PROVE  \/ WriteFile \/ WriteTorn \/ CompilationFails \/ UseTimesOut
                    \/ (Use /\ pc' = "cleanup")
  OBVIOUS
<1>1. CASE Step
  BY <1>1 DEF Step, Start, ReadConfigMap, RenderFiles, GetActive, Load, LoadRefused, Use,
     ListVCLs, Discard, CleanedUp, Annotate
<1>2. CASE Failure
  BY <1>2 DEF Failure, CallFails, LoadTimesOut, DiscardFails, AnnotateTimesOut, Restart,
     VarnishStops
<1>3. CASE Environment \/ UNCHANGED vars
  BY <1>3 DEF Environment, PublishConfigMap, CacheSync, EndpointsChange,
     VarnishClusterEvent, Tick, VarnishStarts, vars
<1> QED
  BY <1>1, <1>2, <1>3 DEF Next

\* A pass is about to use a VCL once it has loaded it, and keeps the volume until then.
LEMMA UseFrame ==
    [Next]_vars /\ pc' = "use" => Load \/ (Aside /\ UNCHANGED <<pc, name, dir>>)
<1> SUFFICES ASSUME [Next]_vars, pc' = "use", ~Load
             PROVE  Aside /\ UNCHANGED <<pc, name, dir>>
  OBVIOUS
<1>1. CASE Aside
  BY <1>1, AsideFrame DEF passVars
<1>2. ~Step
  BY DEF Step, Start, ReadConfigMap, RenderFiles, WriteFile, GetActive, CompilationFails,
     LoadRefused, Use, ListVCLs, Discard, CleanedUp, Annotate, Abort, PassEnds
<1>3. ~(CallFails \/ WriteTorn \/ LoadTimesOut \/ UseTimesOut \/ DiscardFails
          \/ AnnotateTimesOut \/ Restart)
  BY DEF CallFails, WriteTorn, LoadTimesOut, UseTimesOut, DiscardFails,
     AnnotateTimesOut, Restart, Abort, PassEnds
<1> QED
  BY <1>1, <1>2, <1>3 DEF Next, Failure, Environment, Aside

\* VCLs that are told apart by their names are found by them.
LEMMA FoundByName ==
    ASSUME NEW S, NEW c \in S, \A d, e \in S : d.name = e.name => d = e
    PROVE  (CHOOSE d \in S : d.name = c.name) = c
<1> DEFINE d0 == CHOOSE d \in S : d.name = c.name
<1>1. d0 \in S /\ d0.name = c.name
  OBVIOUS
<1> QED
  BY <1>1

----------------------------------------------------------------------------
(* The invariants of what varnishd serves and of what it owes *)

\* varnishd knows one VCL by a name, and runs one unless it is down; the one a pass has loaded
\* is made of the volume.
VarnishInv ==
    /\ Up => active # NoVCL
    /\ \A c, d \in loaded : c.name = d.name => c = d
    /\ pc = "use" => \A c \in loaded : c.name = name => c.body = dir

\* If every file is looked at, a pass that touched one leaves the volume unlike what varnishd
\* knows, or is about to.
OwedInv ==
    VclFiles = Files =>
        /\ pc = "write" /\ touched => owed \/ \E f \in todo : dir[f] # newFiles[f]
        /\ pc = "load" => owed \/ active \in {Boot, NoVCL}

\* What is not owed is served, if it compiles.
ServedInv ==
    ~owed /\ active \notin {Boot, NoVCL} /\ Compiles(dir) => SameVCL(BodyOf(active), dir)

\* A pass that nothing has happened to since it read has the backends there are, and does not
\* leave varnishd with the VCL it booted with.
PresentInv ==
    ~pending =>
        /\ pc \in HasRendered => rdEps = eps
        /\ pc \in {"cleanup", "discard"} => active # Boot
        /\ pc \in {"annotate", "idle"} => active # Boot \/ ~Compiles(dir)
        /\ pc = "idle" /\ versions # <<>> /\ ann.configMapVersion = Len(versions) =>
            SameVCL(dir, Render(Latest, eps))

\* The VCLs a cleanup has to discard.
Leftovers == VclNames \ {Boot, active}

\* There is one for each fault at most, and for a moment the VCL of the reload or the one it
\* replaces.
LeftoversInv ==
    /\ IsFiniteSet(VclNames)
    /\ Cardinality(Leftovers) <= faults + (IF pc \in {"use", "cleanup", "discard"} THEN 1 ELSE 0)
    /\ pc = "use" => Cardinality(Leftovers \ {name}) <= faults
    /\ pc = "discard" => Cardinality(Leftovers \ discards) <= faults

----------------------------------------------------------------------------
(* They hold at the start, and every step keeps them *)

\* varnishd starts with the VCL called "boot".
LEMMA VarnishInit == Init => VarnishInv
BY DEF Init, VarnishInv, Boot, NoVCL

\* vcl.load takes no name twice, and neither a restart of varnishd nor a write of the
\* files comes between a load and the use of what was loaded unnoticed.
LEMMA VarnishStep == IInv /\ VarnishInv /\ [Next]_vars => VarnishInv'
<1> SUFFICES ASSUME IInv, VarnishInv, [Next]_vars PROVE VarnishInv'
  OBVIOUS
<1>0. Boot # NoVCL /\ NoVCL \notin Names /\ Boot.rv = 0
  BY DEF Boot, NoVCL, Names
<1>1. Up' => active' # NoVCL
  <2>1. CASE UNCHANGED varnishVars
    BY <2>1 DEF VarnishInv, varnishVars, Up
  <2>2. CASE Load \/ LoadTimesOut
    BY <2>2 DEF Load, LoadTimesOut, VarnishInv, Up
  <2>3. CASE Discard
    BY <2>3 DEF Discard, VarnishInv, Up
  <2>4. CASE UseTimesOut \/ (Use /\ pc' = "cleanup")
    BY <1>0, <2>4 DEF UseTimesOut, Use, Abort, PassEnds, IInv, PassInv
  <2>5. CASE VarnishStarts \/ VarnishStops
    BY <1>0, <2>5 DEF VarnishStarts, VarnishStops, Up
  <2> QED
    BY <2>1, <2>2, <2>3, <2>4, <2>5, VarnishdFrame
<1>2. ASSUME NEW c \in loaded', NEW d \in loaded', c.name = d.name PROVE c = d
  <2>1. CASE loaded' \subseteq loaded
    BY <1>2, <2>1 DEF VarnishInv
  <2>2. CASE Load \/ LoadTimesOut
    <3> DEFINE new == [name |-> newName, body |-> dir]
    <3>1. loaded' = loaded \cup {new} /\ newName \notin VclNames
      BY <2>2 DEF Load, LoadTimesOut
    <3>2. \A e \in loaded : e.name # newName
      BY <3>1 DEF VclNames
    <3>3. new.name = newName
      OBVIOUS
    <3> HIDE DEF new
    <3> QED
      BY <1>2, <3>1, <3>2, <3>3 DEF VarnishInv
  <2>3. CASE VarnishStarts \/ VarnishStops
    BY <1>2, <2>3 DEF VarnishStarts, VarnishStops
  <2>4. CASE Discard \/ UseTimesOut \/ Use \/ UNCHANGED varnishVars
    BY <2>1, <2>4 DEF Discard, UseTimesOut, Use, varnishVars
  <2> QED
    BY <2>2, <2>3, <2>4, VarnishdFrame
<1>3. ASSUME pc' = "use", NEW c \in loaded', c.name = name' PROVE c.body = dir'
  <2>1. CASE Load
    <3>1. /\ loaded' = loaded \cup {[name |-> newName, body |-> dir]}
          /\ name' = newName /\ dir' = dir /\ newName \notin VclNames
      BY <2>1 DEF Load
    <3>2. c \notin loaded
      BY <1>3, <3>1 DEF VclNames
    <3> QED
      BY <3>1, <3>2
  <2>2. CASE Aside /\ UNCHANGED <<pc, name, dir>>
    <3>1. name # Boot
      BY <1>0, <1>3, <2>2 DEF IInv, TypeOK, PassInv, HasRead
    <3>2. c \in loaded
      BY <1>3, <2>2, <3>1 DEF Aside, PublishConfigMap, CacheSync, EndpointsChange,
         VarnishClusterEvent, Tick, VarnishStarts, VarnishStops, varnishVars, vars
    <3> QED
      BY <1>3, <2>2, <3>2 DEF VarnishInv
  <2> QED
    BY <1>3, <2>1, <2>2, UseFrame
<1> QED
  BY <1>1, <1>2, <1>3 DEF VarnishInv, Up

\* At the start varnishd owes nothing and runs nothing of ours.
LEMMA ServedInit == Init => OwedInv /\ ServedInv
BY DEF Init, OwedInv, ServedInv

\* A reload is decided on because a file was touched, and a touched file differs.
LEMMA OwedStep == IInv /\ OwedInv /\ [Next]_vars => OwedInv'
<1> SUFFICES ASSUME IInv, OwedInv, [Next]_vars, VclFiles = Files PROVE OwedInv'
  BY DEF OwedInv
<1>1. ASSUME pc' = "write", touched'
      PROVE  owed' \/ \E f \in todo' : dir'[f] # newFiles'[f]
  <2>1. CASE RenderFiles
    <3>1. /\ newFiles' = Render(versions[rd], eps)
          /\ todo' = diffFiles(newFiles') /\ todo' # {} /\ dir' = dir
      BY <1>1, <2>1 DEF RenderFiles, Abort, PassEnds, newFiles, Render, clusterVars
    <3>2. PICK f \in todo' : TRUE
      BY <3>1
    <3>3. dir[f] # newFiles'[f]
      BY <3>1, <3>2 DEF diffFiles, currFile
    <3> QED
      BY <3>1, <3>2, <3>3
  <2>2. CASE WriteFile
    <3>1. /\ pc = "write" /\ touched /\ newFiles' = newFiles
          /\ (owed' <=> owed \/ dir' # dir)
      BY <1>1, <2>2, NewFilesKept DEF WriteFile, IInv, HasRead
    <3>2. PICK f \in todo :
              dir' = [dir EXCEPT ![f] = newFiles[f]] /\ todo' = todo \ {f}
      BY <2>2 DEF WriteFile
    <3>3. CASE owed
      BY <3>1, <3>3
    <3>4. ASSUME NEW g \in todo, dir[g] # newFiles[g]
          PROVE  owed' \/ \E h \in todo' : dir'[h] # newFiles'[h]
      <4>1. g \in Files /\ DOMAIN dir = Files
        BY DEF IInv, TypeOK, PassTypeOK, Dirs
      <4>2. CASE g = f
        BY <3>1, <3>2, <3>4, <4>1, <4>2
      <4>3. CASE g # f
        BY <3>1, <3>2, <3>4, <4>1, <4>3
      <4> QED
        BY <4>2, <4>3
    <3> QED
      BY <3>1, <3>3, <3>4 DEF OwedInv
  <2>3. CASE Aside
    <3>1. /\ pc = "write" /\ touched /\ todo' = todo /\ dir' = dir /\ newFiles' = newFiles
          /\ owed' = owed
      BY <1>1, <2>3, AsideFrame, NewFilesKept
      DEF Aside, PublishConfigMap, CacheSync, EndpointsChange, VarnishClusterEvent, Tick,
          VarnishStarts, VarnishStops, vars, passVars, IInv, HasRead
    <3> QED
      BY <3>1 DEF OwedInv
  <2> QED
    BY <1>1, <2>1, <2>2, <2>3 DEF Next, Step, Failure, Environment, Aside,
       Start, ReadConfigMap, GetActive, Load, CompilationFails, LoadRefused, Use, ListVCLs,
       Discard, CleanedUp, Annotate, CallFails, WriteTorn, LoadTimesOut, UseTimesOut,
       DiscardFails, AnnotateTimesOut, Restart, Abort, PassEnds
<1>2. ASSUME pc' = "load" PROVE owed' \/ active' \in {Boot, NoVCL}
  <2>1. CASE GetActive
    <3>1. /\ pc = "write" /\ todo = {} /\ (touched \/ active = Boot)
          /\ owed' = owed /\ active' = active
      BY <1>2, <2>1 DEF GetActive, Abort, PassEnds, needsReload, varnishVars
    <3> QED
      BY <3>1 DEF OwedInv
  <2>2. CASE Aside
    <3>1. pc = "load" /\ owed' = owed
      BY <1>2, <2>2, AsideFrame
      DEF Aside, PublishConfigMap, CacheSync, EndpointsChange, VarnishClusterEvent, Tick,
          VarnishStarts, VarnishStops, vars, passVars
    <3>2. active' = active \/ active' \in {Boot, NoVCL}
      BY <2>2
      DEF Aside, PublishConfigMap, CacheSync, EndpointsChange, VarnishClusterEvent, Tick,
          VarnishStarts, VarnishStops, vars, varnishVars
    <3> QED
      BY <3>1, <3>2 DEF OwedInv
  <2> QED
    BY <1>2, <2>1, <2>2 DEF Next, Step, Failure, Environment, Aside,
       Start, ReadConfigMap, RenderFiles, WriteFile, Load, CompilationFails, LoadRefused,
       Use, ListVCLs, Discard, CleanedUp, Annotate, CallFails, WriteTorn, LoadTimesOut,
       UseTimesOut, DiscardFails, AnnotateTimesOut, Restart, Abort, PassEnds
<1> QED
  BY <1>1, <1>2 DEF OwedInv

\* What varnishd runs stays what the volume holds, until a write says it is owed.
LEMMA ServedStepInv == IInv /\ VarnishInv /\ ServedInv /\ [Next]_vars => ServedInv'
<1> SUFFICES ASSUME IInv, VarnishInv, ServedInv, [Next]_vars,
                    ~owed', active' \notin {Boot, NoVCL}, Compiles(dir')
             PROVE  SameVCL(BodyOf(active)', dir')
  BY DEF ServedInv, Compiles
<1>0. VarnishInv'
  BY VarnishStep
<1>1. CASE UseTimesOut \/ (Use /\ pc' = "cleanup")
  <2>1. /\ pc = "use" /\ name \in VclNames /\ active' = name
        /\ dir' = dir /\ loaded' = loaded
    BY <1>1 DEF UseTimesOut, Use, Abort, PassEnds
  <2>2. PICK c \in loaded : c.name = name
    BY <2>1 DEF VclNames
  <2>3. c.body = dir
    BY <2>1, <2>2 DEF VarnishInv
  <2>4. BodyOf(active)' = c.body
    BY <2>1, <2>2, FoundByName DEF BodyOf, VarnishInv
  <2> QED
    BY <2>1, <2>3, <2>4 DEF SameVCL
<1>2. ~CompilationFails
  BY DEF CompilationFails, Compiles
<1>3. ~WriteTorn
  BY DEF WriteTorn
<1>4. CASE WriteFile \/ UNCHANGED <<dir, owed>>
  <2>1. dir' = dir /\ ~owed
    <3>1. owed \in BOOLEAN
      BY DEF IInv, TypeOK
    <3>2. CASE WriteFile
      <4>1. owed' = (owed \/ dir' # dir)
        BY <3>2 DEF WriteFile
      <4> QED
        BY <3>1, <4>1
    <3>3. CASE UNCHANGED <<dir, owed>>
      BY <3>3
    <3> QED
      BY <1>4, <3>2, <3>3
  <2>2. CASE VarnishStarts \/ VarnishStops
    BY <2>2 DEF VarnishStarts, VarnishStops
  <2>3. CASE /\ active' = active
             /\ \A c \in loaded : c.name = active => c \in loaded'
    <3>1. active \in VclNames
      BY <2>3 DEF IInv, TypeOK
    <3>2. PICK c \in loaded : c.name = active
      BY <3>1 DEF VclNames
    <3>3. BodyOf(active) = c.body
      BY <3>2, FoundByName DEF BodyOf, VarnishInv
    <3>4. (CHOOSE d \in loaded' : d.name = c.name) = c
      BY <1>0, <2>3, <3>2, FoundByName DEF VarnishInv
    <3>5. BodyOf(active)' = c.body
      BY <2>3, <3>2, <3>4 DEF BodyOf
    <3>6. SameVCL(BodyOf(active), dir)
      BY <2>1, <2>3 DEF ServedInv
    <3> QED
      BY <2>1, <3>3, <3>5, <3>6
  <2>4. CASE UNCHANGED varnishVars \/ Load \/ LoadTimesOut \/ Discard
    BY <2>3, <2>4 DEF varnishVars, Load, LoadTimesOut, Discard
  <2> QED
    BY <1>1, <2>2, <2>4, VarnishdFrame
<1> QED
  BY <1>1, <1>2, <1>3, <1>4, VolumeFrame

\* At the start a request is queued.
LEMMA PresentInit == Init => PresentInv
BY DEF Init, PresentInv

\* Whatever makes a pass out of date, or ends it early, queues a request: the backends
\* of a pass nothing was queued behind are the current ones.
LEMMA PresentStep == IInv /\ PresentInv /\ [Next]_vars => PresentInv'
<1> SUFFICES ASSUME IInv, PresentInv, [Next]_vars, ~pending'
             PROVE  /\ pc' \in HasRendered => rdEps' = eps'
                    /\ pc' \in {"cleanup", "discard"} => active' # Boot
                    /\ pc' \in {"annotate", "idle"} => active' # Boot \/ ~Compiles(dir')
                    /\ pc' = "idle" /\ versions' # <<>>
                         /\ ann'.configMapVersion = Len(versions') =>
                         SameVCL(dir', Render(Latest', eps'))
  BY DEF PresentInv, Compiles, SameVCL, Render
<1> USE DEF HasRendered, HasRead, clusterVars, varnishVars
<1>0. /\ Len(versions) \in Nat /\ seen \in Nat /\ seen <= Len(versions)
      /\ ann.configMapVersion \in Nat /\ ann.configMapVersion <= seen
  BY BoundsAssumption DEF IInv, TypeOK, OrderInv
<1>1. CASE PublishConfigMap
  <2>1. /\ UNCHANGED <<pending, pc, rdEps, eps, active, dir, ann>>
        /\ Len(versions') = Len(versions) + 1
    BY <1>1, PublishedStays DEF PublishConfigMap, passVars, IInv, TypeOK
  <2>2. ann'.configMapVersion # Len(versions')
    BY <1>0, <2>1
  <2> QED
    BY <2>1, <2>2 DEF PresentInv
<1>2. CASE CacheSync \/ Tick \/ UNCHANGED vars
  <2>1. UNCHANGED <<pending, pc, rdEps, eps, active, dir, ann, versions>>
    BY <1>2 DEF CacheSync, Tick, vars, passVars
  <2> QED
    BY <2>1 DEF PresentInv, Latest
<1>3. CASE VarnishStops
  <2>1. /\ UNCHANGED <<pending, pc, rdEps, eps, dir, ann, versions>>
        /\ active' # Boot
    BY <1>3 DEF VarnishStops, passVars, Boot, NoVCL
  <2> QED
    BY <2>1 DEF PresentInv, Latest
<1>4. CASE Start \/ ReadConfigMap
  BY <1>4 DEF Start, ReadConfigMap, Abort
<1>5. CASE RenderFiles
  BY <1>5 DEF RenderFiles, Abort
<1>6. CASE WriteFile \/ Load
  BY <1>6 DEF WriteFile, Load, PresentInv
<1>7. CASE GetActive
  BY <1>7 DEF GetActive, Abort, needsReload, PresentInv
<1>8. CASE CompilationFails
  <2>1. UNCHANGED <<pending, rdEps, eps, dir>> /\ pc = "load" /\ pc' = "annotate"
        /\ ~Compiles(dir)
    BY <1>8 DEF CompilationFails
  <2> QED
    BY <2>1 DEF PresentInv
<1>9. CASE Use
  <2>1. /\ UNCHANGED <<pending, rdEps, eps>> /\ pc = "use" /\ pc' = "cleanup"
        /\ active' = name
    BY <1>9 DEF Use, Abort
  <2>2. name # Boot
    BY <2>1, <1>0 DEF IInv, PassInv, Boot
  <2> QED
    BY <2>1, <2>2 DEF PresentInv
<1>10. CASE ListVCLs \/ Discard \/ DiscardFails \/ CleanedUp
  <2>1. UNCHANGED <<pending, rdEps, eps, active>> /\ pc \in {"cleanup", "discard"}
        /\ pc' \in {"discard", "annotate"}
    BY <1>10 DEF ListVCLs, Discard, DiscardFails, CleanedUp, Abort
  <2> QED
    BY <2>1 DEF PresentInv
<1>11. CASE Annotate
  <2>1. /\ UNCHANGED <<pending, eps, active, dir, versions>>
        /\ pc = "annotate" /\ pc' = "idle"
        /\ ann'.configMapVersion = annotatedVersion
    BY <1>11 DEF Annotate, Abort, PassEnds
  <2>2. active # Boot \/ ~Compiles(dir)
    BY <2>1 DEF PresentInv
  <2>3. ASSUME ann'.configMapVersion = Len(versions')
        PROVE  SameVCL(dir, Render(Latest, eps))
    <3>1. rd \in Nat /\ rd <= seen /\ ann.configMapVersion <= rd
      BY <2>1, <1>0 DEF IInv, PassInv, OrderInv
    <3>2. rd = Len(versions)
      BY <1>0, <2>1, <2>3, <3>1 DEF annotatedVersion
    <3>3. newFiles = Render(Latest, eps)
      BY <2>1, <3>2 DEF newFiles, Latest, PresentInv
    <3>4. \A f \in VclFiles : dir[f] = newFiles[f]
      BY <2>1 DEF IInv, PassInv, HasWritten
    <3> QED
      BY <3>3, <3>4 DEF SameVCL
  <2>4. Latest' = Latest
    BY <2>1 DEF Latest
  <2> QED
    BY <2>1, <2>2, <2>3, <2>4
<1> QED
  BY <1>1, <1>2, <1>3, <1>4, <1>5, <1>6, <1>7, <1>8, <1>9, <1>10, <1>11
  DEF Next, Step, Failure, Environment, EndpointsChange, VarnishClusterEvent, VarnishStarts,
      CallFails, WriteTorn, LoadTimesOut, UseTimesOut, AnnotateTimesOut, Restart,
      LoadRefused, Abort

\* A part of a finite set is finite and not larger.
LEMMA NoMore ==
    ASSUME NEW A, NEW B, IsFiniteSet(A), B \subseteq A
    PROVE  /\ IsFiniteSet(B)
           /\ Cardinality(A) \in Nat /\ Cardinality(B) \in Nat
           /\ Cardinality(B) <= Cardinality(A)
BY FS_Subset, FS_CardinalityType

\* With one element more it is larger by one at most.
LEMMA OneMore ==
    ASSUME NEW A, NEW x, NEW B, IsFiniteSet(A), B \subseteq A \cup {x}
    PROVE  /\ IsFiniteSet(B)
           /\ Cardinality(A) \in Nat /\ Cardinality(B) \in Nat
           /\ Cardinality(B) <= Cardinality(A) + 1
<1>1. IsFiniteSet(A \cup {x}) /\ Cardinality(A) \in Nat
  BY FS_AddElement, FS_CardinalityType
<1>2. Cardinality(A \cup {x}) <= Cardinality(A) + 1
  BY <1>1, FS_AddElement
<1>3. /\ IsFiniteSet(B) /\ Cardinality(B) \in Nat
      /\ Cardinality(A \cup {x}) \in Nat /\ Cardinality(B) <= Cardinality(A \cup {x})
  BY <1>1, NoMore
<1> QED
  BY <1>1, <1>2, <1>3

\* At the start varnishd holds the VCL it booted with only.
LEMMA LeftoversInit == Init => LeftoversInv
<1> SUFFICES ASSUME Init PROVE LeftoversInv
  OBVIOUS
<1>1. VclNames = {Boot} /\ Leftovers = {}
  BY DEF Init, VclNames, Leftovers
<1>2. IsFiniteSet(VclNames) /\ Cardinality(Leftovers) = 0
  BY <1>1, FS_Singleton, FS_EmptySet
<1> QED
  BY <1>2 DEF Init, LeftoversInv

\* A reload leaves the VCL it replaces, and the cleanup takes it away again, unless one
\* of the two fails.
LEMMA LeftoversStep == IInv /\ VarnishInv /\ LeftoversInv /\ [Next]_vars => LeftoversInv'
<1> SUFFICES ASSUME IInv, VarnishInv, LeftoversInv, [Next]_vars PROVE LeftoversInv'
  OBVIOUS
<1> USE DEF varnishVars, Fault
<1> DEFINE L == Leftovers
           bound == Cardinality(Leftovers) <=
                        faults + (IF pc \in {"use", "cleanup", "discard"} THEN 1 ELSE 0)
<1>0. /\ faults \in Nat /\ faults' \in Nat
      /\ IsFiniteSet(VclNames) /\ IsFiniteSet(L) /\ Cardinality(L) \in Nat
  BY TypeStep, NoMore DEF IInv, TypeOK, LeftoversInv, Leftovers
<1>1. bound
  BY DEF LeftoversInv
<1>2. CASE Load \/ LoadTimesOut
  <2>1. /\ pc = "load" /\ active' = active
        /\ loaded' = loaded \cup {[name |-> newName, body |-> dir]}
    BY <1>2 DEF Load, LoadTimesOut
  <2>2. VclNames' = VclNames \cup {newName}
    <3> DEFINE new == [name |-> newName, body |-> dir]
    <3>1. loaded' = loaded \cup {new} /\ new.name = newName
      BY <2>1
    <3> HIDE DEF new
    <3> QED
      BY <3>1 DEF VclNames
  <2>3. Leftovers' \subseteq L \cup {newName}
    BY <2>1, <2>2 DEF Leftovers
  <2>4. IsFiniteSet(VclNames') /\ IsFiniteSet(Leftovers')
    BY <1>0, <2>2, <2>3, OneMore
  <2>5. Cardinality(Leftovers') \in Nat /\ Cardinality(Leftovers') <= Cardinality(L) + 1
    BY <1>0, <2>3, OneMore
  <2>6. Cardinality(L) <= faults
    BY <1>0, <1>1, <2>1
  <2>7. CASE Load
    <3>1. pc' = "use" /\ name' = newName /\ faults' = faults
      BY <2>7 DEF Load, boundVars
    <3>2. Leftovers' \ {name'} \subseteq L
      BY <2>3, <3>1
    <3>3. Cardinality(Leftovers' \ {name'}) <= Cardinality(L)
      BY <1>0, <3>2, NoMore
    <3>4. Cardinality(Leftovers' \ {name'}) \in Nat
      BY <1>0, <3>2, NoMore
    <3>5. Cardinality(Leftovers' \ {name'}) <= faults'
      BY <1>0, <2>6, <3>1, <3>3, <3>4
    <3>6. Cardinality(Leftovers') <= faults' + 1
      BY <1>0, <2>5, <2>6, <3>1
    <3> QED
      BY <2>4, <3>1, <3>5, <3>6 DEF LeftoversInv
  <2>8. CASE LoadTimesOut
    <3>1. pc' = "idle" /\ faults' = faults + 1
      BY <2>8 DEF LoadTimesOut, Abort, PassEnds
    <3>2. Cardinality(Leftovers') <= faults' + 0
      BY <1>0, <2>5, <2>6, <3>1
    <3> QED
      BY <2>4, <3>1, <3>2 DEF LeftoversInv
  <2> QED
    BY <1>2, <2>7, <2>8
<1>3. CASE UseTimesOut \/ (Use /\ pc' = "cleanup")
  <2>1. pc = "use" /\ active' = name /\ loaded' = loaded
    BY <1>3 DEF UseTimesOut, Use, Abort, PassEnds
  <2>2. VclNames' = VclNames
    BY <2>1 DEF VclNames
  <2>3. Leftovers' \subseteq (L \ {name}) \cup {active}
    BY <2>1, <2>2 DEF Leftovers
  <2>4. IsFiniteSet(L \ {name}) /\ Cardinality(L \ {name}) <= faults
    BY <1>0, <2>1, NoMore DEF LeftoversInv
  <2>5. /\ Cardinality(L \ {name}) \in Nat
        /\ Cardinality(Leftovers') \in Nat
        /\ Cardinality(Leftovers') <= Cardinality(L \ {name}) + 1
    BY <2>3, <2>4, OneMore
  <2>6. Cardinality(Leftovers') <= faults + 1
    BY <1>0, <2>4, <2>5
  <2>7. \/ pc' = "cleanup" /\ faults' = faults
        \/ pc' = "idle" /\ faults' = faults + 1
    BY <1>3 DEF UseTimesOut, Use, Abort, PassEnds, boundVars
  <2> QED
    BY <1>0, <2>2, <2>5, <2>6, <2>7 DEF LeftoversInv
<1>4. CASE Discard
  <2>1. PICK n \in discards :
            /\ loaded' = {c \in loaded : c.name # n \/ n = active}
            /\ discards' = discards \ {n}
    BY <1>4 DEF Discard
  <2>2. /\ pc = "discard" /\ pc' = "discard" /\ faults' = faults /\ active' = active
    BY <1>4 DEF Discard, boundVars
  <2>3. VclNames' \subseteq VclNames /\ Leftovers' \subseteq L
    BY <2>1, <2>2 DEF VclNames, Leftovers
  <2>4. Leftovers' \ discards' \subseteq L \ discards
    BY <2>1, <2>2, <2>3 DEF VclNames, Leftovers
  <2>5. /\ IsFiniteSet(VclNames')
        /\ Cardinality(Leftovers') \in Nat /\ Cardinality(Leftovers') <= Cardinality(L)
    BY <1>0, <2>3, NoMore
  <2>6. IsFiniteSet(L \ discards) /\ Cardinality(L \ discards) <= faults
    BY <1>0, <2>2, NoMore DEF LeftoversInv
  <2>7. /\ Cardinality(L \ discards) \in Nat /\ Cardinality(Leftovers' \ discards') \in Nat
        /\ Cardinality(Leftovers' \ discards') <= Cardinality(L \ discards)
    BY <2>4, <2>6, NoMore
  <2>8. Cardinality(Leftovers' \ discards') <= faults'
    BY <1>0, <2>2, <2>6, <2>7
  <2>9. Cardinality(Leftovers') <= faults' + 1
    BY <1>0, <1>1, <2>2, <2>5
  <2> QED
    BY <2>2, <2>5, <2>8, <2>9 DEF LeftoversInv
<1>5. CASE VarnishStops \/ VarnishStarts
  <2>1. VclNames' \subseteq {Boot} /\ Leftovers' = {}
    BY <1>5 DEF VarnishStops, VarnishStarts, VclNames, Leftovers
  <2>2. IsFiniteSet(VclNames') /\ Cardinality(Leftovers') = 0
    BY <2>1, FS_Singleton, FS_EmptySet, NoMore
  <2>3. /\ Cardinality(Leftovers' \ {name'}) = 0
        /\ Cardinality(Leftovers' \ discards') = 0
    <3>1. Leftovers' \ {name'} = {} /\ Leftovers' \ discards' = {}
      BY <2>1
    <3> QED
      BY <3>1, FS_EmptySet
  <2>4. /\ Cardinality(Leftovers') <= faults'
        /\ Cardinality(Leftovers') <= faults' + 1
        /\ Cardinality(Leftovers' \ {name'}) <= faults'
        /\ Cardinality(Leftovers' \ discards') <= faults'
    <3>1. \A n \in Nat : 0 <= n /\ 0 <= n + 1
      OBVIOUS
    <3>2. 0 <= faults' /\ 0 <= faults' + 1
      BY <1>0, <3>1
    <3> QED
      BY <2>2, <2>3, <3>2
  <2>5. Cardinality(Leftovers') <=
            faults' + (IF pc' \in {"use", "cleanup", "discard"} THEN 1 ELSE 0)
    <3>1. \A n \in Nat : n + 0 = n
      OBVIOUS
    <3> QED
      BY <1>0, <2>4, <3>1
  <2> QED
    BY <2>2, <2>4, <2>5 DEF LeftoversInv
<1>6. CASE UNCHANGED varnishVars
  <2>1. VclNames' = VclNames /\ Leftovers' = L
    BY <1>6 DEF VclNames, Leftovers
  <2>2. CASE UNCHANGED <<pc, name, discards, faults>>
    BY <1>0, <2>1, <2>2 DEF LeftoversInv
  <2>3. CASE ListVCLs
    <3>1. CASE Up
      <4>1. pc = "cleanup" /\ pc' = "discard" /\ faults' = faults /\ Leftovers' \ discards' = {}
        BY <2>1, <2>3, <3>1 DEF ListVCLs, discardable, Leftovers, boundVars
      <4>2. Cardinality(Leftovers' \ discards') = 0
        BY <4>1, FS_EmptySet
      <4>3. Cardinality(L) <= faults + 1
        BY <1>1, <4>1
      <4> QED
        BY <1>0, <2>1, <4>1, <4>2, <4>3 DEF LeftoversInv
    <3>2. CASE ~Up
      <4>1. pc' = "idle" /\ L = {}
        BY <2>3, <3>2 DEF ListVCLs, Abort, PassEnds, Up, Leftovers, VclNames
      <4>2. Cardinality(L) = 0
        BY <4>1, FS_EmptySet
      <4> QED
        BY <1>0, <2>1, <4>1, <4>2 DEF LeftoversInv
    <3> QED
      BY <3>1, <3>2
  <2>4. CASE CleanedUp
    <3>1. pc = "discard" /\ pc' = "annotate" /\ discards = {} /\ faults' = faults
      BY <2>4 DEF CleanedUp, boundVars
    <3>2. L \ discards = L
      BY <3>1
    <3>3. Cardinality(L) <= faults
      BY <3>1, <3>2 DEF LeftoversInv
    <3> QED
      BY <1>0, <2>1, <3>1, <3>3 DEF LeftoversInv
  <2>5. CASE DiscardFails
    <3>1. PICK n \in discards : discards' = discards \ {n}
      BY <2>5 DEF DiscardFails
    <3>2. pc = "discard" /\ pc' = "discard" /\ faults' = faults + 1
      BY <2>5 DEF DiscardFails
    <3>3. Leftovers' \ discards' \subseteq (L \ discards) \cup {n}
      BY <2>1, <3>1
    <3>4. IsFiniteSet(L \ discards) /\ Cardinality(L \ discards) <= faults
      BY <1>0, <3>2, NoMore DEF LeftoversInv
    <3>5. /\ Cardinality(L \ discards) \in Nat /\ Cardinality(Leftovers' \ discards') \in Nat
          /\ Cardinality(Leftovers' \ discards') <= Cardinality(L \ discards) + 1
      BY <3>3, <3>4, OneMore
    <3>6. Cardinality(Leftovers' \ discards') <= faults'
      BY <1>0, <3>2, <3>4, <3>5
    <3>7. Cardinality(L) <= faults + 1
      BY <1>1, <3>2
    <3> QED
      BY <1>0, <2>1, <3>2, <3>6, <3>7 DEF LeftoversInv
  <2>6. CASE Use
    <3>1. CASE name \notin VclNames
      <4>1. pc = "use" /\ pc' = "idle" /\ faults' = faults /\ L \ {name} = L
        BY <2>6, <3>1 DEF Use, Abort, PassEnds, boundVars, Leftovers
      <4>2. Cardinality(L) <= faults
        BY <4>1 DEF LeftoversInv
      <4> QED
        BY <1>0, <2>1, <4>1, <4>2 DEF LeftoversInv
    <3>2. CASE name \in VclNames
      <4>1. pc = "use" /\ pc' = "cleanup" /\ faults' = faults
        BY <2>6, <3>2 DEF Use, boundVars
      <4> QED
        BY <1>0, <1>1, <2>1, <4>1 DEF LeftoversInv
    <3> QED
      BY <3>1, <3>2
  <2>7. CASE CallFails \/ WriteTorn \/ AnnotateTimesOut \/ Restart
    <3>1. faults' = faults + 1 /\ pc' = "idle"
      BY <2>7 DEF CallFails, WriteTorn, AnnotateTimesOut, Restart, Abort, PassEnds
    <3> QED
      BY <1>0, <1>1, <2>1, <3>1 DEF LeftoversInv
  <2>8. CASE \/ Start \/ ReadConfigMap \/ RenderFiles \/ WriteFile \/ GetActive
             \/ CompilationFails \/ LoadRefused \/ Annotate
    <3>1. /\ pc \notin {"use", "cleanup", "discard"}
          /\ pc' \notin {"use", "cleanup", "discard"} /\ faults' = faults
      BY <2>8 DEF Start, ReadConfigMap, RenderFiles, WriteFile, GetActive,
         CompilationFails, LoadRefused, Annotate, Abort, PassEnds, boundVars
    <3> QED
      BY <1>0, <1>1, <2>1, <3>1 DEF LeftoversInv
  <2>9. CASE \/ PublishConfigMap \/ CacheSync \/ EndpointsChange \/ VarnishClusterEvent
             \/ Tick \/ UNCHANGED vars
    BY <2>2, <2>9 DEF PublishConfigMap, CacheSync, EndpointsChange, VarnishClusterEvent,
       Tick, passVars, boundVars, vars
  <2> QED
    BY <1>2, <1>3, <1>4, <1>5, <2>3, <2>4, <2>5, <2>6, <2>7, <2>8, <2>9
    DEF Next, Step, Failure, Environment
<1> QED
  BY <1>2, <1>3, <1>4, <1>5, <1>6, VarnishdFrame

----------------------------------------------------------------------------
(* Theorems *)

\* The invariant the theorems follow from.
LEMMA Inductive == Spec => []IInv
<1>1. Init => IInv
  BY TypeInit, PassInit, OrderInit DEF IInv
<1>2. IInv /\ [Next]_vars => IInv'
  BY TypeStep, PassStep, OrderStep, NameStep DEF IInv
<1> QED
  BY <1>1, <1>2, PTL DEF Spec

\* Every variable keeps its type; in particular the active VCL is one varnishd
\* holds, also while the cleanup of reconcileVarnish discards VCLs.
THEOREM TypeCorrect == Spec => []TypeOK
<1>1. IInv => TypeOK
  BY DEF IInv
<1> QED
  BY <1>1, Inductive, PTL

\* The ConfigMap version in a VCL's name (createVCLConfigName) is the version whose
\* files it was compiled from.
THEOREM NamesAreTrue == Spec => []NameTellsTheTruth
<1>1. IInv => NameTellsTheTruth
  BY DEF IInv
<1> QED
  BY <1>1, Inductive, PTL

\* reconcilePod changes the annotation configMapVersion only to a version whose
\* files reconcileFiles has completely written.
THEOREM ReportsAreOnVolume == Spec => ReportedIsOnVolume
<1> DEFINE A == ann'.configMapVersion # ann.configMapVersion
                    => MadeOf(dir, ann'.configMapVersion)
<1>1. IInv /\ [Next]_vars => [A]_vars
  <2> SUFFICES ASSUME IInv, [Next]_vars, ann'.configMapVersion # ann.configMapVersion
               PROVE  MadeOf(dir, ann'.configMapVersion)
    OBVIOUS
  <2>1. pc = "annotate" /\ ann'.configMapVersion = rd
    BY ReportedStep
  <2>2. rdEps \in Endpoints /\ \A f \in VclFiles : dir[f] = newFiles[f]
    BY <2>1 DEF IInv, PassInv, HasWritten, HasRendered, HasRead
  <2> QED
    BY <2>1, <2>2 DEF MadeOf, SameVCL, newFiles
<1> QED
  BY <1>1, Inductive, PTL DEF Spec, ReportedIsOnVolume

\* The pod serves and reports versions of the ConfigMap in the order they were
\* published: VarnishController implements VCLDelivery.
THEOREM ServesInOrder == Spec => InOrder
<1>1. Init => Delivery!Init
  BY EmptySeq DEF Init, Delivery!Init, Boot
<1>2. IInv /\ [Next]_vars => [Delivery!Next]_(Delivery!dvars)
  <2> SUFFICES ASSUME IInv, [Next]_vars
               PROVE  Delivery!Next \/ UNCHANGED Delivery!dvars
    OBVIOUS
  <2>0. /\ Len(versions) \in Nat /\ seen \in Nat /\ seen <= Len(versions)
        /\ TypeOK
    BY DEF IInv, TypeOK
  <2>1. CASE PublishConfigMap
    <3>1. Len(versions') = Len(versions) + 1
      BY <2>0, <2>1, PublishedStays DEF PublishConfigMap, TypeOK
    <3> QED
      BY <2>1, <3>1 DEF PublishConfigMap, varnishVars, Delivery!Next, Delivery!Publish
  <2>2. CASE ann'.configMapVersion # ann.configMapVersion
    <3>1. pc = "annotate" /\ ann'.configMapVersion = rd
      BY <2>2, ReportedStep
    <3>2. rd \in 1 .. Len(versions) /\ ann.configMapVersion <= rd
      BY <2>0, <3>1 DEF IInv, PassInv, OrderInv, HasRead
    <3>3. UNCHANGED <<versions, active>>
      BY <2>2, <3>1 DEF Next, Step, Failure, Environment, vars, clusterVars, varnishVars,
         Start, ReadConfigMap, RenderFiles, WriteFile, GetActive, Load, CompilationFails,
         LoadRefused, Use, ListVCLs, Discard, CleanedUp, Annotate, CallFails, WriteTorn,
         LoadTimesOut, UseTimesOut, DiscardFails, AnnotateTimesOut, Restart, VarnishStops,
         PublishConfigMap, CacheSync, EndpointsChange, VarnishClusterEvent, Tick,
         VarnishStarts
    <3> QED
      BY <3>1, <3>2, <3>3 DEF Delivery!Next, Delivery!Report
  <2>3. CASE active'.rv # active.rv /\ UNCHANGED <<versions, ann>>
    <3>1. CASE active'.rv = 0
      BY <2>3, <3>1 DEF Delivery!Next, Delivery!Forget
    <3>2. CASE pc = "use" /\ active'.rv = rd
      <4>1. rd \in 1 .. Len(versions) /\ ann.configMapVersion <= rd /\ active.rv <= rd
        BY <2>0, <3>2 DEF IInv, PassInv, OrderInv, HasRead
      <4> QED
        BY <2>3, <3>2, <4>1 DEF Delivery!Next, Delivery!Serve
    <3> QED
      BY <2>3, <3>1, <3>2, ServedStep
  <2>4. CASE /\ Len(versions') = Len(versions)
             /\ ann'.configMapVersion = ann.configMapVersion
             /\ active'.rv = active.rv
    BY <2>4 DEF Delivery!dvars
  <2>5. \/ PublishConfigMap
        \/ UNCHANGED versions
    BY DEF Next, Step, Failure, Environment, vars, clusterVars,
       Start, ReadConfigMap, RenderFiles, WriteFile, GetActive, Load, CompilationFails,
       LoadRefused, Use, ListVCLs, Discard, CleanedUp, Annotate, CallFails, WriteTorn,
       LoadTimesOut, UseTimesOut, DiscardFails, AnnotateTimesOut, Restart, VarnishStops,
       CacheSync, EndpointsChange, VarnishClusterEvent, Tick, VarnishStarts
  <2>6. active'.rv # active.rv => UNCHANGED ann
    BY DEF Next, Step, Failure, Environment, vars, clusterVars, varnishVars,
       Start, ReadConfigMap, RenderFiles, WriteFile, GetActive, Load, CompilationFails,
       LoadRefused, Use, ListVCLs, Discard, CleanedUp, Annotate, CallFails, WriteTorn,
       LoadTimesOut, UseTimesOut, DiscardFails, AnnotateTimesOut, Restart, VarnishStops,
       PublishConfigMap, CacheSync, EndpointsChange, VarnishClusterEvent, Tick,
       VarnishStarts
  <2> QED
    BY <2>1, <2>2, <2>3, <2>4, <2>5, <2>6
<1> QED
  BY <1>1, <1>2, Inductive, PTL DEF Spec, InOrder, Delivery!Spec

----------------------------------------------------------------------------
(* What varnishd is left with, serves and is given *)

\* What is true of varnishd, beside what is true of a pass.
ServingInv == IInv /\ VarnishInv /\ OwedInv /\ ServedInv /\ PresentInv /\ LeftoversInv

\* The invariant the theorems about varnishd follow from.
LEMMA ServingInductive == Spec => []ServingInv
<1>1. Init => ServingInv
  BY TypeInit, PassInit, OrderInit, VarnishInit, ServedInit, PresentInit, LeftoversInit
  DEF ServingInv, IInv
<1>2. ServingInv /\ [Next]_vars => ServingInv'
  BY TypeStep, PassStep, OrderStep, NameStep, VarnishStep, OwedStep, ServedStepInv,
     PresentStep, LeftoversStep
  DEF ServingInv, IInv
<1> QED
  BY <1>1, <1>2, PTL DEF Spec

\* The cleanup of reconcileVarnish keeps up: between passes varnishd holds at most one
\* VCL too many for each call that failed, restart or crash.
THEOREM LeftoversAreBounded == Spec => []LeftoversAreFaults
<1>1. ServingInv => LeftoversAreFaults
  <2> SUFFICES ASSUME ServingInv, pc = "idle"
               PROVE  Cardinality(VclNames \ {Boot, active}) <= faults
    BY DEF LeftoversAreFaults
  <2>1. faults \in Nat /\ Cardinality(Leftovers) <= faults + 0
    BY DEF ServingInv, IInv, TypeOK, LeftoversInv
  <2> QED
    BY <2>1 DEF Leftovers
<1> QED
  BY <1>1, ServingInductive, PTL

\* A pod that is settled, reports the newest version (reconcilePod) and owes no reload
\* serves that version with the current backends, if it compiles.
THEOREM SettledPodsServe == Spec => []SettledServesLatest
<1>1. ServingInv => SettledServesLatest
  <2> DEFINE new == Render(Latest, eps)
  <2> SUFFICES ASSUME ServingInv, Settled, versions # <<>>,
                      ann.configMapVersion = Len(versions), ~owed, Compiles(new)
               PROVE  active # Boot /\ SameVCL(BodyOf(active), new)
    BY DEF SettledServesLatest
  <2>1. SameVCL(dir, new)
    BY DEF ServingInv, PresentInv, Settled
  <2> HIDE DEF new
  <2>2. Compiles(dir)
    BY <2>1, FilesAssumption DEF Compiles, SameVCL
  <2>3. active \notin {Boot, NoVCL}
    BY <2>2 DEF ServingInv, PresentInv, VarnishInv, Settled
  <2>4. SameVCL(BodyOf(active), dir)
    BY <2>2, <2>3 DEF ServingInv, ServedInv
  <2> QED
    BY <2>1, <2>3, <2>4 DEF SameVCL
<1> QED
  BY <1>1, ServingInductive, PTL

\* "reload if files changed, or we didn't load the VCL yet": if every file of the
\* ConfigMap ends in .vcl, so that getCurrentFiles finds it again, no reload is for nothing.
THEOREM ReloadsAreOwed == VclFiles = Files => (Spec => ReloadOnlyWhenOwed)
<1> SUFFICES ASSUME VclFiles = Files PROVE Spec => ReloadOnlyWhenOwed
  OBVIOUS
<1> DEFINE A == \A c \in loaded' \ loaded : c.name = Boot \/ owed \/ active = Boot
<1>1. ServingInv /\ [Next]_vars => [A]_vars
  <2> SUFFICES ASSUME ServingInv, [Next]_vars, NEW c \in loaded' \ loaded
               PROVE  c.name = Boot \/ owed \/ active = Boot
    OBVIOUS
  <2>1. CASE Load \/ LoadTimesOut
    <3>1. pc = "load" /\ Up
      BY <2>1 DEF Load, LoadTimesOut
    <3> QED
      BY <3>1 DEF ServingInv, OwedInv, VarnishInv
  <2>2. CASE VarnishStarts
    BY <2>2 DEF VarnishStarts
  <2>3. ~(Discard \/ UseTimesOut \/ VarnishStops \/ Use \/ UNCHANGED varnishVars)
    BY DEF Discard, UseTimesOut, VarnishStops, Use, varnishVars
  <2> QED
    BY <2>1, <2>2, <2>3, VarnishdFrame
<1> QED
  BY <1>1, ServingInductive, PTL DEF Spec, ReloadOnlyWhenOwed
=============================================================================
