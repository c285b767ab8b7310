------------------------- MODULE VarnishController -------------------------
(***************************************************************************)
(* The varnish-controller container of one Varnish pod: it turns the VCL   *)
(* ConfigMap of its VarnishCluster into files on a volume it shares with   *)
(* the varnish container, makes varnishd reload them and reports in the    *)
(* pod's annotations what it did (pkg/varnishcontroller).                  *)
(*                                                                         *)
(* One pass of Reconcile is a sequence of steps, one per call that leaves  *)
(* the process: the cached reads, every file it writes, every varnishadm   *)
(* command and the update of the pod.  ConfigMap updates, backend pods     *)
(* coming and going, events, restarts of either container and failing      *)
(* calls interleave with them.                                             *)
(***************************************************************************)
EXTENDS Integers, Sequences, FiniteSets

CONSTANTS
    Files,       \* file names, without the .tmpl suffix
    VclFiles,    \* the names that end in .vcl
    Templates,   \* the names whose ConfigMap entry is a template
    EntryPoint,  \* spec.vcl.entrypointFileName
    Texts,       \* contents of a ConfigMap entry
    Broken,      \* the texts VCC does not compile
    Unparsable,  \* the texts that are not a Go template
    Bodies,      \* the Data the ConfigMap may hold: Files -> Texts or NoFile
    Endpoints,   \* the backends a template may be rendered with
    NoFile,      \* no such entry, no such file
    Torn,        \* a file whose write was cut short
    NoEndpoints, \* a file that does not depend on the backends
    MaxVersion,  \* bound: versions of the ConfigMap
    MaxMoves,    \* bound: changes of the backends
    MaxFaults,   \* bound: failing calls, crashes and varnishd restarts
    MaxNow       \* bound: seconds on the clock

ASSUME FilesAssumption ==
    /\ VclFiles \subseteq Files
    /\ Templates \subseteq Files
    /\ EntryPoint \in VclFiles
    /\ Bodies \subseteq [Files -> Texts \cup {NoFile}]

ASSUME BoundsAssumption ==
    MaxVersion \in Nat /\ MaxMoves \in Nat /\ MaxFaults \in Nat /\ MaxNow \in Nat

VARIABLES
    \* the cluster, as the API server has it
    versions,    \* the Data of every version of the ConfigMap so far
    eps,         \* the backends
    ann,         \* the pod's annotations configMapVersion, activeVCLConfigName
    \* the volume /etc/varnish, which outlives the containers
    dir,
    \* varnishd
    loaded,      \* its VCLs
    active,      \* the name of the active one
    \* the controller
    seen,        \* the version of the ConfigMap its cache holds, 0: none
    pending,     \* a request is queued
    pc,          \* where the pass is
    rd,          \* the version the pass read
    rdEps,       \* the backends the pass read
    todo,        \* the files the pass still has to write or remove
    touched,     \* filesTouched
    name,        \* the VCL name given to Reload
    discards,    \* the VCLs the cleanup still has to discard
    metric,      \* the gauge varnish_vcl_compilation_error
    \* the clock, in seconds
    now,
    \* history: the volume changed since varnishd last used or refused it
    owed,
    \* bounds: changes of the backends, faults
    moves, faults

clusterVars == <<versions, eps, ann>>
varnishVars == <<loaded, active>>
passVars == <<pc, rd, rdEps, todo, touched, name, discards>>
boundVars == <<now, moves, faults>>
vars == <<clusterVars, dir, varnishVars, seen, pending, passVars, metric,
          owed, boundVars>>

----------------------------------------------------------------------------
(* Data *)

\* A VCL name is "v-<resourceVersion>-<unix seconds>"; varnishd names the VCL
\* it starts with "boot", from which no ConfigMap version can be extracted.
Names == [rv : Nat, sec : Nat]
Boot == [rv |-> 0, sec |-> 0]
NoVCL == [rv |-> 0, sec |-> -1]

FileStates == [text : Texts, eps : Endpoints \cup {NoEndpoints}] \cup {NoFile, Torn}
Dirs == [Files -> FileStates]
EmptyDir == [f \in Files |-> NoFile]

createVCLConfigName(rv) == [rv |-> rv, sec |-> now]
extractConfigMapVersion(n) == n.rv

\* The files a version of the ConfigMap stands for, its templates resolved.
Render(data, e) ==
    [f \in Files |->
        IF data[f] = NoFile THEN NoFile
        ELSE [text |-> data[f], eps |-> IF f \in Templates THEN e ELSE NoEndpoints]]

EntrypointExists(data) == data[EntryPoint] # NoFile
TemplatesParse(data) == \A f \in Templates : data[f] \notin Unparsable

\* What VCC says of the files on the volume.
Compiles(d) ==
    /\ d[EntryPoint] # NoFile
    /\ \A f \in VclFiles :
        d[f] # NoFile => d[f] # Torn /\ d[f].text \notin Broken

\* Two directories hold the same VCL.
SameVCL(d, e) == \A f \in VclFiles : d[f] = e[f]

\* getCurrentFiles reads only the files with the extension .vcl
currFile(f) == IF f \in VclFiles THEN dir[f] ELSE NoFile

diffFilesIgnoresRemoved(new) ==
    {f \in Files : new[f] # NoFile /\ new[f] # currFile(f)}

\* reconcileFiles: the files to remove, to rewrite and to write anew.
diffFiles(new) == {f \in Files : new[f] # currFile(f)}

newFiles == Render(versions[rd], rdEps)

VclNames == {c.name : c \in loaded}
BodyOf(n) == (CHOOSE c \in loaded : c.name = n).body
Up == loaded # {}

\* Variant of discardable: old VCLs are told by their version, not their status.
discardableOlder == {n \in VclNames \ {Boot} : n.rv < active.rv}

\* The VCLs Discard may be called for: available, and named by the controller.
discardable == VclNames \ {active, Boot}

----------------------------------------------------------------------------
(* The cluster around the pod *)

Init ==
    /\ versions = <<>>
    /\ eps \in Endpoints
    /\ ann = [configMapVersion |-> 0, active |-> NoVCL]
    /\ dir = EmptyDir
    /\ loaded = {[name |-> Boot, body |-> EmptyDir]}
    /\ active = Boot
    /\ seen = 0
    /\ pending = TRUE
    /\ pc = "idle"
    /\ rd = 0
    /\ rdEps = NoEndpoints
    /\ todo = {}
    /\ touched = FALSE
    /\ name = NoVCL
    /\ discards = {}
    /\ metric = 0
    /\ now = 0
    /\ owed = FALSE
    /\ moves = 0
    /\ faults = 0

\* The user edits the ConfigMap: its data, or only its labels or annotations.
PublishConfigMap ==
    /\ Len(versions) < MaxVersion
    /\ \E b \in Bodies : versions' = Append(versions, b)
    /\ UNCHANGED <<eps, ann, dir, varnishVars, seen, pending, passVars, metric,
                   owed, boundVars>>

\* The ConfigMap informer catches up.  No event handler watches ConfigMaps, so
\* that queues no request.
CacheSync ==
    /\ \E v \in seen + 1 .. Len(versions) : seen' = v
    /\ UNCHANGED <<clusterVars, dir, varnishVars, pending, passVars, metric,
                   owed, boundVars>>

\* A backend pod appears, goes or changes readiness; the pod watch queues a request.
EndpointsChange ==
    /\ moves < MaxMoves
    /\ \E e \in Endpoints \ {eps} : eps' = e
    /\ moves' = moves + 1
    /\ pending' = TRUE
    /\ UNCHANGED <<versions, ann, dir, varnishVars, seen, passVars, metric,
                   owed, now, faults>>

\* Any update of the VarnishCluster, its periodic resync included.
VarnishClusterEvent ==
    /\ ~pending
    /\ pending' = TRUE
    /\ UNCHANGED <<clusterVars, dir, varnishVars, seen, passVars, metric,
                   owed, boundVars>>

\* The clock matters only once the current second has been used in a name.
Tick ==
    /\ now < MaxNow
    /\ \E n \in VclNames \ {Boot} : n.sec = now
    /\ now' = now + 1
    /\ UNCHANGED <<clusterVars, dir, varnishVars, seen, pending, passVars, metric,
                   owed, moves, faults>>

Fault ==
    /\ faults < MaxFaults
    /\ faults' = faults + 1

\* The varnish container ends: every VCL is gone ...
VarnishStops ==
    /\ Up
    /\ Fault
    /\ loaded' = {}
    /\ active' = NoVCL
    /\ UNCHANGED <<clusterVars, dir, seen, pending, passVars, metric,
                   owed, now, moves>>

\* ... and kubelet starts it again; the pod's readiness changes, which queues
\* a request.
VarnishStarts ==
    /\ ~Up
    /\ loaded' = {[name |-> Boot, body |-> EmptyDir]}
    /\ active' = Boot
    /\ pending' = TRUE
    /\ UNCHANGED <<clusterVars, dir, seen, passVars, metric, owed, boundVars>>

----------------------------------------------------------------------------
(* One pass of the controller *)

PassEnds ==
    /\ pc' = "idle"
    /\ rd' = 0
    /\ rdEps' = NoEndpoints
    /\ todo' = {}
    /\ touched' = FALSE
    /\ name' = NoVCL
    /\ discards' = {}

\* Reconcile returns an error, or a conflict it answers with Requeue.
Abort == PassEnds /\ pending' = TRUE

Start ==
    /\ pc = "idle"
    /\ pending
    /\ pending' = FALSE
    /\ pc' = "read"
    /\ UNCHANGED <<clusterVars, dir, varnishVars, seen, rd, rdEps, todo, touched, name,
                   discards, metric, owed, boundVars>>

\* The ConfigMap, from the cache; it must exist and have the entrypoint.
ReadConfigMap ==
    /\ pc = "read"
    /\ IF seen > 0 /\ EntrypointExists(versions[seen])
       THEN /\ rd' = seen
            /\ pc' = "render"
            /\ UNCHANGED <<pending, rdEps, todo, touched, name, discards>>
       ELSE Abort
    /\ UNCHANGED <<clusterVars, dir, varnishVars, seen, metric, owed, boundVars>>

\* The backends, the templates, and what differs on the volume.
RenderFiles ==
    /\ pc = "render"
    /\ IF TemplatesParse(versions[rd])
       THEN LET new == Render(versions[rd], eps) IN
            /\ rdEps' = eps
            /\ todo' = diffFiles(new)
            /\ touched' = (diffFiles(new) # {})
            /\ pc' = "write"
            /\ UNCHANGED <<pending, rd, name, discards>>
       ELSE Abort
    /\ UNCHANGED <<clusterVars, dir, varnishVars, seen, metric, owed, boundVars>>

\* One file is removed, rewritten or written anew, in the order of a Go map.
WriteFile ==
    /\ pc = "write"
    /\ \E f \in todo :
        /\ dir' = [dir EXCEPT ![f] = newFiles[f]]
        /\ todo' = todo \ {f}
    /\ owed' = (owed \/ dir' # dir)
    /\ UNCHANGED <<clusterVars, varnishVars, seen, pending, pc, rd, rdEps, touched, name,
                   discards, metric, boundVars>>

\* reload if files changed, or no VCL of ours was loaded yet
needsReloadTouched == touched
needsReloadAlways == TRUE
needsReload == touched \/ active = Boot

\* Variant of GetActive: a file that could not be written is skipped.
GetActiveUnwritten ==
    /\ pc = "write"
    /\ IF Up
       THEN /\ pc' = IF needsReload THEN "load" ELSE "annotate"
            /\ todo' = {}
            /\ UNCHANGED <<pending, rd, rdEps, touched, name, discards>>
       ELSE Abort
    /\ UNCHANGED <<clusterVars, dir, varnishVars, seen, metric, owed, boundVars>>

\* Every file is in place: GetActiveConfigurationName and the reload decision.
GetActive ==
    /\ pc = "write"
    /\ todo = {}
    /\ IF Up
       THEN /\ pc' = IF needsReload THEN "load" ELSE "annotate"
            /\ UNCHANGED <<pending, rd, rdEps, todo, touched, name, discards>>
       ELSE Abort
    /\ UNCHANGED <<clusterVars, dir, varnishVars, seen, metric, owed, boundVars>>

\* The version a VCL is named after.
nameVersionCached == seen
nameVersion == rd

newName == createVCLConfigName(nameVersion)

\* vcl.load compiles the files on the volume under a name that is not taken.
Load ==
    /\ pc = "load"
    /\ Up
    /\ newName \notin VclNames
    /\ Compiles(dir)
    /\ loaded' = loaded \cup {[name |-> newName, body |-> dir]}
    /\ name' = newName
    /\ pc' = "use"
    /\ UNCHANGED <<clusterVars, dir, active, seen, pending, rd, rdEps, todo, touched,
                   discards, metric, owed, boundVars>>

\* Variant of failedMetric: a counter.
failedMetricCounts == metric + 1

\* The gauge after a failed compilation.
failedMetric == 1

\* "VCL compilation failed": the metric is set and the pass goes on.
CompilationFails ==
    /\ pc = "load"
    /\ Up
    /\ newName \notin VclNames
    /\ ~Compiles(dir)
    /\ metric' = failedMetric
    /\ owed' = FALSE
    /\ pc' = "annotate"
    /\ UNCHANGED <<clusterVars, dir, varnishVars, seen, pending, rd, rdEps, todo, touched,
                   name, discards, boundVars>>

\* varnishd is down, or already has a VCL of that name: two reloads of one
\* version fell within one second.
LoadRefused ==
    /\ pc = "load"
    /\ ~Up \/ newName \in VclNames
    /\ Abort
    /\ UNCHANGED <<clusterVars, dir, varnishVars, seen, metric, owed, boundVars>>

\* vcl.use; varnishd may have been restarted since vcl.load.
Use ==
    /\ pc = "use"
    /\ IF name \in VclNames
       THEN /\ active' = name
            /\ metric' = 0
            /\ owed' = FALSE
            /\ pc' = "cleanup"
            /\ UNCHANGED <<pending, rd, rdEps, todo, touched, name, discards>>
       ELSE Abort /\ UNCHANGED <<active, metric, owed>>
    /\ UNCHANGED <<clusterVars, dir, loaded, seen, boundVars>>

\* vcl.list, to find what the reload left behind.
ListVCLs ==
    /\ pc = "cleanup"
    /\ IF Up
       THEN /\ discards' = discardable
            /\ pc' = "discard"
            /\ UNCHANGED <<pending, rd, rdEps, todo, touched, name>>
       ELSE Abort
    /\ UNCHANGED <<clusterVars, dir, varnishVars, seen, metric, owed, boundVars>>

\* vcl.discard of one VCL; varnishd refuses to discard the active one, and an
\* error is only logged.
Discard ==
    /\ pc = "discard"
    /\ \E n \in discards :
        /\ loaded' = {c \in loaded : c.name # n \/ n = active}
        /\ discards' = discards \ {n}
    /\ UNCHANGED <<clusterVars, dir, active, seen, pending, pc, rd, rdEps, todo, touched,
                   name, metric, owed, boundVars>>

CleanedUp ==
    /\ pc = "discard"
    /\ discards = {}
    /\ pc' = "annotate"
    /\ UNCHANGED <<clusterVars, dir, varnishVars, seen, pending, rd, rdEps, todo, touched,
                   name, discards, metric, owed, boundVars>>

latestConfigMapInUse == rd = extractConfigMapVersion(active)

\* Variants of annotatedVersion.
annotatedVersionInUse == IF latestConfigMapInUse THEN rd ELSE ann.configMapVersion
annotatedVersionOfActive == extractConfigMapVersion(active)

\* reconcilePod: the version is reported only if the latest ConfigMap is in use
\* or if the ConfigMap changed but the files did not.
annotatedVersion ==
    IF latestConfigMapInUse \/ ~touched THEN rd ELSE ann.configMapVersion

Annotate ==
    /\ pc = "annotate"
    /\ IF Up
       THEN /\ ann' = [configMapVersion |-> annotatedVersion, active |-> active]
            /\ PassEnds
            /\ UNCHANGED pending
       ELSE Abort /\ UNCHANGED ann
    /\ UNCHANGED <<versions, eps, dir, varnishVars, seen, metric, owed, boundVars>>

----------------------------------------------------------------------------
(* What fails inside a pass *)

\* A call to the API server or to varnishadm fails, or a file cannot be written.
CallFails ==
    /\ pc \in {"read", "render", "write", "load", "use", "cleanup", "annotate"}
    /\ Fault
    /\ Abort
    /\ UNCHANGED <<clusterVars, dir, varnishVars, seen, metric, owed, now, moves>>

\* os.WriteFile truncates and then writes: an error in between leaves a torn file.
WriteTorn ==
    /\ pc = "write"
    /\ Fault
    /\ \E f \in todo :
        /\ newFiles[f] # NoFile
        /\ dir' = [dir EXCEPT ![f] = Torn]
    /\ owed' = TRUE
    /\ Abort
    /\ UNCHANGED <<clusterVars, varnishVars, seen, metric, now, moves>>

\* varnishadm gives up on vcl.load, varnishd completes it.
LoadTimesOut ==
    /\ pc = "load"
    /\ Up
    /\ newName \notin VclNames
    /\ Compiles(dir)
    /\ Fault
    /\ loaded' = loaded \cup {[name |-> newName, body |-> dir]}
    /\ Abort
    /\ UNCHANGED <<clusterVars, dir, active, seen, metric, owed, now, moves>>

\* varnishadm gives up on vcl.use, varnishd completes it.
UseTimesOut ==
    /\ pc = "use"
    /\ name \in VclNames
    /\ Fault
    /\ active' = name
    /\ owed' = FALSE
    /\ Abort
    /\ UNCHANGED <<clusterVars, dir, loaded, seen, metric, now, moves>>

\* A VCL that cannot be discarded is left for the cleanup of the next reload.
DiscardFails ==
    /\ pc = "discard"
    /\ Fault
    /\ \E n \in discards : discards' = discards \ {n}
    /\ UNCHANGED <<clusterVars, dir, varnishVars, seen, pending, pc, rd, rdEps, todo,
                   touched, name, metric, owed, now, moves>>

\* The pod is updated, the response is lost.
AnnotateTimesOut ==
    /\ pc = "annotate"
    /\ Up
    /\ Fault
    /\ ann' = [configMapVersion |-> annotatedVersion, active |-> active]
    /\ Abort
    /\ UNCHANGED <<versions, eps, dir, varnishVars, seen, metric, owed, now, moves>>

\* The controller's container restarts.  The volume stays; the gauge starts at 0,
\* the cache is filled anew and the initial list queues a request.
Restart ==
    /\ Fault
    /\ PassEnds
    /\ pending' = TRUE
    /\ seen' = Len(versions)
    /\ metric' = 0
    /\ UNCHANGED <<clusterVars, dir, varnishVars, owed, now, moves>>

----------------------------------------------------------------------------

Step ==
    \/ Start \/ ReadConfigMap \/ RenderFiles \/ WriteFile \/ GetActive
    \/ Load \/ CompilationFails \/ LoadRefused \/ Use
    \/ ListVCLs \/ Discard \/ CleanedUp \/ Annotate

Failure ==
    \/ CallFails \/ WriteTorn \/ LoadTimesOut \/ UseTimesOut
    \/ DiscardFails \/ AnnotateTimesOut \/ Restart \/ VarnishStops

Environment ==
    \/ PublishConfigMap \/ CacheSync \/ EndpointsChange \/ VarnishClusterEvent
    \/ Tick \/ VarnishStarts

Next == Step \/ Failure \/ Environment

Spec == Init /\ [][Next]_vars

\* The controller takes its steps; the informer catches up; an event of the
\* VarnishCluster always comes again (the manager resyncs its informers); kubelet
\* restarts containers; time passes.  Nothing is assumed of users and faults.
Fairness ==
    /\ WF_vars(Step)
    /\ WF_vars(CacheSync)
    /\ WF_vars(VarnishClusterEvent)
    /\ WF_vars(VarnishStarts)
    /\ WF_vars(Tick)

FairSpec == Spec /\ Fairness

----------------------------------------------------------------------------
(* Properties *)

\* The values the variables of a pass take.
PassTypeOK ==
    /\ pc \in {"idle", "read", "render", "write", "load", "use", "cleanup",
               "discard", "annotate"}
    /\ rd \in 0 .. Len(versions)
    /\ rdEps \in Endpoints \cup {NoEndpoints}
    /\ todo \subseteq Files
    /\ touched \in BOOLEAN
    /\ name \in Names \cup {NoVCL}
    /\ discards \subseteq Names

\* Type invariant: the values every variable takes.  Of the active VCL it says
\* that varnishd has loaded it.
TypeOK ==
    /\ versions \in Seq(Bodies) /\ Len(versions) <= MaxVersion
    /\ eps \in Endpoints
    /\ ann \in [configMapVersion : 0 .. MaxVersion, active : Names \cup {NoVCL}]
    /\ dir \in Dirs
    /\ loaded \subseteq [name : Names, body : Dirs]
    /\ active \in VclNames \cup {NoVCL}
    /\ seen \in 0 .. Len(versions)
    /\ pending \in BOOLEAN
    /\ PassTypeOK
    /\ metric \in {0, 1}
    /\ now \in Nat
    /\ owed \in BOOLEAN
    /\ moves \in Nat
    /\ faults \in Nat

\* The files of version v, rendered with some backends, are those of d.
MadeOf(d, v) == \E e \in Endpoints : SameVCL(d, Render(versions[v], e))

\* A VCL called v-<version>-<time> was compiled from the files of that version of
\* the ConfigMap, whatever was published, torn, retried or restarted around the
\* reload: the name in the annotation activeVCLConfigName can be trusted.
NameTellsTheTruth ==
    \A c \in loaded : c.name # Boot => MadeOf(c.body, c.name.rv)

Latest == versions[Len(versions)]

\* No pass is under way or queued, and varnishd runs.
Settled == pc = "idle" /\ ~pending /\ Up

\* A settled pod that reports the newest version serves it, with the current
\* backends, if it compiles and no reload was lost on the way.
SettledServesLatest ==
    Settled /\ versions # <<>> /\ ann.configMapVersion = Len(versions) /\ ~owed =>
        LET new == Render(Latest, eps) IN
        Compiles(new) => active # Boot /\ SameVCL(BodyOf(active), new)

\* VCLs do not pile up in varnishd: between passes there is at most one leftover
\* per fault, however many reloads there were.
LeftoversAreFaults ==
    pc = "idle" => Cardinality(VclNames \ {Boot, active}) <= faults

\* A version is reported only while its files, all of them, are on the volume.
ReportedIsOnVolume ==
    [][ann'.configMapVersion # ann.configMapVersion =>
        MadeOf(dir, ann'.configMapVersion)]_vars

\* "reload if files changed, or we didn't load the VCL yet" (controller.go:226):
\* varnishd is given a VCL only if the volume changed since its last answer, or
\* if it runs nothing of ours.
ReloadOnlyWhenOwed ==
    [][\A c \in loaded' \ loaded : c.name = Boot \/ owed \/ active = Boot]_vars

\* The pod serves and reports versions in the order they were published.
Delivery == INSTANCE VCLDelivery WITH
    published <- Len(versions),
    served <- active.rv,
    reported <- ann.configMapVersion
InOrder == Delivery!Spec

\* The newest version is eventually reported, and stays reported, as soon as it
\* has the entrypoint and its templates parse.
EventuallyReported ==
    <>[](versions # <<>> /\ EntrypointExists(Latest) /\ TemplatesParse(Latest)
            => ann.configMapVersion = Len(versions))

\* The newest version, if it compiles, is eventually served with the current
\* backends, unless a reload was lost.
EventuallyServed ==
    <>[](versions # <<>> /\ TemplatesParse(Latest) /\ Compiles(Render(Latest, eps))
            => owed \/ (Up /\ SameVCL(BodyOf(active), Render(Latest, eps))))

----------------------------------------------------------------------------
(* What the properties rest on: the invariants of a pass *)

HasRead == {"render", "write", "load", "use", "cleanup", "discard", "annotate"}
HasRendered == HasRead \ {"render"}
HasWritten == HasRendered \ {"write"}

\* The pass read a version and backends that exist; the files it has dealt with
\* are on the volume, and all of them are once it goes on to varnishd.
PassInv ==
    /\ pc \in HasRead => rd \in 1 .. seen
    /\ pc \in HasRendered =>
        /\ rdEps \in Endpoints
        /\ \A f \in VclFiles \ todo : dir[f] = newFiles[f]
    /\ pc \in HasWritten => todo = {}
    /\ pc = "use" => name \in Names /\ name.rv = rd

\* What was reported and what is served come from versions the cache has held,
\* and the version a pass works on is at least as new.
OrderInv ==
    /\ ann.configMapVersion <= seen
    /\ active.rv <= seen
    /\ pc \in HasRead => ann.configMapVersion <= rd /\ active.rv <= rd
    /\ \A c \in loaded : c.name # Boot => c.name.rv \in 1 .. seen

IInv == TypeOK /\ PassInv /\ OrderInv /\ NameTellsTheTruth

----------------------------------------------------------------------------
(* What the documentation says *)

\* "Modifications to VCL files in the ConfigMap are automatically applied to
\* Varnish pods" (docs/vcl-configuration.md:5).
ModificationsAreApplied ==
    <>[](versions # <<>> /\ TemplatesParse(Latest) /\ Compiles(Render(Latest, eps))
            => Up /\ SameVCL(BodyOf(active), Render(Latest, eps)))
=============================================================================
