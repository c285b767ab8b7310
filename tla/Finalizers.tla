----------------------------- MODULE Finalizers -----------------------------
(***************************************************************************)
(* The objects of a VarnishCluster that Kubernetes does not collect when   *)
(* it is deleted: the ClusterRole, its binding, and the ServiceMonitor and *)
(* Grafana dashboard, if they are installed in a namespace named in the    *)
(* spec.  The operator (pkg/varnishcluster/controller) creates them, moves *)
(* them when the spec changes, and deletes them from the finalizers of the *)
(* VarnishCluster.                                                         *)
(*                                                                         *)
(* A pass is a sequence of calls to the API server; users, failing calls   *)
(* and restarts come in between.  It reads the VarnishCluster, ClusterRole,*)
(* binding and dashboards (ConfigMaps) from informers that may be behind,  *)
(* and ServiceMonitors, which are unstructured, from the API server.       *)
(*                                                                         *)
(* ServiceMonitors and dashboards are listed by labels that include those  *)
(* of the VarnishCluster; here these do not change.                        *)
(***************************************************************************)
EXTENDS Naturals, FiniteSets

CONSTANTS
    Namespaces,    \* the namespaces that exist
    Home,          \* the one of the VarnishCluster
    Placements,    \* what the user may ask for: Off, Default, a namespace
    Missing,       \* namespaces that may be asked for and do not exist
    NoCluster,     \* the VarnishCluster does not exist
    MaxEdits,      \* bound: changes of the spec
    MaxStrips,     \* bound: users removing all finalizers by hand
    MaxFaults,     \* bound: failing calls and restarts of the operator
    MayUninstall   \* Prometheus' CRDs may be removed from the cluster

\* monitoring.*.enabled = false; enabled without a namespace
Off == "off"
Default == "default"

ASSUME NamespacesAssumption ==
    /\ Home \in Namespaces
    /\ Placements \subseteq Namespaces \cup Missing \cup {Off, Default}
    /\ Off \notin Namespaces \cup Missing /\ Default \notin Namespaces \cup Missing
    /\ Namespaces \cap Missing = {}
ASSUME BoundsAssumption ==
    /\ MaxEdits \in Nat /\ MaxStrips \in Nat /\ MaxFaults \in Nat
    /\ MayUninstall \in BOOLEAN

VARIABLES
    \* the API server
    vc,           \* the VarnishCluster, or NoCluster
    role, binding,   \* the ClusterRole and the ClusterRoleBinding exist
    objects,      \* kind -> namespace -> "none", "owned", "free" (no owner reference)
    installed,    \* the ServiceMonitor kind is
    \* the operator
    cache,        \* the VarnishCluster its informer has
    shown,        \* the ClusterRole, binding and dashboards its informers have
    pending,      \* a request is queued
    mapped,       \* its REST mapper knows the ServiceMonitor kind
    pc,           \* the call the pass makes next
    instance,     \* the VarnishCluster the pass works with
    todo,         \* the objects it has listed and not deleted yet, by namespace
    missed,       \* history: it has read dashboards from an informer that was behind
    edits, strips, faults   \* bounds

apiVars == <<vc, role, binding, objects, installed>>
passVars == <<pc, instance, todo>>
boundVars == <<edits, strips, faults>>
vars == <<apiVars, cache, shown, pending, mapped, passVars, missed, boundVars>>

----------------------------------------------------------------------------

\* The two kinds of object, by the field of the spec that asks for them, and what
\* there is of one in a namespace.
Kinds == {"monitor", "dashboard"}
States == {"none", "owned", "free"}

\* The finalizers the code sets; finalizerGrafanaDashboard is never among them.
FinalizerNames == {"role", "binding", "monitor"}
Clusters == [deleting : BOOLEAN, finalizers : SUBSET FinalizerNames,
             monitor : Placements, dashboard : Placements, rv : Nat]

ASSUME NoClusterAssumption == NoCluster \notin Clusters

\* What the operator reads from informers besides the VarnishCluster, and what the API
\* server has of it.
Reads == [role : BOOLEAN, binding : BOOLEAN, dashboard : [Namespaces -> States]]
Live == [role |-> role, binding |-> binding, dashboard |-> objects["dashboard"]]

\* The operator watches the VarnishCluster, the ClusterRole, the binding and the
\* ConfigMaps it owns.
Watched(c, seen) ==
    \/ c # NoCluster
    \/ seen.role \/ seen.binding
    \/ \E n \in Namespaces : seen.dashboard[n] = "owned"

Place(kind) == instance[kind]
Elsewhere(place) == place \notin {Off, Default}
Target(place) == IF place = Default THEN Home ELSE place

Init ==
    /\ vc \in [deleting : {FALSE}, finalizers : {{}},
               monitor : Placements, dashboard : Placements, rv : {1}]
    /\ role = FALSE
    /\ binding = FALSE
    /\ objects = [k \in Kinds |-> [n \in Namespaces |-> "none"]]
    /\ installed = TRUE
    /\ cache = vc
    /\ shown = Live
    /\ pending = TRUE
    /\ mapped = TRUE
    /\ pc = "idle"
    /\ instance = NoCluster
    /\ todo = {}
    /\ missed = FALSE
    /\ edits = 0
    /\ strips = 0
    /\ faults = 0

----------------------------------------------------------------------------
(* Users, Kubernetes *)

\* An object that is being deleted is gone with its last finalizer.
Stored(c) == IF c.deleting /\ c.finalizers = {} THEN NoCluster ELSE [c EXCEPT !.rv = @ + 1]

EditSpec ==
    /\ vc # NoCluster
    /\ edits < MaxEdits
    /\ edits' = edits + 1
    /\ \E k \in Kinds : \E p \in Placements \ {vc[k]} : vc' = Stored([vc EXCEPT ![k] = p])
    /\ UNCHANGED <<role, binding, objects, installed, cache, shown, pending, mapped,
                   passVars, missed, strips, faults>>

DeleteCluster ==
    /\ vc # NoCluster
    /\ ~vc.deleting
    /\ vc' = Stored([vc EXCEPT !.deleting = TRUE])
    /\ UNCHANGED <<role, binding, objects, installed, cache, shown, pending, mapped,
                   passVars, missed, boundVars>>

\* docs/installation.md says how.
StripFinalizers ==
    /\ vc # NoCluster
    /\ vc.finalizers # {}
    /\ strips < MaxStrips
    /\ strips' = strips + 1
    /\ vc' = Stored([vc EXCEPT !.finalizers = {}])
    /\ UNCHANGED <<role, binding, objects, installed, cache, shown, pending, mapped,
                   passVars, missed, edits, faults>>

\* A ServiceMonitor with an owner that comes or goes may queue a request: it is watched
\* if its kind was there when the operator started.
Event(kind, state) == pending' \in {pending, pending \/ (kind = "monitor" /\ state = "owned")}

\* Kubernetes deletes objects whose owner is gone.
CollectGarbage ==
    /\ vc = NoCluster
    /\ \E k \in Kinds, n \in Namespaces :
        /\ objects[k][n] = "owned"
        /\ objects' = [objects EXCEPT ![k][n] = "none"]
        /\ Event(k, "owned")
    /\ UNCHANGED <<vc, role, binding, installed, cache, shown, mapped, passVars, missed,
                   boundVars>>

\* Removing the CRD removes every ServiceMonitor.
UninstallPrometheus ==
    /\ MayUninstall
    /\ installed
    /\ installed' = FALSE
    /\ objects' = [objects EXCEPT !["monitor"] = [n \in Namespaces |-> "none"]]
    /\ UNCHANGED <<vc, role, binding, cache, shown, pending, mapped, passVars, missed,
                   boundVars>>

\* The informer catches up, which queues a request.
CacheSync ==
    /\ cache # vc
    /\ cache' = vc
    /\ pending' = TRUE
    /\ UNCHANGED <<apiVars, shown, mapped, passVars, missed, boundVars>>

\* So do those of the ClusterRole and the binding; a dashboard without owner is not
\* watched and queues none.
FollowUp ==
    /\ \/ /\ shown.role # role
          /\ shown' = [shown EXCEPT !.role = role]
          /\ pending' = TRUE
       \/ /\ shown.binding # binding
          /\ shown' = [shown EXCEPT !.binding = binding]
          /\ pending' = TRUE
       \/ \E n \in Namespaces :
          /\ shown.dashboard[n] # objects["dashboard"][n]
          /\ shown' = [shown EXCEPT !.dashboard[n] = objects["dashboard"][n]]
          /\ pending' = (pending \/ "owned" \in {shown.dashboard[n], objects["dashboard"][n]})
    /\ UNCHANGED <<apiVars, cache, mapped, passVars, missed, boundVars>>

\* The informers resync: each object they have queues a request once more.
Resync ==
    /\ ~pending
    /\ Watched(cache, shown)
    /\ pending' = TRUE
    /\ UNCHANGED <<apiVars, cache, shown, mapped, passVars, missed, boundVars>>

----------------------------------------------------------------------------
(* A pass *)

Done == pc' = "idle" /\ instance' = NoCluster /\ todo' = {}
Abort == Done /\ pending' = TRUE
Continue(next) == pc' = next /\ UNCHANGED <<instance, todo>>

\* Variant of firstStep: nothing is done for a VarnishCluster that is not found.
firstStepIgnoresLost ==
    CASE cache = NoCluster -> "end"
      [] cache # NoCluster -> IF cache.deleting THEN "deleteRole" ELSE "addFinalizers"

\* The three kinds of pass.
firstStep ==
    CASE cache = NoCluster -> "lostRole"
      [] cache # NoCluster -> IF cache.deleting THEN "deleteRole" ELSE "addFinalizers"

Start ==
    /\ pc = "idle"
    /\ pending
    /\ pending' = FALSE
    /\ instance' = cache
    /\ pc' = firstStep
    /\ missed' = FALSE
    /\ UNCHANGED <<apiVars, cache, shown, mapped, todo, boundVars>>

\* Update of the VarnishCluster: it fails if it is not the one that was read.
Fresh == vc # NoCluster /\ vc.rv = instance.rv
Update(c) ==
    /\ vc' = Stored(c)
    /\ instance' = Stored(c)
    /\ UNCHANGED todo

\* Variants of desiredFinalizers: the dashboard asks for one that is never removed,
\* or for none.
desiredFinalizersOwn ==
    {"role", "binding"} \cup {k \in Kinds : Elsewhere(Place(k))}
desiredFinalizersNoDashboard ==
    {"role", "binding"} \cup IF Elsewhere(Place("monitor")) THEN {"monitor"} ELSE {}

\* Both kinds of object ask for the ServiceMonitor's finalizer.
desiredFinalizers ==
    {"role", "binding"}
        \cup IF \E k \in Kinds : Elsewhere(Place(k)) THEN {"monitor"} ELSE {}

AddFinalizers ==
    /\ pc = "addFinalizers"
    /\ LET c == [instance EXCEPT !.finalizers = @ \cup desiredFinalizers] IN
        IF c = instance THEN Continue("createRole") /\ UNCHANGED <<vc, pending>>
        ELSE IF Fresh THEN Update(c) /\ pc' = "createRole" /\ UNCHANGED pending
        ELSE Abort /\ UNCHANGED vc
    /\ UNCHANGED <<role, binding, objects, installed, cache, shown, mapped, missed, boundVars>>

\* Variant of CreateRole: it is created without a look at what is there.
CreateRoleBlindly ==
    /\ pc = "createRole"
    /\ IF role THEN Abort /\ UNCHANGED role
       ELSE role' = TRUE /\ Continue("createBinding") /\ UNCHANGED pending
    /\ UNCHANGED <<vc, binding, objects, installed, cache, shown, mapped, missed, boundVars>>

\* A ClusterRole the informer does not have is created, which fails if it exists.
CreateRole ==
    /\ pc = "createRole"
    /\ IF shown.role THEN Continue("createBinding") /\ UNCHANGED <<role, pending>>
       ELSE IF role THEN Abort /\ UNCHANGED role
       ELSE role' = TRUE /\ Continue("createBinding") /\ UNCHANGED pending
    /\ UNCHANGED <<vc, binding, objects, installed, cache, shown, mapped, missed, boundVars>>

CreateBinding ==
    /\ pc = "createBinding"
    /\ IF shown.binding THEN Continue("cleanMonitor") /\ UNCHANGED <<binding, pending>>
       ELSE IF binding THEN Abort /\ UNCHANGED binding
       ELSE binding' = TRUE /\ Continue("cleanMonitor") /\ UNCHANGED pending
    /\ UNCHANGED <<vc, role, objects, installed, cache, shown, mapped, missed, boundVars>>

\* Where a pass reads a kind of object from.
Seen(kind) == IF kind = "monitor" THEN objects["monitor"] ELSE shown.dashboard
Read(kind) == missed' = (missed \/ Seen(kind) # objects[kind])

\* Variant of notNeeded: only a disabled object is cleaned up.
notNeededOff(kind) ==
    {n \in Namespaces : Seen(kind)[n] # "none" /\ Place(kind) = Off}

\* The objects no longer needed: all of them if the kind is disabled, those in
\* other namespaces if it is not.
notNeeded(kind) ==
    {n \in Namespaces : Seen(kind)[n] # "none"
        /\ (Place(kind) = Off \/ n # Target(Place(kind)))}

\* They are listed once,
CleanNotNeeded(kind, next) ==
    IF kind = "monitor" /\ mapped /\ ~installed
    THEN Abort /\ UNCHANGED missed
    ELSE /\ todo' = notNeeded(kind)
         /\ pc' = next
         /\ Read(kind)
         /\ UNCHANGED <<instance, pending>>

\* and deleted one by one, which fails if one is gone.
Remove(kind, next) ==
    IF todo = {} THEN Continue(next) /\ UNCHANGED <<objects, pending>>
    ELSE \E n \in todo :
        IF objects[kind][n] = "none" THEN Abort /\ UNCHANGED objects
        ELSE /\ objects' = [objects EXCEPT ![kind][n] = "none"]
             /\ todo' = todo \ {n}
             /\ Event(kind, objects[kind][n])
             /\ UNCHANGED <<pc, instance>>

\* An object that exists is updated, but not its owner references; a new one has
\* an owner unless the spec names a namespace.
Apply(kind, next) ==
    LET target == Target(Place(kind))
        state == IF Place(kind) = Default THEN "owned" ELSE "free" IN
    IF Place(kind) = Off \/ target \in Missing \/ (kind = "monitor" /\ ~mapped)
    THEN Continue(next) /\ UNCHANGED <<objects, pending, missed>>
    ELSE IF kind = "monitor" /\ ~installed
    THEN Abort /\ UNCHANGED <<objects, missed>>
    ELSE /\ Read(kind)
         /\ IF Seen(kind)[target] # "none" THEN Continue(next) /\ UNCHANGED <<objects, pending>>
            ELSE IF objects[kind][target] # "none" THEN Abort /\ UNCHANGED objects
            ELSE /\ objects' = [objects EXCEPT ![kind][target] = state]
                 /\ Event(kind, state)
                 /\ Continue(next)

CleanMonitor ==
    /\ pc = "cleanMonitor"
    /\ CleanNotNeeded("monitor", "removeMonitor")
    /\ UNCHANGED <<apiVars, cache, shown, mapped, boundVars>>

RemoveMonitor ==
    /\ pc = "removeMonitor"
    /\ Remove("monitor", "applyMonitor")
    /\ UNCHANGED <<vc, role, binding, installed, cache, shown, mapped, missed, boundVars>>

ApplyMonitor ==
    /\ pc = "applyMonitor"
    /\ Apply("monitor", "cleanDashboard")
    /\ UNCHANGED <<vc, role, binding, installed, cache, shown, mapped, boundVars>>

CleanDashboard ==
    /\ pc = "cleanDashboard"
    /\ CleanNotNeeded("dashboard", "removeDashboard")
    /\ UNCHANGED <<apiVars, cache, shown, mapped, boundVars>>

RemoveDashboard ==
    /\ pc = "removeDashboard"
    /\ Remove("dashboard", "applyDashboard")
    /\ UNCHANGED <<vc, role, binding, installed, cache, shown, mapped, missed, boundVars>>

ApplyDashboard ==
    /\ pc = "applyDashboard"
    /\ Apply("dashboard", "end")
    /\ UNCHANGED <<vc, role, binding, installed, cache, shown, mapped, boundVars>>

End ==
    /\ pc = "end"
    /\ Done
    /\ UNCHANGED <<apiVars, cache, shown, pending, mapped, missed, boundVars>>

----------------------------------------------------------------------------
(* A pass over a VarnishCluster that is being deleted, or is gone *)

\* One the informer has is deleted, which fails if it is gone.
DeleteRole ==
    /\ pc \in {"deleteRole", "lostRole"}
    /\ LET next == IF pc = "lostRole" THEN "lostBinding" ELSE "dropRole" IN
        IF ~shown.role THEN Continue(next) /\ UNCHANGED <<role, pending>>
        ELSE IF ~role THEN Abort /\ UNCHANGED role
        ELSE role' = FALSE /\ Continue(next) /\ UNCHANGED pending
    /\ UNCHANGED <<vc, binding, objects, installed, cache, shown, mapped, missed, boundVars>>

DeleteBinding ==
    /\ pc \in {"deleteBinding", "lostBinding"}
    /\ LET next == IF pc = "lostBinding" THEN "end" ELSE "dropBinding" IN
        IF ~shown.binding THEN Continue(next) /\ UNCHANGED <<binding, pending>>
        ELSE IF ~binding THEN Abort /\ UNCHANGED binding
        ELSE binding' = FALSE /\ Continue(next) /\ UNCHANGED pending
    /\ UNCHANGED <<vc, role, objects, installed, cache, shown, mapped, missed, boundVars>>

\* Only an object in a namespace the spec names is deleted.
Delete(kind) ==
    objects' = [objects EXCEPT ![kind] = [n \in Namespaces |->
        IF Elsewhere(Place(kind)) /\ n = Place(kind) THEN "none" ELSE @[n]]]

DeleteMonitor ==
    /\ pc = "deleteMonitor"
    /\ IF Elsewhere(Place("monitor")) /\ ~mapped THEN Abort /\ UNCHANGED objects
       ELSE /\ Delete("monitor")
            /\ Continue("dropMonitor")
            /\ UNCHANGED pending
    /\ UNCHANGED <<vc, role, binding, installed, cache, shown, mapped, missed, boundVars>>

\* The dashboard has no finalizer of its own to remove afterwards.
DeleteDashboard ==
    /\ pc = "deleteDashboard"
    /\ LET place == Place("dashboard") IN
        IF place \notin Namespaces \/ shown.dashboard[place] = "none"
        THEN Continue("end") /\ UNCHANGED <<objects, pending>>
        ELSE IF objects["dashboard"][place] = "none" THEN Abort /\ UNCHANGED objects
        ELSE Delete("dashboard") /\ Continue("end") /\ UNCHANGED pending
    /\ UNCHANGED <<vc, role, binding, installed, cache, shown, mapped, missed, boundVars>>

\* What finalizerCleanUp does with an error of removeFinalizer.
Fails(f) == Done /\ IF f = "monitor" THEN UNCHANGED pending ELSE pending' = TRUE

removeFinalizer(f, next) ==
    /\ IF f \notin instance.finalizers THEN Continue(next) /\ UNCHANGED <<vc, pending>>
       ELSE IF Fresh
       THEN /\ vc' = Stored([instance EXCEPT !.finalizers = @ \ {f}])
            /\ instance' = [instance EXCEPT !.finalizers = @ \ {f}, !.rv = @ + 1]
            /\ pc' = next
            /\ UNCHANGED <<pending, todo>>
       ELSE Fails(f) /\ UNCHANGED vc
    /\ UNCHANGED <<role, binding, objects, installed, cache, shown, mapped, missed, boundVars>>

DropRole == pc = "dropRole" /\ removeFinalizer("role", "deleteBinding")

\* Variant of DropBinding: the finalizer is not removed.
DropBindingNot ==
    /\ pc = "dropBinding"
    /\ Continue("deleteMonitor")
    /\ UNCHANGED <<apiVars, cache, shown, pending, mapped, missed, boundVars>>

DropBinding == pc = "dropBinding" /\ removeFinalizer("binding", "deleteMonitor")
DropMonitor == pc = "dropMonitor" /\ removeFinalizer("monitor", "deleteDashboard")

----------------------------------------------------------------------------
(* Failures *)

\* A call to the API server fails; an error of the ServiceMonitor's finalizer is
\* swallowed.
CallFails ==
    /\ pc \notin {"idle", "end"}
    /\ faults < MaxFaults
    /\ faults' = faults + 1
    /\ IF pc = "dropMonitor" THEN Fails("monitor") ELSE Abort
    /\ UNCHANGED <<apiVars, cache, shown, mapped, missed, edits, strips>>

\* The operator is restarted: it lists everything again.
Restart ==
    /\ faults < MaxFaults
    /\ faults' = faults + 1
    /\ Done
    /\ cache' = vc
    /\ shown' = Live
    /\ mapped' = installed
    /\ pending' = Watched(vc, Live)
    /\ UNCHANGED <<apiVars, missed, edits, strips>>

----------------------------------------------------------------------------

Pass ==
    \/ Start \/ AddFinalizers \/ CreateRole \/ CreateBinding
    \/ CleanMonitor \/ RemoveMonitor \/ ApplyMonitor
    \/ CleanDashboard \/ RemoveDashboard \/ ApplyDashboard \/ End
    \/ DeleteRole \/ DropRole \/ DeleteBinding \/ DropBinding
    \/ DeleteMonitor \/ DropMonitor \/ DeleteDashboard

Users == EditSpec \/ DeleteCluster \/ StripFinalizers \/ UninstallPrometheus

Next ==
    \/ Pass
    \/ Users
    \/ CollectGarbage \/ CacheSync \/ FollowUp \/ Resync
    \/ CallFails \/ Restart

Spec == Init /\ [][Next]_vars

\* The operator works, its informers catch up and resync, Kubernetes collects garbage.
\* Nothing is assumed of users and faults.
Fairness ==
    /\ WF_vars(Pass)
    /\ WF_vars(CacheSync)
    /\ WF_vars(FollowUp)
    /\ WF_vars(Resync)
    /\ WF_vars(CollectGarbage)

FairSpec == Spec /\ Fairness

----------------------------------------------------------------------------
(* Properties *)

Steps == {"idle", "end", "addFinalizers", "createRole", "createBinding",
          "cleanMonitor", "removeMonitor", "applyMonitor",
          "cleanDashboard", "removeDashboard", "applyDashboard",
          "deleteRole", "lostRole", "dropRole", "deleteBinding", "lostBinding",
          "dropBinding", "deleteMonitor", "dropMonitor", "deleteDashboard"}

\* Type invariant: the values every variable takes.  A cluster that is stored is
\* not one that is deleted and has no finalizer left.
TypeOK ==
    /\ vc \in Clusters \cup {NoCluster}
    /\ vc # NoCluster => ~(vc.deleting /\ vc.finalizers = {})
    /\ role \in BOOLEAN /\ binding \in BOOLEAN
    /\ objects \in [Kinds -> [Namespaces -> States]]
    /\ installed \in BOOLEAN /\ mapped \in BOOLEAN
    /\ cache \in Clusters \cup {NoCluster}
    /\ shown \in Reads
    /\ pending \in BOOLEAN
    /\ pc \in Steps
    /\ instance \in Clusters \cup {NoCluster}
    /\ todo \in SUBSET Namespaces
    /\ missed \in BOOLEAN
    /\ edits \in Nat /\ strips \in Nat /\ faults \in Nat

\* No pass is under way or queued, and the informers are up to date.
Quiet == pc = "idle" /\ ~pending /\ cache = vc /\ shown = Live

\* An object of this kind is where the spec asks for it and nowhere else.
Followed(kind) ==
    \A n \in Namespaces : (objects[kind][n] # "none") <=> (vc[kind] # Off /\ n = Target(vc[kind]))

\* A VarnishCluster that is gone leaves no ClusterRole and no binding behind, also if
\* a pass was creating them while it went: "make sure the resources supposed to be
\* cleaned up by the finalizer are removed" (varnishcluster_controller.go:207-208).  Nor a
\* ServiceMonitor, "delete only if the the servicemonitor was installed in a different
\* namespace" (varnishcluster_finalizers.go:79), unless the user removed the finalizers
\* or changed the spec.
NothingLeft ==
    Quiet /\ vc = NoCluster =>
        /\ ~role /\ ~binding
        /\ strips = 0 /\ edits = 0 => \A n \in Namespaces : objects["monitor"][n] # "free"

\* Nothing that Kubernetes would not collect exists without a finalizer that makes
\* the operator act before the VarnishCluster is gone (reconcileFinalizers runs
\* before anything is created, with the same instance).
CoveredByFinalizers ==
    vc # NoCluster /\ ~vc.deleting /\ strips = 0 =>
        /\ role => "role" \in vc.finalizers
        /\ binding => "binding" \in vc.finalizers
        /\ \A k \in Kinds, n \in Namespaces :
            objects[k][n] = "free" => "monitor" \in vc.finalizers

\* After any number of changes of the spec, interrupted or not, each kind of object is
\* where the spec asks for it and nowhere else, as long as Prometheus is installed.  Of
\* dashboards, "if the namespace is changed, the ConfigMap from the previous namespace
\* should be deleted" (varnishcluster_grafana_dashboard.go:95) is true only if the
\* informer was not behind when the last pass read them.  (The labels of the
\* VarnishCluster are left alone: objects with others are not listed.)
SpecFollowed ==
    Quiet /\ installed /\ vc # NoCluster /\ ~vc.deleting =>
        /\ Followed("monitor")
        /\ ~missed => Followed("dashboard")

\* Resyncing mends that: in the end everything is where the spec asks for it.
SpecReached ==
    <>[](installed /\ vc # NoCluster /\ ~vc.deleting => \A k \in Kinds : Followed(k))

\* "We need to do our cleanup logic and delete the finalizers in order to let
\* Kubernetes to delete the object" (varnishcluster_controller.go:234): a
\* VarnishCluster that is being deleted is gone in the end, unless Prometheus was
\* removed before it.
DeletionCompletes == <>[](vc # NoCluster /\ vc.deleting => ~installed)
=============================================================================
