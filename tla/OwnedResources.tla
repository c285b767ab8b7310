--------------------------- MODULE OwnedResources ---------------------------
(***************************************************************************)
(* The objects the operator makes for a VarnishCluster in its namespace    *)
(* and keeps as its spec asks (pkg/varnishcluster/controller): one pass of *)
(* Reconcile goes through them in a fixed order, reads each one from the   *)
(* cache, creates, updates, replaces or leaves it, and ends at the first   *)
(* error.  The cluster roles, the ServiceMonitor, the dashboard and        *)
(* deletion are the subject of Finalizers, the rolling update of           *)
(* DelayedRollingUpdate.                                                   *)
(*                                                                         *)
(* An object is what the comparers look at, as far as it depends on the    *)
(* VarnishCluster: the labels in its metadata, the part of the spec it was *)
(* made from, the labels its selector asks for (of the StatefulSet: those  *)
(* its pods get), the claim templates, the controller that owns it.        *)
(***************************************************************************)
EXTENDS Integers, Sequences, FiniteSets

CONSTANTS
    LabelSets,    \* labels of the VarnishCluster
    SpecValues,   \* the spec, as far as the StatefulSet and the services go
    Budgets,      \* spec.podDisruptionBudget, if there is one
    Storages,     \* spec.varnish.extraVolumeClaimTemplates
    None,         \* no budget; no such part of an object
    NoObject,     \* there is no such object
    Tampered,     \* a value somebody else wrote
    Generated,    \* the content the operator gives a Secret or a ConfigMap
    Empty,        \* a Secret without the key
    Initial,      \* VarnishClusters to begin with
    Touched,      \* bound: kinds whose objects others change
    MaxLag,       \* bound: kinds the cache is behind on while a pass goes on
    MaxChanges,   \* bound: edits by others
    MaxFaults     \* bound: failing calls, crashes

\* The order of a pass.
Order == <<"ServiceAccount", "Role", "RoleBinding", "NoCacheService", "HeadlessService",
           "Secret", "StatefulSet", "ConfigMap", "PodDisruptionBudget", "Service">>
Kinds == {Order[i] : i \in DOMAIN Order}

\* Kinds whose events queue a request for the owner: no Secret, no PodDisruptionBudget.
Watched == Kinds \ {"Secret", "PodDisruptionBudget"}

Clusters == [labels : LabelSets, spec : SpecValues, budget : Budgets \cup {None},
             storage : Storages]

Objects ==
    [labels : LabelSets \cup {Tampered},
     spec : SpecValues \cup Budgets \cup {None, Tampered, Generated, Empty},
     pods : LabelSets \cup {None}, storage : Storages \cup {None},
     owner : {"us", "nobody", "other"}]

ASSUME ClustersAssumption == Initial \subseteq Clusters

ASSUME ValuesAssumption ==
    /\ None \notin SpecValues \cup Budgets \cup LabelSets \cup Storages
    /\ {Tampered, Empty} \cap (SpecValues \cup Budgets \cup LabelSets \cup {None, Generated}) = {}
    /\ Tampered # Empty /\ Generated \notin SpecValues \cup Budgets \cup {None}
    /\ NoObject \notin Objects

ASSUME BoundsAssumption ==
    Touched \subseteq Kinds /\ MaxLag \in Nat /\ MaxChanges \in Nat /\ MaxFaults \in Nat

VARIABLES
    vc,         \* the VarnishCluster
    status,     \* its status: the labels and the spec it was computed from
    obj,        \* kind -> the object
    cache,      \* kind -> the object in the operator's cache
    behind,     \* kinds that changed since the cache last followed
    events,     \* of these the kinds with an event about an object of ours
    queued,     \* a request waits
    at,         \* where in Order the pass is; 0: no pass
    inst,       \* the VarnishCluster and the status it read
    deleted,    \* the pass has deleted the budget to create it anew
    \* history: kinds that a pass saw as they are, and that nobody else changed since
    seen,
    changes, faults   \* bounds

userVars == <<vc, status>>
passVars == <<at, inst, deleted>>
cacheVars == <<cache, behind, events>>
vars == <<userVars, obj, cacheVars, queued, passVars, seen, changes, faults>>

----------------------------------------------------------------------------
(* Desired objects *)

Object(v, spec, pods, storage) ==
    [labels |-> v.labels, spec |-> spec, pods |-> pods, storage |-> storage, owner |-> "us"]

\* Made from names and labels only.
serviceAccountOf(v) == Object(v, None, None, None)
roleOf(v) == Object(v, Generated, None, None)
roleBindingOf(v) == Object(v, Generated, None, None)

\* The backends' selector and port.
noCacheServiceOf(v) == Object(v, v.spec, None, None)

headlessServiceOf(v) == Object(v, Generated, v.labels, None)

\* Random data under the key.
secretOf(v) == Object(v, Generated, None, None)

\* The pods' containers, volumes and scheduling come from the spec, their labels are ours.
podTemplate(v) == [spec |-> v.spec, labels |-> v.labels]

\* The template, replicas and the update strategy.
statefulSetOf(v) ==
    LET template == podTemplate(v)
    IN  Object(v, template.spec, template.labels, v.storage)

\* The default VCL files.
configMapOf(v) == Object(v, Generated, None, None)

budgetOf(v) == IF v.budget = None THEN NoObject ELSE Object(v, v.budget, v.labels, None)

serviceOf(v) == Object(v, v.spec, v.labels, None)

desired(k, v) ==
    CASE k = "ServiceAccount" -> serviceAccountOf(v)
      [] k = "Role" -> roleOf(v)
      [] k = "RoleBinding" -> roleBindingOf(v)
      [] k = "NoCacheService" -> noCacheServiceOf(v)
      [] k = "HeadlessService" -> headlessServiceOf(v)
      [] k = "Secret" -> secretOf(v)
      [] k = "StatefulSet" -> statefulSetOf(v)
      [] k = "ConfigMap" -> configMapOf(v)
      [] k = "PodDisruptionBudget" -> budgetOf(v)
      [] k = "Service" -> serviceOf(v)

\* Variant of inherited: the selector follows the labels.
inheritedNot(k, found, want) == want

\* The StatefulSet's selector and the labels of its pods stay those it was created with.
inherited(k, found, want) ==
    IF k = "StatefulSet" THEN [want EXCEPT !.pods = found.pods] ELSE want

\* Owner references are compared as well.  Of a Secret only an empty key counts; a
\* ConfigMap keeps its data and gets what is missing.
upToDate(k, found, want) ==
    CASE k = "Secret" -> found.spec # Empty
      [] k = "ConfigMap" -> found.labels = want.labels /\ found.owner = "us"
      [] OTHER -> found = inherited(k, found, want)

\* What Update is called with: the found object with some of the desired parts.  The
\* headless service is sent back as it was found.
sent(k, found, want) ==
    CASE k = "ServiceAccount" -> [found EXCEPT !.labels = want.labels]
      [] k = "HeadlessService" -> found
      [] k = "Secret" -> [found EXCEPT !.spec = Generated]
      [] k = "ConfigMap" -> [found EXCEPT !.labels = want.labels, !.owner = "us"]
      [] OTHER -> [inherited(k, found, want) EXCEPT !.owner = found.owner]

\* The API server refuses to change the selector and the claim templates of a StatefulSet.
refused(k, new) ==
    k = "StatefulSet" /\ (new.storage # obj[k].storage \/ new.pods # obj[k].pods)

Init ==
    /\ vc \in Initial
    /\ \/ obj = [k \in Kinds |-> NoObject]
       \/ obj = [k \in Kinds |-> desired(k, vc)]
    /\ status = [pods |-> None, spec |-> None]
    /\ cache = obj
    /\ behind = {}
    /\ events = {}
    /\ queued = TRUE
    /\ at = 0
    /\ inst = [vc |-> vc, status |-> status]
    /\ deleted = FALSE
    /\ seen = {}
    /\ changes = 0
    /\ faults = 0

----------------------------------------------------------------------------
(* Users and the cluster *)

ours(o) == o # NoObject /\ o.owner = "us"

\* An object changes: the cache is behind.
Moves(k, o) ==
    /\ obj' = [obj EXCEPT ![k] = o]
    /\ behind' = IF o = obj[k] THEN behind ELSE behind \cup {k}
    /\ events' = IF o # obj[k] /\ (ours(o) \/ ours(obj[k])) THEN events \cup {k} ELSE events

Change == changes < MaxChanges /\ changes' = changes + 1

EditVarnishCluster ==
    /\ Change
    /\ vc' \in Clusters \ {vc}
    /\ Cardinality({f \in DOMAIN vc : vc'[f] # vc[f]}) = 1
    /\ queued' = TRUE
    /\ UNCHANGED <<status, obj, cacheVars, passVars, seen, faults>>

Becomes(k, o) ==
    /\ Change
    /\ k \in Touched
    /\ Moves(k, o)
    /\ seen' = seen \ {k}
    /\ UNCHANGED <<userVars, cache, queued, passVars, faults>>

DeleteObject(k) == obj[k] # NoObject /\ Becomes(k, NoObject)

TamperWith(k) ==
    /\ obj[k] # NoObject
    /\ \/ obj[k].labels # Tampered /\ Becomes(k, [obj[k] EXCEPT !.labels = Tampered])
       \/ obj[k].spec \notin {None, Tampered} /\ Becomes(k, [obj[k] EXCEPT !.spec = Tampered])

\* A user brings a Secret, with or without the key, or a ConfigMap, that may belong to
\* another controller.
BringOwn(k) ==
    /\ obj[k] = NoObject
    /\ \/ k = "Secret" /\ \E s \in {Empty, Tampered} :
            Becomes(k, [secretOf(vc) EXCEPT !.spec = s, !.labels = Tampered, !.owner = "nobody"])
       \/ k = "ConfigMap" /\ \E o \in {"nobody", "other"} :
            Becomes(k, [configMapOf(vc) EXCEPT !.spec = Tampered, !.labels = Tampered,
                                               !.owner = o])

Users == EditVarnishCluster \/ \E k \in Kinds : DeleteObject(k) \/ TamperWith(k) \/ BringOwn(k)

----------------------------------------------------------------------------
(* The cache and its watches *)

\* The cache follows; states in between are those it would have shown before.
FollowUp(k) ==
    /\ k \in behind
    /\ cache' = [cache EXCEPT ![k] = obj[k]]
    /\ behind' = behind \ {k}
    /\ events' = events \ {k}
    /\ queued' = (queued \/ k \in Watched \cap events)
    /\ UNCHANGED <<userVars, obj, passVars, seen, changes, faults>>

----------------------------------------------------------------------------
(* A pass *)

StartPass ==
    /\ queued
    /\ at = 0
    /\ queued' = FALSE
    /\ at' = 1
    /\ inst' = [vc |-> vc, status |-> status]
    /\ UNCHANGED <<userVars, obj, cacheVars, deleted, seen, changes, faults>>

turn(k) == at \in DOMAIN Order /\ Order[at] = k /\ Cardinality(behind) <= MaxLag

\* Variant of EndPass: an error ends the pass, and that is all.
EndPassQuietly ==
    /\ at' = 0
    /\ deleted' = FALSE
    /\ UNCHANGED <<userVars, obj, cacheVars, queued, inst, seen, changes>>

\* Variant of EndPass: the next pass takes the budget for deleted.
EndPassHalfway ==
    /\ at' = 0
    /\ queued' = TRUE
    /\ UNCHANGED <<userVars, obj, cacheVars, deleted, inst, seen, changes>>

\* An error, a conflict included: the request is queued again.
EndPass ==
    /\ at' = 0
    /\ queued' = TRUE
    /\ deleted' = FALSE
    /\ UNCHANGED <<userVars, obj, cacheVars, inst, seen, changes>>

\* The call changed the object (if o is different), and the pass goes on.
Written(k, o) ==
    /\ Moves(k, o)
    /\ seen' = seen \cup {k}
    /\ UNCHANGED <<userVars, cache, queued, inst, changes, faults>>

NextKind == at' = at + 1 /\ deleted' = FALSE

\* Create fails if there is one the cache does not show yet.
CreateObject(k) ==
    /\ turn(k)
    /\ cache[k] = NoObject \/ deleted
    /\ desired(k, inst.vc) # NoObject
    /\ IF obj[k] = NoObject
       THEN Written(k, desired(k, inst.vc)) /\ NextKind
       ELSE EndPass /\ UNCHANGED faults

\* Nothing to do for this kind.
LeaveObject(k) ==
    /\ turn(k)
    /\ ~deleted
    /\ \/ cache[k] = NoObject /\ desired(k, inst.vc) = NoObject
       \/ /\ cache[k] # NoObject /\ desired(k, inst.vc) # NoObject
          /\ k = "ConfigMap" => cache[k].owner # "other"
          /\ upToDate(k, cache[k], desired(k, inst.vc))
    /\ seen' = IF k \in behind THEN seen \ {k} ELSE seen \cup {k}
    /\ NextKind
    /\ UNCHANGED <<userVars, obj, cacheVars, queued, inst, changes, faults>>

\* Variant of current: updates without resource version.
currentAlways(k) == obj[k] # NoObject

\* The object has not changed since the cache showed it: no conflict.
current(k) == k \notin behind

UpdateObject(k) ==
    /\ turn(k)
    /\ k # "PodDisruptionBudget"
    /\ cache[k] # NoObject
    /\ k = "ConfigMap" => cache[k].owner # "other"
    /\ ~upToDate(k, cache[k], desired(k, inst.vc))
    /\ LET new == sent(k, cache[k], desired(k, inst.vc))
       IN  IF current(k) /\ ~refused(k, new)
           THEN Written(k, new) /\ NextKind
           ELSE EndPass /\ UNCHANGED faults

\* SetControllerReference: already owned by another controller.
ConfigMapNotOurs ==
    /\ turn("ConfigMap")
    /\ cache["ConfigMap"] # NoObject
    /\ cache["ConfigMap"].owner = "other"
    /\ EndPass
    /\ UNCHANGED faults

\* A budget is not wanted any more, or is replaced: deleted whatever it has become since
\* the cache showed it.
DeleteBudget ==
    LET k == "PodDisruptionBudget"
        want == desired(k, inst.vc)
    IN  /\ turn(k)
        /\ ~deleted
        /\ cache[k] # NoObject
        /\ want = NoObject \/ ~upToDate(k, cache[k], want)
        /\ CASE obj[k] = NoObject -> EndPass /\ UNCHANGED faults
             [] OTHER -> /\ Written(k, NoObject)
                         /\ IF want = NoObject THEN NextKind
                            ELSE at' = at /\ deleted' = TRUE

\* The status is compared with the one the pass began with; an update of a
\* VarnishCluster that has changed since is a conflict, a successful one an event.
FinishPass ==
    LET new == [pods |-> inst.vc.labels, spec |-> inst.vc.spec]
    IN  /\ at = Len(Order) + 1
        /\ at' = 0
        /\ IF new = inst.status
           THEN UNCHANGED <<status, queued>>
           ELSE queued' = TRUE /\ status' = IF inst = [vc |-> vc, status |-> status]
                                            THEN new ELSE status
        /\ UNCHANGED <<vc, obj, cacheVars, inst, deleted, seen, changes, faults>>

Fault == faults < MaxFaults /\ faults' = faults + 1

CallFails == at # 0 /\ Fault /\ EndPass

\* The new process fills its cache and queues every VarnishCluster.
Crash ==
    /\ Fault
    /\ cache' = obj
    /\ behind' = {}
    /\ events' = {}
    /\ at' = 0
    /\ queued' = TRUE
    /\ deleted' = FALSE
    /\ UNCHANGED <<userVars, obj, inst, seen, changes>>

Pass ==
    \/ StartPass \/ FinishPass
    \/ \E k \in Kinds : CreateObject(k) \/ LeaveObject(k) \/ UpdateObject(k)
    \/ ConfigMapNotOurs \/ DeleteBudget

Next ==
    \/ Users
    \/ \E k \in Kinds : FollowUp(k)
    \/ Pass
    \/ CallFails \/ Crash

Spec == Init /\ [][Next]_vars

\* The worker goes on, and so does every informer.
Fairness == WF_vars(Pass) /\ WF_vars(\E k \in Kinds : FollowUp(k))

FairSpec == Spec /\ Fairness

----------------------------------------------------------------------------
(* Properties *)

\* Type invariant: the values every variable takes; a budget is being replaced only where
\* the pass looks at budgets.
TypeOK ==
    /\ vc \in Clusters
    /\ status \in [pods : LabelSets \cup {None}, spec : SpecValues \cup {None}]
    /\ obj \in [Kinds -> Objects \cup {NoObject}]
    /\ cache \in [Kinds -> Objects \cup {NoObject}]
    /\ behind \subseteq Kinds /\ events \subseteq behind /\ seen \subseteq Kinds
    /\ queued \in BOOLEAN /\ deleted \in BOOLEAN
    /\ at \in 0 .. Len(Order) + 1
    /\ deleted => at \in DOMAIN Order /\ Order[at] = "PodDisruptionBudget"
    /\ inst.vc \in Clusters
    /\ changes \in Nat /\ faults \in Nat

Rest == ~queued /\ at = 0 /\ behind = {}

\* An object is as wanted; a headless service is only known to exist.
fits(k, is, want) ==
    IF want = NoObject \/ is = NoObject THEN is = want
    ELSE CASE k = "HeadlessService" -> TRUE
           [] k = "Secret" -> is.spec # Empty
           [] k = "ConfigMap" -> is.labels = want.labels /\ is.owner = "us"
           [] OTHER -> is = inherited(k, is, want)

AsDesired(k) == fits(k, obj[k], desired(k, vc))

\* "trying to modify any of those dependent resources ... will cause the operator to
\* revert those changes" (docs/varnish-cluster.md:69): with nothing left to do every
\* watched kind is as the present VarnishCluster asks, and so are Secret and budget
\* unless somebody changed them since a pass saw them as they are.  In between lie stale
\* caches, conflicts, failing calls, crashes, a budget deleted to be replaced.
RestIsDesired == Rest => \A k \in Watched \cup seen : AsDesired(k)

\* varnishcluster_configmap.go:67 "don't trample on any labels created by user", and the
\* data of a Secret that has some: what users put into a Secret or a ConfigMap no step
\* of a pass overwrites, however old what it read is.
UsersDataKept ==
    [][changes' = changes =>
        \A k \in {"Secret", "ConfigMap"} :
            obj[k] # NoObject /\ obj[k].spec # Empty =>
                obj'[k] # NoObject /\ obj'[k].spec = obj[k].spec]_vars

\* What no pass can get past: other claim templates, a ConfigMap of another controller.
Blocked ==
    \/ ours(obj["StatefulSet"]) /\ obj["StatefulSet"].storage # vc.storage
    \/ obj["ConfigMap"] # NoObject /\ obj["ConfigMap"].owner = "other"

\* The operator comes to rest: no two kinds, nor the status, keep each other's passes
\* going, and no update is sent in vain for ever.
ComesToRest == <>[](Rest \/ Blocked)

\* The cache service leads to the pods of the StatefulSet.
PodsSelected ==
    Rest => obj["Service"].pods = obj["StatefulSet"].pods
=============================================================================
