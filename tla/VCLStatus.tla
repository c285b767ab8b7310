------------------------------ MODULE VCLStatus ------------------------------
(***************************************************************************)
(* What the status of a VarnishCluster says of its VCL: the version of the *)
(* ConfigMap and how many Varnish pods report it                           *)
(* (varnishcluster_configmap.go, the end of reconcileWithContext).  The    *)
(* pods' Varnish controllers write the annotation configMapVersion; what   *)
(* that means is the subject of VarnishController.                         *)
(*                                                                         *)
(* A pass counts the pods against the version in the status it began with, *)
(* so that it takes another pass, started by the event of its own status   *)
(* update, to count against the version it has written.                    *)
(*                                                                         *)
(* It lists the pods by the labels the VarnishCluster has now; the pods    *)
(* carry those it had when the StatefulSet was created.                    *)
(***************************************************************************)
EXTENDS Naturals, FiniteSets

CONSTANTS
    Pods,          \* Varnish pods of the cluster
    NoPod,         \* there is no such pod
    MaxVersion,    \* bound: versions of the ConfigMap
    MaxRestarts,   \* bound: pods created or deleted
    MaxRelabels,   \* bound: changes of the VarnishCluster's labels
    MaxFaults      \* bound: failing calls, crashes

ASSUME PodsAssumption == IsFiniteSet(Pods) /\ NoPod \notin Nat
ASSUME BoundsAssumption ==
    MaxVersion \in Nat \ {0} /\ MaxRestarts \in Nat
    /\ MaxRelabels \in Nat /\ MaxFaults \in Nat

Versions == 0 .. MaxVersion

VARIABLES
    version,   \* resource version of the ConfigMap
    pods,      \* pod -> the version it reports, 0 without annotation
    status,    \* [version, latest, outdated] of the VarnishCluster
    selected,  \* its labels select the pods
    relabels,  \* how often its labels have changed: also a bound
    cache,     \* what the operator's cache shows of ConfigMap, pods and VarnishCluster
    queued,    \* a request waits
    pc,        \* where the pass is
    inst,      \* the VarnishCluster the pass began with
    new,       \* the status it computes
    restarts, faults   \* bounds

clusterVars == <<version, pods, status, selected, relabels>>
passVars == <<pc, inst, new>>
vars == <<clusterVars, cache, queued, passVars, restarts, faults>>

\* Pods with an annotation, and those of them that report a version.
Reporting(state) == {p \in Pods : state[p] \notin {NoPod, 0}}
Latest(state, v) == {p \in Reporting(state) : state[p] = v}

NoStatus == [version |-> 0, latest |-> 0, outdated |-> 0]

\* The VarnishCluster, as far as it concerns the status.
Cluster == [status |-> status, selected |-> selected, relabels |-> relabels]
Seen == [version |-> version, pods |-> pods, cluster |-> Cluster]

Init ==
    /\ version = 1
    /\ pods \in [Pods -> {0, NoPod}]
    /\ status = NoStatus
    /\ selected = TRUE
    /\ relabels = 0
    /\ cache = Seen
    /\ queued = TRUE
    /\ pc = "idle"
    /\ inst = Cluster
    /\ new = NoStatus
    /\ restarts = 0
    /\ faults = 0

----------------------------------------------------------------------------
(* Users, pods and the cache *)

\* A user edits the ConfigMap.
Publish ==
    /\ version < MaxVersion
    /\ version' = version + 1
    /\ UNCHANGED <<pods, status, selected, relabels, cache, queued, passVars, restarts, faults>>

\* A label is added to the VarnishCluster, or taken away again: the template of the
\* pods keeps the labels it was created with.
EditLabels ==
    /\ relabels < MaxRelabels
    /\ relabels' = relabels + 1
    /\ selected' = ~selected
    /\ UNCHANGED <<version, pods, status, cache, queued, passVars, restarts, faults>>

\* A Varnish controller writes the annotation; it never goes back (VCLDelivery), and
\* may skip versions.
Report(p) ==
    /\ pods[p] # NoPod
    /\ \E v \in pods[p] + 1 .. version : pods' = [pods EXCEPT ![p] = v]
    /\ UNCHANGED <<version, status, selected, relabels, cache, queued, passVars, restarts, faults>>

\* The StatefulSet's controller creates a pod, without annotation, or one goes.
PodComesOrGoes(p) ==
    /\ restarts < MaxRestarts
    /\ restarts' = restarts + 1
    /\ pods' = [pods EXCEPT ![p] = IF @ = NoPod THEN 0 ELSE NoPod]
    /\ UNCHANGED <<version, status, selected, relabels, cache, queued, passVars, faults>>

\* Variant of FollowUp: events that change only the status or labels are filtered out.
FollowUpGeneration ==
    /\ cache # Seen
    /\ \E f \in {g \in DOMAIN cache : cache[g] # Seen[g]} :
        /\ cache' = [cache EXCEPT ![f] = Seen[f]]
        /\ queued' = (queued \/ f # "cluster")
    /\ UNCHANGED <<clusterVars, passVars, restarts, faults>>

\* One of the informers follows; each of them queues the request: For, Owns and the
\* watch on Varnish pods.
FollowUp ==
    /\ cache # Seen
    /\ \E f \in {g \in DOMAIN cache : cache[g] # Seen[g]} :
        cache' = [cache EXCEPT ![f] = Seen[f]]
    /\ queued' = TRUE
    /\ UNCHANGED <<clusterVars, passVars, restarts, faults>>

----------------------------------------------------------------------------
(* A pass *)

\* The pass and what it knew are over.
Done ==
    /\ pc' = "idle"
    /\ inst' = [status |-> NoStatus, selected |-> TRUE, relabels |-> 0]
    /\ new' = NoStatus

StartPass ==
    /\ queued
    /\ pc = "idle"
    /\ queued' = FALSE
    /\ inst' = cache.cluster
    /\ new' = cache.cluster.status
    /\ pc' = "configmap"
    /\ UNCHANGED <<clusterVars, cache, restarts, faults>>

ReadConfigMap ==
    /\ pc = "configmap"
    /\ new' = [new EXCEPT !.version = cache.version]
    /\ pc' = "pods"
    /\ UNCHANGED <<clusterVars, cache, queued, inst, restarts, faults>>

\* Variant of CountPods: every pod with an annotation counts as outdated.
CountOutdatedTwice ==
    /\ pc = "pods"
    /\ new' = [new EXCEPT !.latest = Cardinality(Latest(cache.pods, inst.status.version)),
                          !.outdated = Cardinality(Reporting(cache.pods))]
    /\ pc' = "status"
    /\ UNCHANGED <<clusterVars, cache, queued, inst, restarts, faults>>

\* Pods without annotation do not count, and only pods that have the labels are listed.
CountPods ==
    LET reporting == {p \in Reporting(cache.pods) : inst.selected}
        latest == reporting \cap Latest(cache.pods, inst.status.version)
    IN  /\ pc = "pods"
        /\ new' = [new EXCEPT !.latest = Cardinality(latest),
                              !.outdated = Cardinality(reporting \ latest)]
        /\ pc' = "status"
        /\ UNCHANGED <<clusterVars, cache, queued, inst, restarts, faults>>

\* Written only if it differs; a conflict, as the cached VarnishCluster is old, and any
\* other error queue the request again.
UpdateStatus ==
    /\ pc = "status"
    /\ Done
    /\ \/ new = inst.status /\ UNCHANGED <<status, queued>>
       \/ new # inst.status /\ inst = Cluster /\ status' = new /\ UNCHANGED queued
       \/ new # inst.status /\ inst # Cluster /\ queued' = TRUE /\ UNCHANGED status
    /\ UNCHANGED <<version, pods, selected, relabels, cache, restarts, faults>>

Fault == faults < MaxFaults /\ faults' = faults + 1

\* Variant of CallFails: the error is logged, and that is all.
CallFailsQuietly ==
    /\ pc # "idle"
    /\ Fault
    /\ Done
    /\ UNCHANGED <<clusterVars, cache, queued, restarts>>

CallFails ==
    /\ pc # "idle"
    /\ Fault
    /\ Done
    /\ queued' = TRUE
    /\ UNCHANGED <<clusterVars, cache, restarts>>

Crash ==
    /\ Fault
    /\ cache' = Seen
    /\ queued' = TRUE
    /\ Done
    /\ UNCHANGED <<clusterVars, restarts>>

Pass == StartPass \/ ReadConfigMap \/ CountPods \/ UpdateStatus

Next ==
    \/ Publish \/ EditLabels \/ \E p \in Pods : Report(p) \/ PodComesOrGoes(p)
    \/ FollowUp
    \/ Pass
    \/ CallFails \/ Crash

Spec == Init /\ [][Next]_vars

\* The worker and the informers go on.
FairSpec == Spec /\ WF_vars(Pass) /\ WF_vars(FollowUp)

----------------------------------------------------------------------------
(* Properties *)

Statuses ==
    {s \in [version : Versions, latest : Nat, outdated : Nat] :
        s.latest + s.outdated <= Cardinality(Pods)}
ClusterStates == [status : Statuses, selected : BOOLEAN, relabels : Nat]
PodStates == Versions \cup {NoPod}

\* Type invariant: the values every variable takes; no status counts a pod twice.
TypeOK ==
    /\ version \in Versions \ {0}
    /\ pods \in [Pods -> PodStates]
    /\ status \in Statuses /\ new \in Statuses
    /\ selected \in BOOLEAN /\ relabels \in Nat
    /\ inst \in ClusterStates
    /\ cache \in [version : Versions \ {0}, pods : [Pods -> PodStates], cluster : ClusterStates]
    /\ queued \in BOOLEAN
    /\ pc \in {"idle", "configmap", "pods", "status"}
    /\ restarts \in Nat /\ faults \in Nat

\* What a status should say of a ConfigMap and pods.
Tells(s, v, state) ==
    /\ s.version = v
    /\ s.latest = Cardinality({p \in Pods : state[p] = v})
    /\ s.outdated = Cardinality({p \in Pods : state[p] \notin {NoPod, 0, v}})

Rest == ~queued /\ pc = "idle" /\ cache = Seen

\* "The VarnishCluster keeps track of its current status as events occur in the system"
\* (docs/varnish-cluster.md:41): with nothing left to do it names the present version of
\* the ConfigMap and counts the pods against that one, though each pass counts against
\* the version of the one before; if the labels of the VarnishCluster select the pods.
RestIsTrue == Rest /\ selected => Tells(status, version, pods)

\* It becomes true and stays so, if the labels select the pods in the end: the status
\* updates do not keep each other going.
StatusSettles == <>[](selected => Tells(status, version, pods))
=============================================================================
