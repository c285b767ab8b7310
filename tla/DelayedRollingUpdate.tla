------------------------ MODULE DelayedRollingUpdate ------------------------
(***************************************************************************)
(* The rolling update the operator performs on a StatefulSet whose own     *)
(* strategy is OnDelete, pod by pod with a pause in between                *)
(* (pkg/varnishcluster/controller/varnishcluster_delayed_rollingupdate.go).*)
(*                                                                         *)
(* Around it: the StatefulSet controller, which recreates deleted pods and *)
(* writes the StatefulSet's status some time after the pods change, and    *)
(* the kubelets.  The timer is the one of ReconcileTriggerer, reduced to   *)
(* the ticks it has left.  Time passes in ticks; every delay is compared   *)
(* with Delay, so that counters stop there.                                *)
(*                                                                         *)
(* The pods are listed by the labels the VarnishCluster has now; the pods  *)
(* carry those it had when the StatefulSet was created.  The list is taken *)
(* to be no older than the status the pass reads.                          *)
(***************************************************************************)
EXTENDS Integers, FiniteSets

CONSTANTS
    Pods,         \* the pods of the StatefulSet
    NoPod,        \* no pod chosen
    Delay,        \* delayedRollingUpdate.delaySeconds, in ticks
    MaxLag,       \* ticks the StatefulSet's status may be behind its pods
    MaxEnding,    \* ticks a pod may take to terminate
    SlowPasses,   \* time may pass during a pass of the operator
    MaxRevision,  \* bound: revisions of the pod template
    MaxEdits,     \* bound: changes of the update strategy
    MaxRelabels,  \* bound: changes of the labels
    MaxRestarts,  \* bound: restarts of the operator
    MaxLosses,    \* bound: deletions that are executed but answered with an error
    MaxFailures   \* bound: calls that fail without effect

ASSUME PodsAssumption == IsFiniteSet(Pods) /\ NoPod \notin Pods
ASSUME TimesAssumption ==
    /\ Delay \in Nat \ {0}   \* the webhook asks for 1 at least
    /\ MaxLag \in Nat /\ MaxEnding \in Nat /\ SlowPasses \in BOOLEAN
ASSUME BoundsAssumption ==
    /\ MaxRevision \in Nat \ {0}
    /\ MaxEdits \in Nat /\ MaxRelabels \in Nat
    /\ MaxRestarts \in Nat /\ MaxLosses \in Nat /\ MaxFailures \in Nat

VARIABLES
    revision,    \* the newest revision of the pod template
    delayed,     \* the update strategy is DelayedRollingUpdate
    selected,    \* the VarnishCluster's labels select the pods
    pods,        \* pod -> [phase, ready, revision, age]
    status,      \* the StatefulSet's status, as the API server has it
    lag,         \* ticks since the status stopped being true
    pending,     \* a request is queued
    pc,          \* where the operator is
    seen,        \* the strategy, the labels and the status the pass works with
    victim,      \* the pod it is about to delete
    timer,       \* ticks left of the timer, -1: none
    \* history: the pods the operator deleted that are not ready again, the ticks
    \* since it last deleted one, and whether since then that deletion was answered
    \* with an error, the strategy was changed or the operator restarted
    down, sinceDelete, slipped,
    edits, relabels, restarts, losses, failures   \* bounds

clusterVars == <<revision, delayed, selected, pods, status, lag>>
passVars == <<pc, seen, victim>>
historyVars == <<down, sinceDelete, slipped>>
boundVars == <<edits, relabels, restarts, losses, failures>>
vars == <<clusterVars, pending, passVars, timer, historyVars, boundVars>>

----------------------------------------------------------------------------

Existing == {p \in Pods : pods[p].phase # "absent"}

\* What the StatefulSet controller counts: a pod being terminated stays in the
\* counts of replicas and, until it is gone, of ready ones, not of updated ones.
CurrentStatus ==
    [updateRevision |-> revision,
     replicas |-> Cardinality(Existing),
     ready |-> Cardinality({p \in Existing : pods[p].ready}),
     updated |-> Cardinality({p \in Existing :
                    pods[p].phase # "ending" /\ pods[p].revision = revision})]

\* The pods r.List finds: the selector is made of the VarnishCluster's labels.
Listed == {p \in Existing : seen.selected}

Outdated == {p \in Listed : pods[p].revision # seen.status.updateRevision}
Updated == Listed \ Outdated

\* What a pass knows before it has read anything.
NoPass == [delayed |-> TRUE, selected |-> TRUE,
           status |-> [updateRevision |-> 1, replicas |-> 0, ready |-> 0, updated |-> 0]]

Plus(n) == IF n < Delay THEN n + 1 ELSE Delay

Init ==
    /\ revision = 1
    /\ delayed = TRUE
    /\ selected = TRUE
    /\ pods = [p \in Pods |->
                [phase |-> "started", ready |-> TRUE, revision |-> 1, age |-> Delay]]
    /\ status = [updateRevision |-> 1, replicas |-> Cardinality(Pods),
                 ready |-> Cardinality(Pods), updated |-> Cardinality(Pods)]
    /\ lag = 0
    /\ pending = TRUE
    /\ pc = "idle"
    /\ seen = NoPass
    /\ victim = NoPod
    /\ timer = -1
    /\ down = {}
    /\ sinceDelete = Delay
    /\ slipped = FALSE
    /\ edits = 0 /\ relabels = 0 /\ restarts = 0 /\ losses = 0 /\ failures = 0

----------------------------------------------------------------------------
(* The cluster *)

\* A change of the VarnishCluster that needs new pods.
NewRevision ==
    /\ revision < MaxRevision
    /\ revision' = revision + 1
    /\ pending' = TRUE
    /\ UNCHANGED <<delayed, selected, pods, status, lag, passVars, timer, historyVars, boundVars>>

EditStrategy ==
    /\ edits < MaxEdits
    /\ edits' = edits + 1
    /\ delayed' = ~delayed
    /\ pending' = TRUE
    /\ slipped' = TRUE
    /\ UNCHANGED <<revision, selected, pods, status, lag, passVars, timer, down, sinceDelete,
                   relabels, restarts, losses, failures>>

\* A label is added to the VarnishCluster, or taken away again: the template of the
\* pods keeps the labels it was created with.
EditLabels ==
    /\ relabels < MaxRelabels
    /\ relabels' = relabels + 1
    /\ selected' = ~selected
    /\ pending' = TRUE
    /\ UNCHANGED <<revision, delayed, pods, status, lag, passVars, timer, historyVars,
                   edits, restarts, losses, failures>>

\* Another event of the cluster, or a later call of a pass that failed, queues a request.
OtherRequest ==
    /\ ~pending
    /\ pending' = TRUE
    /\ UNCHANGED <<clusterVars, passVars, timer, historyVars, boundVars>>

\* The pod watch queues a request for every change of a pod.
PodChanges(p, pod) ==
    /\ pods' = [pods EXCEPT ![p] = pod]
    /\ pending' = TRUE
    /\ UNCHANGED <<revision, delayed, selected, status, lag, passVars, timer, sinceDelete,
                   slipped, boundVars>>

\* The StatefulSet controller recreates a pod ...
CreatePod(p) ==
    /\ pods[p].phase = "absent"
    /\ PodChanges(p, [phase |-> "created", ready |-> FALSE, revision |-> revision, age |-> 0])
    /\ UNCHANGED down

\* ... a kubelet acknowledges it, which sets its StartTime ...
StartPod(p) ==
    /\ pods[p].phase = "created"
    /\ PodChanges(p, [pods[p] EXCEPT !.phase = "started"])
    /\ UNCHANGED down

\* ... it becomes ready ...
PodReady(p) ==
    /\ pods[p].phase = "started"
    /\ ~pods[p].ready
    /\ PodChanges(p, [pods[p] EXCEPT !.ready = TRUE])
    /\ down' = down \ {p}

\* ... and a deleted one is gone at last.
EndPod(p) ==
    /\ pods[p].phase = "ending"
    /\ PodChanges(p, [pods[p] EXCEPT !.phase = "absent", !.ready = FALSE])
    /\ UNCHANGED down

\* The StatefulSet controller updates the status, after it has recreated every pod
\* that is missing (the pod management policy is Parallel).
SyncStatus ==
    /\ Existing = Pods
    /\ status # CurrentStatus
    /\ status' = CurrentStatus
    /\ lag' = 0
    /\ pending' = TRUE
    /\ UNCHANGED <<revision, delayed, selected, pods, passVars, timer, historyVars, boundVars>>

Tick ==
    /\ status # CurrentStatus => lag < MaxLag
    /\ \A p \in Pods : pods[p].phase = "ending" => pods[p].age < MaxEnding
    /\ pc # "idle" => SlowPasses
    /\ pods' = [p \in Pods |->
                 CASE pods[p].phase = "started" -> [pods[p] EXCEPT !.age = Plus(@)]
                   [] pods[p].phase = "ending" -> [pods[p] EXCEPT !.age = @ + 1]
                   [] OTHER -> pods[p]]
    /\ lag' = IF status # CurrentStatus THEN lag + 1 ELSE 0
    /\ timer' = IF timer > 0 THEN timer - 1 ELSE timer
    /\ sinceDelete' = Plus(sinceDelete)
    /\ UNCHANGED <<revision, delayed, selected, status, pending, passVars, down, slipped,
                   boundVars>>

TimerFires ==
    /\ timer = 0
    /\ timer' = -1
    /\ pending' = TRUE
    /\ UNCHANGED <<clusterVars, passVars, historyVars, boundVars>>

----------------------------------------------------------------------------
(* One pass of reconcileDelayedRollingUpdate *)

Done == pc' = "idle" /\ seen' = NoPass /\ victim' = NoPod

\* The pass works with the instance and the StatefulSet read at its start.
Start ==
    /\ pc = "idle"
    /\ pending
    /\ pending' = FALSE
    /\ seen' = [delayed |-> delayed, selected |-> selected, status |-> status]
    /\ pc' = "update"
    /\ UNCHANGED <<clusterVars, victim, timer, historyVars, boundVars>>

\* Another strategy: no timer may be left.
StopTimer ==
    /\ pc = "update"
    /\ ~seen.delayed
    /\ timer' = -1
    /\ Done
    /\ UNCHANGED <<clusterVars, pending, historyVars, boundVars>>

\* Variant of TimerExists: only the status is looked at.
TimerExistsIgnored == FALSE

TimerExists == timer # -1

\* Variant of allReady: "even if the delay time elapsed" is forgotten.
allReadyIgnored == TRUE

\* sts.Status.ReadyReplicas >= sts.Status.Replicas
allReady == seen.status.ready >= seen.status.replicas

\* The checks before a pod is looked for.
MayUpdate ==
    /\ pc = "update"
    /\ seen.delayed
    /\ seen.status.updated # seen.status.replicas
    /\ Listed # {}
    /\ ~TimerExists
    /\ allReady

\* The pass reads the StartTime of a pod that has none: a nil pointer.
ReadsNoStartTime ==
    /\ \E p \in Updated : pods[p].phase = "created"
    /\ Outdated # {} \/ Cardinality(Updated) > 1

NothingToDo ==
    /\ pc = "update"
    /\ seen.delayed
    /\ ~MayUpdate \/ (Outdated = {} /\ ~ReadsNoStartTime)
    /\ Done
    /\ UNCHANGED <<clusterVars, pending, timer, historyVars, boundVars>>

\* Variant of waited: the delay is not compared.
waitedNot == TRUE

\* The newest updated pod started at least Delay ago.
waited == \A p \in Updated : pods[p].age >= Delay

\* The pods that may be the update candidate, or Items[0] while all are outdated:
\* the cache lists pods in no order.
candidates == Outdated

\* It is time: the first pod of the revision, or the delay is over.
ChoosePod ==
    /\ MayUpdate
    /\ ~ReadsNoStartTime
    /\ waited
    /\ \E p \in candidates : victim' = p
    /\ pc' = "delete"
    /\ UNCHANGED <<clusterVars, pending, seen, timer, historyVars, boundVars>>

\* Variants of remaining: swapped operands; no timer at all.
remainingSwapped(p) == pods[p].age - Delay
remainingNone(p) == -1

\* time.Until(nextUpdateTime)
remaining(p) == Delay - pods[p].age

\* It is not: the timer is set for the rest of the delay.
WaitLonger ==
    /\ MayUpdate
    /\ Outdated # {}
    /\ ~ReadsNoStartTime
    /\ ~waited
    /\ \E p \in Updated :
        /\ \A q \in Updated : pods[p].age <= pods[q].age
        /\ timer' = remaining(p)
    /\ Done
    /\ UNCHANGED <<clusterVars, pending, historyVars, boundVars>>

\* A pod that is deleted terminates, or goes at once if no kubelet has it; deleting
\* one that is being deleted changes nothing.
Deletion ==
    /\ pc = "delete"
    /\ victim \in Existing
    /\ pods' = [pods EXCEPT ![victim] =
                 CASE @.phase = "created" -> [@ EXCEPT !.phase = "absent"]
                   [] @.phase = "started" -> [@ EXCEPT !.phase = "ending", !.age = 0]
                   [] OTHER -> @]
    /\ down' = down \cup {victim}
    /\ sinceDelete' = 0
    /\ pending' = TRUE
    /\ UNCHANGED <<revision, delayed, selected, status, lag, timer,
                   edits, relabels, restarts, failures>>

DeletePod ==
    /\ Deletion
    /\ pc' = "arm"
    /\ slipped' = FALSE
    /\ UNCHANGED <<seen, victim, losses>>

\* The pod is deleted, but r.Delete returns an error, a timeout say: the pass ends
\* before it has set the timer, and is retried.
DeletionLost ==
    /\ losses < MaxLosses
    /\ Deletion
    /\ Done
    /\ slipped' = TRUE
    /\ losses' = losses + 1

\* The pod has gone meanwhile: the pass fails and is retried.
PodGone ==
    /\ pc = "delete"
    /\ victim \notin Existing
    /\ pending' = TRUE
    /\ Done
    /\ UNCHANGED <<clusterVars, timer, historyVars, boundVars>>

\* An earlier call of the pass, r.List or r.Delete fails without effect.
CallFails ==
    /\ pc \in {"update", "delete"}
    /\ failures < MaxFailures
    /\ failures' = failures + 1
    /\ pending' = TRUE
    /\ Done
    /\ UNCHANGED <<clusterVars, timer, historyVars, edits, relabels, restarts, losses>>

Arm ==
    /\ pc = "arm"
    /\ timer' = Delay
    /\ Done
    /\ UNCHANGED <<clusterVars, pending, historyVars, boundVars>>

\* A new process has no timer and reconciles everything.
NewProcess ==
    /\ timer' = -1
    /\ pending' = TRUE
    /\ Done
    /\ UNCHANGED <<clusterVars, down, sinceDelete>>

Panic ==
    /\ MayUpdate
    /\ ReadsNoStartTime
    /\ NewProcess
    /\ UNCHANGED <<slipped, boundVars>>

Restart ==
    /\ restarts < MaxRestarts
    /\ restarts' = restarts + 1
    /\ NewProcess
    /\ slipped' = TRUE
    /\ UNCHANGED <<edits, relabels, losses, failures>>

----------------------------------------------------------------------------

Operator ==
    \/ Start \/ StopTimer \/ NothingToDo \/ ChoosePod \/ WaitLonger
    \/ DeletePod \/ PodGone \/ Arm \/ Panic

PodStep(p) == CreatePod(p) \/ StartPod(p) \/ PodReady(p) \/ EndPod(p)

Next ==
    \/ Operator
    \/ \E p \in Pods : PodStep(p)
    \/ SyncStatus
    \/ Tick
    \/ TimerFires
    \/ NewRevision
    \/ EditStrategy
    \/ EditLabels
    \/ OtherRequest
    \/ DeletionLost
    \/ CallFails
    \/ Restart

Spec == Init /\ [][Next]_vars

\* The operator, the StatefulSet controller, the kubelets, the timer and the clock
\* go on.  Nothing makes users act, calls fail or the operator restart.
Fairness ==
    /\ WF_vars(Operator)
    /\ \A p \in Pods : WF_vars(PodStep(p))
    /\ WF_vars(SyncStatus)
    /\ WF_vars(Tick)
    /\ WF_vars(TimerFires)

FairSpec == Spec /\ Fairness

----------------------------------------------------------------------------
(* Properties *)

Statuses == [updateRevision : 1 .. MaxRevision, replicas : 0 .. Cardinality(Pods),
             ready : 0 .. Cardinality(Pods), updated : 0 .. Cardinality(Pods)]

\* Type invariant: the values every variable takes.
TypeOK ==
    /\ revision \in Nat
    /\ delayed \in BOOLEAN /\ selected \in BOOLEAN
    /\ pods \in [Pods -> [phase : {"absent", "created", "started", "ending"},
                          ready : BOOLEAN, revision : 1 .. revision, age : Nat]]
    /\ status \in Statuses
    /\ lag \in 0 .. MaxLag
    /\ pending \in BOOLEAN
    /\ pc \in {"idle", "update", "delete", "arm"}
    /\ seen \in [delayed : BOOLEAN, selected : BOOLEAN, status : Statuses]
    /\ victim \in Pods \cup {NoPod}
    /\ timer \in -1 .. Delay
    /\ down \subseteq Pods
    /\ sinceDelete \in 0 .. Delay
    /\ slipped \in BOOLEAN
    /\ edits \in Nat /\ relabels \in Nat /\ restarts \in Nat /\ losses \in Nat /\ failures \in Nat

\* "The operator respects Pods readiness and does not reload the next pod until all
\* pods are ready, even if the delay time elapsed" (docs/varnish-cluster.md:81): of
\* the pods the operator deleted at most one is not ready yet.
OneDownAtATime == Cardinality(down) <= 1

\* The step deletes pod p, whatever the answer.
Deletes(p) == Deletion /\ victim = p

\* "a pause between pod updates" (docs/varnish-cluster.md:77): a pod is never deleted
\* within the delay after the one before it, however late the status is, however slow
\* the passes are and whichever calls fail without effect, unless that deletion was
\* answered with an error, or the strategy was changed or the operator restarted since.
PauseBetweenUpdates ==
    [][~slipped /\ (\E p \in Pods : Deletes(p)) => sinceDelete >= Delay]_vars

\* "wait for a recently updated Varnish node to warm up before an another one
\* reloads" (docs/varnish-cluster.md:77): when a pod is deleted, every pod of the
\* revision being rolled out has been running for the delay.
WarmUp ==
    [][\A p \in Pods : Deletes(p) =>
        \A q \in Existing : pods[q].revision = revision => pods[q].age >= Delay]_vars

\* A rolling update reaches every pod, and all of them are ready in the end, however
\* late the status is and whichever calls fail, if in the end the strategy is
\* DelayedRollingUpdate and the VarnishCluster's labels select the pods.
RolloutCompletes ==
    <>[](delayed /\ selected) =>
        <>[](\A p \in Pods : pods[p].revision = revision /\ pods[p].ready)
=============================================================================
