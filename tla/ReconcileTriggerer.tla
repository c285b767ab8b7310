------------------------- MODULE ReconcileTriggerer -------------------------
(***************************************************************************)
(* The timers that pace a delayed rolling update, inside the operator:     *)
(* pkg/varnishcluster/reconcile/reconcile_triggerer.go, with the calls     *)
(* reconcileDelayedRollingUpdate makes.                                    *)
(*                                                                         *)
(* Three kinds of process share the timetable: the one worker that         *)
(* reconciles VarnishClusters, a goroutine for every timer that went off,  *)
(* and the runtime that fires timers.  A mutex guards the timetable, which *)
(* Stop reads without taking it.                                           *)
(***************************************************************************)
EXTENDS Naturals, FiniteSets

CONSTANTS
    Clusters,         \* the VarnishClusters
    Timers,           \* the timers that may exist at a time
    None,             \* no timer, no cluster
    Delays,           \* subset of {"now", "later"}: how long timers may run
    PromptCallbacks,  \* a timer that went off gets the mutex within the pass under way
    Pods,             \* pods a new revision has to reach
    MaxEdits,         \* bound: changes of the update strategy, new revisions
    MaxPostponed,     \* bound: passes that come too early for the next pod
    MaxFaults         \* bound: restarts of the operator

ASSUME TimersAssumption ==
    /\ None \notin Clusters \cup Timers
    /\ Delays \subseteq {"now", "later"}
    /\ PromptCallbacks \in BOOLEAN
ASSUME BoundsAssumption ==
    Pods \in Nat /\ MaxEdits \in Nat /\ MaxPostponed \in Nat /\ MaxFaults \in Nat

VARIABLES
    delayed,     \* cluster -> its update strategy is DelayedRollingUpdate
    outdated,    \* cluster -> pods that still have the old revision
    ready,       \* cluster -> every pod is ready
    queue,       \* the clusters the work queue holds
    timetable,   \* cluster -> the timer q.timetable has for it, or None
    timer,       \* timer -> [state, cluster, delay]
    pc,          \* where the worker is
    cur,         \* the cluster it reconciles
    tmr,         \* the timer it has in hand
    postponed, edits, faults    \* bounds

clusterVars == <<delayed, outdated, ready>>
workerVars == <<pc, cur, tmr>>
boundVars == <<postponed, edits, faults>>
vars == <<clusterVars, queue, timetable, timer, workerVars, boundVars>>

----------------------------------------------------------------------------

Free == [state |-> "free", cluster |-> None, delay |-> "later"]

\* The goroutine of a timer that went off holds the mutex while it deletes.
Deleting == {t \in Timers : timer[t].state = "deleting"}
Unlocked == Deleting = {}

Init ==
    /\ delayed \in [Clusters -> BOOLEAN]
    /\ outdated = [c \in Clusters |-> Pods]
    /\ ready = [c \in Clusters |-> TRUE]
    /\ queue = Clusters
    /\ timetable = [c \in Clusters |-> None]
    /\ timer = [t \in Timers |-> Free]
    /\ pc = "idle"
    /\ cur = None
    /\ tmr = None
    /\ postponed = 0
    /\ edits = 0
    /\ faults = 0

----------------------------------------------------------------------------
(* The cluster *)

\* The user changes the update strategy of c, or its pods get a new revision.
EditCluster(c) ==
    /\ edits < MaxEdits
    /\ \/ delayed' = [delayed EXCEPT ![c] = ~@] /\ UNCHANGED outdated
       \/ outdated' = [outdated EXCEPT ![c] = Pods] /\ UNCHANGED delayed
    /\ edits' = edits + 1
    /\ queue' = queue \cup {c}
    /\ UNCHANGED <<ready, timetable, timer, workerVars, postponed, faults>>

\* The pod that was deleted is back, with the new revision.
PodBecomesReady(c) ==
    /\ ~ready[c]
    /\ ready' = [ready EXCEPT ![c] = TRUE]
    /\ queue' = queue \cup {c}
    /\ UNCHANGED <<delayed, outdated, timetable, timer, workerVars, boundVars>>

\* Anything else that happens to c or to what it owns.
ClusterEvent(c) ==
    /\ c \notin queue
    /\ queue' = queue \cup {c}
    /\ UNCHANGED <<clusterVars, timetable, timer, workerVars, boundVars>>

----------------------------------------------------------------------------
(* The goroutine of a timer *)

\* The duration is over.  One that is not yet over when the timer is created does
\* not end before the worker has put the timer in the timetable.
Fire(t) ==
    /\ timer[t].state = "armed"
    /\ timer[t].delay = "later" => ~(pc = "insert" /\ tmr = t)
    /\ timer' = [timer EXCEPT ![t].state = "fired"]
    /\ UNCHANGED <<clusterVars, queue, timetable, workerVars, boundVars>>

\* q.Lock()
CallbackLocks(t) ==
    /\ timer[t].state = "fired"
    /\ Unlocked
    /\ timer' = [timer EXCEPT ![t].state = "deleting"]
    /\ UNCHANGED <<clusterVars, queue, timetable, workerVars, boundVars>>

\* Variant of callbackEntry: the callback leaves its entry in the timetable.
callbackEntryKept(t) == timetable[timer[t].cluster]

\* What the callback leaves in the timetable for its cluster.
callbackEntry(t) == None

\* delete(q.timetable, namespacedName), q.Unlock()
CallbackDeletes(t) ==
    /\ timer[t].state = "deleting"
    /\ timetable' = [timetable EXCEPT ![timer[t].cluster] = callbackEntry(t)]
    /\ timer' = [timer EXCEPT ![t].state = "sending"]
    /\ UNCHANGED <<clusterVars, queue, workerVars, boundVars>>

\* Variant of CallbackSends: the goroutine ends without sending.
CallbackForgetsToSend(t) ==
    /\ timer[t].state = "sending"
    /\ timer' = [timer EXCEPT ![t] = Free]
    /\ UNCHANGED <<clusterVars, queue, timetable, workerVars, boundVars>>

\* q.reconcileChan <- event: the controller queues a request for the cluster.
CallbackSends(t) ==
    /\ timer[t].state = "sending"
    /\ queue' = queue \cup {timer[t].cluster}
    /\ timer' = [timer EXCEPT ![t] = Free]
    /\ UNCHANGED <<clusterVars, timetable, workerVars, boundVars>>

----------------------------------------------------------------------------
(* The worker *)

Done == pc' = "idle" /\ cur' = None /\ tmr' = None

\* sts.Status.UpdatedReplicas # sts.Status.Replicas
needsUpdate(c) == outdated[c] > 0

\* A pass takes c from the queue; it calls Stop, nothing or TimerExists.
Start(c) ==
    /\ pc = "idle"
    /\ PromptCallbacks => \A t \in Timers : timer[t].state # "fired"
    /\ c \in queue
    /\ queue' = queue \ {c}
    /\ IF delayed[c] /\ ~needsUpdate(c)
       THEN UNCHANGED workerVars
       ELSE /\ pc' = IF delayed[c] THEN "check" ELSE "stop"
            /\ cur' = c
            /\ UNCHANGED tmr
    /\ UNCHANGED <<clusterVars, timetable, timer, boundVars>>

\* Stop reads the timetable without the mutex.  While a callback writes it, the
\* read sees the map before or after the write, or the runtime ends the process.
StopReads ==
    /\ pc = "stop"
    /\ \E seen \in {timetable[cur]} \cup
                   IF \E t \in Deleting : timer[t].cluster = cur THEN {None} ELSE {} :
        IF seen = None THEN Done
        ELSE pc' = "stopTimer" /\ tmr' = seen /\ UNCHANGED cur
    /\ UNCHANGED <<clusterVars, queue, timetable, timer, boundVars>>

\* Variant of stopped: the timer is left running.
stoppedNot(t) == timer[t]

\* timer.Stop(): it has no effect on a timer that went off.
stopped(t) == IF timer[t].state = "armed" THEN Free ELSE timer[t]

StopStopsTimer ==
    /\ pc = "stopTimer"
    /\ timer' = [timer EXCEPT ![tmr] = stopped(tmr)]
    /\ pc' = "stopDelete"
    /\ UNCHANGED <<clusterVars, queue, timetable, cur, tmr, boundVars>>

\* q.Lock(), delete(q.timetable, namespacedName), q.Unlock()
StopDeletes ==
    /\ pc = "stopDelete"
    /\ Unlocked
    /\ timetable' = [timetable EXCEPT ![cur] = None]
    /\ Done
    /\ UNCHANGED <<clusterVars, queue, timer, boundVars>>

TimerExists(c) == timetable[c] # None

\* An existing timer, or a pod that is not ready, ends the pass.
CheckTimer ==
    /\ pc = "check"
    /\ Unlocked
    /\ IF TimerExists(cur) \/ ~ready[cur] THEN Done
       ELSE pc' = "update" /\ UNCHANGED <<cur, tmr>>
    /\ UNCHANGED <<clusterVars, queue, timetable, timer, boundVars>>

\* It is time for the next pod: it is deleted.
DeletePod ==
    /\ pc = "update"
    /\ outdated' = [outdated EXCEPT ![cur] = @ - 1]
    /\ ready' = [ready EXCEPT ![cur] = FALSE]
    /\ pc' = "arm"
    /\ UNCHANGED <<delayed, queue, timetable, timer, cur, tmr, boundVars>>

\* It is not time yet.
Postpone ==
    /\ pc = "update"
    /\ postponed < MaxPostponed
    /\ postponed' = postponed + 1
    /\ pc' = "arm"
    /\ UNCHANGED <<clusterVars, queue, timetable, timer, cur, tmr, edits, faults>>

\* TriggerAfter starts the timer with time.AfterFunc ...
Arm ==
    /\ pc = "arm"
    /\ \E t \in Timers, d \in Delays :
        /\ timer[t] = Free
        /\ \A c \in Clusters : timetable[c] # t
        /\ timer' = [timer EXCEPT ![t] = [state |-> "armed", cluster |-> cur, delay |-> d]]
        /\ tmr' = t
    /\ pc' = "insert"
    /\ UNCHANGED <<clusterVars, queue, timetable, cur, boundVars>>

\* ... and then puts it in the timetable, stopping the one it replaces.
Insert ==
    /\ pc = "insert"
    /\ Unlocked
    /\ timer' = [t \in Timers |-> IF t = timetable[cur] THEN stopped(t) ELSE timer[t]]
    /\ timetable' = [timetable EXCEPT ![cur] = tmr]
    /\ Done
    /\ UNCHANGED <<clusterVars, queue, boundVars>>

----------------------------------------------------------------------------
(* The operator's process *)

\* A new process: no timers, and the initial list queues every cluster.
NewProcess ==
    /\ queue' = Clusters
    /\ timetable' = [c \in Clusters |-> None]
    /\ timer' = [t \in Timers |-> Free]
    /\ Done

\* "fatal error: concurrent map read and map write"
RaceKills ==
    /\ pc = "stop"
    /\ ~Unlocked
    /\ NewProcess
    /\ UNCHANGED <<clusterVars, boundVars>>

\* The operator is restarted.
Restart ==
    /\ faults < MaxFaults
    /\ faults' = faults + 1
    /\ NewProcess
    /\ UNCHANGED <<clusterVars, postponed, edits>>

----------------------------------------------------------------------------

Callback(t) == Fire(t) \/ CallbackLocks(t) \/ CallbackDeletes(t) \/ CallbackSends(t)

Worker ==
    \/ StopReads \/ StopStopsTimer \/ StopDeletes
    \/ CheckTimer \/ DeletePod \/ Postpone \/ Arm \/ Insert

Next ==
    \/ \E c \in Clusters :
        EditCluster(c) \/ PodBecomesReady(c) \/ ClusterEvent(c) \/ Start(c)
    \/ \E t \in Timers : Callback(t)
    \/ Worker
    \/ RaceKills
    \/ Restart

Spec == Init /\ [][Next]_vars

\* Timers go off, goroutines run, the worker finishes its passes and takes the
\* clusters in turn (the work queue is a FIFO); pods become ready.  Nothing makes
\* users act or other events happen.
Fairness ==
    /\ WF_vars(Worker)
    /\ \A c \in Clusters : SF_vars(Start(c)) /\ WF_vars(PodBecomesReady(c))
    /\ \A t \in Timers : WF_vars(Fire(t)) /\ SF_vars(CallbackLocks(t))
                         /\ WF_vars(CallbackDeletes(t)) /\ WF_vars(CallbackSends(t))

FairSpec == Spec /\ Fairness

----------------------------------------------------------------------------
(* Properties *)

\* Type invariant: the values every variable takes.
TypeOK ==
    /\ delayed \in [Clusters -> BOOLEAN]
    /\ outdated \in [Clusters -> 0 .. Pods]
    /\ ready \in [Clusters -> BOOLEAN]
    /\ queue \subseteq Clusters
    /\ timetable \in [Clusters -> Timers \cup {None}]
    /\ timer \in [Timers -> [state : {"free", "armed", "fired", "deleting", "sending"},
                            cluster : Clusters \cup {None},
                            delay : Delays \cup {"later"}]]
    /\ pc \in {"idle", "stop", "stopTimer", "stopDelete", "check", "update", "arm", "insert"}
    /\ cur \in Clusters \cup {None}
    /\ tmr \in Timers \cup {None}
    /\ postponed \in 0 .. MaxPostponed /\ edits \in 0 .. MaxEdits /\ faults \in 0 .. MaxFaults

\* "an already existing timer means that we have already reloaded a pod and should
\* wait for the timer to trigger the reconcile loop"
\* (varnishcluster_delayed_rollingupdate.go:47): a timer that TimerExists finds is
\* one that is still going to trigger it, unless Stop is about to delete it.
ExistingTimerFires ==
    \A c \in Clusters :
        timetable[c] # None /\ ~(pc = "stopDelete" /\ cur = c) =>
            /\ timer[timetable[c]].cluster = c
            /\ timer[timetable[c]].state \in {"armed", "fired", "deleting"}

\* "make sure there're no hanging timers" (varnishcluster_delayed_rollingupdate.go:22):
\* once a cluster whose strategy is another one has been reconciled, no timer of it
\* is running, whatever the goroutine of an earlier timer did meanwhile.
NoHangingTimers ==
    \A c \in Clusters :
        ~delayed[c] /\ c \notin queue /\ cur # c =>
            \A t \in Timers : timer[t].cluster = c => timer[t].state # "armed"

\* A rolling update that is left alone reaches every pod: whenever a pass ends
\* without deleting a pod, a timer or the readiness of a pod starts another one.
RolloutCompletes ==
    \A c \in Clusters : <>[](delayed[c] => outdated[c] = 0)

----------------------------------------------------------------------------
(* What the safety properties rest on *)

Stopping == {"stop", "stopTimer", "stopDelete"}
Updating == {"update", "arm", "insert"}

Entry(t) == timetable[timer[t].cluster] = t

\* The worker has a cluster and, between reading and using it, a timer.
WorkerInv ==
    /\ pc # "idle" => cur \in Clusters
    /\ pc \in {"check", "update"} => needsUpdate(cur)
    /\ pc \in Updating => timetable[cur] = None
    /\ pc \in {"stopTimer", "stopDelete", "insert"} => tmr \in Timers
    /\ pc = "insert" => timer[tmr].state = "armed" /\ timer[tmr].cluster = cur
    /\ pc = "stopTimer" => timer[tmr] = Free \/ timer[tmr].cluster = cur
    /\ pc = "stopDelete" => timer[tmr].state # "armed"
    /\ pc \in {"stopTimer", "stopDelete"} => timetable[cur] \in {tmr, None}

\* A timer that runs has its entry, or is about to get it.  One that went off has it,
\* or has been stopped too late, and then nothing else has it.
TimerInv ==
    \A t \in Timers :
        /\ timer[t].state # "free" => timer[t].cluster \in Clusters
        /\ timer[t].state = "armed" =>
            Entry(t) \/ (pc = "insert" /\ tmr = t)
        /\ timer[t].state \in {"fired", "deleting"} =>
            Entry(t) \/ timetable[timer[t].cluster] = None
        /\ timer[t].state = "fired" => Entry(t) \/ pc = "idle"
        /\ timer[t].state = "deleting" => Entry(t) \/ pc \notin Updating

\* A cluster with another strategy that still has a timer is going to be reconciled,
\* or a goroutine is deleting its timer.
StrategyInv ==
    \A c \in Clusters :
        ~delayed[c] /\ c \notin queue =>
            /\ timetable[c] # None =>
                \/ cur = c /\ pc \in Stopping
                \/ timer[timetable[c]].state = "deleting"
            /\ cur = c => pc \in Stopping

IInv == TypeOK /\ WorkerInv /\ TimerInv /\ StrategyInv /\ ExistingTimerFires
=============================================================================
