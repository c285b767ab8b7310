---------------------- MODULE ReconcileTriggererProofs ----------------------
(***************************************************************************)
(* Proofs about ReconcileTriggerer, for every set of clusters and timers   *)
(* and for every bound, when timers take a while and the goroutine of one  *)
(* that went off gets the mutex within the pass under way.                 *)
(***************************************************************************)
EXTENDS ReconcileTriggerer, TLAPS

\* The two assumptions on time.
Paced == Delays = {"later"} /\ PromptCallbacks

----------------------------------------------------------------------------
(* Every step preserves each part of the invariant *)

\* Every step keeps the variables in their types; the pass that deletes a pod has seen
\* an outdated one.
LEMMA TypeOKStep ==
    ASSUME Paced, TypeOK, WorkerInv, TimerInv, [Next]_vars
    PROVE  TypeOK'
<1>1. ASSUME NEW c \in Clusters, EditCluster(c) PROVE TypeOK'
  <2>1. delayed' \in [Clusters -> BOOLEAN]
    <3>1. CASE delayed' = [delayed EXCEPT ![c] = ~@]
      BY <3>1 DEF TypeOK
    <3> QED
      BY <1>1, <3>1 DEF EditCluster, TypeOK
  <2>2. outdated' \in [Clusters -> 0 .. Pods]
    BY <1>1, BoundsAssumption DEF EditCluster, TypeOK
  <2>3. edits' \in 0 .. MaxEdits
    BY <1>1, BoundsAssumption DEF EditCluster, TypeOK
  <2> QED
    BY <1>1, <2>1, <2>2, <2>3 DEF EditCluster, TypeOK, workerVars
<1>2. ASSUME NEW c \in Clusters, PodBecomesReady(c) PROVE TypeOK'
  BY <1>2 DEF PodBecomesReady, TypeOK, workerVars, boundVars
<1>3. ASSUME NEW c \in Clusters, ClusterEvent(c) PROVE TypeOK'
  BY <1>3 DEF ClusterEvent, TypeOK, clusterVars, workerVars, boundVars
<1>4. ASSUME NEW c \in Clusters, Start(c) PROVE TypeOK'
  BY <1>4 DEF Start, TypeOK, clusterVars, workerVars, boundVars
<1>5. ASSUME NEW t \in Timers, Fire(t) PROVE TypeOK'
  BY <1>5 DEF Fire, TypeOK, clusterVars, workerVars, boundVars
<1>6. ASSUME NEW t \in Timers, CallbackLocks(t) PROVE TypeOK'
  BY <1>6 DEF CallbackLocks, TypeOK, clusterVars, workerVars, boundVars
<1>7. ASSUME NEW t \in Timers, CallbackDeletes(t) PROVE TypeOK'
  BY <1>7 DEF CallbackDeletes, callbackEntry, TypeOK, TimerInv, clusterVars,
     workerVars, boundVars
<1>8. ASSUME NEW t \in Timers, CallbackSends(t) PROVE TypeOK'
  BY <1>8 DEF CallbackSends, Free, TypeOK, TimerInv, clusterVars, workerVars, boundVars
<1>9. CASE StopReads
  BY <1>9 DEF StopReads, Done, TypeOK, WorkerInv, clusterVars, boundVars
<1>10. CASE StopStopsTimer
  BY <1>10 DEF StopStopsTimer, stopped, Free, TypeOK, clusterVars, boundVars
<1>11. CASE StopDeletes
  BY <1>11 DEF StopDeletes, Done, TypeOK, clusterVars, boundVars
<1>12. CASE CheckTimer
  BY <1>12 DEF CheckTimer, Done, TypeOK, clusterVars, boundVars
<1>13. CASE DeletePod
  BY <1>13, BoundsAssumption DEF DeletePod, TypeOK, WorkerInv, needsUpdate, boundVars
<1>14. CASE Postpone
  BY <1>14, BoundsAssumption DEF Postpone, TypeOK, clusterVars
<1>15. CASE Arm
  BY <1>15 DEF Arm, TypeOK, clusterVars, boundVars
<1>16. CASE Insert
  BY <1>16 DEF Insert, Done, stopped, Free, TypeOK, clusterVars, boundVars
<1>17. CASE RaceKills
  BY <1>17 DEF RaceKills, NewProcess, Done, Free, TypeOK, clusterVars, boundVars
<1>18. CASE Restart
  BY <1>18, BoundsAssumption DEF Restart, NewProcess, Done, Free, TypeOK, clusterVars
<1>19. CASE UNCHANGED vars
  BY <1>19 DEF vars, TypeOK, clusterVars, workerVars, boundVars
<1> QED
  BY <1>1, <1>2, <1>3, <1>4, <1>5, <1>6, <1>7, <1>8, <1>9, <1>10, <1>11, <1>12, <1>13,
     <1>14, <1>15, <1>16, <1>17, <1>18, <1>19 DEF Next, Callback, Worker

\* What the worker has read stays true until it uses it.
LEMMA WorkerInvStep ==
    ASSUME Paced, TypeOK, WorkerInv, TimerInv, ExistingTimerFires, [Next]_vars
    PROVE  WorkerInv'
<1>1. ASSUME NEW c \in Clusters, EditCluster(c) PROVE WorkerInv'
  BY <1>1, BoundsAssumption DEF EditCluster, TypeOK, WorkerInv, needsUpdate, workerVars
<1>2. ASSUME NEW c \in Clusters, PodBecomesReady(c) PROVE WorkerInv'
  BY <1>2 DEF PodBecomesReady, WorkerInv, needsUpdate, workerVars
<1>3. ASSUME NEW c \in Clusters, ClusterEvent(c) PROVE WorkerInv'
  BY <1>3 DEF ClusterEvent, WorkerInv, needsUpdate, clusterVars, workerVars
<1>4. ASSUME NEW c \in Clusters, Start(c) PROVE WorkerInv'
  BY <1>4 DEF Start, needsUpdate, WorkerInv, Updating, clusterVars, workerVars
<1>5. ASSUME NEW t \in Timers, Fire(t) PROVE WorkerInv'
  BY <1>5 DEF Fire, TypeOK, WorkerInv, needsUpdate, Free, Paced, clusterVars, workerVars
<1>6. ASSUME NEW t \in Timers, CallbackLocks(t) PROVE WorkerInv'
  BY <1>6 DEF CallbackLocks, WorkerInv, needsUpdate, Free, clusterVars, workerVars
<1>7. ASSUME NEW t \in Timers, CallbackDeletes(t) PROVE WorkerInv'
  BY <1>7 DEF CallbackDeletes, callbackEntry, WorkerInv, needsUpdate, Free,
     clusterVars, workerVars
<1>8. ASSUME NEW t \in Timers, CallbackSends(t) PROVE WorkerInv'
  BY <1>8 DEF CallbackSends, Free, WorkerInv, needsUpdate, clusterVars, workerVars
<1>9. CASE StopReads
  BY <1>9 DEF StopReads, Done, TypeOK, WorkerInv, ExistingTimerFires, Updating
<1>10. CASE StopStopsTimer
  BY <1>10 DEF StopStopsTimer, stopped, Free, TypeOK, WorkerInv, Updating
<1>11. CASE StopDeletes
  BY <1>11 DEF StopDeletes, Done, WorkerInv, Updating
<1>12. CASE CheckTimer
  BY <1>12 DEF CheckTimer, TimerExists, Done, WorkerInv, Updating, needsUpdate,
     clusterVars
<1>13. CASE DeletePod
  BY <1>13 DEF DeletePod, WorkerInv, Updating
<1>14. CASE Postpone
  BY <1>14 DEF Postpone, WorkerInv, Updating
<1>15. CASE Arm
  BY <1>15 DEF Arm, TypeOK, WorkerInv, Updating
<1>16. CASE Insert
  BY <1>16 DEF Insert, Done, WorkerInv, Updating
<1>17. CASE RaceKills
  BY <1>17 DEF RaceKills, NewProcess, Done, WorkerInv, Updating
<1>18. CASE Restart
  BY <1>18 DEF Restart, NewProcess, Done, WorkerInv, Updating
<1>19. CASE UNCHANGED vars
  BY <1>19 DEF vars, WorkerInv, needsUpdate, clusterVars, workerVars
<1> QED
  BY <1>1, <1>2, <1>3, <1>4, <1>5, <1>6, <1>7, <1>8, <1>9, <1>10, <1>11, <1>12, <1>13,
     <1>14, <1>15, <1>16, <1>17, <1>18, <1>19 DEF Next, Callback, Worker

\* Timers and the timetable stay in step, whichever goroutine comes first.
LEMMA TimerInvStep ==
    ASSUME Paced, TypeOK, WorkerInv, TimerInv, ExistingTimerFires, [Next]_vars
    PROVE  TimerInv'
<1>1. ASSUME NEW c \in Clusters, EditCluster(c) PROVE TimerInv'
  BY <1>1 DEF EditCluster, TimerInv, Entry, workerVars
<1>2. ASSUME NEW c \in Clusters, PodBecomesReady(c) PROVE TimerInv'
  BY <1>2 DEF PodBecomesReady, TimerInv, Entry, workerVars
<1>3. ASSUME NEW c \in Clusters, ClusterEvent(c) PROVE TimerInv'
  BY <1>3 DEF ClusterEvent, TimerInv, Entry, workerVars
<1>4. ASSUME NEW c \in Clusters, Start(c) PROVE TimerInv'
  BY <1>4 DEF Start, TimerInv, Entry, Updating, Paced, workerVars
<1>5. ASSUME NEW t \in Timers, Fire(t) PROVE TimerInv'
  BY <1>5 DEF Fire, TypeOK, TimerInv, Entry, Paced, workerVars
<1>6. ASSUME NEW t \in Timers, CallbackLocks(t) PROVE TimerInv'
  BY <1>6 DEF CallbackLocks, TimerInv, Entry, Updating, workerVars
<1>7. ASSUME NEW t \in Timers, CallbackDeletes(t) PROVE TimerInv'
  BY <1>7 DEF CallbackDeletes, callbackEntry, TypeOK, TimerInv, Entry, workerVars
<1>8. ASSUME NEW t \in Timers, CallbackSends(t) PROVE TimerInv'
  BY <1>8 DEF CallbackSends, Free, TimerInv, Entry, workerVars
<1>9. CASE StopReads
  BY <1>9 DEF StopReads, Done, TimerInv, Entry, Updating
<1>10. CASE StopStopsTimer
  BY <1>10 DEF StopStopsTimer, stopped, Free, TimerInv, Entry, Updating
<1>11. CASE StopDeletes
  BY <1>11 DEF StopDeletes, Done, WorkerInv, TimerInv, Entry, Updating
<1>12. CASE CheckTimer
  BY <1>12 DEF CheckTimer, Unlocked, Deleting, TimerInv, Entry
<1>13. CASE DeletePod
  BY <1>13 DEF DeletePod, TimerInv, Entry, Updating
<1>14. CASE Postpone
  BY <1>14 DEF Postpone, TimerInv, Entry, Updating
<1>15. CASE Arm
  BY <1>15 DEF Arm, WorkerInv, TimerInv, Entry, Updating
<1>16. CASE Insert
  BY <1>16, TimersAssumption DEF Insert, TypeOK, WorkerInv, TimerInv, Entry, Updating
<1>17. CASE RaceKills
  BY <1>17 DEF RaceKills, NewProcess, Free, TimerInv
<1>18. CASE Restart
  BY <1>18 DEF Restart, NewProcess, Free, TimerInv
<1>19. CASE UNCHANGED vars
  BY <1>19 DEF vars, TimerInv, Entry, workerVars
<1> QED
  BY <1>1, <1>2, <1>3, <1>4, <1>5, <1>6, <1>7, <1>8, <1>9, <1>10, <1>11, <1>12, <1>13,
     <1>14, <1>15, <1>16, <1>17, <1>18, <1>19 DEF Next, Callback, Worker

\* An entry of a cluster with another strategy stays due for removal.
LEMMA StrategyInvStep ==
    ASSUME Paced, TypeOK, WorkerInv, TimerInv, StrategyInv, ExistingTimerFires, [Next]_vars
    PROVE  StrategyInv'
<1>1. ASSUME NEW c \in Clusters, EditCluster(c) PROVE StrategyInv'
  BY <1>1 DEF EditCluster, TypeOK, StrategyInv, workerVars
<1>2. ASSUME NEW c \in Clusters, PodBecomesReady(c) PROVE StrategyInv'
  BY <1>2 DEF PodBecomesReady, StrategyInv, workerVars
<1>3. ASSUME NEW c \in Clusters, ClusterEvent(c) PROVE StrategyInv'
  BY <1>3 DEF ClusterEvent, StrategyInv, clusterVars, workerVars
<1>4. ASSUME NEW c \in Clusters, Start(c) PROVE StrategyInv'
  BY <1>4 DEF Start, StrategyInv, Stopping, clusterVars, workerVars
<1>5. ASSUME NEW t \in Timers, Fire(t) PROVE StrategyInv'
  BY <1>5 DEF Fire, StrategyInv, clusterVars, workerVars
<1>6. ASSUME NEW t \in Timers, CallbackLocks(t) PROVE StrategyInv'
  BY <1>6 DEF CallbackLocks, StrategyInv, clusterVars, workerVars
<1>7. ASSUME NEW t \in Timers, CallbackDeletes(t) PROVE StrategyInv'
  BY <1>7 DEF CallbackDeletes, callbackEntry, TypeOK, StrategyInv, ExistingTimerFires,
     clusterVars, workerVars
<1>8. ASSUME NEW t \in Timers, CallbackSends(t) PROVE StrategyInv'
  BY <1>8 DEF CallbackSends, StrategyInv, clusterVars, workerVars
<1>9. CASE StopReads
  BY <1>9, TimersAssumption DEF StopReads, Done, TimerInv, Entry, StrategyInv,
     Stopping, Deleting, clusterVars
<1>10. CASE StopStopsTimer
  BY <1>10 DEF StopStopsTimer, Free, WorkerInv, StrategyInv, ExistingTimerFires,
     Stopping, clusterVars
<1>11. CASE StopDeletes
  BY <1>11, TimersAssumption DEF StopDeletes, Done, TypeOK, StrategyInv, clusterVars
<1>12. CASE CheckTimer
  BY <1>12, TimersAssumption DEF CheckTimer, Done, StrategyInv, Stopping, clusterVars
<1>13. CASE DeletePod
  BY <1>13 DEF DeletePod, StrategyInv, Stopping
<1>14. CASE Postpone
  BY <1>14 DEF Postpone, StrategyInv, Stopping, clusterVars
<1>15. CASE Arm
  BY <1>15 DEF Arm, StrategyInv, Stopping, clusterVars
<1>16. CASE Insert
  BY <1>16, TimersAssumption DEF Insert, Done, TypeOK, WorkerInv, StrategyInv,
     Stopping, Updating, clusterVars
<1>17. CASE RaceKills
  BY <1>17 DEF RaceKills, NewProcess, StrategyInv
<1>18. CASE Restart
  BY <1>18 DEF Restart, NewProcess, StrategyInv
<1>19. CASE UNCHANGED vars
  BY <1>19 DEF vars, StrategyInv, clusterVars, workerVars
<1> QED
  BY <1>1, <1>2, <1>3, <1>4, <1>5, <1>6, <1>7, <1>8, <1>9, <1>10, <1>11, <1>12, <1>13,
     <1>14, <1>15, <1>16, <1>17, <1>18, <1>19 DEF Next, Callback, Worker

\* An entry stays one of a timer that is going to trigger a reconcile.
LEMMA ExistingTimerFiresStep ==
    ASSUME Paced, TypeOK, WorkerInv, TimerInv, ExistingTimerFires, [Next]_vars
    PROVE  ExistingTimerFires'
<1>1. ASSUME NEW c \in Clusters, EditCluster(c) PROVE ExistingTimerFires'
  BY <1>1 DEF EditCluster, ExistingTimerFires, workerVars
<1>2. ASSUME NEW c \in Clusters, PodBecomesReady(c) PROVE ExistingTimerFires'
  BY <1>2 DEF PodBecomesReady, ExistingTimerFires, workerVars
<1>3. ASSUME NEW c \in Clusters, ClusterEvent(c) PROVE ExistingTimerFires'
  BY <1>3 DEF ClusterEvent, ExistingTimerFires, workerVars
<1>4. ASSUME NEW c \in Clusters, Start(c) PROVE ExistingTimerFires'
  BY <1>4 DEF Start, ExistingTimerFires
<1>5. ASSUME NEW t \in Timers, Fire(t) PROVE ExistingTimerFires'
  BY <1>5 DEF Fire, ExistingTimerFires, workerVars
<1>6. ASSUME NEW t \in Timers, CallbackLocks(t) PROVE ExistingTimerFires'
  BY <1>6 DEF CallbackLocks, ExistingTimerFires, workerVars
<1>7. ASSUME NEW t \in Timers, CallbackDeletes(t) PROVE ExistingTimerFires'
  BY <1>7 DEF CallbackDeletes, callbackEntry, TypeOK, ExistingTimerFires, workerVars
<1>8. ASSUME NEW t \in Timers, CallbackSends(t) PROVE ExistingTimerFires'
  BY <1>8 DEF CallbackSends, ExistingTimerFires, workerVars
<1>9. CASE StopReads
  BY <1>9 DEF StopReads, ExistingTimerFires
<1>10. CASE StopStopsTimer
  BY <1>10 DEF StopStopsTimer, Free, WorkerInv, ExistingTimerFires
<1>11. CASE StopDeletes
  BY <1>11 DEF StopDeletes, TypeOK, ExistingTimerFires
<1>12. CASE CheckTimer
  BY <1>12 DEF CheckTimer, ExistingTimerFires
<1>13. CASE DeletePod
  BY <1>13 DEF DeletePod, ExistingTimerFires
<1>14. CASE Postpone
  BY <1>14 DEF Postpone, ExistingTimerFires
<1>15. CASE Arm
  BY <1>15 DEF Arm, ExistingTimerFires
<1>16. CASE Insert
  BY <1>16 DEF Insert, Updating, TypeOK, WorkerInv, ExistingTimerFires
<1>17. CASE RaceKills
  BY <1>17 DEF RaceKills, NewProcess, ExistingTimerFires
<1>18. CASE Restart
  BY <1>18 DEF Restart, NewProcess, ExistingTimerFires
<1>19. CASE UNCHANGED vars
  BY <1>19 DEF vars, ExistingTimerFires, workerVars
<1> QED
  BY <1>1, <1>2, <1>3, <1>4, <1>5, <1>6, <1>7, <1>8, <1>9, <1>10, <1>11, <1>12, <1>13,
     <1>14, <1>15, <1>16, <1>17, <1>18, <1>19 DEF Next, Callback, Worker

----------------------------------------------------------------------------
(* The theorems *)

\* The invariant holds at the start, when there are no timers.
LEMMA IInvInit == Init => IInv
<1> SUFFICES ASSUME Init PROVE IInv
  OBVIOUS
<1>1. TypeOK
  BY BoundsAssumption DEF Init, TypeOK, Free
<1>2. WorkerInv /\ TimerInv /\ StrategyInv /\ ExistingTimerFires
  BY TimersAssumption DEF Init, WorkerInv, TimerInv, StrategyInv, ExistingTimerFires,
     Updating, Free
<1> QED
  BY <1>1, <1>2 DEF IInv

\* Every step preserves the invariant.
LEMMA IInvStep ==
    ASSUME Paced, IInv, [Next]_vars
    PROVE  IInv'
BY TypeOKStep, WorkerInvStep, TimerInvStep, StrategyInvStep, ExistingTimerFiresStep DEF IInv

\* The invariant holds in every reachable state.
THEOREM Invariance ==
    ASSUME Paced
    PROVE  Spec => []IInv
<1>1. IInv /\ [Next]_vars => IInv'
  BY IInvStep
<1> QED
  BY <1>1, IInvInit, PTL DEF Spec

\* The timetable, the timers and the worker take the values that TriggerAfter, Stop and
\* the callbacks (reconcile_triggerer.go) give them.
THEOREM TypeCorrect ==
    ASSUME Paced
    PROVE  Spec => []TypeOK
<1>1. IInv => TypeOK
  BY DEF IInv
<1> QED
  BY <1>1, Invariance, PTL

\* A timer the operator finds in the timetable is going to trigger a reconcile
\* (varnishcluster_delayed_rollingupdate.go:47), however many clusters, timers and
\* restarts there are.
THEOREM ExistingTimers ==
    ASSUME Paced
    PROVE  Spec => []ExistingTimerFires
<1>1. IInv => ExistingTimerFires
  BY DEF IInv
<1> QED
  BY <1>1, Invariance, PTL

\* Stop leaves no timer running (varnishcluster_delayed_rollingupdate.go:22): a timer
\* that runs has its entry, and a cluster that has been reconciled with another
\* strategy has at most the entry of a timer that went off.
THEOREM NoneHanging ==
    ASSUME Paced
    PROVE  Spec => []NoHangingTimers
<1>1. IInv => NoHangingTimers
  <2> SUFFICES ASSUME IInv, NEW c \in Clusters, ~delayed[c], c \notin queue, cur # c,
                      NEW t \in Timers, timer[t].cluster = c, timer[t].state = "armed"
               PROVE  FALSE
    BY DEF NoHangingTimers
  <2>1. timetable[c] = t
    BY DEF IInv, TimerInv, WorkerInv, Entry
  <2>2. timer[timetable[c]].state = "deleting"
    BY <2>1, TimersAssumption DEF IInv, StrategyInv
  <2> QED
    BY <2>1, <2>2
<1> QED
  BY <1>1, Invariance, PTL
=============================================================================
