--------------------- MODULE DelayedRollingUpdateProofs ---------------------
(***************************************************************************)
(* Proofs about DelayedRollingUpdate, for all pods, delays and bounds.     *)
(***************************************************************************)
EXTENDS DelayedRollingUpdate, FiniteSetTheorems, TLAPS

----------------------------------------------------------------------------
(* The inductive invariant *)

\* Nobody is ahead of the newest revision.
RevisionInv ==
    /\ revision <= MaxRevision
    /\ status.updateRevision <= revision
    /\ seen.status.updateRevision <= revision

\* The counters stay within their bounds.
BoundsInv == edits <= MaxEdits /\ restarts <= MaxRestarts /\ losses <= MaxLosses

\* Nothing has happened that can make the operator delete two pods within the delay.
Undisturbed == edits = 0 /\ restarts = 0 /\ losses = 0

\* Unless the last deletion has slipped, the timer covers what is left of the delay while
\* the strategy is DelayedRollingUpdate, but for the moment between a deletion and Arm.
PauseInv ==
    /\ Undisturbed => delayed /\ ~slipped
    /\ ~slipped =>
        /\ pc = "update" => seen.delayed = delayed
        /\ pc = "delete" => sinceDelete >= Delay
        /\ delayed /\ pc # "arm" /\ sinceDelete < Delay => Delay <= timer + sinceDelete

\* The pods the operator deleted are those that are not ready.
DownInv ==
    /\ status.replicas = Cardinality(Pods)
    /\ \A p \in Pods :
        /\ p \in down <=> (pods[p].phase = "ending" \/ ~pods[p].ready)
        /\ pods[p].phase \in {"absent", "created"} => ~pods[p].ready

\* Termination and status have their time, from the last deletion at most: a pod that ends,
\* or is gone; one that is not ready and does not show; one newer than what shows.
LateInv ==
    \A p \in Pods :
        /\ pods[p].phase = "ending" => sinceDelete <= pods[p].age /\ pods[p].age <= MaxEnding
        /\ pods[p].phase = "absent" => sinceDelete <= MaxEnding + lag
        /\ pods[p].phase # "ending" /\ ~pods[p].ready /\ status.ready >= status.replicas =>
            sinceDelete <= MaxEnding + lag
        /\ pods[p].phase # "absent" /\ pods[p].revision > status.updateRevision =>
            sinceDelete <= MaxEnding + lag

\* Both are over within the delay, and no time passes during a pass.
Prompt == MaxEnding + MaxLag < Delay /\ ~SlowPasses

\* Then what a pass goes on with after the delay is what the pods are like.
SeenInv ==
    Prompt /\ Undisturbed =>
        /\ pc = "update" /\ sinceDelete >= Delay /\ allReady =>
            /\ down = {}
            /\ \A p \in Pods : pods[p].revision <= seen.status.updateRevision
        /\ pc = "delete" =>
            /\ down = {}
            /\ \A p \in Pods :
                pods[p].revision >= seen.status.updateRevision => pods[p].age >= Delay
        /\ OneDownAtATime

----------------------------------------------------------------------------
(* Types *)

\* A pod of revision r.
PodsOf(r) == [phase : {"absent", "created", "started", "ending"}, ready : BOOLEAN,
              revision : 1 .. r, age : Nat]

\* What the counts of a status can be.
LEMMA Counts ==
    ASSUME NEW S \in SUBSET Pods
    PROVE  IsFiniteSet(S) /\ Cardinality(S) \in Nat /\ Cardinality(S) <= Cardinality(Pods)
BY PodsAssumption, FS_Subset, FS_CardinalityType

\* The status a StatefulSet controller writes has its type.
LEMMA CurrentStatusType ==
    ASSUME TypeOK, RevisionInv
    PROVE  /\ CurrentStatus \in Statuses
           /\ CurrentStatus.updateRevision = revision
           /\ CurrentStatus.replicas = Cardinality(Existing)
           /\ CurrentStatus.ready = Cardinality({p \in Existing : pods[p].ready})
<1> DEFINE R == {p \in Existing : pods[p].ready}
           U == {p \in Existing : pods[p].phase # "ending" /\ pods[p].revision = revision}
<1>1. Existing \in SUBSET Pods /\ R \in SUBSET Pods /\ U \in SUBSET Pods
  BY DEF Existing
<1>2. /\ Cardinality(Pods) \in Nat
      /\ Cardinality(Existing) \in 0 .. Cardinality(Pods)
      /\ Cardinality(R) \in 0 .. Cardinality(Pods)
      /\ Cardinality(U) \in 0 .. Cardinality(Pods)
  <2> HIDE DEF R, U
  <2> QED
    BY <1>1, Counts
<1>3. revision \in 1 .. MaxRevision
  BY BoundsAssumption DEF TypeOK, RevisionInv, Statuses
<1>4. CurrentStatus = [updateRevision |-> revision, replicas |-> Cardinality(Existing),
                       ready |-> Cardinality(R), updated |-> Cardinality(U)]
  BY DEF CurrentStatus
<1> HIDE DEF R, U
<1>5. CurrentStatus \in Statuses
  BY <1>2, <1>3, <1>4 DEF Statuses
<1> QED
  BY <1>4, <1>5 DEF R

\* Every change of one pod leaves pods.
LEMMA PodChange ==
    ASSUME NEW r \in Nat, pods \in [Pods -> PodsOf(r)], NEW p \in Pods, NEW pod \in PodsOf(r)
    PROVE  /\ [pods EXCEPT ![p] = pod] \in [Pods -> PodsOf(r)]
           /\ [pods EXCEPT ![p] = pod][p] = pod
           /\ \A q \in Pods \ {p} : [pods EXCEPT ![p] = pod][q] = pods[q]
OBVIOUS

\* What the steps of a pod make of it.
LEMMA PodMoves ==
    ASSUME TypeOK, RevisionInv, NEW p \in Pods, PodStep(p)
    PROVE  \E pod \in PodsOf(revision) :
             /\ pods' = [pods EXCEPT ![p] = pod]
             /\ \/ /\ pods[p].phase = "absent" /\ pod.phase = "created" /\ ~pod.ready
                   /\ pod.revision = revision /\ down' = down
                \/ /\ pods[p].phase = "created" /\ pod.phase = "started" /\ down' = down
                   /\ pod.ready = pods[p].ready /\ pod.revision = pods[p].revision
                   /\ pod.age = pods[p].age
                \/ /\ pods[p].phase = "started" /\ pod.phase = "started" /\ down' = down \ {p}
                   /\ pod.ready /\ pod.revision = pods[p].revision /\ pod.age = pods[p].age
                \/ /\ pods[p].phase = "ending" /\ pod.phase = "absent" /\ down' = down
                   /\ ~pod.ready
<1>1. pods[p] \in PodsOf(revision) /\ revision \in Nat /\ revision \in 1 .. revision
  BY DEF TypeOK, PodsOf, RevisionInv, Statuses
<1>2. CASE CreatePod(p)
  <2> DEFINE pod == [phase |-> "created", ready |-> FALSE, revision |-> revision, age |-> 0]
  <2>1. pod \in PodsOf(revision)
    BY <1>1 DEF PodsOf
  <2> QED
    BY <1>2, <2>1 DEF CreatePod, PodChanges
<1>3. CASE StartPod(p)
  <2> DEFINE pod == [pods[p] EXCEPT !.phase = "started"]
  <2>1. /\ pod \in PodsOf(revision) /\ pod.phase = "started" /\ pod.ready = pods[p].ready
        /\ pod.revision = pods[p].revision /\ pod.age = pods[p].age
    BY <1>1 DEF PodsOf
  <2>2. pods[p].phase = "created" /\ pods' = [pods EXCEPT ![p] = pod] /\ down' = down
    BY <1>3 DEF StartPod, PodChanges
  <2> HIDE DEF pod
  <2> QED
    BY <2>1, <2>2
<1>4. CASE PodReady(p)
  <2> DEFINE pod == [pods[p] EXCEPT !.ready = TRUE]
  <2>1. /\ pod \in PodsOf(revision) /\ pod.phase = pods[p].phase /\ pod.ready
        /\ pod.revision = pods[p].revision /\ pod.age = pods[p].age
    BY <1>1 DEF PodsOf
  <2>2. pods[p].phase = "started" /\ pods' = [pods EXCEPT ![p] = pod] /\ down' = down \ {p}
    BY <1>4 DEF PodReady, PodChanges
  <2> HIDE DEF pod
  <2> QED
    BY <2>1, <2>2
<1>5. CASE EndPod(p)
  <2> DEFINE pod == [pods[p] EXCEPT !.phase = "absent", !.ready = FALSE]
  <2>1. pod \in PodsOf(revision) /\ pod.phase = "absent" /\ ~pod.ready
    BY <1>1 DEF PodsOf
  <2>2. pods[p].phase = "ending" /\ pods' = [pods EXCEPT ![p] = pod] /\ down' = down
    BY <1>5 DEF EndPod, PodChanges
  <2> HIDE DEF pod
  <2> QED
    BY <2>1, <2>2
<1> QED
  BY <1>2, <1>3, <1>4, <1>5 DEF PodStep

\* The rest of such a step.
LEMMA PodStepKeeps ==
    ASSUME NEW p \in Pods, PodStep(p)
    PROVE  /\ UNCHANGED <<revision, delayed, selected, status, lag, passVars, timer, sinceDelete,
                       slipped, boundVars>>
           /\ pending' = TRUE
BY DEF PodStep, CreatePod, StartPod, PodReady, EndPod, PodChanges

\* What a deletion makes of a pod.
LEMMA DeleteMoves ==
    ASSUME TypeOK, Deletion
    PROVE  /\ victim \in Pods
           /\ \E pod \in PodsOf(revision) :
                /\ pods' = [pods EXCEPT ![victim] = pod]
                /\ \/ /\ pods[victim].phase = "created" /\ pod.phase = "absent"
                      /\ pod.ready = pods[victim].ready
                   \/ pods[victim].phase = "started" /\ pod.phase = "ending" /\ pod.age = 0
                      /\ pod.revision = pods[victim].revision
                   \/ pods[victim].phase = "ending" /\ pod = pods[victim]
<1>1. victim \in Pods /\ pods[victim].phase # "absent" /\ pods[victim] \in PodsOf(revision)
  BY DEF Deletion, Existing, TypeOK, PodsOf
<1>2. CASE pods[victim].phase = "created"
  <2> DEFINE pod == [pods[victim] EXCEPT !.phase = "absent"]
  <2>1. pod \in PodsOf(revision) /\ pod.phase = "absent" /\ pod.ready = pods[victim].ready
    BY <1>1 DEF PodsOf
  <2>2. pods' = [pods EXCEPT ![victim] = pod]
    BY <1>1, <1>2 DEF Deletion, TypeOK
  <2> HIDE DEF pod
  <2> QED
    BY <1>1, <1>2, <2>1, <2>2
<1>3. CASE pods[victim].phase = "started"
  <2> DEFINE pod == [pods[victim] EXCEPT !.phase = "ending", !.age = 0]
  <2>1. /\ pod \in PodsOf(revision) /\ pod.phase = "ending" /\ pod.age = 0
        /\ pod.revision = pods[victim].revision
    BY <1>1 DEF PodsOf
  <2>2. pods' = [pods EXCEPT ![victim] = pod]
    BY <1>1, <1>3 DEF Deletion, TypeOK
  <2> HIDE DEF pod
  <2> QED
    BY <1>1, <1>3, <2>1, <2>2
<1>4. CASE pods[victim].phase = "ending"
  <2>1. pods' = [pods EXCEPT ![victim] = pods[victim]]
    BY <1>1, <1>4 DEF Deletion, TypeOK
  <2> QED
    BY <1>1, <1>4, <2>1
<1> QED
  BY <1>1, <1>2, <1>3, <1>4 DEF PodsOf

\* What a tick makes of a pod.
LEMMA TickMoves ==
    ASSUME TypeOK, Tick, NEW p \in Pods
    PROVE  /\ pods'[p] \in PodsOf(revision) /\ pods'[p].phase = pods[p].phase
           /\ pods'[p].ready = pods[p].ready /\ pods'[p].revision = pods[p].revision
           /\ pods[p].phase = "ending" => pods'[p].age = pods[p].age + 1
           /\ pods[p].phase # "ending" => pods'[p].age >= pods[p].age \/ pods'[p].age >= Delay
<1>1. pods[p] \in PodsOf(revision) /\ Delay \in Nat
  BY TimesAssumption DEF TypeOK, PodsOf
<1>2. CASE pods[p].phase = "started"
  <2>1. pods'[p] = [pods[p] EXCEPT !.age = Plus(pods[p].age)]
    BY <1>2 DEF Tick
  <2>2. Plus(pods[p].age) \in Nat
        /\ (Plus(pods[p].age) >= pods[p].age \/ Plus(pods[p].age) >= Delay)
    BY <1>1 DEF Plus, PodsOf
  <2> QED
    BY <1>1, <1>2, <2>1, <2>2 DEF PodsOf
<1>3. CASE pods[p].phase = "ending"
  <2>1. pods'[p] = [pods[p] EXCEPT !.age = pods[p].age + 1]
    BY <1>3 DEF Tick
  <2> QED
    BY <1>1, <1>3, <2>1 DEF PodsOf
<1>4. CASE pods[p].phase \notin {"started", "ending"}
  <2>1. pods'[p] = pods[p]
    BY <1>4 DEF Tick
  <2> QED
    BY <1>1, <1>4, <2>1 DEF PodsOf
<1> QED
  BY <1>2, <1>3, <1>4

\* What a pass starts from has its type.
LEMMA NoPassType ==
    ASSUME TypeOK, RevisionInv
    PROVE  /\ NoPass \in [delayed : BOOLEAN, selected : BOOLEAN, status : Statuses]
           /\ NoPass.status.updateRevision <= revision
<1>1. MaxRevision \in Nat \ {0} /\ Cardinality(Pods) \in Nat
  BY BoundsAssumption, Counts
<1>2. status.updateRevision \in 1 .. MaxRevision /\ status.updateRevision <= revision
      /\ revision \in Nat
  BY DEF TypeOK, Statuses, RevisionInv
<1> QED
  BY <1>1, <1>2 DEF NoPass, Statuses

\* Every step keeps the variables in their types, and the bounds.
LEMMA TypeOKStep ==
    ASSUME TypeOK, RevisionInv, [Next]_vars
    PROVE  TypeOK' /\ RevisionInv'
<1>1. /\ Delay \in Nat \ {0} /\ MaxLag \in Nat /\ MaxRevision \in Nat \ {0}
      /\ Cardinality(Pods) \in Nat
  BY TimesAssumption, BoundsAssumption, Counts
<1>2. pods \in [Pods -> PodsOf(revision)] /\ revision \in Nat
  BY DEF TypeOK, PodsOf
<1>3. CurrentStatus \in Statuses /\ CurrentStatus.updateRevision = revision
  BY CurrentStatusType
<1>4. status.updateRevision \in Nat /\ seen.status.updateRevision \in Nat
  BY DEF TypeOK, Statuses
<1>5. CASE Start
  BY <1>5 DEF Start, TypeOK, RevisionInv, clusterVars, historyVars, boundVars
<1>6. CASE StopTimer \/ NothingToDo \/ PodGone \/ CallFails \/ Arm \/ Panic \/ Restart
  <2>1. timer' \in -1 .. Delay
    <3>1. -1 \in -1 .. Delay /\ Delay \in -1 .. Delay /\ timer \in -1 .. Delay
      BY <1>1 DEF TypeOK
    <3> QED
      BY <1>6, <3>1 DEF StopTimer, NothingToDo, PodGone, CallFails, Arm, Panic, Restart, NewProcess
  <2>2. /\ UNCHANGED <<clusterVars, down, sinceDelete>> /\ pending' \in BOOLEAN
        /\ pc' = "idle" /\ seen' = NoPass /\ victim' = NoPod /\ slipped' \in BOOLEAN
        /\ edits' \in Nat /\ relabels' \in Nat /\ restarts' \in Nat /\ losses' \in Nat
        /\ failures' \in Nat
    <3>1. CASE StopTimer \/ NothingToDo \/ PodGone \/ Arm
      BY <3>1 DEF StopTimer, NothingToDo, PodGone, Arm, Done, TypeOK, historyVars, boundVars
    <3>2. CASE CallFails
      BY <3>2 DEF CallFails, Done, TypeOK, historyVars
    <3>3. CASE Panic
      BY <3>3 DEF Panic, NewProcess, Done, TypeOK, boundVars
    <3>4. CASE Restart
      BY <3>4 DEF Restart, NewProcess, Done, TypeOK
    <3> QED
      BY <1>6, <3>1, <3>2, <3>3, <3>4
  <2> QED
    BY <2>1, <2>2, NoPassType DEF TypeOK, RevisionInv, clusterVars
<1>7. CASE OtherRequest \/ UNCHANGED vars
  BY <1>7 DEF OtherRequest, TypeOK, RevisionInv, vars, passVars, clusterVars, historyVars, boundVars
<1>17. CASE EditLabels
  BY <1>17 DEF EditLabels, TypeOK, RevisionInv, passVars, historyVars
<1>8. CASE ChoosePod
  BY <1>8 DEF ChoosePod, candidates, Outdated, Listed, Existing, TypeOK, RevisionInv, clusterVars,
     historyVars, boundVars
<1>9. CASE WaitLonger
  <2>1. PICK p \in Updated :
            /\ \A q \in Updated : pods[p].age <= pods[q].age
            /\ timer' = remaining(p)
    BY <1>9 DEF WaitLonger
  <2>2. PICK q \in Updated : ~(pods[q].age >= Delay)
    BY <1>9 DEF WaitLonger, waited
  <2>3. pods[p].age \in Nat /\ pods[q].age \in Nat /\ pods[p].age <= pods[q].age
    BY <1>2, <2>1 DEF Updated, Listed, Existing, PodsOf
  <2>4. timer' \in -1 .. Delay
    BY <1>1, <2>1, <2>2, <2>3 DEF remaining
  <2> QED
    BY <1>9, <2>4, NoPassType DEF WaitLonger, Done, TypeOK, RevisionInv, clusterVars, historyVars,
       boundVars
<1>10. CASE DeletePod \/ DeletionLost
  <2>1. pods' \in [Pods -> PodsOf(revision)] /\ victim \in Pods
    BY <1>2, <1>10, DeleteMoves, PodChange DEF DeletePod, DeletionLost
  <2>2. /\ UNCHANGED <<revision, delayed, selected, status, lag, timer, edits, relabels, restarts,
                        failures>>
        /\ down' \subseteq Pods /\ sinceDelete' \in 0 .. Delay /\ pending' = TRUE
    BY <1>1, <1>10, <2>1 DEF DeletePod, DeletionLost, Deletion, TypeOK
  <2>3. /\ pc' \in {"idle", "arm"} /\ victim' \in {NoPod, victim} /\ seen' \in {NoPass, seen}
        /\ slipped' \in BOOLEAN /\ losses' \in Nat
    <3>1. CASE DeletePod
      BY <3>1 DEF DeletePod, TypeOK
    <3>2. CASE DeletionLost
      BY <3>2 DEF DeletionLost, Done, TypeOK
    <3> QED
      BY <1>10, <3>1, <3>2
  <2> QED
    BY <2>1, <2>2, <2>3, NoPassType DEF TypeOK, PodsOf, RevisionInv
<1>11. ASSUME NEW p \in Pods, PodStep(p)
       PROVE  TypeOK' /\ RevisionInv'
  <2>1. pods' \in [Pods -> PodsOf(revision)] /\ (down' = down \/ down' = down \ {p})
    BY <1>2, <1>11, PodMoves, PodChange
  <2> QED
    BY <1>11, <2>1, PodStepKeeps DEF TypeOK, PodsOf, RevisionInv, passVars, boundVars
<1>12. CASE SyncStatus
  <2>1. status' = CurrentStatus /\ lag' = 0 /\ pending' = TRUE
        /\ UNCHANGED <<revision, delayed, selected, pods, passVars, timer, historyVars, boundVars>>
    BY <1>12 DEF SyncStatus
  <2>2. status' \in Statuses /\ status'.updateRevision = revision /\ lag' \in 0 .. MaxLag
    BY <1>1, <1>3, <2>1
  <2> QED
    BY <1>2, <2>1, <2>2 DEF TypeOK, RevisionInv, passVars, historyVars, boundVars
<1>13. CASE Tick
  <2>1. pods' \in [Pods -> PodsOf(revision)]
    <3>1. DOMAIN pods' = Pods /\ pods' = [p \in Pods |-> pods'[p]]
      BY <1>13 DEF Tick
    <3>2. \A p \in Pods : pods'[p] \in PodsOf(revision)
      BY <1>13, TickMoves
    <3> QED
      BY <3>1, <3>2
  <2>2. lag' \in 0 .. MaxLag
    <3>1. CASE status # CurrentStatus
      BY <1>1, <1>13, <3>1 DEF Tick, TypeOK
    <3>2. CASE status = CurrentStatus
      BY <1>1, <1>13, <3>2 DEF Tick
    <3> QED
      BY <3>1, <3>2
  <2>3. timer' \in -1 .. Delay /\ sinceDelete' \in 0 .. Delay
    BY <1>1, <1>13 DEF Tick, Plus, TypeOK
  <2> QED
    BY <1>13, <2>1, <2>2, <2>3 DEF Tick, TypeOK, PodsOf, RevisionInv, passVars, boundVars
<1>14. CASE TimerFires
  BY <1>1, <1>14 DEF TimerFires, TypeOK, RevisionInv, clusterVars, passVars, historyVars, boundVars
<1>15. CASE NewRevision
  <2>1. revision' = revision + 1 /\ revision' \in Nat /\ revision' <= MaxRevision
    BY <1>1, <1>2, <1>15 DEF NewRevision
  <2>2. PodsOf(revision) \subseteq PodsOf(revision')
    BY <1>2, <2>1 DEF PodsOf
  <2>3. pods' \in [Pods -> PodsOf(revision')]
    <3>1. pods' = pods
      BY <1>15 DEF NewRevision
    <3> QED
      BY <1>2, <2>2, <3>1
  <2>4. status.updateRevision <= revision' /\ seen.status.updateRevision <= revision'
    BY <1>2, <1>4, <2>1 DEF RevisionInv
  <2> QED
    BY <1>15, <2>1, <2>3, <2>4 DEF NewRevision, TypeOK, PodsOf, RevisionInv, passVars,
       historyVars, boundVars
<1>16. CASE EditStrategy
  BY <1>16 DEF EditStrategy, TypeOK, RevisionInv, passVars, historyVars
<1> QED
  BY <1>5, <1>6, <1>7, <1>8, <1>9, <1>10, <1>11, <1>12, <1>13, <1>14, <1>15, <1>16, <1>17
  DEF Next, Operator

\* The bounds only grow, and are kept.
LEMMA BoundsGrow ==
    ASSUME TypeOK, [Next]_vars
    PROVE  /\ Undisturbed' => Undisturbed
           /\ BoundsInv => BoundsInv'
<1>1. CASE EditStrategy \/ Restart \/ DeletionLost
  BY <1>1, BoundsAssumption DEF EditStrategy, Restart, DeletionLost, Deletion, TypeOK, BoundsInv,
     Undisturbed
<1>2. CASE ~(EditStrategy \/ Restart \/ DeletionLost)
  <2>1. CASE Operator
    BY <2>1 DEF Operator, Start, StopTimer, NothingToDo, ChoosePod, WaitLonger, DeletePod, Deletion,
       PodGone, Arm, Panic, boundVars, BoundsInv, Undisturbed
  <2>2. ASSUME NEW p \in Pods, PodStep(p)
        PROVE  UNCHANGED <<edits, restarts, losses>>
    BY <2>2, PodStepKeeps DEF boundVars
  <2>3. CASE \/ SyncStatus \/ Tick \/ TimerFires \/ NewRevision \/ EditLabels \/ OtherRequest
             \/ CallFails \/ UNCHANGED vars
    BY <2>3 DEF SyncStatus, Tick, TimerFires, NewRevision, EditLabels, OtherRequest, CallFails,
       vars, boundVars, BoundsInv, Undisturbed
  <2> QED
    BY <1>2, <2>1, <2>2, <2>3 DEF BoundsInv, Undisturbed, Next
<1> QED
  BY <1>1, <1>2

----------------------------------------------------------------------------
(* The pause *)

\* Every step leaves the timer to cover the delay.
LEMMA PauseStep ==
    ASSUME TypeOK, PauseInv, [Next]_vars
    PROVE  PauseInv'
<1>1. Delay \in Nat \ {0} /\ sinceDelete \in 0 .. Delay /\ timer \in -1 .. Delay
  BY TimesAssumption DEF TypeOK
<1>2. Undisturbed' => Undisturbed
  BY BoundsGrow
<1>3. /\ Undisturbed => delayed /\ ~slipped
      /\ ~slipped =>
          /\ pc = "update" => seen.delayed = delayed
          /\ pc = "delete" => sinceDelete >= Delay
          /\ delayed /\ pc # "arm" /\ sinceDelete < Delay => Delay <= timer + sinceDelete
  BY DEF PauseInv
<1>4. CASE Start
  <2>1. /\ UNCHANGED <<delayed, slipped, timer, sinceDelete>> /\ pc = "idle" /\ pc' = "update"
        /\ seen'.delayed = delayed
    BY <1>4 DEF Start, clusterVars, historyVars
  <2> QED
    BY <1>2, <1>3, <2>1 DEF PauseInv
<1>5. CASE StopTimer
  <2>1. /\ UNCHANGED <<delayed, slipped>> /\ pc = "update" /\ pc' = "idle" /\ ~seen.delayed
    BY <1>5 DEF StopTimer, Done, clusterVars, historyVars
  <2> QED
    BY <1>2, <1>3, <2>1 DEF PauseInv
<1>6. CASE NothingToDo \/ ChoosePod \/ WaitLonger \/ Panic
  <2>1. /\ pc = "update" /\ UNCHANGED <<delayed, slipped, sinceDelete>> /\ seen.delayed
        /\ pc' \in {"idle", "delete"}
        /\ timer' = timer \/ timer = -1
        /\ pc' = "delete" => timer = -1
    BY <1>6 DEF NothingToDo, ChoosePod, WaitLonger, Panic, NewProcess, Done, MayUpdate,
       TimerExists, clusterVars, historyVars
  <2>2. ~slipped => delayed /\ (sinceDelete < Delay => Delay <= timer + sinceDelete)
    BY <1>3, <2>1, Zenon
  <2>3. ~slipped /\ timer = -1 => sinceDelete >= Delay
    BY <1>1, <2>2
  <2> QED
    <3>1. ~slipped' /\ pc' = "delete" => sinceDelete' >= Delay
      BY <2>1, <2>3
    <3>2. ~slipped' /\ sinceDelete' < Delay => Delay <= timer' + sinceDelete'
      BY <1>1, <2>1, <2>2, <2>3
    <3>3. Undisturbed' => delayed' /\ ~slipped'
      BY <1>2, <1>3, <2>1
    <3> QED
      BY <2>1, <3>1, <3>2, <3>3 DEF PauseInv
<1>7. CASE DeletePod
  <2>1. delayed' = delayed /\ ~slipped' /\ pc' = "arm"
    BY <1>7 DEF DeletePod, Deletion
  <2> QED
    BY <1>2, <1>3, <2>1 DEF PauseInv
<1>8. CASE PodGone \/ CallFails
  <2>1. /\ UNCHANGED <<delayed, slipped, timer, sinceDelete>>
        /\ pc \in {"update", "delete"} /\ pc' = "idle"
    BY <1>8 DEF PodGone, CallFails, Done, clusterVars, historyVars
  <2> QED
    BY <1>2, <1>3, <2>1 DEF PauseInv
<1>9. CASE Arm
  <2>1. timer' = Delay /\ pc' = "idle" /\ UNCHANGED <<delayed, slipped, sinceDelete>>
    BY <1>9 DEF Arm, Done, clusterVars, historyVars
  <2> QED
    BY <1>1, <1>2, <1>3, <2>1 DEF PauseInv
<1>10. CASE Restart \/ EditStrategy \/ DeletionLost
  BY <1>10 DEF Restart, EditStrategy, DeletionLost, TypeOK, PauseInv, Undisturbed
<1>11. ASSUME NEW p \in Pods, PodStep(p)
       PROVE  UNCHANGED <<delayed, slipped, seen, pc, timer, sinceDelete>>
  BY <1>11, PodStepKeeps DEF passVars
<1>12. CASE SyncStatus \/ NewRevision \/ EditLabels \/ OtherRequest \/ UNCHANGED vars
  <2>1. UNCHANGED <<delayed, slipped, seen, pc, timer, sinceDelete>>
    BY <1>12 DEF SyncStatus, NewRevision, EditLabels, OtherRequest, vars, clusterVars, passVars,
       historyVars
  <2> QED
    BY <1>2, <1>3, <2>1 DEF PauseInv
<1>13. CASE Tick
  <2>1. UNCHANGED <<delayed, slipped, seen, pc>>
    BY <1>13 DEF Tick, passVars
  <2>2. ~slipped /\ pc = "delete" => sinceDelete' >= Delay
    BY <1>1, <1>3, <1>13 DEF Tick, Plus
  <2>3. ~slipped /\ delayed /\ pc # "arm" /\ sinceDelete' < Delay => Delay <= timer' + sinceDelete'
    BY <1>1, <1>3, <1>13 DEF Tick, Plus
  <2> QED
    BY <1>2, <1>3, <2>1, <2>2, <2>3 DEF PauseInv
<1>14. CASE TimerFires
  <2>1. /\ UNCHANGED <<delayed, slipped, seen, pc, sinceDelete>> /\ timer = 0 /\ timer' = -1
    BY <1>14 DEF TimerFires, clusterVars, passVars, historyVars
  <2>2. ~slipped /\ delayed /\ pc # "arm" => ~(sinceDelete < Delay)
    BY <1>1, <1>3, <2>1
  <2> QED
    BY <1>2, <1>3, <2>1, <2>2 DEF PauseInv
<1>15. UNCHANGED <<delayed, slipped, seen, pc, timer, sinceDelete>> => PauseInv'
  BY <1>2, <1>3 DEF PauseInv
<1> QED
  BY <1>4, <1>5, <1>6, <1>7, <1>8, <1>9, <1>10, <1>11, <1>12, <1>13, <1>14, <1>15
  DEF Next, Operator

----------------------------------------------------------------------------
(* Pods that are down, and when it shows *)

\* Every step keeps account of the pods that are down.
LEMMA DownStep ==
    ASSUME TypeOK, RevisionInv, DownInv, [Next]_vars
    PROVE  DownInv'
<1>1. pods \in [Pods -> PodsOf(revision)] /\ revision \in Nat
  BY DEF TypeOK, PodsOf
<1>2. CASE DeletePod \/ DeletionLost
  <2>1. status' = status /\ down' = down \cup {victim}
    BY <1>2 DEF DeletePod, DeletionLost, Deletion
  <2>2. PICK pod \in PodsOf(revision) :
            /\ pods' = [pods EXCEPT ![victim] = pod]
            /\ \/ /\ pods[victim].phase = "created" /\ pod.phase = "absent"
                  /\ pod.ready = pods[victim].ready
               \/ pods[victim].phase = "started" /\ pod.phase = "ending"
               \/ pods[victim].phase = "ending" /\ pod = pods[victim]
    BY <1>2, DeleteMoves DEF DeletePod, DeletionLost
  <2>3. /\ victim \in Pods /\ pods'[victim] = pod
        /\ \A q \in Pods \ {victim} : pods'[q] = pods[q]
    BY <1>1, <1>2, <2>2, DeleteMoves DEF DeletePod, DeletionLost
  <2>4. /\ pod.phase = "ending" \/ ~pod.ready
        /\ pod.phase \in {"absent", "created"} => ~pod.ready
    BY <2>2, <2>3 DEF DownInv
  <2> QED
    BY <2>1, <2>3, <2>4 DEF DownInv
<1>3. ASSUME NEW p \in Pods, PodStep(p)
      PROVE  DownInv'
  <2>1. PICK pod \in PodsOf(revision) :
             /\ pods' = [pods EXCEPT ![p] = pod]
             /\ \/ /\ pods[p].phase = "absent" /\ pod.phase = "created" /\ ~pod.ready
                   /\ down' = down
                \/ /\ pods[p].phase = "created" /\ pod.phase = "started" /\ down' = down
                   /\ pod.ready = pods[p].ready
                \/ /\ pods[p].phase = "started" /\ pod.phase = "started" /\ down' = down \ {p}
                   /\ pod.ready
                \/ /\ pods[p].phase = "ending" /\ pod.phase = "absent" /\ down' = down
                   /\ ~pod.ready
    BY <1>3, PodMoves
  <2>2. pods'[p] = pod /\ \A q \in Pods \ {p} : pods'[q] = pods[q]
    BY <1>1, <2>1
  <2>3. status' = status
    BY <1>3, PodStepKeeps
  <2>4. /\ p \in down' <=> (pod.phase = "ending" \/ ~pod.ready)
        /\ pod.phase \in {"absent", "created"} => ~pod.ready
        /\ \A q \in Pods \ {p} : q \in down' <=> q \in down
    BY <2>1 DEF DownInv
  <2> QED
    BY <2>2, <2>3, <2>4 DEF DownInv
<1>4. CASE SyncStatus
  <2>1. status'.replicas = Cardinality(Pods) /\ UNCHANGED <<pods, down>>
    BY <1>4, CurrentStatusType DEF SyncStatus, historyVars
  <2> QED
    BY <2>1 DEF DownInv
<1>5. CASE Tick
  <2>1. status' = status /\ down' = down
    BY <1>5 DEF Tick
  <2> QED
    BY <1>5, <2>1, TickMoves DEF DownInv
<1>6. CASE \/ Start \/ StopTimer \/ NothingToDo \/ ChoosePod \/ WaitLonger \/ PodGone
           \/ CallFails \/ Arm \/ Panic \/ Restart \/ NewRevision \/ EditStrategy
           \/ EditLabels \/ OtherRequest \/ TimerFires \/ UNCHANGED vars
  <2>1. UNCHANGED <<pods, status, down>>
    BY <1>6 DEF Start, StopTimer, NothingToDo, ChoosePod, WaitLonger, PodGone, CallFails, Arm,
       Panic, Restart, NewProcess, NewRevision, EditStrategy, EditLabels, OtherRequest, TimerFires,
       vars, clusterVars, historyVars
  <2> QED
    BY <2>1 DEF DownInv
<1> QED
  BY <1>2, <1>3, <1>4, <1>5, <1>6 DEF Next, Operator

\* The status is not true while a pod is missing, not ready although it says so, or of a
\* revision it does not know.
LEMMA NotCurrent ==
    ASSUME TypeOK, RevisionInv, DownInv, NEW p \in Pods
    PROVE  /\ pods[p].phase = "absent" => status # CurrentStatus
           /\ ~pods[p].ready /\ status.ready >= status.replicas => status # CurrentStatus
           /\ pods[p].revision > status.updateRevision => status # CurrentStatus
<1> DEFINE R == {q \in Existing : pods[q].ready}
<1>1. /\ CurrentStatus.updateRevision = revision
      /\ CurrentStatus.replicas = Cardinality(Existing)
      /\ CurrentStatus.ready = Cardinality(R)
  BY CurrentStatusType
<1>2. status.replicas = Cardinality(Pods)
  BY DEF DownInv
<1>3. IsFiniteSet(Pods) /\ Existing \in SUBSET Pods /\ R \in SUBSET Pods
  BY PodsAssumption DEF Existing
<1>4. ASSUME pods[p].phase = "absent", status = CurrentStatus
      PROVE  FALSE
  <2>1. p \notin Existing
    BY <1>4 DEF Existing
  <2> QED
    BY <1>1, <1>2, <1>3, <1>4, <2>1, FS_Subset
<1>5. ASSUME ~pods[p].ready, status.ready >= status.replicas, status = CurrentStatus
      PROVE  FALSE
  <2>1. p \notin R
    BY <1>5
  <2> HIDE DEF R
  <2>2. Cardinality(R) \in Nat /\ Cardinality(Pods) \in Nat /\ Cardinality(R) <= Cardinality(Pods)
    BY <1>3, Counts
  <2>3. Cardinality(R) = Cardinality(Pods)
    BY <1>1, <1>2, <1>5, <2>2
  <2> QED
    BY <1>3, <2>1, <2>3, FS_Subset
<1>6. ASSUME pods[p].revision > status.updateRevision, status = CurrentStatus
      PROVE  FALSE
  <2>1. pods[p].revision \in 1 .. revision /\ revision \in Nat
    BY DEF TypeOK
  <2> QED
    BY <1>1, <1>6, <2>1
<1> QED
  BY <1>4, <1>5, <1>6

\* Every step keeps termination and status in their time.
LEMMA LateStep ==
    ASSUME TypeOK, RevisionInv, DownInv, LateInv, [Next]_vars
    PROVE  LateInv'
<1> DEFINE Late(pod, st, l, since) ==
        /\ pod.phase = "ending" => since <= pod.age /\ pod.age <= MaxEnding
        /\ pod.phase = "absent" => since <= MaxEnding + l
        /\ pod.phase # "ending" /\ ~pod.ready /\ st.ready >= st.replicas =>
            since <= MaxEnding + l
        /\ pod.phase # "absent" /\ pod.revision > st.updateRevision =>
            since <= MaxEnding + l
<1>1. /\ pods \in [Pods -> PodsOf(revision)] /\ revision \in Nat /\ lag \in Nat
      /\ Delay \in Nat /\ sinceDelete \in Nat /\ sinceDelete <= Delay /\ MaxEnding \in Nat
  BY TimesAssumption DEF TypeOK, PodsOf
<1>2. /\ LateInv <=> \A p \in Pods : Late(pods[p], status, lag, sinceDelete)
      /\ LateInv' <=> \A p \in Pods : Late(pods'[p], status', lag', sinceDelete')
  BY DEF LateInv
<1>3. CASE DeletePod \/ DeletionLost
  <2>1. status' = status /\ lag' = lag /\ sinceDelete' = 0
    BY <1>3 DEF DeletePod, DeletionLost, Deletion
  <2>2. PICK pod \in PodsOf(revision) :
            /\ pods' = [pods EXCEPT ![victim] = pod]
            /\ \/ pod.phase = "absent"
               \/ pod.phase = "ending" /\ pod.age = 0
               \/ pods[victim].phase = "ending" /\ pod = pods[victim]
    BY <1>3, DeleteMoves DEF DeletePod, DeletionLost
  <2>3. /\ victim \in Pods /\ pods'[victim] = pod
        /\ \A q \in Pods \ {victim} : pods'[q] = pods[q]
    BY <1>1, <1>3, <2>2, DeleteMoves DEF DeletePod, DeletionLost
  <2>4. 0 <= MaxEnding + lag /\ 0 <= MaxEnding
    BY <1>1
  <2>5. \A q \in Pods : pods[q].age \in Nat
    BY <1>1 DEF PodsOf
  <2>6. pod.phase = "ending" => 0 <= pod.age /\ pod.age <= MaxEnding
    BY <1>2, <2>2, <2>3, <2>4, <2>5 DEF LateInv
  <2>7. Late(pod, status, lag, 0)
    BY <2>4, <2>6
  <2>8. ASSUME NEW q \in Pods, q # victim
        PROVE  Late(pods[q], status, lag, 0)
    BY <2>4, <2>5, <2>8 DEF LateInv
  <2> HIDE DEF Late
  <2> QED
    BY <1>2, <2>1, <2>3, <2>7, <2>8
<1>4. ASSUME NEW p \in Pods, PodStep(p)
      PROVE  LateInv'
  <2>1. UNCHANGED <<status, lag, sinceDelete>>
    BY <1>4, PodStepKeeps
  <2>2. PICK pod \in PodsOf(revision) :
             /\ pods' = [pods EXCEPT ![p] = pod]
             /\ \/ pods[p].phase = "absent" /\ pod.phase = "created" /\ ~pod.ready
                \/ /\ pods[p].phase = "created" /\ pod.phase = "started"
                   /\ pod.ready = pods[p].ready /\ pod.revision = pods[p].revision
                \/ /\ pods[p].phase = "started" /\ pod.phase = "started"
                   /\ pod.ready /\ pod.revision = pods[p].revision
                \/ pods[p].phase = "ending" /\ pod.phase = "absent"
    BY <1>4, PodMoves
  <2>3. pods'[p] = pod /\ \A q \in Pods \ {p} : pods'[q] = pods[q]
    BY <1>1, <2>2
  <2>4. pods[p].phase = "ending" => sinceDelete <= MaxEnding + lag
    <3>1. pods[p].phase = "ending" => sinceDelete <= pods[p].age /\ pods[p].age <= MaxEnding
      BY DEF LateInv
    <3>2. pods[p].age \in Nat
      BY <1>1 DEF PodsOf
    <3> QED
      BY <1>1, <3>1, <3>2
  <2>5. Late(pod, status, lag, sinceDelete)
    BY <2>2, <2>4 DEF LateInv
  <2> HIDE DEF Late
  <2> QED
    BY <1>2, <2>1, <2>3, <2>5
<1>5. CASE SyncStatus
  <2>1. /\ status' = CurrentStatus /\ lag' = 0 /\ UNCHANGED <<pods, sinceDelete, revision>>
        /\ Existing = Pods
    BY <1>5 DEF SyncStatus, historyVars
  <2>2. DownInv' /\ TypeOK' /\ RevisionInv'
    BY DownStep, TypeOKStep
  <2>3. ASSUME NEW p \in Pods
        PROVE  Late(pods[p], CurrentStatus, 0, sinceDelete)
    <3>1. pods[p].phase # "absent"
      BY <2>1 DEF Existing
    <3>2. pods[p].revision <= CurrentStatus.updateRevision
      BY <1>1, CurrentStatusType DEF PodsOf
    <3>3. ~(~pods[p].ready /\ CurrentStatus.ready >= CurrentStatus.replicas)
      <4> DEFINE R == {q \in Existing : pods[q].ready}
      <4>1. SUFFICES ASSUME ~pods[p].ready, Cardinality(R) >= Cardinality(Pods) PROVE FALSE
        BY <2>1, CurrentStatusType
      <4>2. p \notin R /\ R \in SUBSET Pods
        BY <4>1 DEF Existing
      <4> HIDE DEF R
      <4>3. Cardinality(R) \in Nat /\ Cardinality(Pods) \in Nat
            /\ Cardinality(R) <= Cardinality(Pods)
        BY <4>2, Counts
      <4>4. Cardinality(R) = Cardinality(Pods)
        BY <4>1, <4>3
      <4> QED
        BY <4>2, <4>4, FS_Subset, PodsAssumption
    <3>4. revision \in Nat /\ CurrentStatus.updateRevision = revision
          /\ pods[p].revision \in Nat
      BY <1>1, CurrentStatusType DEF PodsOf
    <3> QED
      BY <3>1, <3>2, <3>3, <3>4 DEF LateInv
  <2> HIDE DEF Late
  <2> QED
    BY <1>2, <2>1, <2>3
<1>6. CASE Tick
  <2>1. status' = status
    BY <1>6 DEF Tick
  <2>2. sinceDelete' <= sinceDelete + 1 /\ sinceDelete' \in Nat
    BY <1>1, <1>6 DEF Tick, Plus
  <2>3. status # CurrentStatus => lag' = lag + 1
    BY <1>6 DEF Tick
  <2>4. ASSUME NEW p \in Pods
        PROVE  Late(pods'[p], status', lag', sinceDelete')
    <3>1. /\ pods'[p].phase = pods[p].phase /\ pods'[p].ready = pods[p].ready
          /\ pods'[p].revision = pods[p].revision /\ pods[p].age \in Nat
          /\ pods[p].phase = "ending" => pods'[p].age = pods[p].age + 1
      BY <1>1, <1>6, TickMoves DEF PodsOf
    <3>2. pods[p].phase = "ending" => sinceDelete' <= pods'[p].age /\ pods'[p].age <= MaxEnding
      <4>1. pods[p].phase = "ending" => sinceDelete <= pods[p].age /\ pods[p].age < MaxEnding
        BY <1>6 DEF LateInv, Tick
      <4> QED
        BY <1>1, <2>2, <3>1, <4>1
    <3>3. ASSUME sinceDelete <= MaxEnding + lag, status # CurrentStatus
          PROVE  sinceDelete' <= MaxEnding + lag'
      BY <1>1, <2>2, <2>3, <3>3
    <3>4. pods[p].phase = "absent" => sinceDelete' <= MaxEnding + lag'
      BY <3>3, NotCurrent DEF LateInv
    <3>5. pods[p].phase # "ending" /\ ~pods[p].ready /\ status.ready >= status.replicas =>
            sinceDelete' <= MaxEnding + lag'
      BY <3>3, NotCurrent DEF LateInv
    <3>6. pods[p].phase # "absent" /\ pods[p].revision > status.updateRevision =>
            sinceDelete' <= MaxEnding + lag'
      BY <3>3, NotCurrent DEF LateInv
    <3> QED
      BY <2>1, <3>1, <3>2, <3>4, <3>5, <3>6
  <2> QED
    BY <1>2, <2>4
<1>7. CASE \/ Start \/ StopTimer \/ NothingToDo \/ ChoosePod \/ WaitLonger \/ PodGone
           \/ CallFails \/ Arm \/ Panic \/ Restart \/ NewRevision \/ EditStrategy
           \/ EditLabels \/ OtherRequest \/ TimerFires \/ UNCHANGED vars
  <2>1. UNCHANGED <<pods, status, lag, sinceDelete>>
    BY <1>7 DEF Start, StopTimer, NothingToDo, ChoosePod, WaitLonger, PodGone, CallFails, Arm,
       Panic, Restart, NewProcess, NewRevision, EditStrategy, EditLabels, OtherRequest, TimerFires,
       vars, clusterVars, historyVars
  <2> QED
    BY <2>1 DEF LateInv
<1> QED
  BY <1>3, <1>4, <1>5, <1>6, <1>7 DEF Next, Operator

\* After the delay, with every pod ready in the status, every pod is ready, and of no newer
\* revision than the status knows.
LEMMA LateIsOver ==
    ASSUME TypeOK, DownInv, LateInv, Prompt, sinceDelete >= Delay,
           status.ready >= status.replicas
    PROVE  /\ down = {}
           /\ \A p \in Pods : pods[p].revision <= status.updateRevision
<1>1. /\ lag \in Nat /\ lag <= MaxLag /\ Delay \in Nat /\ sinceDelete \in Nat
      /\ MaxEnding \in Nat /\ MaxLag \in Nat
  BY TimesAssumption DEF TypeOK
<1>2. ~(sinceDelete <= MaxEnding + lag)
  BY <1>1 DEF Prompt
<1>3. ASSUME NEW p \in Pods
      PROVE  p \notin down /\ pods[p].revision <= status.updateRevision
  <2>1. pods[p].age \in Nat /\ pods[p].revision \in Nat /\ status.updateRevision \in Nat
    BY DEF TypeOK, Statuses
  <2>2. pods[p].phase # "ending"
    BY <1>1, <1>2, <2>1 DEF LateInv
  <2>3. pods[p].ready /\ pods[p].phase # "absent"
    BY <1>2, <2>2 DEF LateInv
  <2>4. ~(pods[p].revision > status.updateRevision)
    BY <1>2, <2>3 DEF LateInv
  <2> QED
    BY <2>1, <2>2, <2>3, <2>4 DEF DownInv
<1> QED
  BY <1>3 DEF TypeOK

\* While no pod is down, no pod takes a step.
LEMMA NoneDown ==
    ASSUME DownInv, NEW p \in Pods, p \notin down
    PROVE  /\ pods[p].phase \notin {"ending", "absent", "created"} /\ pods[p].ready
           /\ ~PodStep(p)
BY DEF DownInv, PodStep, CreatePod, StartPod, PodReady, EndPod

\* Every step keeps a pass true to the pods.
LEMMA SeenStep ==
    ASSUME TypeOK, RevisionInv, PauseInv, DownInv, LateInv, SeenInv, [Next]_vars
    PROVE  SeenInv'
<1> SUFFICES ASSUME Prompt, Undisturbed'
             PROVE  /\ pc' = "update" /\ sinceDelete' >= Delay /\ allReady' =>
                        /\ down' = {}
                        /\ \A p \in Pods : pods'[p].revision <= seen'.status.updateRevision
                    /\ pc' = "delete" =>
                        /\ down' = {}
                        /\ \A p \in Pods :
                            pods'[p].revision >= seen'.status.updateRevision =>
                                pods'[p].age >= Delay
                    /\ OneDownAtATime'
  BY DEF SeenInv, Prompt
<1>1. Undisturbed /\ delayed /\ ~slipped
  BY BoundsGrow DEF PauseInv
<1>2. /\ pc = "update" /\ sinceDelete >= Delay /\ allReady =>
          /\ down = {}
          /\ \A p \in Pods : pods[p].revision <= seen.status.updateRevision
      /\ pc = "delete" =>
          /\ down = {}
          /\ \A p \in Pods :
              pods[p].revision >= seen.status.updateRevision => pods[p].age >= Delay
      /\ OneDownAtATime
  BY <1>1 DEF SeenInv
<1>3. /\ Delay \in Nat \ {0} /\ sinceDelete \in 0 .. Delay /\ timer \in -1 .. Delay
      /\ \A p \in Pods : pods[p].revision \in Nat
      /\ seen.status.updateRevision \in Nat
  BY TimesAssumption DEF TypeOK, Statuses
<1>4. down' = down => OneDownAtATime'
  BY <1>2 DEF OneDownAtATime
<1>5. CASE Start
  <2>1. /\ pc' = "update" /\ seen'.status = status
        /\ UNCHANGED <<pods, down, sinceDelete>>
    BY <1>5 DEF Start, clusterVars, historyVars
  <2>2. allReady' => status.ready >= status.replicas
    BY <2>1 DEF allReady
  <2> QED
    BY <1>4, <2>1, <2>2, LateIsOver
<1>6. CASE ChoosePod
  <2>1. /\ pc = "update" /\ allReady /\ timer = -1 /\ waited /\ pc' = "delete"
        /\ seen.selected
        /\ UNCHANGED <<pods, down, sinceDelete, seen>>
    BY <1>6 DEF ChoosePod, MayUpdate, Listed, TimerExists, clusterVars, historyVars
  <2>2. sinceDelete >= Delay
    BY <1>1, <1>3, <2>1 DEF PauseInv
  <2>3. down = {} /\ \A p \in Pods : pods[p].revision <= seen.status.updateRevision
    BY <1>2, <2>1, <2>2
  <2>4. ASSUME NEW p \in Pods, pods[p].revision >= seen.status.updateRevision
        PROVE  pods[p].age >= Delay
    <3>1. pods[p].revision = seen.status.updateRevision
      BY <1>3, <2>3, <2>4
    <3>2. pods[p].phase # "absent"
      BY <2>3, NoneDown
    <3>3. p \in Updated
      BY <2>1, <3>1, <3>2 DEF Updated, Outdated, Listed, Existing
    <3> QED
      BY <2>1, <3>3 DEF waited
  <2> QED
    BY <1>4, <2>1, <2>3, <2>4
<1>7. CASE DeletePod
  <2>1. pc = "delete" /\ pc' = "arm" /\ down' = down \cup {victim}
    BY <1>7 DEF DeletePod, Deletion
  <2>2. down' = {victim}
    BY <1>2, <2>1
  <2>3. Cardinality({victim}) = 1
    BY FS_Singleton
  <2> QED
    BY <2>1, <2>2, <2>3 DEF OneDownAtATime
<1>8. CASE \/ StopTimer \/ NothingToDo \/ WaitLonger \/ PodGone \/ CallFails \/ Arm \/ Panic
           \/ Restart
  <2>1. pc' = "idle" /\ down' = down
    BY <1>8 DEF StopTimer, NothingToDo, WaitLonger, PodGone, CallFails, Arm, Panic, Restart,
       NewProcess, Done, historyVars
  <2> QED
    BY <1>4, <2>1
<1>9. ASSUME NEW p \in Pods, PodStep(p)
      PROVE  /\ ~(pc' = "update" /\ sinceDelete' >= Delay /\ allReady')
             /\ pc' # "delete" /\ OneDownAtATime'
  <2>1. UNCHANGED <<pc, seen, sinceDelete>> /\ (down' = down \/ down' = down \ {p})
    BY <1>9, PodStepKeeps, PodMoves DEF passVars
  <2>2. p \in down
    BY <1>9, NoneDown
  <2>3. allReady' = allReady
    BY <2>1 DEF allReady
  <2>4. Cardinality(down \ {p}) <= 1
    <3>1. down \ {p} \in SUBSET down /\ IsFiniteSet(down)
      BY Counts DEF TypeOK
    <3>2. Cardinality(down \ {p}) <= Cardinality(down)
      BY <3>1, FS_Subset
    <3>3. Cardinality(down) \in Nat /\ Cardinality(down \ {p}) \in Nat
      BY <3>1, FS_CardinalityType, FS_Subset
    <3> QED
      BY <1>2, <3>2, <3>3 DEF OneDownAtATime
  <2>5. OneDownAtATime'
    BY <1>4, <2>1, <2>4 DEF OneDownAtATime
  <2> QED
    BY <1>2, <2>1, <2>2, <2>3, <2>5
<1>10. CASE Tick
  <2>1. pc = "idle" /\ pc' = pc /\ down' = down
    BY <1>10 DEF Tick, Prompt, passVars
  <2> QED
    BY <1>4, <2>1
<1>11. CASE \/ SyncStatus \/ TimerFires \/ NewRevision \/ EditStrategy \/ EditLabels
            \/ OtherRequest \/ UNCHANGED vars
  <2>1. UNCHANGED <<pods, pc, seen, down, sinceDelete>>
    BY <1>11 DEF SyncStatus, TimerFires, NewRevision, EditStrategy, EditLabels, OtherRequest, vars,
       clusterVars, passVars, historyVars
  <2>2. allReady' = allReady
    BY <2>1 DEF allReady
  <2> QED
    BY <1>2, <1>4, <2>1, <2>2
<1>12. CASE DeletionLost
  BY <1>12 DEF DeletionLost, TypeOK, Undisturbed
<1> QED
  BY <1>5, <1>6, <1>7, <1>8, <1>9, <1>10, <1>11, <1>12 DEF Next, Operator

----------------------------------------------------------------------------
(* Theorems *)

\* The inductive invariant.
IInv ==
    /\ TypeOK /\ RevisionInv /\ BoundsInv /\ PauseInv
    /\ DownInv /\ LateInv /\ SeenInv

\* The inductive invariant holds at first.
LEMMA InitIInv == Init => IInv
<1> SUFFICES ASSUME Init PROVE IInv
  OBVIOUS
<1>1. /\ Delay \in Nat \ {0} /\ MaxLag \in Nat /\ MaxEnding \in Nat
      /\ MaxRevision \in Nat \ {0} /\ MaxEdits \in Nat /\ MaxRestarts \in Nat /\ MaxLosses \in Nat
      /\ Cardinality(Pods) \in Nat
  BY TimesAssumption, BoundsAssumption, Counts
<1>2. status \in Statuses /\ status.updateRevision = 1
  BY <1>1 DEF Init, Statuses
<1>3. seen \in [delayed : BOOLEAN, selected : BOOLEAN, status : Statuses]
      /\ seen.status.updateRevision = 1
  BY <1>1 DEF Init, NoPass, Statuses
<1>4. pods \in [Pods -> PodsOf(revision)]
  BY <1>1 DEF Init, PodsOf
<1>5. TypeOK
  <2>1. sinceDelete \in 0 .. Delay /\ timer \in -1 .. Delay /\ lag \in 0 .. MaxLag
    BY <1>1 DEF Init
  <2>2. /\ revision \in Nat /\ delayed \in BOOLEAN /\ selected \in BOOLEAN /\ pending \in BOOLEAN
        /\ pc = "idle" /\ victim = NoPod /\ down \subseteq Pods /\ slipped \in BOOLEAN
        /\ edits \in Nat /\ relabels \in Nat /\ restarts \in Nat /\ losses \in Nat
        /\ failures \in Nat
    BY DEF Init
  <2> QED
    BY <1>2, <1>3, <1>4, <2>1, <2>2 DEF TypeOK, PodsOf
<1>6. RevisionInv /\ BoundsInv
  BY <1>1, <1>2, <1>3 DEF Init, RevisionInv, BoundsInv
<1>7. PauseInv /\ DownInv
  BY <1>1, <1>3 DEF Init, PauseInv, DownInv
<1>8. LateInv
  BY <1>1, <1>2 DEF Init, LateInv
<1>9. SeenInv
  <2>1. Cardinality({}) = 0
    BY FS_EmptySet
  <2> QED
    BY <2>1 DEF Init, SeenInv, OneDownAtATime
<1> QED
  BY <1>5, <1>6, <1>7, <1>8, <1>9 DEF IInv

\* Every action keeps the inductive invariant.
LEMMA NextIInv == IInv /\ [Next]_vars => IInv'
BY TypeOKStep, BoundsGrow, PauseStep, DownStep, LateStep, SeenStep DEF IInv

\* The inductive invariant holds throughout.
LEMMA Invariance == Spec => []IInv
BY InitIInv, NextIInv, PTL DEF Spec

\* Type correctness.
THEOREM TypeCorrect == Spec => []TypeOK
BY Invariance, PTL DEF IInv

\* "a pause between pod updates" (docs/varnish-cluster.md:77): the operator leaves the delay
\* between two deletions, however late the status is, however long its passes take and
\* whichever calls fail without effect, unless the first of them was answered with an error,
\* or the strategy was changed or the operator restarted since.
THEOREM PauseIsKept == Spec => PauseBetweenUpdates
<1> DEFINE A == ~slipped /\ (\E p \in Pods : Deletes(p)) => sinceDelete >= Delay
<1>1. IInv => A
  BY DEF IInv, PauseInv, Deletes, Deletion
<1>2. IInv => [A]_vars
  BY <1>1
<1> QED
  BY <1>2, Invariance, PTL DEF PauseBetweenUpdates

\* "The operator respects Pods readiness and does not reload the next pod until all pods are
\* ready, even if the delay time elapsed" (docs/varnish-cluster.md:81): if pods end and the
\* status follows within the delay and passes are quick, at most one of the pods the operator
\* deleted is not ready, whichever calls fail without effect and however the labels change,
\* until a deletion is answered with an error although it was executed, the strategy is
\* changed or the operator restarted.
THEOREM OneIsDown == Prompt => (Spec => [](Undisturbed => OneDownAtATime))
<1>1. Prompt /\ IInv => (Undisturbed => OneDownAtATime)
  BY DEF IInv, SeenInv
<1>2. SUFFICES ASSUME Prompt
               PROVE  Spec => [](Undisturbed => OneDownAtATime)
  OBVIOUS
<1>3. IInv => (Undisturbed => OneDownAtATime)
  BY <1>1, <1>2
<1> QED
  BY <1>3, Invariance, PTL

\* "wait for a recently updated Varnish node to warm up before an another one reloads"
\* (docs/varnish-cluster.md:77): under the same conditions a pod is only deleted when every pod
\* of the newest revision has run for the delay, also if that revision is newer than the one the
\* pass knows.
THEOREM PodsWarmUp ==
    Prompt /\ MaxEdits = 0 /\ MaxRestarts = 0 /\ MaxLosses = 0 => (Spec => WarmUp)
<1> DEFINE A == \A p \in Pods : Deletes(p) =>
                    \A q \in Existing : pods[q].revision = revision => pods[q].age >= Delay
<1>1. SUFFICES ASSUME Prompt, MaxEdits = 0, MaxRestarts = 0, MaxLosses = 0
               PROVE  Spec => WarmUp
  OBVIOUS
<1>2. IInv => A
  <2> SUFFICES ASSUME IInv, pc = "delete", NEW q \in Existing, pods[q].revision = revision
               PROVE  pods[q].age >= Delay
    BY DEF Deletes, Deletion
  <2>1. Undisturbed
    BY <1>1 DEF IInv, TypeOK, BoundsInv, Undisturbed
  <2>2. q \in Pods /\ pods[q].revision >= seen.status.updateRevision
    BY DEF IInv, TypeOK, Statuses, RevisionInv, Existing
  <2> QED
    BY <1>1, <2>1, <2>2 DEF IInv, SeenInv
<1>3. IInv => [A]_vars
  BY <1>2
<1> QED
  BY <1>3, Invariance, PTL DEF WarmUp
=============================================================================
