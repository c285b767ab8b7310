--------------------------- MODULE VCLStatusProofs ---------------------------
(***************************************************************************)
(* Proofs about VCLStatus, for every finite set of pods, every number of   *)
(* versions, restarts, changes of labels and faults.                       *)
(***************************************************************************)
EXTENDS VCLStatus, FiniteSetTheorems, TLAPS

----------------------------------------------------------------------------
(* Counting *)

\* No pod is counted twice, be they all of the pods that report a version or none.
LEMMA CountsFit ==
    ASSUME NEW R \in SUBSET Pods, NEW L \in SUBSET R
    PROVE  /\ Cardinality(L) \in Nat
           /\ Cardinality(R \ L) \in Nat
           /\ Cardinality(L) + Cardinality(R \ L) <= Cardinality(Pods)
<1>1. L \in SUBSET Pods /\ R \ L \in SUBSET Pods /\ L \cup (R \ L) \in SUBSET Pods
  OBVIOUS
<1>2. IsFiniteSet(L) /\ IsFiniteSet(R \ L)
  BY <1>1, FS_Subset, PodsAssumption
<1>3. Cardinality(L \cup (R \ L)) <= Cardinality(Pods)
  BY <1>1, FS_Subset, PodsAssumption
<1>4. L \cap (R \ L) = {}
  OBVIOUS
<1>5. Cardinality(L \cup (R \ L)) = Cardinality(L) + Cardinality(R \ L) - Cardinality({})
  BY <1>2, <1>4, FS_Union
<1>6. Cardinality(L) \in Nat /\ Cardinality(R \ L) \in Nat /\ Cardinality({}) = 0
  BY <1>2, FS_CardinalityType, FS_EmptySet
<1> QED
  BY <1>3, <1>5, <1>6

\* Counted against the present version, the pods are those the status is about.
LEMMA CountsTell ==
    ASSUME NEW state, NEW v \in Versions \ {0}
    PROVE  /\ Latest(state, v) = {p \in Pods : state[p] = v}
           /\ Reporting(state) \ Latest(state, v)
                = {p \in Pods : state[p] \notin {NoPod, 0, v}}
BY PodsAssumption DEF Latest, Reporting, Versions

----------------------------------------------------------------------------
(* Types *)

\* The status of a new VarnishCluster, and what is left of a pass that is over.
LEMMA DoneType ==
    /\ NoStatus \in Statuses
    /\ Done => pc' = "idle" /\ inst' \in ClusterStates /\ new' \in Statuses
<1>1. 0 \in Versions
  BY BoundsAssumption DEF Versions
<1>2. NoStatus \in Statuses
  BY <1>1, FS_CardinalityType, PodsAssumption DEF NoStatus, Statuses
<1>3. [status |-> NoStatus, selected |-> TRUE, relabels |-> 0] \in ClusterStates
  BY <1>2 DEF ClusterStates
<1> QED
  BY <1>2, <1>3 DEF Done

\* What a pass counts is a status.
LEMMA CountsType ==
    ASSUME TypeOK, CountPods
    PROVE  new' \in Statuses
<1> DEFINE reporting == {p \in Reporting(cache.pods) : inst.selected}
           latest == reporting \cap Latest(cache.pods, inst.status.version)
<1>1. reporting \in SUBSET Pods /\ latest \in SUBSET reporting
  BY DEF Reporting
<1>2. new' = [new EXCEPT !.latest = Cardinality(latest),
                         !.outdated = Cardinality(reporting \ latest)]
  BY DEF CountPods
<1> HIDE DEF reporting, latest
<1> QED
  BY <1>1, <1>2, CountsFit DEF TypeOK, Statuses

\* Every step keeps the variables in their types.
LEMMA TypeOKStep ==
    ASSUME TypeOK, [Next]_vars
    PROVE  TypeOK'
<1> USE DEF TypeOK, clusterVars, passVars
<1>1. CASE Publish
  BY <1>1, BoundsAssumption DEF Publish, Versions
<1>2. ASSUME NEW p \in Pods, Report(p) PROVE TypeOK'
  <2>1. PICK v \in pods[p] + 1 .. version : pods' = [pods EXCEPT ![p] = v]
    BY <1>2 DEF Report
  <2>2. pods[p] \in Nat /\ v \in Versions
    BY <1>2, <2>1, BoundsAssumption DEF Report, PodStates, Versions
  <2> QED
    BY <1>2, <2>1, <2>2 DEF Report, PodStates
<1>3. ASSUME NEW p \in Pods, PodComesOrGoes(p) PROVE TypeOK'
  <2>1. 0 \in Versions
    BY BoundsAssumption DEF Versions
  <2> QED
    BY <1>3, <2>1 DEF PodComesOrGoes, PodStates
<1>12. CASE EditLabels
  BY <1>12 DEF EditLabels
<1>4. CASE FollowUp
  BY <1>4 DEF FollowUp, Seen, Cluster, ClusterStates
<1>5. CASE StartPass
  BY <1>5 DEF StartPass, ClusterStates
<1>6. CASE ReadConfigMap
  BY <1>6 DEF ReadConfigMap, Statuses
<1>7. CASE CountPods
  BY <1>7, CountsType DEF CountPods
<1>8. CASE UpdateStatus
  BY <1>8, DoneType DEF UpdateStatus
<1>9. CASE CallFails
  BY <1>9, DoneType DEF CallFails, Fault
<1>10. CASE Crash
  BY <1>10, DoneType DEF Crash, Fault, Seen, Cluster, ClusterStates
<1>11. CASE UNCHANGED vars
  BY <1>11 DEF vars
<1> QED
  BY <1>1, <1>2, <1>3, <1>4, <1>5, <1>6, <1>7, <1>8, <1>9, <1>10, <1>11, <1>12 DEF Next, Pass

----------------------------------------------------------------------------
(* What a pass knows of the cache, unless a request waits: then another pass follows *)

\* The end of a pass leaves a status that is right for the cache, or one the cache has
\* still to see.
PassInv ==
    /\ cache.cluster.relabels <= relabels
    /\ pc = "idle" => \/ queued
                      \/ cache.cluster # Cluster
                      \/ cache.cluster.selected =>
                            Tells(cache.cluster.status, cache.version, cache.pods)
    /\ pc # "idle" => queued \/ inst = cache.cluster
    /\ pc \in {"pods", "status"} => queued \/ new.version = cache.version
    /\ pc = "status" /\ inst.selected =>
        \/ queued
        \/ LET latest == Latest(cache.pods, inst.status.version)
           IN  /\ new.latest = Cardinality(latest)
               /\ new.outdated = Cardinality(Reporting(cache.pods) \ latest)

\* A pass that has nothing to write was counting against the right version.
LEMMA NothingToWrite ==
    ASSUME TypeOK, PassInv, pc = "status", ~queued, new = inst.status, cache.cluster.selected
    PROVE  Tells(cache.cluster.status, cache.version, cache.pods)
<1>1. inst = cache.cluster /\ new.version = cache.version /\ inst.status.version = cache.version
  BY DEF PassInv
<1>2. cache.version \in Versions \ {0}
  BY DEF TypeOK
<1>3. inst.selected
  BY <1>1
<1>4. /\ new.latest = Cardinality(Latest(cache.pods, cache.version))
      /\ new.outdated = Cardinality(Reporting(cache.pods) \ Latest(cache.pods, cache.version))
  BY <1>1, <1>3 DEF PassInv
<1>5. new = cache.cluster.status
  BY <1>1
<1> DEFINE v == cache.version
           state == cache.pods
<1>6. /\ Latest(state, v) = {p \in Pods : state[p] = v}
      /\ Reporting(state) \ Latest(state, v) = {p \in Pods : state[p] \notin {NoPod, 0, v}}
  BY <1>2, CountsTell
<1>7. new.version = v
  BY <1>1
<1> HIDE DEF v, state
<1>8. Tells(new, v, state)
  BY <1>4, <1>6, <1>7 DEF Tells, v, state
<1> QED
  BY <1>5, <1>8 DEF v, state

\* Every step keeps that: the cache moves only with a request.
LEMMA PassInvStep ==
    ASSUME TypeOK, PassInv, [Next]_vars
    PROVE  PassInv'
<1> USE DEF clusterVars, passVars
<1>1. CASE Publish
  BY <1>1 DEF Publish, PassInv, Cluster, Tells, Latest, Reporting
<1>2. ASSUME NEW p \in Pods, Report(p) PROVE PassInv'
  BY <1>2 DEF Report, PassInv, Cluster, Tells, Latest, Reporting
<1>3. ASSUME NEW p \in Pods, PodComesOrGoes(p) PROVE PassInv'
  BY <1>3 DEF PodComesOrGoes, PassInv, Cluster, Tells, Latest, Reporting
<1>12. CASE EditLabels
  <2>1. /\ relabels' = relabels + 1
        /\ UNCHANGED <<version, pods, status, cache, queued, passVars, restarts, faults>>
    BY <1>12 DEF EditLabels
  <2>2. cache.cluster.relabels \in Nat /\ relabels \in Nat /\ cache.cluster.relabels <= relabels
    BY DEF TypeOK, ClusterStates, PassInv
  <2>3. cache'.cluster.relabels <= relabels' /\ cache'.cluster.relabels # relabels'
    BY <2>1, <2>2
  <2>4. cache'.cluster # Cluster'
    BY <2>3 DEF Cluster
  <2> QED
    BY <2>1, <2>3, <2>4 DEF PassInv, Tells, Latest, Reporting
<1>4. CASE FollowUp
  <2>1. cache'.cluster.relabels <= relabels'
    BY <1>4 DEF FollowUp, PassInv, Seen, Cluster, TypeOK
  <2> QED
    BY <1>4, <2>1 DEF FollowUp, PassInv
<1>5. CASE StartPass
  BY <1>5 DEF StartPass, PassInv
<1>6. CASE ReadConfigMap
  BY <1>6 DEF ReadConfigMap, PassInv, TypeOK, Statuses
<1>7. CASE CountPods
  <2>1. pc = "pods" /\ pc' = "status" /\ UNCHANGED <<clusterVars, cache, queued, inst>>
    BY <1>7 DEF CountPods
  <2>2. new' = [new EXCEPT !.latest = new'.latest, !.outdated = new'.outdated]
    BY <1>7 DEF CountPods, TypeOK, Statuses
  <2>3. new'.version = new.version
    BY <1>7 DEF CountPods, TypeOK, Statuses
  <2>4. ASSUME inst.selected
        PROVE  /\ new'.latest = Cardinality(Latest(cache.pods, inst.status.version))
               /\ new'.outdated = Cardinality(Reporting(cache.pods)
                                                \ Latest(cache.pods, inst.status.version))
    <3> DEFINE R == {p \in Reporting(cache.pods) : inst.selected}
               L == R \cap Latest(cache.pods, inst.status.version)
    <3>1. R = Reporting(cache.pods) /\ L = Latest(cache.pods, inst.status.version)
      BY <2>4 DEF Latest
    <3>2. new'.latest = Cardinality(L) /\ new'.outdated = Cardinality(R \ L)
      BY <1>7 DEF CountPods, TypeOK, Statuses
    <3> QED
      BY <3>1, <3>2
  <2> QED
    BY <2>1, <2>3, <2>4 DEF PassInv, Latest, Reporting
<1>8. CASE UpdateStatus
  <2>1. pc = "status" /\ pc' = "idle" /\ UNCHANGED <<version, pods, selected, relabels, cache>>
    BY <1>8 DEF UpdateStatus, Done
  <2>2. CASE new = inst.status
    <3>1. UNCHANGED <<status, queued>>
      BY <1>8, <2>2 DEF UpdateStatus
    <3> QED
      BY <2>1, <2>2, <3>1, NothingToWrite DEF PassInv, Tells
  <2>3. CASE new # inst.status /\ inst = Cluster
    <3>1. status' = new /\ queued' = queued
      BY <1>8, <2>3 DEF UpdateStatus
    <3>2. queued \/ cache.cluster.status # status'
      BY <2>1, <2>3, <3>1 DEF PassInv
    <3> QED
      BY <2>1, <3>1, <3>2 DEF PassInv, Cluster
  <2>4. CASE new # inst.status /\ inst # Cluster
    <3>1. queued' = TRUE
      BY <1>8, <2>4 DEF UpdateStatus
    <3> QED
      BY <2>1, <3>1 DEF PassInv
  <2> QED
    BY <2>2, <2>3, <2>4
<1>9. CASE CallFails
  BY <1>9 DEF CallFails, Done, PassInv
<1>10. CASE Crash
  BY <1>10 DEF Crash, Done, PassInv, Seen, Cluster, TypeOK
<1>11. CASE UNCHANGED vars
  BY <1>11 DEF vars, PassInv, Cluster, Tells, Latest, Reporting
<1> QED
  BY <1>1, <1>2, <1>3, <1>4, <1>5, <1>6, <1>7, <1>8, <1>9, <1>10, <1>11, <1>12 DEF Next, Pass

----------------------------------------------------------------------------
(* Theorems *)

\* The operator starts with an empty status and a request for every VarnishCluster.
LEMMA Initially ==
    ASSUME Init
    PROVE  TypeOK /\ PassInv
<1>1. 0 \in Versions /\ 1 \in Versions \ {0}
  BY BoundsAssumption DEF Versions
<1>2. Cluster \in ClusterStates /\ relabels = 0
  BY DoneType DEF Init, Cluster, ClusterStates
<1>3. cache = Seen /\ Seen.cluster = Cluster /\ inst = Cluster
  BY DEF Init, Seen
<1>4. TypeOK
  BY <1>1, <1>2, <1>3, DoneType DEF Init, TypeOK, Seen, PodStates
<1>5. cache.cluster.relabels <= relabels
  BY <1>2, <1>3 DEF Cluster
<1> QED
  BY <1>4, <1>5 DEF Init, PassInv

\* The type invariant of the status in varnishcluster_configmap.go:91: whatever pods come
\* and go, no status counts a pod twice.
THEOREM TypeCorrect == Spec => []TypeOK
<1>1. Init => TypeOK
  BY Initially
<1>2. TypeOK /\ [Next]_vars => TypeOK'
  BY TypeOKStep
<1> QED
  BY <1>1, <1>2, PTL DEF Spec

\* With nothing left to do the status names the present version and counts the pods
\* against it (varnishcluster_configmap.go:103), whatever was lost, repeated or late, if the
\* labels of the VarnishCluster select the pods, however often they have changed.
THEOREM StatusIsTrueAtRest == Spec => []RestIsTrue
<1>1. Init => PassInv
  BY Initially
<1>2. TypeOK /\ PassInv /\ [Next]_vars => PassInv'
  BY PassInvStep
<1>3. PassInv => RestIsTrue
  BY DEF PassInv, RestIsTrue, Rest, Seen, Cluster
<1> QED
  BY <1>1, <1>2, <1>3, TypeCorrect, PTL DEF Spec
=============================================================================
