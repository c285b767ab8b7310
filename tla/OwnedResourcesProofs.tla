------------------------ MODULE OwnedResourcesProofs ------------------------
(***************************************************************************)
(* Proofs about OwnedResources, for every set of labels, specs, budgets    *)
(* and claim templates, any number of edits and faults, and whatever the   *)
(* cache lags behind.                                                      *)
(***************************************************************************)
EXTENDS OwnedResources, TLAPS

\* An object or none.
Some == Objects \cup {NoObject}

----------------------------------------------------------------------------
(* The order of a pass and the objects it makes *)

\* A pass takes ten turns.
LEMMA Turns ==
    /\ DOMAIN Order = 1 .. 10 /\ Len(Order) = 10
    /\ \A i, j \in 1 .. 10 : Order[i] = Order[j] => i = j
BY SMTT(30) DEF Order

\* The ten kinds by name.
LEMMA KindsByName ==
    Kinds = {"ServiceAccount", "Role", "RoleBinding", "NoCacheService", "HeadlessService",
             "Secret", "StatefulSet", "ConfigMap", "PodDisruptionBudget", "Service"}
BY SMTT(30) DEF Order, Kinds

\* What a pass makes of a VarnishCluster are objects; only a budget may not be wanted.
LEMMA DesiredObjects ==
    ASSUME NEW k \in Kinds, NEW v \in Clusters
    PROVE  /\ desired(k, v) \in Some
           /\ k # "PodDisruptionBudget" => desired(k, v) \in Objects
           /\ desired(k, v) # NoObject => desired(k, v) \in Objects /\ desired(k, v).owner = "us"
<1>1. NoObject \notin Objects
  BY ValuesAssumption
<1>2. /\ v.labels \in LabelSets /\ v.spec \in SpecValues /\ v.budget \in Budgets \cup {None}
      /\ v.storage \in Storages
  BY DEF Clusters
<1>3. ASSUME NEW spec \in SpecValues \cup Budgets \cup {None, Generated},
             NEW pods \in LabelSets \cup {None}, NEW storage \in Storages \cup {None}
      PROVE  Object(v, spec, pods, storage) \in Objects
             /\ Object(v, spec, pods, storage).owner = "us"
  BY <1>2, <1>3 DEF Object, Objects
<1>4. CASE k = "PodDisruptionBudget"
  BY <1>1, <1>2, <1>3, <1>4 DEF desired, budgetOf, Some
<1>5. /\ serviceAccountOf(v) \in Objects /\ serviceAccountOf(v).owner = "us"
      /\ roleOf(v) \in Objects /\ roleOf(v).owner = "us"
      /\ roleBindingOf(v) \in Objects /\ roleBindingOf(v).owner = "us"
      /\ noCacheServiceOf(v) \in Objects /\ noCacheServiceOf(v).owner = "us"
      /\ headlessServiceOf(v) \in Objects /\ headlessServiceOf(v).owner = "us"
  BY <1>2, <1>3 DEF serviceAccountOf, roleOf, roleBindingOf, noCacheServiceOf, headlessServiceOf
<1>6. /\ secretOf(v) \in Objects /\ secretOf(v).owner = "us"
      /\ statefulSetOf(v) \in Objects /\ statefulSetOf(v).owner = "us"
      /\ configMapOf(v) \in Objects /\ configMapOf(v).owner = "us"
      /\ serviceOf(v) \in Objects /\ serviceOf(v).owner = "us"
  BY <1>2, <1>3 DEF secretOf, statefulSetOf, podTemplate, configMapOf, serviceOf
<1>7. CASE k # "PodDisruptionBudget"
  BY <1>5, <1>6, <1>7, KindsByName DEF desired, Some
<1> QED
  BY <1>4, <1>7

\* An update sends an object, with the owner it had unless it is a ConfigMap.
LEMMA SentObjects ==
    ASSUME NEW k \in Kinds, NEW found \in Objects, NEW want \in Objects
    PROVE  /\ sent(k, found, want) \in Objects
           /\ k # "ConfigMap" => sent(k, found, want).owner = found.owner
BY DEF sent, inherited, Objects

----------------------------------------------------------------------------
(* Types *)

\* Every step keeps the variables in their types; the budget's turn lasts until it has
\* been created anew.
LEMMA TypeOKStep ==
    ASSUME TypeOK, [Next]_vars
    PROVE  TypeOK'
<1> DEFINE Turn == at \in 0 .. Len(Order) + 1
           Replacing == deleted => at \in DOMAIN Order /\ Order[at] = "PodDisruptionBudget"
<1> USE DEF TypeOK, userVars, passVars, cacheVars, Some
<1>1. ASSUME NEW k \in Kinds, NEW o \in Some, Moves(k, o)
      PROVE  obj' \in [Kinds -> Some] /\ behind' \subseteq Kinds /\ events' \subseteq behind'
  BY <1>1 DEF Moves
<1>2. CASE EditVarnishCluster
  BY <1>2 DEF EditVarnishCluster, Change
<1>3. ASSUME NEW k \in Kinds, NEW o \in Some, Becomes(k, o) PROVE TypeOK'
  BY <1>1, <1>3 DEF Becomes, Change
<1>4. ASSUME NEW k \in Kinds, DeleteObject(k) PROVE TypeOK'
  BY <1>3, <1>4 DEF DeleteObject
<1>5. ASSUME NEW k \in Kinds, TamperWith(k) PROVE TypeOK'
  <2>1. obj[k] \in Objects
    BY <1>5 DEF TamperWith
  <2>2. [obj[k] EXCEPT !.labels = Tampered] \in Objects /\ [obj[k] EXCEPT !.spec = Tampered] \in Objects
    BY <2>1 DEF Objects
  <2> QED
    BY <1>3, <1>5, <2>2 DEF TamperWith
<1>6. ASSUME NEW k \in Kinds, BringOwn(k) PROVE TypeOK'
  <2>1. secretOf(vc) \in Objects /\ configMapOf(vc) \in Objects
    BY DEF secretOf, configMapOf, Object, Objects, Clusters
  <2>2. /\ \A s \in {Empty, Tampered} :
             [secretOf(vc) EXCEPT !.spec = s, !.labels = Tampered, !.owner = "nobody"] \in Objects
        /\ \A o \in {"nobody", "other"} :
             [configMapOf(vc) EXCEPT !.spec = Tampered, !.labels = Tampered, !.owner = o]
                \in Objects
    BY <2>1 DEF Objects
  <2> QED
    BY <1>3, <1>6, <2>2 DEF BringOwn
<1>7. ASSUME NEW k \in Kinds, FollowUp(k) PROVE TypeOK'
  BY <1>7 DEF FollowUp
<1>8. CASE StartPass
  <2>1. Turn' /\ Replacing'
    BY <1>8, Turns DEF StartPass
  <2> QED
    BY <1>8, <2>1 DEF StartPass
<1>9. CASE EndPass /\ UNCHANGED faults
  <2>1. Turn' /\ Replacing'
    BY <1>9, Turns DEF EndPass
  <2> QED
    BY <1>9, <2>1 DEF EndPass
<1>10. ASSUME NEW k \in Kinds, CreateObject(k) PROVE TypeOK'
  <2>1. desired(k, inst.vc) \in Some
    BY DesiredObjects
  <2>2. CASE Written(k, desired(k, inst.vc)) /\ NextKind
    <3>1. Turn' /\ Replacing'
      BY <1>10, <2>2, Turns DEF CreateObject, NextKind, turn
    <3> QED
      BY <1>1, <1>10, <2>1, <2>2, <3>1 DEF Written, NextKind
  <2> QED
    BY <1>9, <1>10, <2>2 DEF CreateObject
<1>11. ASSUME NEW k \in Kinds, LeaveObject(k) PROVE TypeOK'
  <2>1. Turn' /\ Replacing'
    BY <1>11, Turns DEF LeaveObject, NextKind, turn
  <2> QED
    BY <1>11, <2>1 DEF LeaveObject, NextKind
<1>12. ASSUME NEW k \in Kinds, UpdateObject(k) PROVE TypeOK'
  <2> DEFINE new == sent(k, cache[k], desired(k, inst.vc))
  <2>1. new \in Some
    BY <1>12, DesiredObjects, SentObjects DEF UpdateObject
  <2>2. CASE Written(k, new) /\ NextKind
    <3>1. Turn' /\ Replacing'
      BY <1>12, <2>2, Turns DEF UpdateObject, NextKind, turn
    <3> QED
      BY <1>1, <1>12, <2>1, <2>2, <3>1 DEF Written, NextKind
  <2> QED
    BY <1>9, <1>12, <2>2 DEF UpdateObject
<1>13. CASE ConfigMapNotOurs
  BY <1>9, <1>13 DEF ConfigMapNotOurs
<1>14. CASE DeleteBudget
  <2> DEFINE k == "PodDisruptionBudget"
             want == desired(k, inst.vc)
  <2>1. k \in Kinds
    BY KindsByName
  <2>2. CASE Written(k, NoObject) /\ want = NoObject /\ NextKind
    <3>1. Turn' /\ Replacing'
      BY <1>14, <2>2, Turns DEF DeleteBudget, NextKind, turn
    <3> QED
      BY <1>1, <1>14, <2>1, <2>2, <3>1 DEF Written, NextKind
  <2>3. CASE Written(k, NoObject) /\ at' = at /\ deleted' = TRUE
    <3>1. Turn' /\ Replacing'
      BY <1>14, <2>3, Turns DEF DeleteBudget, turn
    <3> QED
      BY <1>1, <1>14, <2>1, <2>3, <3>1 DEF Written
  <2> QED
    BY <1>9, <1>14, <2>2, <2>3 DEF DeleteBudget
<1>15. CASE FinishPass
  <2>1. Turn' /\ Replacing'
    BY <1>15, Turns DEF FinishPass
  <2>2. [pods |-> inst.vc.labels, spec |-> inst.vc.spec]
          \in [pods : LabelSets \cup {None}, spec : SpecValues \cup {None}]
    BY DEF Clusters
  <2> QED
    BY <1>15, <2>1, <2>2 DEF FinishPass
<1>16. CASE CallFails
  <2>1. Turn' /\ Replacing'
    BY <1>16, Turns DEF CallFails, EndPass
  <2>2. faults' \in Nat
    BY <1>16 DEF CallFails, Fault
  <2> QED
    BY <1>16, <2>1, <2>2 DEF CallFails, EndPass
<1>17. CASE Crash
  <2>1. Turn' /\ Replacing'
    BY <1>17, Turns DEF Crash
  <2>2. faults' \in Nat
    BY <1>17 DEF Crash, Fault
  <2> QED
    BY <1>17, <2>1, <2>2 DEF Crash
<1>18. CASE UNCHANGED vars
  BY <1>18 DEF vars
<1> QED
  BY <1>2, <1>4, <1>5, <1>6, <1>7, <1>8, <1>10, <1>11, <1>12, <1>13, <1>14, <1>15, <1>16,
     <1>17, <1>18 DEF Next, Users, Pass

----------------------------------------------------------------------------
(* The cache and the events *)

\* Where the cache is not behind it shows what there is.
SyncInv == \A k \in Kinds : k \notin behind => cache[k] = obj[k]

\* Where no event is on its way, no object of ours has changed.
EventInv == \A k \in behind \ events : ~ours(obj[k]) /\ ~ours(cache[k])

\* Only a Secret or a ConfigMap may be a user's; a ServiceAccount has nothing but labels.
Shaped(k, o) ==
    \/ o = NoObject
    \/ k \in {"Secret", "ConfigMap"}
    \/ /\ o.owner = "us"
       /\ k = "ServiceAccount" => o.spec = None /\ o.pods = None /\ o.storage = None

\* Every object and its copy in the cache have the shape of their kind.
ShapeInv == \A k \in Kinds : Shaped(k, obj[k]) /\ Shaped(k, cache[k])

\* The invariant of the cache.
CacheInv == SyncInv /\ EventInv /\ ShapeInv

\* The objects of a pass have that shape.
LEMMA DesiredShape ==
    ASSUME NEW k \in Kinds, NEW v \in Clusters
    PROVE  Shaped(k, desired(k, v))
<1>1. CASE k = "ServiceAccount"
  BY <1>1 DEF Shaped, desired, serviceAccountOf, Object
<1>2. CASE k # "ServiceAccount"
  BY <1>2, DesiredObjects DEF Shaped
<1> QED
  BY <1>1, <1>2

\* And so has what an update sends.
LEMMA SentShape ==
    ASSUME NEW k \in Kinds, NEW found \in Objects, NEW want \in Objects, Shaped(k, found)
    PROVE  Shaped(k, sent(k, found, want))
<1>1. NoObject \notin Objects
  BY ValuesAssumption
<1>2. CASE k = "ServiceAccount"
  BY <1>1, <1>2 DEF Shaped, sent, Objects
<1>3. CASE k # "ServiceAccount"
  BY <1>1, <1>3, SentObjects DEF Shaped
<1> QED
  BY <1>2, <1>3

\* An object that changes leaves the cache behind, with an event if it is ours.
LEMMA MovesCacheInv ==
    ASSUME TypeOK, CacheInv, NEW k \in Kinds, NEW o, Shaped(k, o), Moves(k, o), cache' = cache
    PROVE  CacheInv'
<1>1. obj' = [obj EXCEPT ![k] = o] /\ obj \in [Kinds -> Some]
  BY DEF Moves, TypeOK, Some
<1>2. SyncInv'
  BY <1>1 DEF CacheInv, SyncInv, Moves
<1>3. EventInv'
  BY <1>1 DEF CacheInv, SyncInv, EventInv, Moves, ours, TypeOK
<1>4. ShapeInv'
  BY <1>1 DEF CacheInv, ShapeInv, Shaped
<1> QED
  BY <1>2, <1>3, <1>4 DEF CacheInv

\* Every step keeps cache and events in step with the objects.
LEMMA CacheInvStep ==
    ASSUME TypeOK, CacheInv, [Next]_vars
    PROVE  CacheInv'
<1> USE DEF userVars, passVars, cacheVars
<1>1. CASE UNCHANGED <<obj, cacheVars>>
  BY <1>1 DEF CacheInv, SyncInv, EventInv, ShapeInv, Shaped, ours
<1>2. ASSUME NEW k \in Kinds, NEW o, Becomes(k, o), Shaped(k, o) PROVE CacheInv'
  BY <1>2, MovesCacheInv DEF Becomes
<1>3. ASSUME NEW k \in Kinds, DeleteObject(k) PROVE CacheInv'
  BY <1>2, <1>3 DEF DeleteObject, Shaped
<1>4. ASSUME NEW k \in Kinds, TamperWith(k) PROVE CacheInv'
  <2>1. obj[k] \in Objects /\ Shaped(k, obj[k])
    BY <1>4 DEF TamperWith, TypeOK, CacheInv, ShapeInv
  <2>2. Shaped(k, [obj[k] EXCEPT !.labels = Tampered])
    BY <1>4, <2>1 DEF TamperWith, Shaped, Objects
  <2>3. obj[k].spec \notin {None, Tampered} => Shaped(k, [obj[k] EXCEPT !.spec = Tampered])
    BY <1>4, <2>1 DEF TamperWith, Shaped, Objects
  <2> QED
    BY <1>2, <1>4, <2>2, <2>3 DEF TamperWith
<1>5. ASSUME NEW k \in Kinds, BringOwn(k) PROVE CacheInv'
  BY <1>2, <1>5 DEF BringOwn, Shaped
<1>6. ASSUME NEW k \in Kinds, FollowUp(k) PROVE CacheInv'
  <2>1. cache' = [cache EXCEPT ![k] = obj[k]] /\ cache \in [Kinds -> Some]
    BY <1>6 DEF FollowUp, TypeOK, Some
  <2> QED
    BY <1>6, <2>1 DEF FollowUp, CacheInv, SyncInv, EventInv, ShapeInv, Shaped, ours
<1>7. ASSUME NEW k \in Kinds, CreateObject(k) PROVE CacheInv'
  <2>1. Shaped(k, desired(k, inst.vc))
    BY DesiredShape DEF TypeOK
  <2> QED
    BY <1>1, <1>7, <2>1, MovesCacheInv DEF CreateObject, Written, EndPass
<1>8. ASSUME NEW k \in Kinds, UpdateObject(k) PROVE CacheInv'
  <2>1. cache[k] \in Objects /\ desired(k, inst.vc) \in Objects
    BY <1>8, DesiredObjects DEF UpdateObject, TypeOK
  <2>2. Shaped(k, sent(k, cache[k], desired(k, inst.vc)))
    BY <2>1, SentShape DEF CacheInv, ShapeInv
  <2> QED
    BY <1>1, <1>8, <2>2, MovesCacheInv DEF UpdateObject, Written, EndPass
<1>9. CASE DeleteBudget
  <2>1. "PodDisruptionBudget" \in Kinds /\ Shaped("PodDisruptionBudget", NoObject)
    BY KindsByName DEF Shaped
  <2> QED
    BY <1>1, <1>9, <2>1, MovesCacheInv DEF DeleteBudget, Written, EndPass
<1>10. CASE Crash
  BY <1>10 DEF Crash, CacheInv, SyncInv, EventInv, ShapeInv, Shaped
<1>11. CASE EditVarnishCluster
  BY <1>1, <1>11 DEF EditVarnishCluster
<1>12. CASE StartPass \/ FinishPass \/ ConfigMapNotOurs \/ CallFails
  BY <1>1, <1>12 DEF StartPass, FinishPass, ConfigMapNotOurs, CallFails, EndPass
<1>13. ASSUME NEW k \in Kinds, LeaveObject(k) PROVE CacheInv'
  BY <1>1, <1>13 DEF LeaveObject
<1>14. CASE UNCHANGED vars
  BY <1>1, <1>14 DEF vars
<1> QED
  BY <1>3, <1>4, <1>5, <1>6, <1>7, <1>8, <1>9, <1>10, <1>11, <1>12, <1>13, <1>14
     DEF Next, Users, Pass

----------------------------------------------------------------------------
(* What users put into a Secret or a ConfigMap *)

\* An update of a Secret with data or of a ConfigMap that the cache shows as it is leaves
\* the data alone.
LEMMA SentData ==
    ASSUME NEW k \in {"Secret", "ConfigMap"}, NEW found \in Objects, NEW want \in Objects,
           ~upToDate(k, found, want), found.spec # Empty
    PROVE  sent(k, found, want).spec = found.spec
BY DEF upToDate, sent, Objects

\* No step but an edit changes what is in them.
LEMMA UsersDataStep ==
    ASSUME TypeOK, CacheInv, Next, changes' = changes,
           NEW k \in {"Secret", "ConfigMap"}, obj[k] # NoObject, obj[k].spec # Empty
    PROVE  obj'[k] # NoObject /\ obj'[k].spec = obj[k].spec
<1> USE DEF userVars, passVars, cacheVars
<1>1. changes \in Nat /\ k \in Kinds /\ obj \in [Kinds -> Some]
  BY KindsByName DEF TypeOK, Some
<1>2. CASE Users
  <2>1. ASSUME Change PROVE FALSE
    BY <1>1, <2>1 DEF Change
  <2>2. ASSUME NEW j, NEW o, Becomes(j, o) PROVE FALSE
    BY <2>1, <2>2 DEF Becomes
  <2> QED
    BY <1>2, <2>1, <2>2 DEF Users, EditVarnishCluster, DeleteObject, TamperWith, BringOwn
<1>3. CASE UNCHANGED obj
  BY <1>3
<1>4. ASSUME NEW j \in Kinds, CreateObject(j) PROVE UNCHANGED obj \/ j # k
  BY <1>1, <1>4 DEF CreateObject, EndPass
<1>5. ASSUME NEW j \in Kinds, CreateObject(j) PROVE obj'[k] = obj[k]
  BY <1>1, <1>4, <1>5 DEF CreateObject, EndPass, Written, Moves
<1>6. ASSUME UpdateObject(k) PROVE obj'[k] # NoObject /\ obj'[k].spec = obj[k].spec
  <2> DEFINE want == desired(k, inst.vc)
             new == sent(k, cache[k], want)
  <2>1. want \in Objects /\ cache[k] \in Objects
    BY <1>1, <1>6, DesiredObjects DEF UpdateObject, TypeOK
  <2>2. CASE current(k) /\ Written(k, new)
    <3>1. cache[k] = obj[k]
      BY <1>1, <2>2 DEF current, CacheInv, SyncInv
    <3>2. new.spec = obj[k].spec /\ new \in Objects
      BY <1>1, <1>6, <2>1, <3>1, SentData, SentObjects DEF UpdateObject
    <3>3. obj'[k] = new
      BY <1>1, <2>2 DEF Written, Moves
    <3> QED
      BY <3>2, <3>3, ValuesAssumption
  <2> QED
    BY <1>6, <2>2 DEF UpdateObject, EndPass
<1>7. ASSUME NEW j \in Kinds, UpdateObject(j), j # k PROVE obj'[k] = obj[k]
  BY <1>1, <1>7 DEF UpdateObject, EndPass, Written, Moves
<1>8. CASE DeleteBudget
  BY <1>1, <1>8 DEF DeleteBudget, EndPass, Written, Moves
<1>9. CASE (\E j \in Kinds : FollowUp(j) \/ LeaveObject(j)) \/ StartPass \/ FinishPass
           \/ ConfigMapNotOurs \/ CallFails \/ Crash
  BY <1>9 DEF FollowUp, LeaveObject, StartPass, FinishPass, ConfigMapNotOurs, CallFails,
     EndPass, Crash
<1> QED
  BY <1>2, <1>3, <1>5, <1>6, <1>7, <1>8, <1>9 DEF Next, Pass

----------------------------------------------------------------------------
(* What a pass leaves behind *)

\* The pass under way has dealt with a kind; between passes it is true of all.
passed(k) == at = 0 \/ \E i \in DOMAIN Order : Order[i] = k /\ i < at

\* The cache shows what is wanted; of a headless service only that there is one.
Good(k) ==
    /\ cache[k] # NoObject
    /\ k # "HeadlessService" => upToDate(k, cache[k], desired(k, vc))

\* Unless a request waits, a pass works for the present VarnishCluster; what it has dealt
\* with is good, or an event will tell; and what nobody watches is as it saw it.
InstInv == at # 0 => queued \/ inst.vc = vc
\* A watched kind the pass has passed is good, or another pass will come.
WatchedInv == \A k \in Watched : passed(k) => queued \/ k \in events \/ Good(k)
\* A kind without watch that is still as a pass saw it is as desired, or a pass will come.
SeenInv == \A k \in seen \ Watched : passed(k) => queued \/ AsDesired(k)

\* The invariant of the pass.
RestInv == InstInv /\ WatchedInv /\ SeenInv

\* The kinds by the events they send.
LEMMA WatchedByName ==
    /\ Watched \subseteq Kinds
    /\ Kinds \ Watched = {"Secret", "PodDisruptionBudget"}
BY KindsByName DEF Watched

\* What is up to date is ours: no change of it goes unnoticed.
LEMMA GoodIsOurs ==
    ASSUME TypeOK, CacheInv, NEW k \in Watched, Good(k)
    PROVE  ours(cache[k])
<1>1. k \in Kinds /\ k # "Secret" /\ k # "PodDisruptionBudget" /\ cache[k] \in Objects
  BY WatchedByName DEF Good, TypeOK
<1>2. CASE k = "ConfigMap"
  BY <1>1, <1>2 DEF Good, upToDate, ours
<1>3. CASE k # "ConfigMap"
  BY <1>1, <1>3 DEF CacheInv, ShapeInv, Shaped, Good, ours
<1> QED
  BY <1>2, <1>3

\* An update that is called for changes the object, and makes it ours.
LEMMA UpdatesAreEvents ==
    ASSUME NEW k \in Watched, k # "HeadlessService", NEW found \in Objects, Shaped(k, found),
           NEW v \in Clusters, ~upToDate(k, found, desired(k, v))
    PROVE  /\ sent(k, found, desired(k, v)) # found
           /\ ours(sent(k, found, desired(k, v)))
<1> DEFINE want == desired(k, v)
<1>1. k \in Kinds /\ k # "Secret" /\ k # "PodDisruptionBudget"
  BY WatchedByName
<1>2. want \in Objects /\ want.owner = "us" /\ NoObject \notin Objects
  BY <1>1, DesiredObjects, ValuesAssumption
<1>3. CASE k = "ConfigMap"
  BY <1>2, <1>3 DEF upToDate, sent, Objects, ours
<1>4. CASE k = "ServiceAccount"
  <2>1. want = Object(v, None, None, None) /\ found.owner = "us" /\ found.spec = None
        /\ found.pods = None /\ found.storage = None
    BY <1>2, <1>4 DEF Shaped, desired, serviceAccountOf
  <2>2. found # want
    BY <1>4 DEF upToDate, inherited
  <2>3. found.labels # want.labels
    BY <1>2, <2>1, <2>2 DEF Object, Objects
  <2> QED
    BY <1>2, <1>4, <2>1, <2>3 DEF sent, Objects, ours
<1>5. CASE k \notin {"ConfigMap", "ServiceAccount"}
  <2>1. found.owner = "us"
    BY <1>1, <1>2, <1>5 DEF Shaped
  <2>2. inherited(k, found, want) \in Objects /\ inherited(k, found, want).owner = "us"
    BY <1>2 DEF inherited, Objects
  <2>3. sent(k, found, want) = inherited(k, found, want)
    BY <1>1, <1>5, <2>1, <2>2 DEF sent, Objects
  <2> QED
    BY <1>1, <1>2, <1>5, <2>2, <2>3 DEF upToDate, ours
<1> QED
  BY <1>3, <1>4, <1>5

\* A pass that goes on has dealt with the kind whose turn it was, and no other.
LEMMA Passing ==
    ASSUME TypeOK, NEW k, turn(k), at' = at + 1, NEW j, passed(j)', j # k
    PROVE  passed(j)
<1>1. at \in 1 .. 10 /\ Order[at] = k /\ at' # 0
  BY Turns DEF turn
<1>2. PICK i \in 1 .. 10 : Order[i] = j /\ i < at + 1
  BY <1>1, Turns DEF passed
<1> QED
  BY <1>1, <1>2, Turns DEF passed

\* A Secret or a budget a pass sees, and finds up to date, is as it should be.
LEMMA SeenIsDesired ==
    ASSUME NEW k \in {"Secret", "PodDisruptionBudget"}, vc \in Clusters,
           \/ obj[k] = NoObject /\ desired(k, vc) = NoObject
           \/ obj[k] # NoObject /\ desired(k, vc) # NoObject /\ upToDate(k, obj[k], desired(k, vc))
    PROVE  AsDesired(k)
BY DEF AsDesired, fits, upToDate, inherited

\* So is the one it makes.
LEMMA MadeIsDesired ==
    ASSUME NEW k \in {"Secret", "PodDisruptionBudget"}, NEW v \in Clusters
    PROVE  fits(k, desired(k, v), desired(k, v))
<1>1. CASE k = "Secret"
  <2>1. desired(k, v) = Object(v, Generated, None, None) /\ k \in Kinds
    BY <1>1, KindsByName DEF desired, secretOf
  <2>2. desired(k, v) \in Objects
    BY <1>1, <2>1, DesiredObjects
  <2> QED
    BY <1>1, <2>1, <2>2, ValuesAssumption DEF fits, Object
<1>2. CASE k = "PodDisruptionBudget"
  BY <1>2 DEF fits, inherited
<1> QED
  BY <1>1, <1>2

\* A turn keeps what the pass knows of the other kinds.
LEMMA TurnRest ==
    ASSUME TypeOK, RestInv, NEW k \in Kinds, turn(k), at' = at + 1,
           UNCHANGED <<vc, cache, queued, inst>>, events \subseteq events',
           \A j \in Kinds \ {k} : obj'[j] = obj[j], seen' \subseteq seen \cup {k},
           k \in Watched => queued \/ k \in events' \/ Good(k)',
           k \in seen' \ Watched => queued \/ AsDesired(k)'
    PROVE  RestInv'
<1>1. InstInv'
  BY Turns DEF RestInv, InstInv, turn
<1>2. WatchedInv'
  <2> SUFFICES ASSUME NEW j \in Watched, passed(j)', j # k
               PROVE  queued \/ j \in events \/ Good(j)'
    BY DEF WatchedInv
  <2>1. passed(j)
    BY Passing
  <2> QED
    BY <2>1 DEF RestInv, WatchedInv, Good
<1>3. SeenInv'
  <2> SUFFICES ASSUME NEW j \in seen' \ Watched, passed(j)', j # k
               PROVE  queued \/ AsDesired(j)'
    BY DEF SeenInv
  <2>1. passed(j) /\ j \in seen /\ j \in Kinds
    BY Passing DEF TypeOK
  <2> QED
    BY <2>1 DEF RestInv, SeenInv, AsDesired
<1> QED
  BY <1>1, <1>2, <1>3 DEF RestInv

\* What is written is an event, if it is watched.
LEMMA WrittenRest ==
    ASSUME TypeOK, RestInv, NEW k \in Kinds, NEW o, turn(k), Written(k, o), NextKind,
           k \in Watched => queued \/ (o # obj[k] /\ ours(o)) \/ Good(k),
           k \notin Watched => queued \/ AsDesired(k)'
    PROVE  RestInv'
<1>1. obj' = [obj EXCEPT ![k] = o] /\ obj \in [Kinds -> Some]
  BY DEF Written, Moves, TypeOK, Some
<1>2. events \subseteq events' /\ (o # obj[k] /\ ours(o) => k \in events')
  BY DEF Written, Moves
<1>3. UNCHANGED <<vc, cache, queued, inst>> /\ at' = at + 1 /\ seen' = seen \cup {k}
  BY DEF Written, NextKind, userVars
<1>4. Good(k) => Good(k)'
  BY <1>3 DEF Good
<1> QED
  BY <1>1, <1>2, <1>3, <1>4, TurnRest

\* Every step keeps what passes leave behind.
LEMMA RestInvStep ==
    ASSUME TypeOK, CacheInv, RestInv, [Next]_vars
    PROVE  RestInv'
<1> USE DEF userVars, passVars, cacheVars
<1>1. CASE queued'
  BY <1>1 DEF RestInv, InstInv, WatchedInv, SeenInv
<1>2. CASE EndPass
  BY <1>1, <1>2 DEF EndPass
<1>3. CASE EditVarnishCluster \/ ConfigMapNotOurs \/ CallFails \/ Crash
  BY <1>1, <1>2, <1>3 DEF EditVarnishCluster, ConfigMapNotOurs, CallFails, Crash
<1>4. ASSUME NEW k \in Kinds, NEW o, Becomes(k, o) PROVE RestInv'
  <2>1. \A j \in Kinds \ {k} : obj'[j] = obj[j]
    BY <1>4 DEF Becomes, Moves, TypeOK
  <2>2. events \subseteq events' /\ seen' = seen \ {k}
    BY <1>4 DEF Becomes, Moves
  <2>3. UNCHANGED <<vc, cache, queued, at, inst>>
    BY <1>4 DEF Becomes
  <2>4. InstInv' /\ WatchedInv'
    BY <2>2, <2>3 DEF RestInv, InstInv, WatchedInv, Good, passed
  <2>5. SeenInv'
    BY <2>1, <2>2, <2>3 DEF RestInv, SeenInv, AsDesired, passed, TypeOK
  <2> QED
    BY <2>4, <2>5 DEF RestInv
<1>5. CASE \E k \in Kinds : DeleteObject(k) \/ TamperWith(k) \/ BringOwn(k)
  BY <1>4, <1>5 DEF DeleteObject, TamperWith, BringOwn
<1>6. ASSUME NEW k \in Kinds, FollowUp(k) PROVE RestInv'
  <2>1. CASE k \in Watched \cap events
    BY <1>1, <1>6, <2>1 DEF FollowUp
  <2>2. CASE k \notin Watched \cap events
    <3>1. UNCHANGED <<vc, obj, queued, at, inst, seen>>
      BY <1>6, <2>2 DEF FollowUp, TypeOK
    <3>2. events' = events \ {k} /\ \A j \in Kinds \ {k} : cache'[j] = cache[j]
      BY <1>6 DEF FollowUp, TypeOK
    <3>3. k \in Watched => ~Good(k)
      BY <1>6, <2>2, GoodIsOurs DEF FollowUp, CacheInv, EventInv
    <3>4. WatchedInv'
      BY <2>2, <3>1, <3>2, <3>3, WatchedByName DEF RestInv, WatchedInv, Good, passed
    <3>5. InstInv' /\ SeenInv'
      BY <3>1 DEF RestInv, InstInv, SeenInv, AsDesired, passed
    <3> QED
      BY <3>4, <3>5 DEF RestInv
  <2> QED
    BY <2>1, <2>2
<1>7. CASE StartPass
  <2>1. \A k \in Kinds : ~passed(k)'
    BY <1>7, Turns DEF StartPass, passed
  <2> QED
    BY <1>7, <2>1, WatchedByName DEF StartPass, RestInv, InstInv, WatchedInv, SeenInv, TypeOK
<1>8. CASE FinishPass
  <2>1. \A k \in Kinds : passed(k)
    BY <1>8, Turns DEF FinishPass, passed, Kinds
  <2>2. CASE UNCHANGED queued
    <3>1. UNCHANGED <<vc, obj, cache, events, queued, seen>> /\ at' = 0
      BY <1>8, <2>2 DEF FinishPass
    <3> QED
      BY <2>1, <3>1, WatchedByName DEF RestInv, InstInv, WatchedInv, SeenInv, Good, AsDesired, TypeOK
  <2> QED
    BY <1>1, <1>8, <2>2 DEF FinishPass
<1>9. ASSUME NEW k \in Kinds, CreateObject(k) PROVE RestInv'
  <2> DEFINE o == desired(k, inst.vc)
  <2>1. CASE Written(k, o) /\ NextKind /\ obj[k] = NoObject
    <3>1. o # obj[k] /\ ours(o) /\ turn(k)
      BY <1>9, <2>1, DesiredObjects DEF CreateObject, TypeOK, ours
    <3>2. obj'[k] = o /\ vc' = vc /\ (queued \/ inst.vc = vc)
      BY <1>9, <2>1, Turns DEF Written, Moves, TypeOK, RestInv, InstInv, CreateObject, turn
    <3>3. k \notin Watched => queued \/ AsDesired(k)'
      BY <3>2, WatchedByName, MadeIsDesired DEF TypeOK, AsDesired
    <3> QED
      BY <2>1, <3>1, <3>3, WrittenRest
  <2> QED
    BY <1>2, <1>9, <2>1 DEF CreateObject
<1>10. ASSUME NEW k \in Kinds, LeaveObject(k) PROVE RestInv'
  <2>1. UNCHANGED <<vc, obj, cache, events, queued, inst>> /\ turn(k) /\ at' = at + 1
    BY <1>10 DEF LeaveObject, NextKind
  <2>2. queued \/ inst.vc = vc
    BY <2>1, Turns DEF RestInv, InstInv, turn
  <2>3. seen' \subseteq seen \cup {k} /\ (k \in seen' => k \notin behind)
    BY <1>10 DEF LeaveObject, TypeOK
  <2>4. k \in Watched => queued \/ Good(k)'
    BY <1>10, <2>1, <2>2, WatchedByName, DesiredObjects, ValuesAssumption
       DEF LeaveObject, Good, TypeOK
  <2>5. k \in seen' \ Watched => queued \/ AsDesired(k)
    BY <1>10, <2>2, <2>3, WatchedByName, SeenIsDesired DEF LeaveObject, CacheInv, SyncInv, TypeOK
  <2>6. AsDesired(k) => AsDesired(k)'
    BY <2>1 DEF AsDesired
  <2> QED
    BY <2>1, <2>3, <2>4, <2>5, <2>6, TurnRest
<1>11. ASSUME NEW k \in Kinds, UpdateObject(k) PROVE RestInv'
  <2> DEFINE want == desired(k, inst.vc)
             o == sent(k, cache[k], want)
  <2>1. CASE Written(k, o) /\ NextKind /\ current(k)
    <3>1. turn(k) /\ cache[k] = obj[k] /\ (queued \/ inst.vc = vc)
      BY <1>11, <2>1, Turns DEF UpdateObject, current, CacheInv, SyncInv, RestInv, InstInv, turn
    <3>2. want \in Objects /\ cache[k] \in Objects /\ cache[k] # NoObject /\ inst.vc \in Clusters
      BY <1>11, DesiredObjects DEF UpdateObject, TypeOK
    <3>3. k \in Watched /\ k # "HeadlessService" => o # obj[k] /\ ours(o)
      BY <1>11, <3>1, <3>2, UpdatesAreEvents DEF UpdateObject, CacheInv, ShapeInv
    <3>4. k = "HeadlessService" => Good(k)
      BY <3>2 DEF Good
    <3>5. obj'[k] = o /\ o # NoObject
      BY <2>1, <3>2, SentObjects, ValuesAssumption DEF Written, Moves, TypeOK
    <3>6. k = "Secret" => o.spec # Empty
      BY <3>2, ValuesAssumption DEF sent, Objects
    <3>7. k = "Secret" => desired(k, vc') # NoObject
      BY <2>1, DesiredObjects, ValuesAssumption DEF Written, TypeOK
    <3>8. k \notin Watched => queued \/ AsDesired(k)'
      BY <1>11, <3>5, <3>6, <3>7, WatchedByName DEF UpdateObject, AsDesired, fits
    <3> QED
      BY <2>1, <3>1, <3>3, <3>4, <3>8, WrittenRest
  <2> QED
    BY <1>2, <1>11, <2>1 DEF UpdateObject
<1>12. CASE DeleteBudget
  <2> DEFINE k == "PodDisruptionBudget"
             want == desired(k, inst.vc)
  <2>1. k \in Kinds /\ k \notin Watched
    BY WatchedByName
  <2>2. CASE Written(k, NoObject) /\ want = NoObject /\ NextKind
    <3>1. turn(k) /\ (queued \/ inst.vc = vc)
      BY <1>12, Turns DEF DeleteBudget, RestInv, InstInv, turn
    <3>2. obj'[k] = NoObject /\ vc' = vc
      BY <2>1, <2>2 DEF Written, Moves, TypeOK
    <3>3. queued \/ AsDesired(k)'
      BY <2>2, <3>1, <3>2, MadeIsDesired DEF TypeOK, AsDesired
    <3> QED
      BY <2>1, <2>2, <3>1, <3>3, WrittenRest
  <2>3. CASE Written(k, NoObject) /\ at' = at
    <3>1. ~passed(k)
      BY <1>12, Turns DEF DeleteBudget, passed, turn
    <3>2. UNCHANGED <<vc, cache, queued, at, inst>> /\ events \subseteq events'
      BY <2>3 DEF Written, Moves
    <3>3. seen' = seen \cup {k} /\ \A j \in Kinds \ {k} : obj'[j] = obj[j]
      BY <2>1, <2>3 DEF Written, Moves, TypeOK
    <3>4. InstInv' /\ WatchedInv'
      BY <3>2 DEF RestInv, InstInv, WatchedInv, Good, passed
    <3>5. SeenInv'
      BY <3>1, <3>2, <3>3 DEF RestInv, SeenInv, AsDesired, passed, TypeOK
    <3> QED
      BY <3>4, <3>5 DEF RestInv
  <2> QED
    BY <1>2, <1>12, <2>2, <2>3 DEF DeleteBudget
<1>13. CASE UNCHANGED vars
  BY <1>13 DEF vars, RestInv, InstInv, WatchedInv, SeenInv, Good, AsDesired, passed
<1> QED
  BY <1>3, <1>5, <1>6, <1>7, <1>8, <1>9, <1>10, <1>11, <1>12, <1>13 DEF Next, Users, Pass

----------------------------------------------------------------------------
(* Theorems *)

\* At first there is nothing, or everything a VarnishCluster asks for, and a request.
LEMMA Initially ==
    ASSUME Init
    PROVE  TypeOK /\ CacheInv /\ RestInv
<1>1. vc \in Clusters
  BY ClustersAssumption DEF Init
<1>2. obj \in [Kinds -> Some] /\ \A k \in Kinds : Shaped(k, obj[k])
  BY <1>1, DesiredObjects, DesiredShape DEF Init, Some, Shaped
<1>3. at = 0 /\ Len(Order) = 10
  BY Turns DEF Init
<1>4. TypeOK
  <2>1. at \in 0 .. Len(Order) + 1
    BY <1>3
  <2>2. /\ status \in [pods : LabelSets \cup {None}, spec : SpecValues \cup {None}]
        /\ inst.vc \in Clusters
    BY <1>1 DEF Init
  <2>3. changes \in Nat /\ faults \in Nat
    BY DEF Init
  <2> QED
    BY <1>1, <1>2, <2>1, <2>2, <2>3 DEF Init, TypeOK, Some
<1>5. CacheInv
  BY <1>2 DEF Init, CacheInv, SyncInv, EventInv, ShapeInv
<1>6. RestInv
  BY DEF Init, RestInv, InstInv, WatchedInv, SeenInv
<1> QED
  BY <1>4, <1>5, <1>6

\* The type invariant; a budget is being replaced only where the pass looks at budgets
\* (varnishcluster_poddisruptionbudget.go:87), through failing calls and crashes.
THEOREM TypeCorrect == Spec => []TypeOK
<1>1. Init => TypeOK
  BY Initially
<1>2. TypeOK /\ [Next]_vars => TypeOK'
  BY TypeOKStep
<1> QED
  BY <1>1, <1>2, PTL DEF Spec

\* The cache and the events of an informer are in step with the objects.
THEOREM CacheCorrect == Spec => []CacheInv
<1>1. Init => CacheInv
  BY Initially
<1>2. TypeOK /\ CacheInv /\ [Next]_vars => CacheInv'
  BY CacheInvStep
<1> QED
  BY <1>1, <1>2, TypeCorrect, PTL DEF Spec

\* What users put into a Secret or a ConfigMap no step of a pass overwrites
\* (varnishcluster_configmap.go:67, varnishcluster_secret.go:82), however old the cache.
THEOREM UsersKeepTheirData == Spec => UsersDataKept
<1>1. TypeOK /\ CacheInv /\ [Next]_vars =>
        [changes' = changes =>
            \A k \in {"Secret", "ConfigMap"} :
                obj[k] # NoObject /\ obj[k].spec # Empty =>
                    obj'[k] # NoObject /\ obj'[k].spec = obj[k].spec]_vars
  BY UsersDataStep
<1> QED
  BY <1>1, TypeCorrect, CacheCorrect, PTL DEF Spec, UsersDataKept

\* With nothing left to do every watched kind is as the present VarnishCluster asks, and so
\* are Secret and budget if nobody touched them since a pass saw them
\* (docs/varnish-cluster.md:69), whatever was stale, refused, lost or repeated before.
THEOREM ObjectsAreDesiredAtRest == Spec => []RestIsDesired
<1>1. Init => RestInv
  BY Initially
<1>2. TypeOK /\ CacheInv /\ RestInv /\ [Next]_vars => RestInv'
  BY RestInvStep
<1>3. TypeOK /\ CacheInv /\ RestInv => RestIsDesired
  <2> SUFFICES ASSUME TypeOK, CacheInv, RestInv, Rest, NEW k \in Watched \cup seen
               PROVE  AsDesired(k)
    BY DEF RestIsDesired
  <2>1. passed(k) /\ ~queued /\ events = {}
    BY DEF Rest, passed, TypeOK
  <2>2. CASE k \notin Watched
    BY <2>1, <2>2 DEF RestInv, SeenInv
  <2>3. CASE k \in Watched
    <3>1. k \in Kinds /\ k # "PodDisruptionBudget" /\ k # "Secret"
      BY <2>3, WatchedByName
    <3>2. Good(k) /\ cache[k] = obj[k]
      BY <2>1, <2>3, <3>1 DEF RestInv, WatchedInv, CacheInv, SyncInv, Rest
    <3>3. desired(k, vc) # NoObject
      BY <3>1, DesiredObjects, ValuesAssumption DEF TypeOK
    <3> QED
      BY <3>1, <3>2, <3>3 DEF Good, AsDesired, fits, upToDate
  <2> QED
    BY <2>2, <2>3
<1> QED
  BY <1>1, <1>2, <1>3, TypeCorrect, CacheCorrect, PTL DEF Spec
=============================================================================
