-------------------------- MODULE FinalizersProofs --------------------------
(***************************************************************************)
(* Proofs about Finalizers, for all namespaces, placements and bounds.     *)
(***************************************************************************)
EXTENDS Finalizers, TLAPS

----------------------------------------------------------------------------
(* The inductive invariant *)

\* Where a pass over a VarnishCluster that stays is.
Creating == {"createRole", "createBinding", "cleanMonitor", "removeMonitor", "applyMonitor",
             "cleanDashboard", "removeDashboard", "applyDashboard"}
\* Where a pass over a VarnishCluster that is being deleted is.
Deleting == {"deleteRole", "dropRole", "deleteBinding", "dropBinding",
             "deleteMonitor", "dropMonitor", "deleteDashboard"}

\* What the three kinds of pass work with.
PassInv ==
    /\ pc \in {"addFinalizers"} \cup Creating =>
        instance \in Clusters /\ instance # NoCluster /\ ~instance.deleting
    /\ pc \in Deleting => instance \in Clusters /\ instance # NoCluster /\ instance.deleting
    /\ pc \in {"lostRole", "lostBinding"} => instance = NoCluster

\* x is v, or an earlier state of the VarnishCluster.
Earlier(x, v) ==
    x # NoCluster =>
        /\ v # NoCluster => x.rv <= v.rv /\ (x.rv = v.rv => x = v)
        /\ x.deleting => v = NoCluster \/ v.deleting

\* Cache and pass are behind the API server; a pass that cleans up has seen a deletion the
\* cache does not forget.
VersionInv ==
    /\ Earlier(cache, vc) /\ Earlier(instance, vc)
    /\ cache = NoCluster => vc = NoCluster
    /\ instance # NoCluster /\ instance.deleting => cache = NoCluster \/ cache.deleting

\* The finalizers the API server holds.
Held == IF vc = NoCluster THEN {} ELSE vc.finalizers

\* Until a clean-up starts no finalizer is lost, unless a user strips them, and a pass that
\* creates objects has those they need.
FinalizerInv ==
    /\ strips = 0 =>
        \A x \in {cache, instance} : x # NoCluster /\ ~x.deleting => x.finalizers \subseteq Held
    /\ pc \in Creating => desiredFinalizers \subseteq instance.finalizers

\* As long as the spec is the first one, a ServiceMonitor without owner is where it says,
\* and has its finalizer until it is deleted.
MonitorInv ==
    edits = 0 =>
        /\ \A x \in {cache, instance} :
            x # NoCluster /\ vc # NoCluster => x.monitor = vc.monitor
        /\ strips = 0 =>
            \A n \in Namespaces : objects["monitor"][n] = "free" =>
                "monitor" \in Held /\ vc.monitor = n /\ pc # "dropMonitor"

\* Once the cache has seen the VarnishCluster go, a request, the pass it has led to or the
\* informer that has not seen it yet makes the operator delete what is left.
LostInv ==
    cache = NoCluster =>
        /\ instance # NoCluster => pending
        /\ role => pending \/ pc = "lostRole" \/ ~shown.role
        /\ binding => pending \/ pc \in {"lostRole", "lostBinding"} \/ ~shown.binding

\* Objects of a kind are only where a spec asks for them, those in rest aside.
Clean(k, v, rest) ==
    \A n \in Namespaces \ rest : objects[k][n] # "none" => v[k] # Off /\ n = Target(v[k])
\* They are there, and nowhere else.
Placed(k, v) ==
    \A n \in Namespaces : (objects[k][n] # "none") <=> (v[k] # Off /\ n = Target(v[k]))

\* With no request waiting the pass works with what the cache holds.
CurrentInv ==
    /\ installed => mapped
    /\ ~pending /\ pc # "idle" =>
        /\ (instance = NoCluster) <=> (cache = NoCluster)
        /\ instance # NoCluster =>
            /\ instance.deleting = cache.deleting
            /\ \A k \in Kinds : instance[k] = cache[k]

\* How far a pass has put the objects where they belong.
MonitorPlaced ==
    /\ pc = "removeMonitor" => Clean("monitor", instance, todo)
    /\ pc = "applyMonitor" => Clean("monitor", instance, {})
    /\ pc \in {"cleanDashboard", "removeDashboard", "applyDashboard"} =>
            Placed("monitor", instance)
    /\ pc = "end" /\ instance # NoCluster /\ ~instance.deleting => Placed("monitor", instance)
    /\ pc = "idle" /\ cache # NoCluster /\ ~cache.deleting => Placed("monitor", cache)
DashboardPlaced ==
    /\ pc = "removeDashboard" => Clean("dashboard", instance, todo)
    /\ pc = "applyDashboard" => Clean("dashboard", instance, {})
    /\ pc = "end" /\ instance # NoCluster /\ ~instance.deleting => Placed("dashboard", instance)
    /\ pc = "idle" /\ cache # NoCluster /\ ~cache.deleting => Placed("dashboard", cache)
\* The dashboards only if it has read them from an informer that was up to date.
PlacedInv ==
    installed /\ ~pending /\ vc # NoCluster =>
        /\ MonitorPlaced
        /\ ~missed => DashboardPlaced

----------------------------------------------------------------------------
(* Types *)

\* Every version that is stored is a VarnishCluster with one version more, or none.
LEMMA StoredType ==
    ASSUME NEW c \in Clusters
    PROVE  /\ Stored(c) \in Clusters \cup {NoCluster}
           /\ Stored(c) # NoCluster => ~(Stored(c).deleting /\ Stored(c).finalizers = {})
           /\ \/ Stored(c) = NoCluster
              \/ Stored(c) = [c EXCEPT !.rv = c.rv + 1]
           /\ ~c.deleting \/ c.finalizers # {} => Stored(c) = [c EXCEPT !.rv = c.rv + 1]
BY DEF Stored, Clusters

\* Every change of one object leaves objects.
LEMMA ObjectsType ==
    ASSUME objects \in [Kinds -> [Namespaces -> States]], NEW k \in Kinds
    PROVE  /\ \A n \in Namespaces, v \in States :
                [objects EXCEPT ![k][n] = v] \in [Kinds -> [Namespaces -> States]]
           /\ \A f \in [Namespaces -> States] :
                [objects EXCEPT ![k] = f] \in [Kinds -> [Namespaces -> States]]
OBVIOUS

\* A place the spec asks for that is not missing is a namespace that exists.
LEMMA TargetExists ==
    ASSUME NEW v \in Clusters, NEW k \in Kinds, v[k] # Off, Target(v[k]) \notin Missing
    PROVE  Target(v[k]) \in Namespaces
BY NamespacesAssumption DEF Clusters, Kinds, Target

\* What a list of objects is.
LEMMA CleanType ==
    ASSUME TypeOK, NEW k \in Kinds, NEW next \in Steps, CleanNotNeeded(k, next)
    PROVE  /\ todo' \in SUBSET Namespaces /\ missed' \in BOOLEAN /\ pending' \in BOOLEAN
           /\ \/ pc' = next /\ instance' = instance
              \/ pc' = "idle" /\ instance' = NoCluster
<1>1. CASE k = "monitor" /\ mapped /\ ~installed
  BY <1>1 DEF TypeOK, CleanNotNeeded, Abort, Done
<1>2. CASE ~(k = "monitor" /\ mapped /\ ~installed)
  BY <1>2 DEF TypeOK, CleanNotNeeded, Read, notNeeded
<1> QED
  BY <1>1, <1>2

\* An event may set the request, and does nothing else.
LEMMA EventType ==
    ASSUME pending \in BOOLEAN, NEW k, NEW v, Event(k, v)
    PROVE  pending' \in BOOLEAN /\ (pending => pending')
BY DEF Event

\* What a step that deletes one of the listed objects does.
LEMMA RemoveType ==
    ASSUME TypeOK, NEW k \in Kinds, NEW next \in Steps, Remove(k, next)
    PROVE  /\ objects' \in [Kinds -> [Namespaces -> States]] /\ pending' \in BOOLEAN
           /\ todo' \in SUBSET Namespaces
           /\ \/ pc' = next /\ instance' = instance
              \/ pc' = pc /\ instance' = instance
              \/ pc' = "idle" /\ instance' = NoCluster
<1>1. CASE todo = {}
  BY <1>1 DEF TypeOK, Remove, Continue
<1>2. CASE todo # {}
  <2>1. PICK n \in todo :
            IF objects[k][n] = "none" THEN Abort /\ UNCHANGED objects
            ELSE /\ objects' = [objects EXCEPT ![k][n] = "none"]
                 /\ todo' = todo \ {n}
                 /\ Event(k, objects[k][n])
                 /\ UNCHANGED <<pc, instance>>
    BY <1>2 DEF Remove
  <2>2. CASE objects[k][n] = "none"
    BY <2>1, <2>2 DEF TypeOK, Abort, Done
  <2>3. CASE objects[k][n] # "none"
    <3>1. n \in Namespaces /\ "none" \in States
      BY <2>1 DEF TypeOK, States
    <3>2. objects' \in [Kinds -> [Namespaces -> States]]
      BY <2>1, <2>3, <3>1, ObjectsType DEF TypeOK, States
    <3>3. pending' \in BOOLEAN
      BY <2>1, <2>3, EventType DEF TypeOK
    <3>4. pc' = pc /\ instance' = instance /\ todo' \in SUBSET Namespaces
      BY <2>1, <2>3 DEF TypeOK
    <3> QED
      BY <3>2, <3>3, <3>4
  <2> QED
    BY <2>2, <2>3
<1> QED
  BY <1>1, <1>2

\* The object Apply creates, if it creates one.
NewState(k) == IF Place(k) = Default THEN "owned" ELSE "free"

\* What a step of Apply does: nothing, giving up, or creating the object.
LEMMA ApplyMoves ==
    ASSUME NEW k \in Kinds, NEW next, Apply(k, next), instance \in Clusters
    PROVE  \/ pc' = next /\ instance' = instance /\ todo' = todo
              /\ objects' = objects /\ pending' = pending
              /\ \/ Place(k) = Off \/ Target(Place(k)) \in Missing \/ (k = "monitor" /\ ~mapped)
                 \/ Read(k) /\ Target(Place(k)) \in Namespaces /\ Seen(k)[Target(Place(k))] # "none"
           \/ Abort /\ objects' = objects
           \/ pc' = next /\ instance' = instance /\ todo' = todo
              /\ Place(k) # Off /\ Target(Place(k)) \in Namespaces
              /\ objects[k][Target(Place(k))] = "none"
              /\ objects' = [objects EXCEPT ![k][Target(Place(k))] = NewState(k)]
              /\ Event(k, NewState(k)) /\ Read(k)
<1>1. CASE Place(k) = Off \/ Target(Place(k)) \in Missing \/ (k = "monitor" /\ ~mapped)
  BY <1>1 DEF Apply, Continue
<1>2. CASE ~(Place(k) = Off \/ Target(Place(k)) \in Missing \/ (k = "monitor" /\ ~mapped))
  <2>1. Target(Place(k)) \in Namespaces
    BY <1>2, TargetExists DEF Place
  <2>2. CASE k = "monitor" /\ ~installed
    BY <1>2, <2>2 DEF Apply
  <2>3. CASE ~(k = "monitor" /\ ~installed)
    BY <1>2, <2>1, <2>3 DEF Apply, Continue, NewState
  <2> QED
    BY <2>2, <2>3
<1> QED
  BY <1>1, <1>2

\* The types after it.
LEMMA ApplyType ==
    ASSUME TypeOK, NEW k \in Kinds, NEW next \in Steps, Apply(k, next), instance \in Clusters
    PROVE  /\ objects' \in [Kinds -> [Namespaces -> States]] /\ pending' \in BOOLEAN
           /\ todo' \in SUBSET Namespaces /\ missed' \in BOOLEAN
           /\ \/ pc' = next /\ instance' = instance
              \/ pc' = "idle" /\ instance' = NoCluster
<1>1. missed' \in BOOLEAN
  BY DEF Apply, Read, TypeOK
<1>2. CASE objects' = objects
  BY <1>1, <1>2, ApplyMoves, EventType DEF TypeOK, Abort, Done
<1>3. CASE objects' # objects
  <2>1. /\ pc' = next /\ instance' = instance /\ todo' = todo
        /\ Target(Place(k)) \in Namespaces
        /\ objects' = [objects EXCEPT ![k][Target(Place(k))] = NewState(k)]
        /\ Event(k, NewState(k))
    BY <1>3, ApplyMoves
  <2>2. NewState(k) \in States
    BY DEF NewState, States
  <2>3. objects' \in [Kinds -> [Namespaces -> States]]
    BY <2>1, <2>2, ObjectsType DEF TypeOK
  <2>4. pending' \in BOOLEAN
    BY <2>1, EventType DEF TypeOK
  <2> QED
    BY <1>1, <2>1, <2>3, <2>4 DEF TypeOK
<1> QED
  BY <1>2, <1>3

\* The types after a deletion.
LEMMA DeleteType ==
    ASSUME TypeOK, NEW k \in Kinds, Delete(k)
    PROVE  objects' \in [Kinds -> [Namespaces -> States]]
BY DEF TypeOK, Delete, States

\* The types after an informer has caught up.
LEMMA FollowUpType ==
    ASSUME TypeOK, FollowUp
    PROVE  /\ shown' \in Reads
           /\ pending' \in BOOLEAN
<1>1. CASE shown' = [shown EXCEPT !.role = role] /\ pending' = TRUE
  BY <1>1 DEF TypeOK, Reads
<1>2. CASE shown' = [shown EXCEPT !.binding = binding] /\ pending' = TRUE
  BY <1>2 DEF TypeOK, Reads
<1>3. ASSUME NEW n \in Namespaces,
             shown' = [shown EXCEPT !.dashboard[n] = objects["dashboard"][n]],
             pending' = (pending \/ "owned" \in {shown.dashboard[n], objects["dashboard"][n]})
      PROVE  /\ shown' \in Reads
             /\ pending' \in BOOLEAN
  <2>1. objects["dashboard"][n] \in States
    BY DEF TypeOK, Kinds
  <2> QED
    BY <1>3, <2>1 DEF TypeOK, Reads
<1> QED
  BY <1>1, <1>2, <1>3 DEF FollowUp

\* What a step that removes a finalizer does.
LEMMA RemovalType ==
    ASSUME TypeOK, NEW f \in FinalizerNames, NEW next, removeFinalizer(f, next),
           instance \in Clusters, instance.deleting
    PROVE  /\ vc' \in Clusters \cup {NoCluster}
           /\ vc' # NoCluster => ~(vc'.deleting /\ vc'.finalizers = {})
           /\ pending' \in BOOLEAN /\ todo' \in SUBSET Namespaces
           /\ \/ pc' = "idle" /\ instance' = NoCluster
              \/ pc' = next /\ instance' \in Clusters /\ instance'.deleting
<1>1. CASE f \notin instance.finalizers
  BY <1>1 DEF TypeOK, removeFinalizer, Continue
<1>2. CASE f \in instance.finalizers /\ Fresh
  <2> DEFINE c == [instance EXCEPT !.finalizers = @ \ {f}]
             d == [instance EXCEPT !.finalizers = @ \ {f}, !.rv = @ + 1]
  <2>1. c \in Clusters /\ d \in Clusters /\ d.deleting
    <3>1. c \in Clusters /\ c.rv \in Nat /\ c.deleting
      BY DEF Clusters
    <3>2. d = [c EXCEPT !.rv = c.rv + 1]
      BY DEF Clusters
    <3> HIDE DEF c, d
    <3> QED
      BY <3>1, <3>2 DEF Clusters
  <2>2. /\ vc' = Stored(c) /\ instance' = d /\ pc' = next
        /\ pending' = pending /\ todo' = todo
    BY <1>2 DEF removeFinalizer
  <2> QED
    BY <2>1, <2>2, StoredType DEF TypeOK
<1>3. CASE f \in instance.finalizers /\ ~Fresh
  BY <1>3 DEF TypeOK, removeFinalizer, Fails, Done
<1> QED
  BY <1>1, <1>2, <1>3

\* Every step keeps the variables in their types, and the pass with what it works with.
LEMMA TypeOKStep ==
    ASSUME TypeOK, PassInv, [Next]_vars
    PROVE  TypeOK' /\ PassInv'
<1> USE DEF TypeOK, PassInv, Creating, Deleting, Steps, Kinds
<1>1. CASE Start
  BY <1>1 DEF Start, firstStep, Clusters, apiVars, boundVars
<1>2. CASE AddFinalizers
  <2> DEFINE c == [instance EXCEPT !.finalizers = @ \cup desiredFinalizers]
  <2>1. instance \in Clusters /\ ~instance.deleting
    BY <1>2 DEF AddFinalizers
  <2>2. c \in Clusters /\ ~c.deleting
    BY <2>1 DEF Clusters, FinalizerNames, desiredFinalizers
  <2>3. UNCHANGED <<role, binding, objects, installed, cache, shown, mapped, missed, boundVars>>
    BY <1>2 DEF AddFinalizers
  <2>4. CASE c = instance
    BY <1>2, <2>1, <2>3, <2>4, NoClusterAssumption DEF AddFinalizers, Continue, boundVars
  <2>5. CASE c # instance /\ Fresh
    <3>1. /\ vc' = Stored(c) /\ instance' = Stored(c) /\ pc' = "createRole"
          /\ pending' = pending /\ todo' = todo
      BY <1>2, <2>5 DEF AddFinalizers, Update
    <3> HIDE DEF c
    <3>2. Stored(c) = [c EXCEPT !.rv = c.rv + 1]
      BY <2>2, StoredType
    <3>3. Stored(c) \in Clusters /\ ~Stored(c).deleting
      BY <2>2, <3>2 DEF Clusters
    <3> QED
      BY <2>3, <3>1, <3>2, <3>3, NoClusterAssumption DEF boundVars
  <2>6. CASE c # instance /\ ~Fresh
    BY <1>2, <2>3, <2>6 DEF AddFinalizers, Abort, Done, boundVars
  <2> QED
    BY <2>4, <2>5, <2>6
<1>3. CASE CreateRole
  BY <1>3 DEF CreateRole, Continue, Abort, Done, boundVars
<1>4. CASE CreateBinding
  BY <1>4 DEF CreateBinding, Continue, Abort, Done, boundVars
<1>5. CASE CleanMonitor
  BY <1>5, CleanType DEF CleanMonitor, apiVars, boundVars
<1>27. CASE RemoveMonitor
  BY <1>27, RemoveType DEF RemoveMonitor, boundVars
<1>6. CASE ApplyMonitor
  BY <1>6, ApplyType DEF ApplyMonitor, boundVars
<1>7. CASE CleanDashboard
  BY <1>7, CleanType DEF CleanDashboard, apiVars, boundVars
<1>28. CASE RemoveDashboard
  BY <1>28, RemoveType DEF RemoveDashboard, boundVars
<1>8. CASE ApplyDashboard
  BY <1>8, ApplyType DEF ApplyDashboard, boundVars
<1>9. CASE End
  BY <1>9 DEF End, Done, apiVars, boundVars
<1>10. CASE DeleteRole
  <2>1. /\ pc \in {"deleteRole", "lostRole"}
        /\ UNCHANGED <<vc, binding, objects, installed, cache, shown, mapped, missed, boundVars>>
        /\ \/ /\ pc' = IF pc = "lostRole" THEN "lostBinding" ELSE "dropRole"
              /\ instance' = instance /\ todo' = todo
              /\ role' \in {role, FALSE} /\ pending' = pending
           \/ Abort /\ role' = role
    BY <1>10 DEF DeleteRole, Continue
  <2> QED
    BY <2>1 DEF Abort, Done, boundVars
<1>11. CASE DropRole
  <2>1. removeFinalizer("role", "deleteBinding") /\ instance \in Clusters /\ instance.deleting
    BY <1>11 DEF DropRole
  <2>2. UNCHANGED <<role, binding, objects, installed, cache, shown, mapped, missed, boundVars>>
    BY <2>1 DEF removeFinalizer
  <2> QED
    BY <2>1, <2>2, RemovalType, NoClusterAssumption DEF FinalizerNames, boundVars
<1>12. CASE DeleteBinding
  <2>1. /\ pc \in {"deleteBinding", "lostBinding"}
        /\ UNCHANGED <<vc, role, objects, installed, cache, shown, mapped, missed, boundVars>>
        /\ \/ /\ pc' = IF pc = "lostBinding" THEN "end" ELSE "dropBinding"
              /\ instance' = instance /\ todo' = todo
              /\ binding' \in {binding, FALSE} /\ pending' = pending
           \/ Abort /\ binding' = binding
    BY <1>12 DEF DeleteBinding, Continue
  <2> QED
    BY <2>1 DEF Abort, Done, boundVars
<1>13. CASE DropBinding
  <2>1. removeFinalizer("binding", "deleteMonitor") /\ instance \in Clusters /\ instance.deleting
    BY <1>13 DEF DropBinding
  <2>2. UNCHANGED <<role, binding, objects, installed, cache, shown, mapped, missed, boundVars>>
    BY <2>1 DEF removeFinalizer
  <2> QED
    BY <2>1, <2>2, RemovalType, NoClusterAssumption DEF FinalizerNames, boundVars
<1>14. CASE DeleteMonitor
  <2>1. /\ pc = "deleteMonitor"
        /\ UNCHANGED <<vc, role, binding, installed, cache, shown, mapped, missed, boundVars>>
        /\ \/ Abort /\ objects' = objects
           \/ Delete("monitor") /\ Continue("dropMonitor") /\ pending' = pending
    BY <1>14 DEF DeleteMonitor
  <2>2. objects' \in [Kinds -> [Namespaces -> States]]
    BY <2>1, DeleteType
  <2> QED
    BY <2>1, <2>2 DEF Continue, Abort, Done, boundVars
<1>15. CASE DropMonitor
  <2>1. removeFinalizer("monitor", "deleteDashboard") /\ instance \in Clusters /\ instance.deleting
    BY <1>15 DEF DropMonitor
  <2>2. UNCHANGED <<role, binding, objects, installed, cache, shown, mapped, missed, boundVars>>
    BY <2>1 DEF removeFinalizer
  <2> QED
    BY <2>1, <2>2, RemovalType, NoClusterAssumption DEF FinalizerNames, boundVars
<1>16. CASE DeleteDashboard
  <2>1. /\ pc = "deleteDashboard"
        /\ UNCHANGED <<vc, role, binding, installed, cache, shown, mapped, missed, boundVars>>
        /\ \/ Abort /\ objects' = objects
           \/ Continue("end") /\ objects' = objects /\ pending' = pending
           \/ Delete("dashboard") /\ Continue("end") /\ pending' = pending
    BY <1>16 DEF DeleteDashboard
  <2>2. objects' \in [Kinds -> [Namespaces -> States]]
    BY <2>1, DeleteType
  <2> QED
    BY <2>1, <2>2 DEF Continue, Abort, Done, boundVars
<1>17. CASE EditSpec
  <2>1. PICK k \in Kinds, p \in Placements : vc' = Stored([vc EXCEPT ![k] = p])
    BY <1>17 DEF EditSpec
  <2>2. [vc EXCEPT ![k] = p] \in Clusters
    <3>1. CASE k = "monitor"
      BY <1>17, <3>1 DEF EditSpec, Clusters
    <3>2. CASE k = "dashboard"
      BY <1>17, <3>2 DEF EditSpec, Clusters
    <3> QED
      BY <3>1, <3>2
  <2> QED
    <3>1. /\ vc' \in Clusters \cup {NoCluster} /\ edits' \in Nat
          /\ vc' # NoCluster => ~(vc'.deleting /\ vc'.finalizers = {})
      <4> DEFINE c == [vc EXCEPT ![k] = p]
      <4>1. vc' = Stored(c) /\ c \in Clusters
        BY <2>1, <2>2
      <4>2. edits' \in Nat
        BY <1>17 DEF EditSpec
      <4> HIDE DEF c
      <4> QED
        BY <4>1, <4>2, StoredType
    <3>2. UNCHANGED <<role, binding, objects, installed, cache, shown, pending, mapped,
                      pc, instance, todo, missed, strips, faults>>
      BY <1>17 DEF EditSpec, passVars, boundVars
    <3>3. PassInv'
      BY <3>2
    <3> QED
      BY <3>1, <3>2, <3>3
<1>18. CASE DeleteCluster
  <2>1. [vc EXCEPT !.deleting = TRUE] \in Clusters
    BY <1>18 DEF DeleteCluster, Clusters
  <2> QED
    <3>1. vc' \in Clusters \cup {NoCluster} /\ (vc' # NoCluster => ~(vc'.deleting /\ vc'.finalizers = {}))
      BY <1>18, <2>1, StoredType DEF DeleteCluster
    <3>2. UNCHANGED <<role, binding, objects, installed, cache, shown, pending, mapped,
                      pc, instance, todo, missed, edits, strips, faults>>
      BY <1>18 DEF DeleteCluster, passVars, boundVars
    <3>3. PassInv'
      BY <3>2
    <3> QED
      BY <3>1, <3>2, <3>3
<1>19. CASE StripFinalizers
  BY <1>19, StoredType DEF StripFinalizers, Clusters, passVars
<1>20. CASE UninstallPrometheus
  <2>1. objects' \in [Kinds -> [Namespaces -> States]]
    BY <1>20 DEF UninstallPrometheus, States
  <2>2. /\ UNCHANGED <<vc, role, binding, cache, shown, pending, mapped, passVars, missed, boundVars>>
        /\ installed' \in BOOLEAN
    BY <1>20 DEF UninstallPrometheus
  <2>3. UNCHANGED <<pc, instance, todo, edits, strips, faults>>
    BY <2>2 DEF passVars, boundVars
  <2>4. PassInv'
    BY <2>3
  <2> QED
    BY <2>1, <2>2, <2>3, <2>4
<1>21. CASE CollectGarbage
  <2>1. PICK k \in Kinds, n \in Namespaces :
            objects' = [objects EXCEPT ![k][n] = "none"] /\ Event(k, "owned")
    BY <1>21 DEF CollectGarbage
  <2>2. objects' \in [Kinds -> [Namespaces -> States]]
    BY <2>1 DEF States
  <2>3. pending' \in BOOLEAN
    BY <2>1, EventType
  <2> QED
    BY <1>21, <2>2, <2>3 DEF CollectGarbage, passVars, boundVars
<1>29. CASE FollowUp
  <2>1. UNCHANGED <<apiVars, cache, mapped, passVars, missed, boundVars>>
    BY <1>29 DEF FollowUp
  <2> QED
    BY <1>29, <2>1, FollowUpType DEF apiVars, passVars, boundVars
<1>22. CASE CacheSync
  BY <1>22 DEF CacheSync, apiVars, passVars, boundVars
<1>23. CASE Resync
  BY <1>23 DEF Resync, apiVars, passVars, boundVars
<1>24. CASE CallFails
  <2>1. /\ pc' = "idle" /\ instance' = NoCluster /\ todo' = {}
        /\ pending' \in BOOLEAN /\ faults' \in Nat
    <3>1. CASE pc = "dropMonitor"
      BY <1>24, <3>1 DEF CallFails, Fails, Done
    <3>2. CASE pc # "dropMonitor"
      BY <1>24, <3>2 DEF CallFails, Abort, Done
    <3> QED
      BY <3>1, <3>2
  <2> QED
    BY <1>24, <2>1 DEF CallFails, apiVars
<1>25. CASE Restart
  <2>1. shown' \in Reads
    BY <1>25 DEF Restart, Live, Reads
  <2>2. pending' \in BOOLEAN
    BY <1>25 DEF Restart, Watched, Live
  <2> QED
    BY <1>25, <2>1, <2>2 DEF Restart, Done, apiVars
<1>26. CASE UNCHANGED vars
  BY <1>26 DEF vars, apiVars, passVars, boundVars
<1> QED
  BY <1>1, <1>2, <1>3, <1>4, <1>5, <1>6, <1>7, <1>8, <1>9, <1>10, <1>11, <1>12, <1>13, <1>14,
     <1>15, <1>16, <1>17, <1>18, <1>19, <1>20, <1>21, <1>22, <1>23, <1>24, <1>25, <1>26,
     <1>27, <1>28, <1>29
  DEF Next, Pass, Users

----------------------------------------------------------------------------
(* How the VarnishCluster, the cache and the pass move *)

\* The versions of a VarnishCluster.
Follows(v, w) ==
    v # NoCluster /\ (w # NoCluster => w.rv = v.rv + 1 /\ (v.deleting => w.deleting))

\* The finalizers a clean-up may be removing.
Dropped == IF pc = "dropMonitor" THEN {"monitor"} ELSE {"role", "binding"}

\* A step that writes the VarnishCluster writes the next version of it.  Only users change
\* the spec; only users and a clean-up remove finalizers.
ClusterStep ==
    \/ vc' = vc
    \/ /\ Follows(vc, vc')
       /\ edits' = 0 /\ vc' # NoCluster => vc'.monitor = vc.monitor
       /\ strips' = 0 =>
            \/ vc.finalizers \subseteq Held'
            \/ /\ pc \in {"dropRole", "dropBinding", "dropMonitor"} /\ vc.deleting
               /\ vc.finalizers \ Dropped \subseteq Held'

\* What an update from a pass writes, and what the pass goes on with.
PassWrites ==
    \/ instance' = vc'
    \/ vc' = NoCluster /\ instance' \in Clusters /\ instance'.deleting

\* A pass that may write has read the present version.
LEMMA FreshIsPresent ==
    ASSUME TypeOK, VersionInv, instance # NoCluster, Fresh
    PROVE  instance = vc
BY DEF VersionInv, Earlier, Fresh

\* Removing a finalizer is a step of the VarnishCluster, unless nothing is written.
LEMMA RemovalMoves ==
    ASSUME TypeOK, PassInv, VersionInv, NEW f \in FinalizerNames, NEW next,
           removeFinalizer(f, next), pc \in {"dropRole", "dropBinding", "dropMonitor"},
           f \in Dropped
    PROVE  /\ ClusterStep
           /\ \/ vc' = vc /\ (instance' = instance \/ instance' = NoCluster)
              \/ PassWrites
<1>1. instance \in Clusters /\ instance # NoCluster /\ instance.deleting
  BY DEF PassInv, Deleting
<1>2. CASE f \notin instance.finalizers
  BY <1>2 DEF removeFinalizer, Continue, ClusterStep
<1>3. CASE f \in instance.finalizers /\ ~Fresh
  BY <1>3 DEF removeFinalizer, Fails, Done, ClusterStep
<1>4. CASE f \in instance.finalizers /\ Fresh
  <2> DEFINE c == [instance EXCEPT !.finalizers = @ \ {f}]
             d == [instance EXCEPT !.finalizers = @ \ {f}, !.rv = @ + 1]
  <2>1. instance = vc
    BY <1>1, <1>4, FreshIsPresent
  <2>2. /\ c \in Clusters /\ c.deleting /\ c.finalizers = vc.finalizers \ {f}
        /\ c.rv = vc.rv /\ c.monitor = vc.monitor
    BY <1>1, <2>1 DEF Clusters
  <2>3. d = [c EXCEPT !.rv = c.rv + 1]
    BY <1>1 DEF Clusters
  <2>4. vc' = Stored(c) /\ instance' = d
    BY <1>4 DEF removeFinalizer
  <2> HIDE DEF c, d
  <2>5. /\ d \in Clusters /\ d.rv = vc.rv + 1 /\ d.deleting /\ d.monitor = vc.monitor
        /\ d.finalizers = vc.finalizers \ {f}
    BY <2>2, <2>3 DEF Clusters
  <2>6. \/ vc' = NoCluster /\ c.finalizers = {}
        \/ vc' = d
    BY <2>2, <2>3, <2>4 DEF Stored
  <2>7. Follows(vc, vc') /\ (vc' # NoCluster => vc'.monitor = vc.monitor)
    BY <1>1, <2>1, <2>5, <2>6 DEF Follows
  <2>8. vc.finalizers \ {f} \subseteq Held'
    BY <2>2, <2>5, <2>6, NoClusterAssumption DEF Held
  <2>9. vc.finalizers \ Dropped \subseteq Held' /\ vc.deleting
    BY <1>1, <2>1, <2>8
  <2> QED
    BY <2>4, <2>5, <2>6, <2>7, <2>9 DEF ClusterStep, PassWrites
<1> QED
  BY <1>2, <1>3, <1>4

\* Every step moves the VarnishCluster on, if it does at all.
LEMMA ClusterMoves ==
    ASSUME TypeOK, PassInv, VersionInv, [Next]_vars
    PROVE  ClusterStep
<1>1. CASE AddFinalizers
  <2> DEFINE c == [instance EXCEPT !.finalizers = @ \cup desiredFinalizers]
  <2>1. instance \in Clusters /\ ~instance.deleting /\ instance # NoCluster
    BY <1>1 DEF AddFinalizers, PassInv
  <2>2. CASE c # instance /\ Fresh
    <3>1. instance = vc
      BY <2>1, <2>2, FreshIsPresent
    <3>2. /\ c \in Clusters /\ ~c.deleting /\ c.rv = vc.rv /\ c.monitor = vc.monitor
          /\ vc.finalizers \subseteq c.finalizers
      BY <2>1, <3>1 DEF Clusters, FinalizerNames, desiredFinalizers
    <3>3. vc' = Stored(c)
      BY <1>1, <2>2 DEF AddFinalizers, Update
    <3> HIDE DEF c
    <3>4. vc' = [c EXCEPT !.rv = c.rv + 1]
      BY <3>2, <3>3, StoredType
    <3>5. /\ vc'.rv = vc.rv + 1 /\ vc'.monitor = vc.monitor
          /\ vc.finalizers \subseteq vc'.finalizers /\ ~vc.deleting /\ vc' \in Clusters
      BY <2>1, <3>1, <3>2, <3>4 DEF Clusters
    <3> QED
      BY <2>1, <3>1, <3>5, NoClusterAssumption DEF ClusterStep, Follows, Held
  <2>3. CASE ~(c # instance /\ Fresh)
    BY <1>1, <2>3 DEF AddFinalizers, ClusterStep
  <2> QED
    BY <2>2, <2>3
<1>2. CASE EditSpec
  <2>1. PICK k \in Kinds, p \in Placements : vc' = Stored([vc EXCEPT ![k] = p])
    BY <1>2 DEF EditSpec
  <2> DEFINE c == [vc EXCEPT ![k] = p]
  <2>2. vc \in Clusters /\ vc # NoCluster /\ edits' # 0
    BY <1>2 DEF EditSpec, TypeOK
  <2>3. /\ c \in Clusters /\ c.deleting = vc.deleting /\ c.rv = vc.rv
        /\ c.finalizers = vc.finalizers
    <3>1. CASE k = "monitor"
      BY <2>2, <3>1 DEF Clusters
    <3>2. CASE k = "dashboard"
      BY <2>2, <3>2 DEF Clusters
    <3> QED
      BY <3>1, <3>2 DEF Kinds
  <2>4. vc' = Stored(c)
    BY <2>1
  <2> HIDE DEF c
  <2>5. vc' = [c EXCEPT !.rv = c.rv + 1]
    BY <2>2, <2>3, <2>4, StoredType DEF TypeOK
  <2>6. vc'.rv = vc.rv + 1 /\ vc'.deleting = vc.deleting /\ vc'.finalizers = vc.finalizers
        /\ vc' \in Clusters
    BY <2>2, <2>3, <2>5 DEF Clusters
  <2> QED
    BY <2>2, <2>6, NoClusterAssumption DEF ClusterStep, Follows, Held
<1>3. CASE DeleteCluster
  <2> DEFINE c == [vc EXCEPT !.deleting = TRUE]
  <2>1. vc \in Clusters /\ vc # NoCluster /\ vc' = Stored(c)
    BY <1>3 DEF DeleteCluster, TypeOK
  <2>2. /\ c \in Clusters /\ c.deleting /\ c.rv = vc.rv /\ c.monitor = vc.monitor
        /\ c.finalizers = vc.finalizers
    BY <2>1 DEF Clusters
  <2> HIDE DEF c
  <2>3. CASE c.finalizers = {}
    BY <2>1, <2>2, <2>3 DEF Stored, ClusterStep, Follows, Held
  <2>4. CASE c.finalizers # {}
    <3>1. vc' = [c EXCEPT !.rv = c.rv + 1]
      BY <2>1, <2>2, <2>4, StoredType
    <3>2. vc' \in Clusters /\ vc'.rv = vc.rv + 1 /\ vc'.deleting /\ vc'.monitor = vc.monitor
          /\ vc'.finalizers = vc.finalizers
      BY <2>1, <2>2, <3>1 DEF Clusters
    <3> QED
      BY <2>1, <3>2, NoClusterAssumption DEF ClusterStep, Follows, Held
  <2> QED
    BY <2>3, <2>4
<1>4. CASE StripFinalizers
  <2> DEFINE c == [vc EXCEPT !.finalizers = {}]
  <2>1. vc \in Clusters /\ vc # NoCluster /\ vc' = Stored(c) /\ strips' # 0
    BY <1>4 DEF StripFinalizers, TypeOK
  <2>2. /\ c \in Clusters /\ c.deleting = vc.deleting /\ c.rv = vc.rv /\ c.monitor = vc.monitor
    BY <2>1 DEF Clusters
  <2> HIDE DEF c
  <2>3. vc' = NoCluster \/ vc' = [c EXCEPT !.rv = c.rv + 1]
    BY <2>1, <2>2, StoredType
  <2>4. vc' # NoCluster =>
            vc'.rv = vc.rv + 1 /\ vc'.deleting = vc.deleting /\ vc'.monitor = vc.monitor
    BY <2>1, <2>2, <2>3 DEF Clusters
  <2> QED
    BY <2>1, <2>4 DEF ClusterStep, Follows
<1>5. CASE DropRole
  BY <1>5, RemovalMoves DEF DropRole, Dropped, FinalizerNames
<1>6. CASE DropBinding
  BY <1>6, RemovalMoves DEF DropBinding, Dropped, FinalizerNames
<1>7. CASE DropMonitor
  BY <1>7, RemovalMoves DEF DropMonitor, Dropped, FinalizerNames
<1>8. CASE \/ Start \/ CreateRole \/ CreateBinding \/ CleanMonitor \/ RemoveMonitor
           \/ ApplyMonitor \/ CleanDashboard \/ RemoveDashboard \/ ApplyDashboard \/ End
           \/ DeleteRole \/ DeleteBinding \/ DeleteMonitor \/ DeleteDashboard
           \/ UninstallPrometheus \/ CollectGarbage \/ CacheSync \/ FollowUp \/ Resync
           \/ CallFails \/ Restart \/ UNCHANGED vars
  BY <1>8 DEF Start, CreateRole, CreateBinding, CleanMonitor, RemoveMonitor, ApplyMonitor,
     CleanDashboard, RemoveDashboard, ApplyDashboard, End, DeleteRole, DeleteBinding,
     DeleteMonitor, DeleteDashboard, UninstallPrometheus, CollectGarbage, CacheSync, FollowUp,
     Resync, CallFails, Restart, vars, apiVars, ClusterStep
<1> QED
  BY <1>1, <1>2, <1>3, <1>4, <1>5, <1>6, <1>7, <1>8 DEF Next, Pass, Users

\* An update from a pass changes the finalizers it works with, and nothing else.
SameCluster(x, y) ==
    /\ y \in Clusters /\ y # NoCluster /\ y.deleting = x.deleting
    /\ y.monitor = x.monitor /\ y.dashboard = x.dashboard

\* What a pass works with from one step to the next.
InstanceStep ==
    \/ instance' = instance /\ (pc' = pc \/ pc # "idle")
    \/ instance' = NoCluster /\ pc' = "idle"
    \/ Start
    \/ /\ PassWrites /\ instance # NoCluster /\ SameCluster(instance, instance')
       /\ pc # "idle" /\ cache' = cache

\* Where the finalizers of a pass that creates objects come from.
LEMMA AddMoves ==
    ASSUME TypeOK, PassInv, VersionInv, AddFinalizers
    PROVE  /\ \/ instance' = NoCluster /\ pc' = "idle"
              \/ instance' = instance /\ vc' = vc
              \/ instance' = vc' /\ SameCluster(instance, instance')
           /\ pc' = "createRole" => desiredFinalizers' \subseteq instance'.finalizers
<1> DEFINE c == [instance EXCEPT !.finalizers = @ \cup desiredFinalizers]
<1>1. instance \in Clusters /\ ~instance.deleting /\ instance # NoCluster
  BY DEF AddFinalizers, PassInv
<1>2. /\ c \in Clusters /\ ~c.deleting /\ desiredFinalizers \subseteq c.finalizers
      /\ c.monitor = instance.monitor /\ c.dashboard = instance.dashboard
  BY <1>1 DEF Clusters, FinalizerNames, desiredFinalizers, Kinds
<1>3. CASE c = instance
  BY <1>2, <1>3 DEF AddFinalizers, Continue, desiredFinalizers, Place
<1>4. CASE c # instance /\ Fresh
  <2>1. vc' = Stored(c) /\ instance' = Stored(c)
    BY <1>4 DEF AddFinalizers, Update
  <2> HIDE DEF c
  <2>2. Stored(c) = [c EXCEPT !.rv = c.rv + 1]
    BY <1>2, StoredType
  <2>3. /\ Stored(c) \in Clusters /\ ~Stored(c).deleting
        /\ Stored(c).finalizers = c.finalizers
        /\ Stored(c).monitor = c.monitor /\ Stored(c).dashboard = c.dashboard
    BY <1>2, <2>2 DEF Clusters
  <2>4. SameCluster(instance, instance')
    <3>1. instance'.deleting = instance.deleting
      BY <1>1, <2>1, <2>3 DEF Clusters
    <3> QED
      BY <1>2, <2>1, <2>3, <3>1, NoClusterAssumption DEF SameCluster
  <2>5. desiredFinalizers' = desiredFinalizers
    BY <1>2, <2>1, <2>3 DEF desiredFinalizers, Place, Kinds
  <2> QED
    BY <1>2, <2>1, <2>3, <2>4, <2>5
<1>5. CASE c # instance /\ ~Fresh
  BY <1>5 DEF AddFinalizers, Abort, Done
<1> QED
  BY <1>3, <1>4, <1>5

\* The same for a pass that removes a finalizer.
LEMMA RemovalKeeps ==
    ASSUME TypeOK, PassInv, VersionInv, NEW f \in FinalizerNames, NEW next,
           removeFinalizer(f, next), pc \in {"dropRole", "dropBinding", "dropMonitor"}
    PROVE  \/ instance' = instance
           \/ instance' = NoCluster /\ pc' = "idle"
           \/ SameCluster(instance, instance')
<1>1. instance \in Clusters /\ instance # NoCluster /\ instance.deleting
  BY DEF PassInv, Deleting
<1>2. CASE f \notin instance.finalizers
  BY <1>2 DEF removeFinalizer, Continue
<1>3. CASE f \in instance.finalizers /\ ~Fresh
  BY <1>3 DEF removeFinalizer, Fails, Done
<1>4. CASE f \in instance.finalizers /\ Fresh
  <2> DEFINE c == [instance EXCEPT !.finalizers = @ \ {f}]
             d == [instance EXCEPT !.finalizers = @ \ {f}, !.rv = @ + 1]
  <2>1. /\ c \in Clusters /\ c.deleting
        /\ c.monitor = instance.monitor /\ c.dashboard = instance.dashboard
    BY <1>1 DEF Clusters
  <2>2. d = [c EXCEPT !.rv = c.rv + 1]
    BY <1>1 DEF Clusters
  <2>3. instance' = d
    BY <1>4 DEF removeFinalizer
  <2> HIDE DEF c, d
  <2>4. d \in Clusters /\ d.deleting /\ d.monitor = c.monitor /\ d.dashboard = c.dashboard
    BY <2>1, <2>2 DEF Clusters
  <2> QED
    BY <1>1, <2>1, <2>3, <2>4, NoClusterAssumption DEF SameCluster
<1> QED
  BY <1>2, <1>3, <1>4

\* Every step moves the pass in one of those ways.
LEMMA PassMoves ==
    ASSUME TypeOK, PassInv, VersionInv, [Next]_vars
    PROVE  InstanceStep
<1>1. CASE AddFinalizers
  <2>1. pc = "addFinalizers" /\ instance # NoCluster /\ cache' = cache
    BY <1>1 DEF AddFinalizers, PassInv
  <2> QED
    BY <1>1, <2>1, AddMoves DEF InstanceStep, PassWrites
<1>2. CASE DropRole \/ DropBinding \/ DropMonitor
  <2>1. PICK f \in FinalizerNames, next \in Steps :
            removeFinalizer(f, next) /\ f \in Dropped
    BY <1>2 DEF DropRole, DropBinding, DropMonitor, FinalizerNames, Steps, Dropped
  <2>2. pc \in {"dropRole", "dropBinding", "dropMonitor"} /\ instance # NoCluster
    BY <1>2 DEF DropRole, DropBinding, DropMonitor, PassInv, Deleting
  <2>3. cache' = cache
    BY <2>1 DEF removeFinalizer
  <2>4. \/ instance' = instance
        \/ instance' = NoCluster /\ pc' = "idle"
        \/ SameCluster(instance, instance')
    BY <2>1, <2>2, RemovalKeeps DEF SameCluster
  <2>5. SameCluster(instance, instance') => instance' = instance \/ PassWrites
    BY <2>1, <2>2, RemovalMoves DEF SameCluster
  <2> QED
    BY <2>2, <2>3, <2>4, <2>5 DEF InstanceStep, SameCluster
<1>3. CASE \/ CleanMonitor \/ RemoveMonitor \/ ApplyMonitor \/ CleanDashboard \/ RemoveDashboard
           \/ ApplyDashboard
  BY <1>3 DEF CleanMonitor, RemoveMonitor, ApplyMonitor, CleanDashboard, RemoveDashboard,
     ApplyDashboard, CleanNotNeeded, Remove, Apply, Abort, Done, Continue, passVars,
     InstanceStep
<1>4. CASE \/ Start \/ CreateRole \/ CreateBinding \/ End \/ DeleteRole \/ DeleteBinding
           \/ DeleteMonitor \/ DeleteDashboard \/ CallFails \/ Restart
  BY <1>4 DEF CreateRole, CreateBinding, End, DeleteRole, DeleteBinding, DeleteMonitor,
     DeleteDashboard, CallFails, Restart, Abort, Done, Continue, Fails, InstanceStep
<1>5. CASE Users \/ CollectGarbage \/ CacheSync \/ FollowUp \/ Resync \/ UNCHANGED vars
  BY <1>5 DEF Users, EditSpec, DeleteCluster, StripFinalizers, UninstallPrometheus,
     CollectGarbage, CacheSync, FollowUp, Resync, vars, passVars, InstanceStep
<1> QED
  BY <1>1, <1>2, <1>3, <1>4, <1>5 DEF Next, Pass

\* The cache holds what it held, or catches up.
LEMMA CacheMoves ==
    ASSUME [Next]_vars
    PROVE  cache' = cache \/ cache' = vc'
<1>1. CASE CacheSync \/ Restart
  BY <1>1 DEF CacheSync, Restart, apiVars
<1>2. CASE \/ Start \/ AddFinalizers \/ CreateRole \/ CreateBinding \/ CleanMonitor
           \/ RemoveMonitor \/ ApplyMonitor \/ CleanDashboard \/ RemoveDashboard
           \/ ApplyDashboard \/ End \/ DeleteRole \/ DropRole \/ DeleteBinding \/ DropBinding
           \/ DeleteMonitor \/ DropMonitor \/ DeleteDashboard
  BY <1>2 DEF Start, AddFinalizers, CreateRole, CreateBinding, CleanMonitor, RemoveMonitor,
     ApplyMonitor, CleanDashboard, RemoveDashboard, ApplyDashboard, End, DeleteRole, DropRole,
     DeleteBinding, DropBinding, DeleteMonitor, DropMonitor, DeleteDashboard, removeFinalizer
<1>3. CASE Users \/ CollectGarbage \/ FollowUp \/ Resync \/ CallFails \/ UNCHANGED vars
  BY <1>3 DEF Users, EditSpec, DeleteCluster, StripFinalizers, UninstallPrometheus,
     CollectGarbage, FollowUp, Resync, CallFails, vars
<1> QED
  BY <1>1, <1>2, <1>3 DEF Next, Pass

\* The bounds only grow.
LEMMA BoundsGrow ==
    ASSUME TypeOK, [Next]_vars
    PROVE  (strips' = 0 => strips = 0) /\ (edits' = 0 => edits = 0)
<1>1. CASE \/ Start \/ AddFinalizers \/ CreateRole \/ CreateBinding \/ CleanMonitor
           \/ RemoveMonitor \/ ApplyMonitor \/ CleanDashboard \/ RemoveDashboard
           \/ ApplyDashboard \/ End \/ DeleteRole \/ DropRole \/ DeleteBinding \/ DropBinding
           \/ DeleteMonitor \/ DropMonitor \/ DeleteDashboard
  BY <1>1 DEF Start, AddFinalizers, CreateRole, CreateBinding, CleanMonitor, RemoveMonitor,
     ApplyMonitor, CleanDashboard, RemoveDashboard, ApplyDashboard, End, DeleteRole, DropRole,
     DeleteBinding, DropBinding, DeleteMonitor, DropMonitor, DeleteDashboard, removeFinalizer,
     boundVars
<1>2. CASE \/ Users \/ CollectGarbage \/ CacheSync \/ FollowUp \/ Resync \/ CallFails \/ Restart
           \/ UNCHANGED vars
  BY <1>2 DEF Users, EditSpec, DeleteCluster, StripFinalizers, UninstallPrometheus,
     CollectGarbage, CacheSync, FollowUp, Resync, CallFails, Restart, vars, boundVars, TypeOK
<1> QED
  BY <1>1, <1>2 DEF Next, Pass

----------------------------------------------------------------------------
(* Versions and finalizers *)

\* What is behind a version is behind those that follow.
LEMMA EarlierFollows ==
    ASSUME NEW x \in Clusters \cup {NoCluster}, NEW v \in Clusters \cup {NoCluster},
           NEW w \in Clusters \cup {NoCluster}, Earlier(x, v), w = v \/ Follows(v, w)
    PROVE  Earlier(x, w)
<1>1. CASE w = v
  BY <1>1
<1>2. CASE w # v /\ x # NoCluster /\ w # NoCluster
  <2>1. v # NoCluster /\ w.rv = v.rv + 1 /\ x.rv <= v.rv
    BY <1>2 DEF Follows, Earlier
  <2>2. x.rv \in Nat /\ v.rv \in Nat /\ w.rv \in Nat
    BY <1>2, <2>1 DEF Clusters
  <2>3. x.rv <= w.rv /\ x.rv # w.rv
    BY <2>1, <2>2
  <2> QED
    BY <1>2, <2>1, <2>3 DEF Follows, Earlier
<1>3. CASE w # v /\ (x = NoCluster \/ w = NoCluster)
  BY <1>3 DEF Follows, Earlier
<1> QED
  BY <1>1, <1>2, <1>3

\* A version is behind itself; no version is behind every one.
LEMMA EarlierSelf ==
    ASSUME NEW v \in Clusters \cup {NoCluster}
    PROVE  Earlier(v, v) /\ Earlier(NoCluster, v)
BY DEF Earlier, Clusters

\* Every step keeps cache and pass behind the API server.
LEMMA VersionStep ==
    ASSUME TypeOK, PassInv, VersionInv, [Next]_vars
    PROVE  VersionInv'
<1>1. TypeOK' /\ PassInv'
  BY TypeOKStep
<1>2. vc' = vc \/ Follows(vc, vc')
  BY ClusterMoves DEF ClusterStep
<1>3. cache' = cache \/ cache' = vc'
  BY CacheMoves
<1>4. InstanceStep
  BY PassMoves
<1>5. /\ \A x \in Clusters \cup {NoCluster} : Earlier(x, vc) => Earlier(x, vc')
      /\ Earlier(vc', vc') /\ Earlier(NoCluster, vc')
  BY <1>1, <1>2, EarlierFollows, EarlierSelf DEF TypeOK
<1>6. Earlier(cache, vc') /\ Earlier(instance, vc')
  BY <1>5 DEF VersionInv, TypeOK
<1>7. Earlier(cache', vc')
  BY <1>3, <1>5, <1>6
<1>8. Start => instance' = cache /\ cache' = cache
  BY DEF Start
<1>9. Earlier(instance', vc')
  <2>1. CASE PassWrites
    BY <2>1, <1>1, <1>5 DEF PassWrites, Earlier
  <2>2. CASE ~PassWrites
    BY <2>2, <1>4, <1>5, <1>6, <1>8 DEF InstanceStep
  <2> QED
    BY <2>1, <2>2
<1>10. cache' = NoCluster => vc' = NoCluster
  BY <1>2, <1>3 DEF VersionInv, Follows
<1>11. instance' # NoCluster /\ instance'.deleting => cache' = NoCluster \/ cache'.deleting
  <2> SUFFICES ASSUME instance' # NoCluster, instance'.deleting
               PROVE  cache' = NoCluster \/ cache'.deleting
    OBVIOUS
  <2>1. CASE instance' = instance
    <3>1. cache = NoCluster \/ cache.deleting
      BY <2>1 DEF VersionInv
    <3>2. cache = NoCluster => vc' = NoCluster
      BY <1>2 DEF VersionInv, Follows
    <3>3. cache # NoCluster => vc' = NoCluster \/ vc'.deleting
      BY <3>1, <1>6 DEF Earlier
    <3> QED
      BY <1>3, <3>1, <3>2, <3>3
  <2>2. CASE Start
    BY <1>8, <2>2
  <2>3. CASE instance # NoCluster /\ SameCluster(instance, instance') /\ cache' = cache
    BY <2>3 DEF VersionInv, SameCluster
  <2> QED
    BY <1>4, <2>1, <2>2, <2>3 DEF InstanceStep
<1> QED
  BY <1>7, <1>9, <1>10, <1>11 DEF VersionInv

\* Every step keeps the finalizers a pass relies on.
LEMMA FinalizerStep ==
    ASSUME TypeOK, PassInv, VersionInv, FinalizerInv, [Next]_vars
    PROVE  FinalizerInv'
<1>1. ClusterStep /\ InstanceStep /\ TypeOK' /\ PassInv'
  BY ClusterMoves, PassMoves, TypeOKStep
<1>2. cache' = cache \/ cache' = vc'
  BY CacheMoves
<1>3. ASSUME strips' = 0, NEW x \in {cache', instance'}, x # NoCluster, ~x.deleting
      PROVE  x.finalizers \subseteq Held'
  <2>1. strips = 0
    BY <1>3, BoundsGrow
  <2>2. CASE x = vc'
    BY <1>3, <2>2 DEF Held
  <2>3. CASE x \in {cache, instance}
    <3>1. x.finalizers \subseteq Held
      BY <1>3, <2>1, <2>3 DEF FinalizerInv
    <3>2. CASE vc' = vc
      BY <3>1, <3>2 DEF Held
    <3>3. CASE vc' # vc /\ vc.finalizers \subseteq Held'
      BY <1>1, <3>1, <3>3 DEF ClusterStep, Follows, Held
    <3>4. CASE pc \in {"dropRole", "dropBinding", "dropMonitor"}
      <4>1. instance # NoCluster /\ instance.deleting
        BY <3>4 DEF PassInv, Deleting
      <4>2. cache = NoCluster \/ cache.deleting
        BY <4>1 DEF VersionInv
      <4> QED
        BY <1>3, <2>3, <4>1, <4>2
    <3> QED
      BY <1>1, <1>3, <3>2, <3>3, <3>4 DEF ClusterStep
  <2>4. x \in {cache, instance} \/ x = vc'
    <3>1. Start => instance' = cache
      BY DEF Start
    <3>2. PassWrites => instance' = vc' \/ instance'.deleting
      BY DEF PassWrites
    <3> QED
      BY <1>1, <1>2, <1>3, <3>1, <3>2 DEF InstanceStep
  <2> QED
    BY <2>2, <2>3, <2>4
<1>4. pc' \in Creating => desiredFinalizers' \subseteq instance'.finalizers
  <2>1. CASE AddFinalizers
    <3>1. pc' \in Creating => pc' = "createRole"
      BY <2>1 DEF AddFinalizers, Continue, Abort, Done, Creating
    <3> QED
      BY <2>1, <3>1, AddMoves
  <2>2. CASE pc' \in Creating /\ pc \in Creating /\ instance' = instance
    BY <2>2 DEF FinalizerInv, desiredFinalizers, Place
  <2>3. pc' \in Creating /\ ~AddFinalizers => pc \in Creating /\ instance' = instance
    <3>1. CASE \/ CleanMonitor \/ RemoveMonitor \/ ApplyMonitor \/ CleanDashboard
               \/ RemoveDashboard \/ ApplyDashboard
      BY <3>1 DEF CleanMonitor, RemoveMonitor, ApplyMonitor, CleanDashboard, RemoveDashboard,
         ApplyDashboard, CleanNotNeeded, Remove, Apply, Abort, Done, Continue, passVars,
         Creating
    <3>2. CASE CreateRole \/ CreateBinding
      BY <3>2 DEF CreateRole, CreateBinding, Continue, Abort, Done, Creating
    <3>3. CASE \/ Start \/ End \/ DeleteRole \/ DropRole \/ DeleteBinding \/ DropBinding
               \/ DeleteMonitor \/ DropMonitor \/ DeleteDashboard \/ CallFails \/ Restart
      BY <3>3 DEF Start, firstStep, End, DeleteRole, DropRole, DeleteBinding, DropBinding,
         DeleteMonitor, DropMonitor, DeleteDashboard, removeFinalizer, CallFails, Restart,
         Fails, Abort, Done, Continue, Creating
    <3>4. CASE Users \/ CollectGarbage \/ CacheSync \/ FollowUp \/ Resync \/ UNCHANGED vars
      BY <3>4 DEF Users, EditSpec, DeleteCluster, StripFinalizers, UninstallPrometheus,
         CollectGarbage, CacheSync, FollowUp, Resync, vars, passVars
    <3> QED
      BY <3>1, <3>2, <3>3, <3>4 DEF Next, Pass
  <2> QED
    BY <2>1, <2>2, <2>3
<1> QED
  BY <1>3, <1>4 DEF FinalizerInv

----------------------------------------------------------------------------
(* The objects *)

\* An object without owner is one that was there, or one a pass creates in the namespace
\* its spec names.
LEMMA FreeMoves ==
    ASSUME TypeOK, PassInv, [Next]_vars, NEW k \in Kinds, NEW n \in Namespaces,
           objects'[k][n] = "free", objects[k][n] # "free"
    PROVE  /\ pc \in Creating /\ Place(k) = n /\ Elsewhere(Place(k))
           /\ pc' # "dropMonitor" /\ vc' = vc /\ instance' = instance
<1> DEFINE Applied(kind, next) ==
        /\ pc \in Creating /\ instance \in Clusters /\ Apply(kind, next) /\ vc' = vc
        /\ next # "dropMonitor"
<1>1. ASSUME NEW kind \in Kinds, NEW next \in Steps, Applied(kind, next)
      PROVE  /\ Place(k) = n /\ Elsewhere(Place(k)) /\ pc \in Creating
             /\ pc' # "dropMonitor" /\ vc' = vc /\ instance' = instance
  <2>1. objects' # objects
    OBVIOUS
  <2>2. /\ Target(Place(kind)) \in Namespaces /\ Place(kind) # Off
        /\ objects' = [objects EXCEPT ![kind][Target(Place(kind))] = NewState(kind)]
        /\ pc' = next /\ instance' = instance
    BY <1>1, <2>1, ApplyMoves
  <2>3. kind = k /\ Target(Place(k)) = n /\ NewState(k) = "free"
    BY <2>2 DEF TypeOK
  <2>4. Place(k) # Default
    BY <2>3 DEF NewState
  <2> QED
    BY <1>1, <2>2, <2>3, <2>4 DEF Elsewhere, Target
<1>2. CASE ApplyMonitor
  <2>1. Applied("monitor", "cleanDashboard")
    BY <1>2 DEF ApplyMonitor, PassInv, Creating
  <2> HIDE DEF Applied
  <2> QED
    BY <1>1, <2>1 DEF Kinds, Steps
<1>3. CASE ApplyDashboard
  <2>1. Applied("dashboard", "end")
    BY <1>3 DEF ApplyDashboard, PassInv, Creating
  <2> HIDE DEF Applied
  <2> QED
    BY <1>1, <2>1 DEF Kinds, Steps
<1>4. objects' = objects => objects'[k][n] = objects[k][n]
  OBVIOUS
<1>5. CASE RemoveMonitor \/ RemoveDashboard
  <2>1. PICK kind \in Kinds, next \in Steps : Remove(kind, next)
    BY <1>5 DEF RemoveMonitor, RemoveDashboard, Kinds, Steps
  <2>2. objects' # objects
    OBVIOUS
  <2>3. PICK m \in Namespaces : objects' = [objects EXCEPT ![kind][m] = "none"]
    BY <2>1, <2>2 DEF Remove, TypeOK
  <2> QED
    BY <2>3 DEF TypeOK
<1>6. CASE DeleteMonitor \/ DeleteDashboard
  <2>1. \/ objects' = objects
        \/ Delete("monitor")
        \/ Delete("dashboard")
    BY <1>6 DEF DeleteMonitor, DeleteDashboard
  <2> QED
    BY <2>1 DEF TypeOK, Delete, Kinds
<1>7. CASE CollectGarbage
  <2>1. PICK kind \in Kinds, m \in Namespaces : objects' = [objects EXCEPT ![kind][m] = "none"]
    BY <1>7 DEF CollectGarbage
  <2> QED
    BY <2>1 DEF TypeOK
<1>8. CASE UninstallPrometheus
  BY <1>8 DEF UninstallPrometheus, TypeOK, Kinds
<1>9. CASE \/ Start \/ AddFinalizers \/ CreateRole \/ CreateBinding \/ CleanMonitor
           \/ CleanDashboard \/ End \/ DeleteRole \/ DropRole \/ DeleteBinding \/ DropBinding
           \/ DropMonitor \/ EditSpec \/ DeleteCluster \/ StripFinalizers \/ CacheSync
           \/ FollowUp \/ Resync \/ CallFails \/ Restart \/ UNCHANGED vars
  BY <1>4, <1>9 DEF Start, AddFinalizers, CreateRole, CreateBinding, CleanMonitor,
     CleanDashboard, End, DeleteRole, DropRole, DeleteBinding, DropBinding, DropMonitor,
     removeFinalizer, EditSpec, DeleteCluster, StripFinalizers, CacheSync, FollowUp, Resync,
     CallFails, Restart, vars, apiVars
<1> QED
  BY <1>2, <1>3, <1>5, <1>6, <1>7, <1>8, <1>9 DEF Next, Pass, Users

\* A ClusterRole, or a binding, is one that was there or one a pass creates.
LEMMA RoleMoves ==
    ASSUME TypeOK, [Next]_vars
    PROVE  /\ role' => role \/ pc = "createRole"
           /\ binding' => binding \/ pc = "createBinding"
<1>1. CASE CreateRole \/ CreateBinding \/ DeleteRole \/ DeleteBinding
  BY <1>1 DEF CreateRole, CreateBinding, DeleteRole, DeleteBinding
<1>2. CASE \/ Start \/ AddFinalizers \/ CleanMonitor \/ RemoveMonitor \/ ApplyMonitor
           \/ CleanDashboard \/ RemoveDashboard \/ ApplyDashboard \/ End \/ DropRole
           \/ DropBinding \/ DeleteMonitor \/ DropMonitor \/ DeleteDashboard
  BY <1>2 DEF Start, AddFinalizers, CleanMonitor, RemoveMonitor, ApplyMonitor,
     CleanDashboard, RemoveDashboard, ApplyDashboard, End, DropRole, DropBinding, DeleteMonitor,
     DropMonitor, DeleteDashboard, removeFinalizer, apiVars
<1>3. CASE \/ Users \/ CollectGarbage \/ CacheSync \/ FollowUp \/ Resync \/ CallFails \/ Restart
           \/ UNCHANGED vars
  BY <1>3 DEF Users, EditSpec, DeleteCluster, StripFinalizers, UninstallPrometheus,
     CollectGarbage, CacheSync, FollowUp, Resync, CallFails, Restart, vars, apiVars
<1> QED
  BY <1>1, <1>2, <1>3 DEF Next, Pass

\* Every step keeps what the operator must act on covered.
LEMMA CoveredStep ==
    ASSUME TypeOK, PassInv, VersionInv, FinalizerInv, CoveredByFinalizers, [Next]_vars
    PROVE  CoveredByFinalizers'
<1> SUFFICES ASSUME vc' # NoCluster, ~vc'.deleting, strips' = 0
             PROVE  /\ role' => "role" \in vc'.finalizers
                    /\ binding' => "binding" \in vc'.finalizers
                    /\ \A k \in Kinds, n \in Namespaces :
                        objects'[k][n] = "free" => "monitor" \in vc'.finalizers
  BY DEF CoveredByFinalizers
<1>1. ClusterStep
  BY ClusterMoves
<1>2. vc # NoCluster /\ ~vc.deleting /\ strips = 0
  BY <1>1, BoundsGrow DEF ClusterStep, Follows
<1>3. vc.finalizers \subseteq vc'.finalizers
  BY <1>1, <1>2 DEF ClusterStep, Held
<1>4. ASSUME pc \in Creating
      PROVE  desiredFinalizers \subseteq vc.finalizers
  <2>1. instance # NoCluster /\ ~instance.deleting
    BY <1>4 DEF PassInv
  <2>2. instance.finalizers \subseteq Held
    BY <1>2, <2>1 DEF FinalizerInv
  <2>3. desiredFinalizers \subseteq instance.finalizers
    BY <1>4 DEF FinalizerInv
  <2> QED
    BY <1>2, <2>2, <2>3 DEF Held
<1>5. role' => "role" \in vc'.finalizers
  BY <1>2, <1>3, <1>4, RoleMoves DEF CoveredByFinalizers, desiredFinalizers, Creating
<1>6. binding' => "binding" \in vc'.finalizers
  BY <1>2, <1>3, <1>4, RoleMoves DEF CoveredByFinalizers, desiredFinalizers, Creating
<1>7. ASSUME NEW k \in Kinds, NEW n \in Namespaces, objects'[k][n] = "free"
      PROVE  "monitor" \in vc'.finalizers
  <2>1. CASE objects[k][n] = "free"
    BY <1>2, <1>3, <2>1 DEF CoveredByFinalizers
  <2>2. CASE objects[k][n] # "free"
    BY <1>3, <1>4, <1>7, <2>2, FreeMoves DEF desiredFinalizers
  <2> QED
    BY <2>1, <2>2
<1> QED
  BY <1>5, <1>6, <1>7

\* Every step keeps the ServiceMonitor of the first spec within reach.
LEMMA MonitorStep ==
    ASSUME TypeOK, PassInv, VersionInv, FinalizerInv, MonitorInv, [Next]_vars
    PROVE  MonitorInv'
<1> SUFFICES ASSUME edits' = 0
             PROVE  /\ \A x \in {cache', instance'} :
                        x # NoCluster /\ vc' # NoCluster => x.monitor = vc'.monitor
                    /\ strips' = 0 =>
                        \A n \in Namespaces : objects'["monitor"][n] = "free" =>
                            "monitor" \in Held' /\ vc'.monitor = n /\ pc' # "dropMonitor"
  BY DEF MonitorInv
<1>1. ClusterStep /\ InstanceStep /\ edits = 0
  BY ClusterMoves, PassMoves, BoundsGrow
<1>2. vc' # NoCluster => vc # NoCluster /\ vc'.monitor = vc.monitor
  BY <1>1 DEF ClusterStep, Follows
<1>3. ASSUME NEW x \in {cache', instance'}, x # NoCluster, vc' # NoCluster
      PROVE  x.monitor = vc'.monitor
  <2>1. CASE x \in {cache, instance}
    BY <1>1, <1>2, <1>3, <2>1 DEF MonitorInv
  <2>2. CASE x = vc'
    BY <2>2
  <2>3. x \in {cache, instance} \/ x = vc'
    <3>1. Start => instance' = cache
      BY DEF Start
    <3>2. PassWrites => instance' = vc'
      BY <1>3 DEF PassWrites
    <3> QED
      BY <1>1, <1>3, <3>1, <3>2, CacheMoves DEF InstanceStep
  <2> QED
    BY <2>1, <2>2, <2>3
<1>4. ASSUME strips' = 0, NEW n \in Namespaces, objects'["monitor"][n] = "free"
      PROVE  "monitor" \in Held' /\ vc'.monitor = n /\ pc' # "dropMonitor"
  <2>1. strips = 0
    BY <1>4, BoundsGrow
  <2>2. CASE objects["monitor"][n] = "free"
    <3>1. "monitor" \in Held /\ vc.monitor = n /\ pc # "dropMonitor"
      BY <1>1, <2>1, <2>2 DEF MonitorInv
    <3>2. vc # NoCluster /\ "monitor" \in vc.finalizers
      BY <3>1 DEF Held
    <3>3. "monitor" \in Held'
      <4>1. CASE vc' = vc
        BY <3>1, <4>1 DEF Held
      <4>2. CASE vc.finalizers \subseteq Held'
        BY <3>2, <4>2
      <4>3. CASE vc.finalizers \ Dropped \subseteq Held'
        BY <3>1, <3>2, <4>3 DEF Dropped
      <4> QED
        BY <1>1, <1>4, <4>1, <4>2, <4>3 DEF ClusterStep
    <3>4. vc' # NoCluster
      BY <3>3 DEF Held
    <3>5. pc' # "dropMonitor"
      <4>1. SUFFICES ASSUME pc' = "dropMonitor" PROVE FALSE
        OBVIOUS
      <4>2. DeleteMonitor
        <5>1. CASE Pass /\ ~DeleteMonitor
          BY <3>1, <4>1, <5>1 DEF Pass, Start, firstStep, AddFinalizers, CreateRole,
             CreateBinding, CleanMonitor, RemoveMonitor, ApplyMonitor, CleanDashboard,
             RemoveDashboard, ApplyDashboard, CleanNotNeeded, Remove, Apply, End, DeleteRole,
             DropRole, DeleteBinding, DropBinding, DropMonitor, DeleteDashboard,
             removeFinalizer, Fails, Abort, Done, Continue, passVars
        <5>2. CASE Users \/ CollectGarbage \/ CacheSync \/ FollowUp \/ Resync \/ UNCHANGED vars
          BY <3>1, <4>1, <5>2 DEF Users, EditSpec, DeleteCluster, StripFinalizers,
             UninstallPrometheus, CollectGarbage, CacheSync, FollowUp, Resync, vars, passVars
        <5>3. CASE CallFails \/ Restart
          BY <4>1, <5>3 DEF CallFails, Restart, Fails, Abort, Done
        <5> QED
          BY <5>1, <5>2, <5>3 DEF Next
      <4>3. instance # NoCluster /\ pc = "deleteMonitor"
        BY <4>2 DEF DeleteMonitor, PassInv, Deleting
      <4>4. Place("monitor") = n
        BY <1>1, <3>1, <3>2, <4>3 DEF MonitorInv, Place
      <4>5. Delete("monitor") /\ Elsewhere(n)
        BY <4>1, <4>2, NamespacesAssumption DEF DeleteMonitor, Abort, Done, Elsewhere
      <4>6. objects'["monitor"][n] = "none"
        BY <4>4, <4>5 DEF Delete, TypeOK, Kinds
      <4> QED
        BY <1>4, <4>6
    <3> QED
      BY <1>2, <3>1, <3>3, <3>4, <3>5
  <2>3. CASE objects["monitor"][n] # "free"
    <3>1. /\ pc \in Creating /\ Place("monitor") = n /\ Elsewhere(Place("monitor"))
          /\ pc' # "dropMonitor" /\ vc' = vc
      BY <1>4, <2>3, FreeMoves DEF Kinds
    <3>2. instance # NoCluster /\ ~instance.deleting
      BY <3>1 DEF PassInv
    <3>3. "monitor" \in instance.finalizers /\ instance.finalizers \subseteq Held
      BY <2>1, <3>1, <3>2 DEF FinalizerInv, desiredFinalizers, Kinds
    <3>4. vc # NoCluster
      BY <3>3 DEF Held
    <3>5. vc.monitor = n
      BY <1>1, <3>1, <3>2, <3>4 DEF MonitorInv, Place
    <3> QED
      BY <3>1, <3>3, <3>5 DEF Held
  <2> QED
    BY <2>2, <2>3
<1> QED
  BY <1>3, <1>4

\* Every step keeps the request, or the pass, that deletes what a VarnishCluster that is gone
\* has left.
LEMMA LostStep ==
    ASSUME TypeOK, PassInv, VersionInv, LostInv, [Next]_vars
    PROVE  LostInv'
<1> SUFFICES ASSUME cache' = NoCluster
             PROVE  /\ instance' # NoCluster => pending'
                    /\ role' => pending' \/ pc' = "lostRole" \/ ~shown'.role
                    /\ binding' => pending' \/ pc' \in {"lostRole", "lostBinding"} \/ ~shown'.binding
  BY DEF LostInv
<1> USE DEF TypeOK
<1>1. CASE Start
  BY <1>1 DEF Start, firstStep, apiVars
<1>2. CASE Restart
  BY <1>2 DEF Restart, Done, apiVars, Watched, Live
<1>3. CASE CacheSync
  BY <1>3 DEF CacheSync
<1>4. CASE FollowUp
  <2>1. CASE pending'
    BY <2>1
  <2>2. CASE ~pending'
    <3>1. PICK n \in Namespaces : shown' = [shown EXCEPT !.dashboard[n] = objects["dashboard"][n]]
      BY <1>4, <2>2 DEF FollowUp
    <3>2. shown'.role = shown.role /\ shown'.binding = shown.binding
      BY <3>1
    <3>3. ~pending /\ UNCHANGED <<role, binding, cache, pc, instance>>
      BY <1>4, <2>2 DEF FollowUp, apiVars, passVars
    <3> QED
      BY <3>2, <3>3 DEF LostInv
  <2> QED
    BY <2>1, <2>2
<1>5. CASE DeleteRole \/ DeleteBinding
  BY <1>5 DEF DeleteRole, DeleteBinding, Abort, Done, Continue, LostInv
<1>6. CASE CreateRole \/ CreateBinding
  <2>1. cache = NoCluster /\ instance # NoCluster /\ (pending => pending')
    BY <1>6 DEF CreateRole, CreateBinding, Abort, PassInv, Creating
  <2> QED
    BY <2>1 DEF LostInv
<1>7. CASE \/ AddFinalizers \/ CleanMonitor \/ RemoveMonitor \/ ApplyMonitor \/ CleanDashboard
           \/ RemoveDashboard \/ ApplyDashboard \/ DropRole \/ DropBinding \/ DeleteMonitor
           \/ DropMonitor \/ DeleteDashboard
  <2>1. cache' = cache /\ instance # NoCluster
    BY <1>7 DEF AddFinalizers, CleanMonitor, RemoveMonitor, ApplyMonitor, CleanDashboard,
       RemoveDashboard, ApplyDashboard, DropRole, DropBinding, DeleteMonitor, DropMonitor,
       DeleteDashboard, removeFinalizer, PassInv, Creating, Deleting
  <2>2. pending
    BY <2>1 DEF LostInv
  <2>3. pending'
    <3>1. CASE AddFinalizers \/ DeleteMonitor \/ DeleteDashboard
      BY <2>2, <3>1 DEF AddFinalizers, DeleteMonitor, DeleteDashboard, Abort
    <3>2. CASE DropRole \/ DropBinding \/ DropMonitor
      BY <2>2, <3>2 DEF DropRole, DropBinding, DropMonitor, removeFinalizer, Fails
    <3>3. CASE CleanMonitor \/ CleanDashboard
      BY <2>2, <3>3 DEF CleanMonitor, CleanDashboard, CleanNotNeeded, Abort
    <3>4. CASE RemoveMonitor \/ RemoveDashboard
      BY <2>2, <3>4 DEF RemoveMonitor, RemoveDashboard, Remove, Event, Abort
    <3>5. CASE ApplyMonitor \/ ApplyDashboard
      BY <2>2, <3>5 DEF ApplyMonitor, ApplyDashboard, Apply, Event, Abort
    <3> QED
      BY <1>7, <3>1, <3>2, <3>3, <3>4, <3>5
  <2> QED
    BY <2>3
<1>8. CASE CallFails
  <2>1. /\ cache = NoCluster /\ UNCHANGED <<role, binding, shown>> /\ instance' = NoCluster
    BY <1>8 DEF CallFails, Fails, Abort, Done, apiVars
  <2>2. CASE pc = "dropMonitor"
    BY <1>8, <2>1, <2>2 DEF CallFails, Fails, LostInv
  <2>3. CASE pc # "dropMonitor"
    BY <1>8, <2>1, <2>3 DEF CallFails, Abort
  <2> QED
    BY <2>2, <2>3
<1>9. CASE CollectGarbage
  <2>1. (pending => pending') /\ UNCHANGED <<role, binding, cache, shown, pc, instance>>
    BY <1>9, EventType DEF CollectGarbage, passVars
  <2> QED
    BY <2>1 DEF LostInv
<1>10. CASE Resync \/ End \/ UNCHANGED vars
  BY <1>10 DEF Resync, End, Done, apiVars, vars, passVars, LostInv
<1>11. CASE Users
  BY <1>11 DEF Users, EditSpec, DeleteCluster, StripFinalizers, UninstallPrometheus, passVars,
     LostInv
<1> QED
  BY <1>1, <1>2, <1>3, <1>4, <1>5, <1>6, <1>7, <1>8, <1>9, <1>10, <1>11 DEF Next, Pass

\* Without a new request there was none, unless a pass takes it, and the cache is the same.
LEMMA NoRequest ==
    ASSUME TypeOK, [Next]_vars, ~pending', ~Start, ~Restart
    PROVE  ~pending /\ cache' = cache
<1>1. CASE \/ AddFinalizers \/ CreateRole \/ CreateBinding \/ CleanMonitor \/ CleanDashboard
           \/ End \/ DeleteRole \/ DropRole \/ DeleteBinding \/ DropBinding \/ DeleteMonitor
           \/ DropMonitor \/ DeleteDashboard
  BY <1>1 DEF AddFinalizers, CreateRole, CreateBinding, CleanMonitor, CleanDashboard,
     CleanNotNeeded, End, DeleteRole, DropRole, DeleteBinding, DropBinding, DeleteMonitor,
     DropMonitor, DeleteDashboard, removeFinalizer, Fails, Abort, TypeOK
<1>2. CASE RemoveMonitor \/ RemoveDashboard \/ ApplyMonitor \/ ApplyDashboard
  BY <1>2 DEF RemoveMonitor, RemoveDashboard, ApplyMonitor, ApplyDashboard, Remove, Apply, Event,
     Abort, TypeOK
<1>3. CASE \/ Users \/ CollectGarbage \/ CacheSync \/ FollowUp \/ Resync \/ UNCHANGED vars
  BY <1>3 DEF Users, EditSpec, DeleteCluster, StripFinalizers, UninstallPrometheus,
     CollectGarbage, Event, CacheSync, FollowUp, Resync, vars, TypeOK
<1>4. CASE CallFails
  BY <1>4 DEF CallFails, Fails, Abort, Done
<1> QED
  BY <1>1, <1>2, <1>3, <1>4 DEF Next, Pass

\* Every step keeps a pass up to date, or has a request waiting.
LEMMA CurrentStep ==
    ASSUME TypeOK, PassInv, VersionInv, CurrentInv, [Next]_vars
    PROVE  CurrentInv'
<1>1. InstanceStep
  BY PassMoves
<1>2. installed' => mapped'
  <2>1. CASE Restart \/ UninstallPrometheus
    BY <2>1 DEF Restart, UninstallPrometheus, apiVars, TypeOK
  <2>2. CASE \/ Pass \/ EditSpec \/ DeleteCluster \/ StripFinalizers \/ CollectGarbage
             \/ CacheSync \/ FollowUp \/ Resync \/ CallFails \/ UNCHANGED vars
    <3>1. installed' = installed /\ mapped' = mapped
      <4>1. CASE Pass
        BY <4>1 DEF Pass, Start, AddFinalizers, CreateRole, CreateBinding, CleanMonitor,
           RemoveMonitor, ApplyMonitor, CleanDashboard, RemoveDashboard, ApplyDashboard, End,
           DeleteRole, DropRole, DeleteBinding, DropBinding, DeleteMonitor, DropMonitor,
           DeleteDashboard, removeFinalizer, apiVars
      <4>2. CASE ~Pass
        BY <2>2, <4>2 DEF EditSpec, DeleteCluster, StripFinalizers, CollectGarbage,
           CacheSync, FollowUp, Resync, CallFails, vars, apiVars
      <4> QED
        BY <4>1, <4>2
    <3> QED
      BY <3>1 DEF CurrentInv
  <2> QED
    BY <2>1, <2>2 DEF Next, Users
<1>3. ASSUME ~pending', pc' # "idle"
      PROVE  /\ (instance' = NoCluster) <=> (cache' = NoCluster)
             /\ instance' # NoCluster =>
                  /\ instance'.deleting = cache'.deleting
                  /\ \A k \in Kinds : instance'[k] = cache'[k]
  <2>1. CASE Start
    BY <2>1 DEF Start
  <2>2. CASE ~Start
    <3>1. ~Restart
      BY <1>3 DEF Restart, Done
    <3>2. ~pending /\ cache' = cache
      BY <1>3, <2>2, <3>1, NoRequest
    <3>3. CASE instance' = instance /\ pc # "idle"
      BY <3>2, <3>3 DEF CurrentInv
    <3>4. CASE instance # NoCluster /\ SameCluster(instance, instance') /\ pc # "idle"
      BY <3>2, <3>4 DEF CurrentInv, SameCluster, Kinds
    <3> QED
      BY <1>1, <1>3, <2>2, <3>3, <3>4 DEF InstanceStep
  <2> QED
    BY <2>1, <2>2
<1> QED
  BY <1>2, <1>3 DEF CurrentInv

\* What is not among the objects a pass has listed is where the spec asks for it, if the
\* informer was up to date.
LEMMA ListedIsClean ==
    ASSUME TypeOK, NEW k \in Kinds, NEW next, CleanNotNeeded(k, next), ~pending',
           k = "dashboard" => ~missed', objects' = objects
    PROVE  Clean(k, instance, todo)' /\ pc' = next /\ instance' = instance
<1>1. /\ todo' = notNeeded(k) /\ pc' = next /\ instance' = instance
      /\ missed' = (missed \/ Seen(k) # objects[k])
  BY DEF CleanNotNeeded, Abort, Read
<1>2. Seen(k) = objects[k]
  BY <1>1 DEF Seen, Kinds
<1> QED
  BY <1>1, <1>2 DEF Clean, notNeeded, Place

\* A step that deletes one of them leaves the others.
LEMMA RemoveMoves ==
    ASSUME TypeOK, NEW k \in Kinds, NEW next, Remove(k, next), ~pending'
    PROVE  /\ instance' = instance
           /\ \A j \in Kinds \ {k} : objects'[j] = objects[j]
           /\ \/ pc' = next /\ objects' = objects /\ todo = {}
              \/ pc' = pc /\ (Clean(k, instance, todo) => Clean(k, instance, todo)')
<1>1. CASE todo = {}
  BY <1>1 DEF Remove, Continue
<1>2. CASE todo # {}
  <2>1. PICK n \in todo : /\ objects' = [objects EXCEPT ![k][n] = "none"]
                         /\ todo' = todo \ {n}
                         /\ pc' = pc /\ instance' = instance
    BY <1>2 DEF Remove, Abort
  <2>2. objects'[k] = [objects[k] EXCEPT ![n] = "none"]
    BY <2>1 DEF TypeOK
  <2>3. objects'[k][n] = "none" /\ \A m \in Namespaces \ {n} : objects'[k][m] = objects[k][m]
    BY <2>1, <2>2 DEF TypeOK
  <2>4. \A j \in Kinds \ {k} : objects'[j] = objects[j]
    BY <2>1 DEF TypeOK
  <2> QED
    BY <2>1, <2>3, <2>4 DEF Clean
<1> QED
  BY <1>1, <1>2

\* From there applying the spec puts the object in place.
LEMMA AppliedIsPlaced ==
    ASSUME TypeOK, PassInv, CurrentInv, NEW k \in Kinds, NEW next \in Steps \ {"idle"},
           pc \in Creating, Clean(k, instance, {}), Apply(k, next), installed, ~pending',
           k = "dashboard" => ~missed'
    PROVE  /\ Placed(k, instance)' /\ instance' = instance /\ pc' = next
           /\ \A j \in Kinds \ {k} : objects'[j] = objects[j]
<1>1. instance \in Clusters /\ mapped
  BY DEF PassInv, CurrentInv
<1> DEFINE target == Target(Place(k))
<1>2. CASE Place(k) = Off \/ target \in Missing
  <2>1. objects' = objects /\ instance' = instance /\ pc' = next
    BY <1>2 DEF Apply, Continue
  <2>2. \A n \in Namespaces : objects[k][n] = "none" /\ ~(instance[k] # Off /\ n = Target(instance[k]))
    BY <1>2, NamespacesAssumption DEF Clean, Place
  <2> QED
    BY <2>1, <2>2 DEF Placed
<1>3. CASE Place(k) # Off /\ target \notin Missing
  <2>1. target \in Namespaces
    BY <1>1, <1>3, TargetExists DEF Place
  <2>2. \A n \in Namespaces : n # target => objects[k][n] = "none"
    BY DEF Clean, Place
  <2>3. /\ pc' = next /\ instance' = instance
        /\ missed' = (missed \/ Seen(k) # objects[k])
        /\ \/ objects' = objects /\ Seen(k)[target] # "none"
           \/ objects' = [objects EXCEPT ![k][target] = NewState(k)]
    BY <1>1, <1>3, ApplyMoves DEF Abort, Read
  <2>4. Seen(k) = objects[k]
    BY <2>3 DEF Seen, Kinds
  <2>5. /\ \A n \in Namespaces : objects'[k][n] # "none" <=> n = target
        /\ \A j \in Kinds \ {k} : objects'[j] = objects[j]
    <3>1. CASE objects' = objects /\ Seen(k)[target] # "none"
      BY <2>1, <2>2, <2>4, <3>1
    <3>2. CASE objects' = [objects EXCEPT ![k][target] = NewState(k)]
      <4>1. NewState(k) # "none"
        BY DEF NewState
      <4> QED
        BY <2>1, <2>2, <3>2, <4>1 DEF TypeOK
    <3> QED
      BY <2>3, <3>1, <3>2
  <2> QED
    BY <1>3, <2>3, <2>5 DEF Placed, Place
<1> QED
  BY <1>2, <1>3

\* The dashboards a pass reads do not become ones it read in time.
LEMMA MissedMoves ==
    ASSUME TypeOK, [Next]_vars, ~missed', ~Start
    PROVE  ~missed
<1>1. CASE Pass
  BY <1>1 DEF Pass, AddFinalizers, CreateRole, CreateBinding, CleanMonitor, RemoveMonitor,
     ApplyMonitor, CleanDashboard, RemoveDashboard, ApplyDashboard, CleanNotNeeded, Apply, Read,
     End, DeleteRole, DropRole, DeleteBinding, DropBinding, DeleteMonitor, DropMonitor,
     DeleteDashboard, removeFinalizer
<1>2. CASE ~Pass
  BY <1>2 DEF Next, Users, EditSpec, DeleteCluster, StripFinalizers, UninstallPrometheus,
     CollectGarbage, CacheSync, FollowUp, Resync, CallFails, Restart, vars
<1> QED
  BY <1>1, <1>2

\* Every step keeps the objects as far as the pass, or the last one, has put them.
LEMMA PlacedStep ==
    ASSUME TypeOK, PassInv, VersionInv, CurrentInv, PlacedInv, [Next]_vars
    PROVE  PlacedInv'
<1> SUFFICES ASSUME installed', ~pending', vc' # NoCluster
             PROVE  MonitorPlaced' /\ (~missed' => DashboardPlaced')
  BY DEF PlacedInv
<1>1. CASE Start
  BY <1>1 DEF Start, firstStep, MonitorPlaced, DashboardPlaced
<1>2. CASE ~Start
  <2>1. ~pending /\ cache' = cache /\ vc # NoCluster
    <3>1. vc # NoCluster
      BY ClusterMoves DEF ClusterStep, Follows
    <3>2. ~Restart
      BY <3>1 DEF Restart, Watched
    <3> QED
      BY <1>2, <3>1, <3>2, NoRequest
  <2>2. (~missed' => ~missed) /\ (installed => MonitorPlaced /\ (~missed => DashboardPlaced))
    BY <1>2, <2>1, MissedMoves DEF PlacedInv
  <2>3. CASE CleanMonitor
    <3>1. /\ pc = "cleanMonitor" /\ CleanNotNeeded("monitor", "removeMonitor")
          /\ objects' = objects
      BY <2>3 DEF CleanMonitor, apiVars
    <3>2. Clean("monitor", instance, todo)' /\ pc' = "removeMonitor"
      BY <3>1, ListedIsClean DEF Kinds
    <3> QED
      BY <3>2 DEF MonitorPlaced, DashboardPlaced
  <2>4. CASE RemoveMonitor
    <3>1. pc = "removeMonitor" /\ Remove("monitor", "applyMonitor") /\ installed
      BY <2>4 DEF RemoveMonitor
    <3>2. Clean("monitor", instance, todo)
      BY <2>2, <3>1 DEF MonitorPlaced
    <3>3. /\ instance' = instance
          /\ \/ pc' = "applyMonitor" /\ objects' = objects /\ todo = {}
             \/ pc' = pc /\ Clean("monitor", instance, todo)'
      BY <3>1, <3>2, RemoveMoves DEF Kinds
    <3> QED
      BY <3>1, <3>2, <3>3 DEF MonitorPlaced, DashboardPlaced, Clean
  <2>5. CASE ApplyMonitor
    <3>1. pc = "applyMonitor" /\ Apply("monitor", "cleanDashboard") /\ installed
      BY <2>5 DEF ApplyMonitor
    <3>2. Clean("monitor", instance, {})
      BY <2>2, <3>1 DEF MonitorPlaced
    <3>3. Placed("monitor", instance)' /\ pc' = "cleanDashboard"
      BY <3>1, <3>2, AppliedIsPlaced DEF Kinds, Steps, Creating
    <3> QED
      BY <3>3 DEF MonitorPlaced, DashboardPlaced
  <2>6. CASE CleanDashboard
    <3>1. /\ pc = "cleanDashboard" /\ CleanNotNeeded("dashboard", "removeDashboard")
          /\ objects' = objects /\ installed
      BY <2>6 DEF CleanDashboard, apiVars
    <3>2. Placed("monitor", instance)
      BY <2>2, <3>1 DEF MonitorPlaced
    <3>3. pc' = "removeDashboard" /\ instance' = instance
      BY <3>1 DEF CleanNotNeeded, Abort
    <3>4. ~missed' => Clean("dashboard", instance, todo)'
      BY <3>1, ListedIsClean DEF Kinds
    <3> QED
      BY <3>1, <3>2, <3>3, <3>4 DEF MonitorPlaced, DashboardPlaced, Placed
  <2>7. CASE RemoveDashboard
    <3>1. /\ pc = "removeDashboard" /\ Remove("dashboard", "applyDashboard") /\ installed
          /\ missed' = missed
      BY <2>7 DEF RemoveDashboard
    <3>2. Placed("monitor", instance) /\ (~missed => Clean("dashboard", instance, todo))
      BY <2>2, <3>1 DEF MonitorPlaced, DashboardPlaced
    <3>3. /\ instance' = instance /\ objects'["monitor"] = objects["monitor"]
          /\ \/ pc' = "applyDashboard" /\ objects' = objects /\ todo = {}
             \/ /\ pc' = pc
                /\ Clean("dashboard", instance, todo) => Clean("dashboard", instance, todo)'
      BY <3>1, RemoveMoves DEF Kinds
    <3>4. MonitorPlaced'
      BY <3>1, <3>2, <3>3 DEF MonitorPlaced, Placed
    <3>5. ~missed' => DashboardPlaced'
      BY <3>1, <3>2, <3>3 DEF DashboardPlaced, Clean
    <3> QED
      BY <3>4, <3>5
  <2>8. CASE ApplyDashboard
    <3>1. pc = "applyDashboard" /\ Apply("dashboard", "end") /\ installed
      BY <2>8 DEF ApplyDashboard
    <3>2. Placed("monitor", instance)
      BY <2>2, <3>1 DEF MonitorPlaced
    <3>3. instance \in Clusters /\ ~pending
      BY <2>1, <3>1 DEF PassInv, Creating
    <3>4. pc' = "end" /\ instance' = instance /\ objects'["monitor"] = objects["monitor"]
      <4>1. \/ objects' = objects
            \/ objects' = [objects EXCEPT !["dashboard"][Target(Place("dashboard"))] = NewState("dashboard")]
        BY <3>1, <3>3, ApplyMoves DEF Kinds
      <4>2. pc' = "end" /\ instance' = instance
        BY <3>1, <3>3, ApplyMoves DEF Kinds, Abort
      <4> QED
        BY <4>1, <4>2 DEF TypeOK, Kinds
    <3>5. ASSUME ~missed'
          PROVE  Placed("dashboard", instance)'
      <4>1. Clean("dashboard", instance, {})
        BY <2>2, <3>1, <3>5 DEF DashboardPlaced
      <4> QED
        BY <3>1, <3>5, <4>1, AppliedIsPlaced DEF Kinds, Steps, Creating
    <3> QED
      BY <3>2, <3>4, <3>5 DEF MonitorPlaced, DashboardPlaced, Placed
  <2>9. CASE End
    <3>1. /\ pc = "end" /\ pc' = "idle" /\ objects' = objects /\ missed' = missed /\ installed
      BY <2>9 DEF End, Done, apiVars
    <3>2. ASSUME cache # NoCluster, ~cache.deleting
          PROVE  Placed("monitor", cache) /\ (~missed => Placed("dashboard", cache))
      <4>1. /\ instance # NoCluster /\ ~instance.deleting
            /\ \A k \in Kinds : instance[k] = cache[k]
        BY <2>1, <3>1, <3>2 DEF CurrentInv
      <4> QED
        BY <2>2, <3>1, <4>1 DEF MonitorPlaced, DashboardPlaced, Placed, Kinds
    <3> QED
      BY <2>1, <3>1, <3>2 DEF MonitorPlaced, DashboardPlaced, Placed
  <2>10. CASE DropMonitor \/ DropRole \/ DropBinding
    <3>1. /\ pc \in {"dropRole", "dropBinding", "dropMonitor"}
          /\ pc' \in {"idle", "deleteBinding", "deleteMonitor", "deleteDashboard"}
      BY <2>10 DEF DropRole, DropBinding, DropMonitor, removeFinalizer, Fails, Done, Continue
    <3>2. instance # NoCluster /\ instance.deleting
      BY <3>1 DEF PassInv, Deleting
    <3>3. cache # NoCluster => cache.deleting
      BY <3>2 DEF VersionInv
    <3> QED
      BY <2>1, <3>1, <3>3 DEF MonitorPlaced, DashboardPlaced
  <2>11. CASE CallFails
    <3>1. pc = "dropMonitor" /\ pc' = "idle"
      BY <2>11 DEF CallFails, Abort, Fails, Done
    <3>2. instance # NoCluster /\ instance.deleting
      BY <3>1 DEF PassInv, Deleting
    <3>3. cache # NoCluster => cache.deleting
      BY <3>2 DEF VersionInv
    <3> QED
      BY <2>1, <3>1, <3>3 DEF MonitorPlaced, DashboardPlaced
  <2>12. CASE Restart
    BY <2>1, <2>12 DEF Restart, Watched
  <2>13. CASE DeleteRole \/ DeleteBinding \/ DeleteMonitor \/ DeleteDashboard
    <3>1. /\ instance' = instance
          /\ pc' \in {"lostBinding", "dropRole", "end", "dropBinding", "dropMonitor"}
          /\ pc' = "end" => pc \in {"lostBinding", "deleteDashboard"}
      BY <2>13 DEF DeleteRole, DeleteBinding, DeleteMonitor, DeleteDashboard, Abort, Continue
    <3>2. pc' = "end" => instance' = NoCluster \/ instance'.deleting
      BY <3>1 DEF PassInv, Deleting
    <3> QED
      BY <3>1, <3>2 DEF MonitorPlaced, DashboardPlaced
  <2>14. CASE AddFinalizers \/ CreateRole \/ CreateBinding
    <3>1. pc' \in {"createRole", "createBinding", "cleanMonitor"}
      BY <2>14 DEF AddFinalizers, CreateRole, CreateBinding, Abort, Continue
    <3> QED
      BY <3>1 DEF MonitorPlaced, DashboardPlaced
  <2>15. CASE CollectGarbage \/ CacheSync \/ Resync \/ UninstallPrometheus
    BY <2>1, <2>15 DEF CollectGarbage, CacheSync, Resync, UninstallPrometheus
  <2>16. CASE EditSpec \/ DeleteCluster \/ StripFinalizers \/ FollowUp \/ UNCHANGED vars
    <3>1. UNCHANGED <<objects, installed, cache, pc, instance, todo, missed>>
      BY <2>1, <2>16 DEF EditSpec, DeleteCluster, StripFinalizers, FollowUp, vars, apiVars,
         passVars
    <3> QED
      BY <2>2, <3>1 DEF MonitorPlaced, DashboardPlaced, Clean, Placed
  <2> QED
    BY <1>2, <2>3, <2>4, <2>5, <2>6, <2>7, <2>8, <2>9, <2>10, <2>11, <2>12, <2>13, <2>14, <2>15,
       <2>16 DEF Next, Pass, Users
<1> QED
  BY <1>1, <1>2

----------------------------------------------------------------------------
(* Theorems *)

\* The inductive invariant.
IInv ==
    /\ TypeOK /\ PassInv /\ VersionInv /\ FinalizerInv /\ CoveredByFinalizers
    /\ MonitorInv /\ LostInv /\ CurrentInv /\ PlacedInv

\* It holds initially, is kept by every step, and so always holds.
LEMMA InitIInv == Init => IInv
<1> SUFFICES ASSUME Init PROVE IInv
  OBVIOUS
<1>1. vc \in Clusters /\ vc # NoCluster /\ vc.finalizers = {} /\ ~vc.deleting
  <2>1. vc \in Clusters
    <3>1. PICK m \in Placements, d \in Placements :
            vc = [deleting |-> FALSE, finalizers |-> {}, monitor |-> m, dashboard |-> d, rv |-> 1]
      BY DEF Init
    <3>2. FALSE \in BOOLEAN /\ {} \in SUBSET FinalizerNames /\ 1 \in Nat
      OBVIOUS
    <3> QED
      BY <3>1, <3>2 DEF Clusters
  <2> QED
    BY <2>1, NoClusterAssumption DEF Init
<1>2. TypeOK
  <2>1. /\ objects \in [Kinds -> [Namespaces -> States]]
        /\ shown \in Reads
    BY DEF Init, Live, States, Kinds, Reads
  <2> QED
    BY <1>1, <2>1 DEF Init, TypeOK, Steps
<1>3. PassInv /\ FinalizerInv
  BY <1>1 DEF Init, PassInv, FinalizerInv, Creating, Deleting
<1>4. VersionInv
  BY <1>1, EarlierSelf DEF Init, VersionInv
<1>5. CoveredByFinalizers /\ MonitorInv /\ LostInv
  BY <1>1 DEF Init, CoveredByFinalizers, MonitorInv, LostInv, Kinds
<1>6. CurrentInv /\ PlacedInv
  BY DEF Init, CurrentInv, PlacedInv
<1> QED
  BY <1>2, <1>3, <1>4, <1>5, <1>6 DEF IInv

\* Every action keeps the inductive invariant.
LEMMA NextIInv == IInv /\ [Next]_vars => IInv'
BY TypeOKStep, VersionStep, FinalizerStep, CoveredStep, MonitorStep, LostStep, CurrentStep,
   PlacedStep DEF IInv

\* The inductive invariant holds throughout.
LEMMA Invariance == Spec => []IInv
BY InitIInv, NextIInv, PTL DEF Spec

\* Type correctness.
THEOREM TypeCorrect == Spec => []TypeOK
BY Invariance, PTL DEF IInv

\* As long as nobody removes finalizers by hand, whatever Kubernetes would not collect is
\* protected by a finalizer of the VarnishCluster, in every state and not only between passes
\* (reconcileFinalizers runs before anything is created, with the instance it was read with).
THEOREM FinalizersCover == Spec => []CoveredByFinalizers
BY Invariance, PTL DEF IInv

\* A VarnishCluster that is gone, and whose going the operator has seen, has left no
\* ClusterRole and no binding, whatever was deleted, edited, interrupted or lost on the way; nor,
\* if finalizers and spec were left alone, a ServiceMonitor in another namespace.
THEOREM NothingIsLeft == Spec => []NothingLeft
<1>1. IInv => NothingLeft
  <2> SUFFICES ASSUME IInv, Quiet, vc = NoCluster
               PROVE  /\ ~role /\ ~binding
                      /\ strips = 0 /\ edits = 0 =>
                            \A n \in Namespaces : objects["monitor"][n] # "free"
    BY DEF NothingLeft
  <2>1. ~role /\ ~binding
    BY DEF IInv, LostInv, Quiet, Live
  <2>2. strips = 0 /\ edits = 0 => \A n \in Namespaces : objects["monitor"][n] # "free"
    BY DEF IInv, MonitorInv, Held
  <2> QED
    BY <2>1, <2>2
<1> QED
  BY <1>1, Invariance, PTL

\* When the operator has nothing left to do, every kind of object is in the namespace the spec
\* asks for and in no other, also after passes that failed half way.
THEOREM SpecIsFollowed == Spec => []SpecFollowed
<1>1. IInv => SpecFollowed
  BY DEF IInv, PlacedInv, MonitorPlaced, DashboardPlaced, Placed, SpecFollowed, Followed, Quiet
<1> QED
  BY <1>1, Invariance, PTL
=============================================================================
