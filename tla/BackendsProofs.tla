--------------------------- MODULE BackendsProofs ---------------------------
(***************************************************************************)
(* Proofs about Backends, for all pods and specs, any number of events on  *)
(* their way, of changes and of faults.                                    *)
(***************************************************************************)
EXTENDS Backends, FiniteSetTheorems, SequenceTheorems, WellFoundedInduction, TLAPS

----------------------------------------------------------------------------
(* The invariant *)

\* The event of a pod that is still on its way.
OnItsWay == [pod : Pods, old : PodStates, new : PodStates]

\* A pod the present spec selects, whatever its address.
Taken(p, s) ==
    /\ s # NoPod
    /\ Where[p].ns \in namespacesOf(vc)
    /\ s.label = vc.selector

\* What can have become of a pod without an event that is let through: nothing that
\* matters, or, unready, it has lost its address.
Unnoticed(p, old, new) ==
    \/ ~Taken(p, old) /\ ~Taken(p, new)
    \/ /\ Taken(p, old) /\ Taken(p, new)
       /\ new.ready = old.ready
       /\ new.ip = old.ip \/ (new.ip = 0 /\ ~new.ready)

\* An event that will queue a request is on its way.
Announced(p) == \E i \in DOMAIN events : events[i].pod = p /\ letThrough(events[i])

\* The predicates are those of a spec.
PredicatesOf(spec) == predNs = namespacesOf(spec) /\ predLabel = spec.selector

\* A pass that nothing is queued behind works with the present spec.
PassInv ==
    /\ pc # "idle" /\ queue = {} => inst = vc
    /\ pc = "list" => PredicatesOf(inst)

\* With no request queued and no pass under way, the predicates are those of the present
\* spec, the last rendering was for it, and each pod is as it was then, or was relabelled,
\* or is announced.
QuietInv ==
    proc = "up" /\ queue = {} /\ pc = "idle" =>
        /\ PredicatesOf(vc)
        /\ renderedFor.spec = vc
        /\ \A p \in Pods \ relabelled :
            Announced(p) \/ Unnoticed(p, renderedFor.pods[p], pods[p])

\* The inductive invariant of the control: what a pass has done where it is, and what
\* is still owed at rest.
IInv == TypeOK /\ events \in Seq(OnItsWay) /\ PassInv /\ QuietInv

----------------------------------------------------------------------------
(* Lemmas about pods and events *)

\* What a pod changes to; it only loses its address with its readiness.
LEMMA PodChangeType ==
    ASSUME TypeOK, NEW p \in Pods, PodChanges(p)
    PROVE  \E s \in PodStates :
               /\ PodBecomes(p, s)
               /\ pods[p] # NoPod /\ s # NoPod /\ s.ip = 0 /\ pods[p].ip # 0 => ~s.ready
<1> DEFINE R == [label : Labels, ip : IPs \cup {0}, ready : BOOLEAN]
           b == pods[p]
<1>1. b \in PodStates /\ (b # NoPod => b \in R)
  BY DEF TypeOK, PodStates
<1>2. 0 \notin IPs /\ R \subseteq PodStates /\ NoPod \in PodStates
  BY PodsAssumption DEF PodStates
<1>3. CASE CreatePod(p)
  <2>1. PICK l \in Labels : PodBecomes(p, [label |-> l, ip |-> 0, ready |-> FALSE])
    BY <1>3 DEF CreatePod
  <2>2. [label |-> l, ip |-> 0, ready |-> FALSE] \in R
    OBVIOUS
  <2> QED
    BY <1>2, <2>1, <2>2
<1>4. CASE AddressPod(p)
  <2>1. PICK ip \in IPs : PodBecomes(p, [b EXCEPT !.ip = ip, !.ready = FALSE])
    BY <1>4 DEF AddressPod
  <2>2. /\ [b EXCEPT !.ip = ip, !.ready = FALSE] \in R
        /\ ~[b EXCEPT !.ip = ip, !.ready = FALSE].ready
    BY <1>1, <1>4 DEF AddressPod
  <2> QED
    BY <1>2, <2>1, <2>2
<1>5. CASE ReadinessChanges(p)
  <2>1. b \in R /\ PodBecomes(p, [b EXCEPT !.ready = ~@])
    BY <1>1, <1>5 DEF ReadinessChanges
  <2>2. [b EXCEPT !.ready = ~@] \in R /\ [b EXCEPT !.ready = ~@].ip = b.ip
    BY <2>1
  <2> QED
    BY <1>2, <2>1, <2>2
<1>6. CASE EvictPod(p)
  <2>1. b \in R /\ PodBecomes(p, [b EXCEPT !.ip = 0, !.ready = FALSE])
    BY <1>1, <1>6 DEF EvictPod
  <2>2. /\ [b EXCEPT !.ip = 0, !.ready = FALSE] \in R
        /\ ~[b EXCEPT !.ip = 0, !.ready = FALSE].ready
    BY <2>1
  <2> QED
    BY <1>2, <2>1, <2>2
<1>7. CASE RelabelPod(p)
  <2>1. PICK l \in Labels : PodBecomes(p, [b EXCEPT !.label = l])
    BY <1>7 DEF RelabelPod
  <2>2. b \in R
    BY <1>1, <1>7 DEF RelabelPod
  <2>3. [b EXCEPT !.label = l] \in R /\ [b EXCEPT !.label = l].ip = b.ip
    BY <2>2
  <2> QED
    BY <1>2, <2>1, <2>3
<1>8. CASE DeletePod(p)
  BY <1>2, <1>8 DEF DeletePod
<1> QED
  BY <1>3, <1>4, <1>5, <1>6, <1>7, <1>8 DEF PodChanges

\* An event the predicates do not let through keeps its pod unnoticed, unless the pod was
\* relabelled.
LEMMA DroppedKeeps ==
    ASSUME NEW p \in Pods, NEW a \in PodStates, NEW b \in PodStates, NEW c \in PodStates,
           vc \in Specs, PredicatesOf(vc),
           ~letThrough([pod |-> p, old |-> b, new |-> c]),
           b # NoPod /\ c # NoPod => b.label = c.label,
           b # NoPod /\ c # NoPod /\ c.ip = 0 /\ b.ip # 0 => ~c.ready,
           Unnoticed(p, a, b)
    PROVE  Unnoticed(p, a, c)
<1> DEFINE e == [pod |-> p, old |-> b, new |-> c]
<1>1. vc.selector \in Labels /\ vc.selector # Everything
  BY SpecsAssumption, PodsAssumption
<1>2. CASE Where[p].ns \notin namespacesOf(vc)
  BY <1>2 DEF Unnoticed, Taken
<1>3. CASE Where[p].ns \in namespacesOf(vc)
  <2>1. allow(p, predNs)
    BY <1>3 DEF allow, PredicatesOf
  <2>2. CASE c = NoPod
    <3>1. ~selects(e, vc.selector)
      BY <2>1, <2>2 DEF letThrough, PredicatesOf
    <3>2. b.label # vc.selector
      BY <1>1, <2>2, <3>1 DEF selects
    <3> QED
      BY <2>2, <3>2 DEF Unnoticed, Taken
  <2>3. CASE c # NoPod /\ c.label # vc.selector
    BY <2>3 DEF Unnoticed, Taken
  <2>4. CASE c # NoPod /\ c.label = vc.selector
    <3>1. selects(e, predLabel)
      BY <2>4 DEF selects, PredicatesOf
    <3>2. b # NoPod /\ ~LabelMatcherUpdate(e)
      BY <2>1, <2>4, <3>1 DEF letThrough
    <3>3. c.ready = b.ready /\ (c.ip = 0 \/ c.ip = b.ip)
      BY <3>2 DEF LabelMatcherUpdate
    <3>4. Taken(p, b) /\ Taken(p, c)
      BY <1>3, <2>4, <3>2 DEF Taken
    <3>5. Taken(p, a) /\ b.ready = a.ready /\ (b.ip = a.ip \/ (b.ip = 0 /\ ~b.ready))
      BY <3>4 DEF Unnoticed
    <3>6. c.ip = a.ip \/ (c.ip = 0 /\ ~c.ready)
      BY <2>4, <3>2, <3>3, <3>5
    <3> QED
      BY <3>3, <3>4, <3>5, <3>6 DEF Unnoticed
  <2> QED
    BY <2>2, <2>3, <2>4
<1> QED
  BY <1>2, <1>3

\* A finite set can be listed.
LEMMA Listed ==
    ASSUME NEW S, IsFiniteSet(S)
    PROVE  SetToSeq(S) \in Seq(S)
<1>1. Cardinality(S) \in Nat /\ ExistsBijection(1 .. Cardinality(S), S)
  BY FS_CardinalityType
<1>2. \E f \in [1 .. Cardinality(S) -> S] : IsInjective(f)
  BY <1>1 DEF ExistsBijection, Bijection, Injection
<1>3. SetToSeq(S) \in [1 .. Cardinality(S) -> S]
  BY <1>2 DEF SetToSeq
<1> QED
  BY <1>1, <1>3

----------------------------------------------------------------------------
(* Types *)

\* What the renderings build on.
TypeInv == TypeOK /\ events \in Seq(OnItsWay)

\* A namespace list that is empty stands for the own namespace.
LEMMA NamespacesType ==
    ASSUME NEW s \in Specs
    PROVE  namespacesOf(s) \in SUBSET Namespaces
BY SpecsAssumption, PodsAssumption DEF namespacesOf

\* Every variable starts in its type.
LEMMA TypeInit == Init => TypeInv
<1> SUFFICES ASSUME Init PROVE TypeInv
  OBVIOUS
<1>1. own \in OwnNodes /\ vc \in Specs /\ pods \in [Pods -> PodStates]
  BY PodsAssumption DEF Init
<1>2. events \in Seq(OnItsWay) /\ DOMAIN events = {}
  BY EmptySeq DEF Init
<1>3. renderedFor \in [spec : Specs, pods : [Pods -> PodStates]]
  BY <1>1 DEF Init, PodStates
<1>4. predNs \in SUBSET Namespaces
  BY PodsAssumption DEF Init
<1>5. varnishd \in BOOLEAN /\ answered \in BOOLEAN
  BY DEF Init
<1> QED
  BY <1>1, <1>2, <1>3, <1>4, <1>5 DEF Init, TypeInv, TypeOK

\* Every step of the process and of the cluster keeps the types, and leaves nothing in the
\* memory of a process that is not up.
LEMMA TypeStep == TypeInv /\ [Next]_vars => TypeInv'
<1> SUFFICES ASSUME TypeInv, [Next]_vars PROVE TypeInv'
  OBVIOUS
<1> USE DEF clusterVars, procVars, predVars, passVars, outVars, Fault
<1>0. ASSUME events' \in Seq(OnItsWay)
      PROVE  \A i \in DOMAIN events' :
               events'[i].pod \in Pods /\ events'[i].old \in PodStates /\ events'[i].new \in PodStates
  <2> SUFFICES ASSUME NEW i \in DOMAIN events'
               PROVE  /\ events'[i].pod \in Pods
                      /\ events'[i].old \in PodStates /\ events'[i].new \in PodStates
    OBVIOUS
  <2>1. events'[i] \in OnItsWay
    BY <1>0
  <2> QED
    BY <2>1 DEF OnItsWay
<1>1. ASSUME NEW p \in Pods, PodChanges(p) PROVE TypeInv'
  <2>1. PICK s \in PodStates : PodBecomes(p, s)
    BY <1>1, PodChangeType DEF TypeInv
  <2>2. pods' \in [Pods -> PodStates] /\ relabelled' \subseteq Pods /\ changes' \in Nat
    BY <2>1 DEF PodBecomes, TypeInv, TypeOK
  <2>3. [pod |-> p, old |-> pods[p], new |-> s] \in OnItsWay
    BY DEF TypeInv, TypeOK, OnItsWay
  <2>4. events' \in Seq(OnItsWay)
    BY <2>1, <2>3, AppendProperties DEF PodBecomes, TypeInv
  <2>5. proc # "up" => events' = events
    BY <2>1 DEF PodBecomes
  <2> QED
    BY <1>0, <2>1, <2>2, <2>4, <2>5 DEF PodBecomes, TypeInv, TypeOK
<1>2. CASE EditSpec
  BY <1>2 DEF EditSpec, TypeInv, TypeOK
<1>3. CASE StartProcess
  BY <1>3, PodsAssumption DEF StartProcess, TypeInv, TypeOK
<1>4. CASE PingAnswered
  BY <1>4 DEF PingAnswered, TypeInv, TypeOK
<1>5. CASE StartManager
  <2> DEFINE S == {p \in Pods : pods[p] # NoPod}
             order == SetToSeq(S)
  <2>1. IsFiniteSet(S)
    BY PodsAssumption, FS_Subset
  <2>2. order \in Seq(S)
    BY <2>1, Listed
  <2>3. events' = [i \in 1 .. Len(order) |->
                      [pod |-> order[i], old |-> NoPod, new |-> pods[order[i]]]]
    BY <1>5, <2>2 DEF StartManager
  <2>4. \A i \in 1 .. Len(order) : order[i] \in Pods
    BY <2>2
  <2> HIDE DEF order
  <2>5. \A i \in 1 .. Len(order) :
            [pod |-> order[i], old |-> NoPod, new |-> pods[order[i]]] \in OnItsWay
    BY <2>4 DEF TypeInv, TypeOK, OnItsWay, PodStates
  <2>6. Len(order) \in Nat
    BY <2>2
  <2>7. events' \in Seq(OnItsWay)
    BY <2>3, <2>5, <2>6
  <2> QED
    BY <1>5, <1>0, <2>7 DEF StartManager, TypeInv, TypeOK
<1>6. CASE PingTimesOut \/ ProcessFails
  <2>1. events' \in Seq(OnItsWay)
    BY <1>6, EmptySeq DEF PingTimesOut, ProcessFails, ProcessEnds
  <2>2. faults' \in Nat
    BY <1>6 DEF PingTimesOut, ProcessFails, TypeInv, TypeOK
  <2> QED
    BY <1>6, <1>0, <2>1, <2>2 DEF PingTimesOut, ProcessFails, ProcessEnds, TypeInv, TypeOK
<1>7. CASE VarnishStarts \/ VarnishStops
  <2>1. varnishd' \in BOOLEAN /\ UNCHANGED events
    BY <1>7 DEF VarnishStarts, VarnishStops
  <2>2. faults' \in Nat
    BY <1>7 DEF VarnishStarts, VarnishStops, TypeInv, TypeOK
  <2> QED
    BY <1>7, <2>1, <2>2 DEF VarnishStarts, VarnishStops, TypeInv, TypeOK
<1>8. CASE DeliverEvent
  <2>1. events' \in Seq(OnItsWay)
    BY <1>8, HeadTailProperties DEF DeliverEvent, TypeInv
  <2>2. queue' \subseteq {"vc", "pod"}
    BY <1>8 DEF DeliverEvent, TypeInv, TypeOK
  <2> QED
    BY <1>8, <1>0, <2>1, <2>2 DEF DeliverEvent, TypeInv, TypeOK
<1>9. CASE StartPass
  BY <1>9 DEF StartPass, TypeInv, TypeOK
<1>10. CASE SetPredicates
  BY <1>10, NamespacesType, SpecsAssumption DEF SetPredicates, TypeInv, TypeOK
<1>11. CASE ListAndRender
  BY <1>11 DEF ListAndRender, TypeInv, TypeOK
<1>12. CASE PassFails
  BY <1>12 DEF PassFails, TypeInv, TypeOK
<1>13. CASE UNCHANGED vars
  BY <1>13 DEF vars, TypeInv, TypeOK
<1> QED
  BY <1>1, <1>2, <1>3, <1>4, <1>5, <1>6, <1>7, <1>8, <1>9, <1>10, <1>11, <1>12, <1>13
  DEF Next, Runs

----------------------------------------------------------------------------
(* Passes and quiet *)

\* A new process has no pass under way, and has rendered nothing yet that counts.
LEMMA QuietInit == Init => PassInv /\ QuietInv
BY DEF Init, PassInv, QuietInv

\* An edit of the spec queues a request, so a pass that works with an old spec has one
\* queued behind it.
LEMMA PassStep == TypeOK /\ PassInv /\ [Next]_vars => PassInv'
<1> SUFFICES ASSUME TypeOK, PassInv, [Next]_vars PROVE PassInv'
  OBVIOUS
<1> USE DEF clusterVars, procVars, predVars, passVars
<1>1. proc # "up" => pc = "idle"
  BY DEF TypeOK
<1>2. CASE UNCHANGED <<vc, queue, passVars, predVars>>
  BY <1>2 DEF PassInv, PredicatesOf
<1>3. CASE \E p \in Pods : PodChanges(p)
  <2>1. PICK p \in Pods : PodChanges(p)
    BY <1>3
  <2>2. \E s \in PodStates : PodBecomes(p, s)
    BY <2>1, PodChangeType
  <2> QED
    BY <1>2, <2>2 DEF PodBecomes
<1>4. CASE EditSpec
  BY <1>1, <1>4 DEF EditSpec, PassInv, PredicatesOf
<1>5. CASE StartProcess \/ StartManager
  BY <1>1, <1>5 DEF StartProcess, StartManager, PassInv
<1>6. CASE PingAnswered \/ VarnishStarts \/ VarnishStops \/ UNCHANGED vars
  BY <1>2, <1>6 DEF PingAnswered, VarnishStarts, VarnishStops, vars
<1>7. CASE PingTimesOut \/ ProcessFails
  BY <1>7 DEF PingTimesOut, ProcessFails, ProcessEnds, PassInv
<1>8. CASE DeliverEvent
  <2>1. UNCHANGED <<vc, passVars, predVars>> /\ queue \subseteq queue'
    BY <1>8 DEF DeliverEvent
  <2> QED
    BY <2>1 DEF PassInv, PredicatesOf
<1>9. CASE StartPass
  BY <1>9 DEF StartPass, PassInv
<1>10. CASE SetPredicates
  BY <1>10 DEF SetPredicates, PassInv, PredicatesOf
<1>11. CASE ListAndRender \/ PassFails
  BY <1>11 DEF ListAndRender, PassFails, PassInv
<1> QED
  BY <1>3, <1>4, <1>5, <1>6, <1>7, <1>8, <1>9, <1>10, <1>11 DEF Next, Runs

\* A change of a pod is noticed by its event, unless the predicates let nothing through
\* that would matter.
LEMMA ChangeIsQuiet ==
    ASSUME IInv, NEW p \in Pods, PodChanges(p)
    PROVE  QuietInv'
<1> USE DEF clusterVars, procVars, predVars, passVars
<1>1. PICK s \in PodStates :
          /\ PodBecomes(p, s)
          /\ pods[p] # NoPod /\ s # NoPod /\ s.ip = 0 /\ pods[p].ip # 0 => ~s.ready
  BY PodChangeType DEF IInv
<1> DEFINE e == [pod |-> p, old |-> pods[p], new |-> s]
<1> SUFFICES ASSUME proc' = "up", queue' = {}, pc' = "idle"
             PROVE  /\ PredicatesOf(vc)'
                    /\ renderedFor'.spec = vc'
                    /\ \A q \in Pods \ relabelled' :
                        Announced(q)' \/ Unnoticed(q, renderedFor.pods[q], pods[q])'
  BY DEF QuietInv
<1>2. UNCHANGED <<vc, proc, predNs, predLabel, queue, pc, renderedFor>>
  BY <1>1 DEF PodBecomes
<1>3. pods' = [pods EXCEPT ![p] = s] /\ events' = Append(events, e)
  BY <1>1, <1>2 DEF PodBecomes
<1>4. relabelled' = IF NoPod \notin {pods[p], s} /\ pods[p].label # s.label
                    THEN relabelled \cup {p} ELSE relabelled
  BY <1>1 DEF PodBecomes
<1>5. /\ PredicatesOf(vc) /\ renderedFor.spec = vc
      /\ \A q \in Pods \ relabelled :
            Announced(q) \/ Unnoticed(q, renderedFor.pods[q], pods[q])
  BY <1>2 DEF IInv, QuietInv
<1>6. /\ events \in Seq(OnItsWay) /\ vc \in Specs /\ pods \in [Pods -> PodStates]
      /\ renderedFor.pods \in [Pods -> PodStates]
  BY DEF IInv, TypeOK
<1>event. e \in OnItsWay
  BY <1>6 DEF OnItsWay
<1> HIDE DEF e
<1>7. /\ Len(events) \in Nat /\ Len(events') = Len(events) + 1
      /\ DOMAIN events = 1 .. Len(events) /\ DOMAIN events' = 1 .. Len(events')
      /\ events'[Len(events')] = e
      /\ \A i \in DOMAIN events : i \in DOMAIN events' /\ events'[i] = events[i]
  BY <1>3, <1>6, <1>event, AppendProperties
<1>8. \A x : letThrough(x)' <=> letThrough(x)
  BY <1>2 DEF letThrough
<1>9. \A q \in Pods : Announced(q) => Announced(q)'
  BY <1>7, <1>8 DEF Announced
<1>10. \A q, a, b : Unnoticed(q, a, b)' <=> Unnoticed(q, a, b)
  BY <1>2 DEF Unnoticed, Taken, namespacesOf
<1>11. ASSUME NEW q \in Pods \ relabelled'
       PROVE  Announced(q)' \/ Unnoticed(q, renderedFor.pods[q], pods[q])'
  <2>1. q \in Pods \ relabelled
    BY <1>4
  <2>2. CASE Announced(q)
    BY <1>9, <2>2
  <2>3. CASE q # p /\ Unnoticed(q, renderedFor.pods[q], pods[q])
    BY <1>2, <1>3, <1>6, <1>10, <2>3
  <2>4. CASE q = p /\ letThrough(e)
    <3>1. e.pod = p /\ Len(events') \in DOMAIN events'
      BY <1>7 DEF e
    <3> QED
      BY <1>7, <1>8, <2>4, <3>1 DEF Announced
  <2>5. CASE q = p /\ ~letThrough(e) /\ Unnoticed(q, renderedFor.pods[q], pods[q])
    <3>1. pods[p] # NoPod /\ s # NoPod => pods[p].label = s.label
      BY <1>4, <2>5
    <3>2. renderedFor.pods[p] \in PodStates /\ pods[p] \in PodStates
      BY <1>6
    <3>3. Unnoticed(p, renderedFor.pods[p], s)
      BY <1>1, <1>5, <1>6, <2>5, <3>1, <3>2, DroppedKeeps DEF e
    <3>4. pods'[p] = s
      BY <1>3, <1>6
    <3> QED
      BY <1>2, <1>10, <2>5, <3>3, <3>4
  <2> QED
    BY <1>5, <2>1, <2>2, <2>3, <2>4, <2>5
<1> QED
  BY <1>2, <1>5, <1>11 DEF PredicatesOf, namespacesOf

\* An event that queues no request was dropped by the predicates, and announced nothing.
LEMMA DeliveryIsQuiet ==
    ASSUME IInv, DeliverEvent
    PROVE  QuietInv'
<1> USE DEF clusterVars, procVars, predVars, passVars, outVars
<1> SUFFICES ASSUME proc' = "up", queue' = {}, pc' = "idle"
             PROVE  /\ PredicatesOf(vc)'
                    /\ renderedFor'.spec = vc'
                    /\ \A q \in Pods \ relabelled' :
                        Announced(q)' \/ Unnoticed(q, renderedFor.pods[q], pods[q])'
  BY DEF QuietInv
<1>1. UNCHANGED <<vc, pods, proc, predNs, predLabel, pc, renderedFor, relabelled>>
  BY DEF DeliverEvent
<1>2. events # <<>> /\ events' = Tail(events)
  BY DEF DeliverEvent
<1>3. queue = {} /\ ~letThrough(events[1])
  BY <1>1 DEF DeliverEvent
<1>4. /\ PredicatesOf(vc) /\ renderedFor.spec = vc
      /\ \A q \in Pods \ relabelled :
            Announced(q) \/ Unnoticed(q, renderedFor.pods[q], pods[q])
  BY <1>1, <1>3 DEF IInv, QuietInv
<1>5. /\ Len(events) \in Nat /\ DOMAIN events = 1 .. Len(events)
      /\ Len(events') = Len(events) - 1 /\ DOMAIN events' = 1 .. Len(events')
      /\ \A i \in DOMAIN events' : events'[i] = events[i + 1]
  BY <1>2, HeadTailProperties DEF IInv
<1>6. ASSUME NEW q, Announced(q) PROVE Announced(q)'
  <2>1. PICK i \in DOMAIN events : events[i].pod = q /\ letThrough(events[i])
    BY <1>6 DEF Announced
  <2>2. i # 1
    BY <1>3, <2>1
  <2>3. i - 1 \in DOMAIN events' /\ events'[i - 1] = events[i]
    BY <1>5, <2>2
  <2>4. \A x : letThrough(x)' <=> letThrough(x)
    BY <1>1 DEF letThrough
  <2> QED
    BY <2>1, <2>3, <2>4 DEF Announced
<1>7. \A q, a, b : Unnoticed(q, a, b)' <=> Unnoticed(q, a, b)
  BY <1>1 DEF Unnoticed, Taken, namespacesOf
<1> QED
  BY <1>1, <1>4, <1>6, <1>7 DEF PredicatesOf, namespacesOf

\* Whatever changes what the quiet rests on queues a request, and only a rendering, with
\* the predicates and the spec of its pass, ends a pass without one.
LEMMA QuietStep == IInv /\ [Next]_vars => QuietInv'
<1> SUFFICES ASSUME IInv, [Next]_vars PROVE QuietInv'
  OBVIOUS
<1> USE DEF clusterVars, procVars, predVars, passVars, outVars
<1>1. ASSUME UNCHANGED <<vc, pods, proc, events, predVars, queue, pc, renderedFor, relabelled>>
      PROVE  QuietInv'
  BY <1>1 DEF IInv, QuietInv, PredicatesOf, namespacesOf, Announced, letThrough, Unnoticed,
     Taken
<1>2. CASE \E p \in Pods : PodChanges(p)
  BY <1>2, ChangeIsQuiet
<1>3. CASE EditSpec
  BY <1>3 DEF EditSpec, QuietInv
<1>4. CASE StartProcess \/ StartManager \/ PingTimesOut \/ ProcessFails
  BY <1>4 DEF StartProcess, StartManager, PingTimesOut, ProcessFails, ProcessEnds, QuietInv
<1>5. CASE PingAnswered \/ VarnishStarts \/ VarnishStops \/ UNCHANGED vars
  BY <1>1, <1>5 DEF PingAnswered, VarnishStarts, VarnishStops, vars
<1>6. CASE DeliverEvent
  BY <1>6, DeliveryIsQuiet
<1>7. CASE StartPass \/ SetPredicates \/ PassFails
  BY <1>7 DEF StartPass, SetPredicates, PassFails, QuietInv
<1>8. CASE ListAndRender
  <2> SUFFICES ASSUME queue' = {}
               PROVE  /\ PredicatesOf(vc)'
                      /\ renderedFor'.spec = vc'
                      /\ \A q \in Pods : Unnoticed(q, renderedFor.pods[q], pods[q])'
    BY DEF QuietInv
  <2>1. /\ pc = "list" /\ queue = {} /\ UNCHANGED <<vc, pods, predNs, predLabel>>
        /\ renderedFor' = [spec |-> inst, pods |-> pods]
    BY <1>8 DEF ListAndRender
  <2>2. inst = vc /\ PredicatesOf(vc)
    BY <2>1 DEF IInv, PassInv
  <2>3. \A q, a : Unnoticed(q, a, a)'
    BY DEF Unnoticed
  <2> QED
    BY <2>1, <2>2, <2>3 DEF PredicatesOf, namespacesOf
<1> QED
  BY <1>2, <1>3, <1>4, <1>5, <1>6, <1>7, <1>8 DEF Next, Runs

----------------------------------------------------------------------------
(* Theorems *)

\* The invariant the theorems follow from.
LEMMA Inductive == Spec => []IInv
<1>1. Init => IInv
  BY TypeInit, QuietInit DEF IInv, TypeInv
<1>2. IInv /\ [Next]_vars => IInv'
  BY TypeStep, PassStep, QuietStep DEF IInv, TypeInv
<1> QED
  BY <1>1, <1>2, PTL DEF Spec

\* Every variable keeps its type; requests, events and passes end with the process that
\* has them in its memory.
THEOREM TypeCorrect == Spec => []TypeOK
<1>1. IInv => TypeOK
  BY DEF IInv
<1> QED
  BY <1>1, Inductive, PTL

\* With nothing left to do, the backends were rendered for the present spec, and from what
\* the pods are now: reconcileWithLogging sets the predicates before it lists the pods, so
\* whatever they drop, then or later, does not matter to the spec they are for.
THEOREM QuietIsCurrent == Spec => []SettledIsCurrent
<1>1. IInv => SettledIsCurrent
  <2> SUFFICES ASSUME IInv, Settled
               PROVE  /\ renderedFor.spec = vc
                      /\ \A p \in Pods \ relabelled :
                          \/ Address(p, renderedFor.pods, vc) = Address(p, pods, vc)
                          \/ pods[p] # NoPod /\ pods[p].ip = 0 /\ ~renderedFor.pods[p].ready
    BY DEF SettledIsCurrent
  <2>1. ~\E p \in Pods : Announced(p)
    BY DEF Settled, Announced
  <2>2. /\ renderedFor.spec = vc
        /\ \A p \in Pods \ relabelled : Unnoticed(p, renderedFor.pods[p], pods[p])
    BY <2>1 DEF IInv, QuietInv, Settled
  <2>3. ASSUME NEW p \in Pods \ relabelled
        PROVE  \/ Address(p, renderedFor.pods, vc) = Address(p, pods, vc)
               \/ pods[p] # NoPod /\ pods[p].ip = 0 /\ ~renderedFor.pods[p].ready
    <3> DEFINE a == renderedFor.pods[p]
               b == pods[p]
    <3>1. /\ p \in matching(renderedFor.pods, vc) <=> Taken(p, a)
          /\ p \in matching(pods, vc) <=> Taken(p, b)
      BY DEF matching, Taken
    <3>2. CASE ~Taken(p, a) /\ ~Taken(p, b)
      BY <3>1, <3>2 DEF Address
    <3>3. CASE Taken(p, a) /\ Taken(p, b) /\ b.ready = a.ready /\ b.ip = a.ip
      BY <3>1, <3>3 DEF Address, usable
    <3>4. CASE Taken(p, b) /\ b.ready = a.ready /\ b.ip = 0 /\ ~b.ready
      BY <3>4 DEF Taken
    <3> QED
      BY <2>2, <3>2, <3>3, <3>4 DEF Unnoticed
  <2> QED
    BY <2>2, <2>3
<1> QED
  BY <1>1, Inductive, PTL

----------------------------------------------------------------------------
(* Places in an order *)

\* Two sets whose elements are paired off are of one size.
LEMMA SameCount ==
    ASSUME NEW A, NEW B, IsFiniteSet(B), NEW f \in [A -> B],
           \A x, y \in A : f[x] = f[y] => x = y,
           \A z \in B : \E x \in A : f[x] = z
    PROVE  IsFiniteSet(A) /\ Cardinality(A) = Cardinality(B)
<1>1. f \in Injection(A, B)
  BY DEF Injection, IsInjective
<1>2. f \in Surjection(A, B)
  BY DEF Surjection
<1> QED
  BY <1>1, <1>2, FS_Injection

\* A list of a finite set without repetitions, of its length, lists all of it.
LEMMA ListsAll ==
    ASSUME NEW S, IsFiniteSet(S), NEW order \in SetToSeqs(S)
    PROVE  /\ DOMAIN order = 1 .. Cardinality(S)
           /\ \A i \in DOMAIN order : order[i] \in S
           /\ \A i, j \in DOMAIN order : order[i] = order[j] => i = j
           /\ \A x \in S : \E i \in DOMAIN order : order[i] = x
<1> DEFINE D == 1 .. Cardinality(S)
<1>1. Cardinality(S) \in Nat
  BY FS_CardinalityType
<1>2. IsFiniteSet(D) /\ Cardinality(D) = Cardinality(S)
  BY <1>1, FS_Interval
<1>3. order \in [D -> S] /\ \A i, j \in D : order[i] = order[j] => i = j
  BY DEF SetToSeqs
<1> HIDE DEF D
<1>4. order \in Injection(D, S)
  BY <1>3 DEF Injection, IsInjective
<1>5. order \in Surjection(D, S)
  BY <1>2, <1>4, FS_Injection
<1>6. \A x \in S : \E i \in D : order[i] = x
  BY <1>5 DEF Surjection
<1> QED
  BY <1>3, <1>6 DEF D

\* In a finite set with a strict total order the number of elements up to one is its place:
\* each place is some element's, and only one's.
LEMMA Places ==
    ASSUME NEW H, IsFiniteSet(H), NEW upto \in [H -> SUBSET H], NEW place,
           \A a \in H : a \in upto[a],
           \A a, b, c \in H : a \in upto[b] /\ b \in upto[c] => a \in upto[c],
           \A a, b \in H : a \in upto[b] /\ b \in upto[a] => a = b,
           \A a, b \in H : a \in upto[b] \/ b \in upto[a],
           place = [h \in H |-> Cardinality(upto[h])]
    PROVE  /\ \A h \in H : place[h] \in 1 .. Cardinality(H)
           /\ \A g, h \in H : g \in upto[h] => place[g] <= place[h]
           /\ \A g, h \in H : place[g] = place[h] => g = h
           /\ \A n \in 1 .. Cardinality(H) : \E h \in H : place[h] = n
<1> DEFINE N == 1 .. Cardinality(H)
<1>1. Cardinality(H) \in Nat
  BY FS_CardinalityType
<1>2. \A h \in H : /\ IsFiniteSet(upto[h]) /\ Cardinality(upto[h]) \in Nat
                   /\ Cardinality(upto[h]) <= Cardinality(H)
  BY FS_Subset, FS_CardinalityType
<1>3. \A h \in H : place[h] = Cardinality(upto[h])
  OBVIOUS
<1>4. \A h \in H : place[h] \in N
  <2> SUFFICES ASSUME NEW h \in H PROVE place[h] \in N
    OBVIOUS
  <2>1. upto[h] # {}
    OBVIOUS
  <2>2. Cardinality(upto[h]) # 0
    BY <1>2, <2>1, FS_EmptySet
  <2> QED
    BY <1>1, <1>2, <1>3, <2>2
<1>5. ASSUME NEW g \in H, NEW h \in H, g \in upto[h], g # h
      PROVE  place[g] < place[h]
  <2>1. upto[g] \in SUBSET upto[h]
    BY <1>5
  <2>2. h \in upto[h] /\ h \notin upto[g]
    BY <1>5
  <2>3. Cardinality(upto[g]) <= Cardinality(upto[h]) /\ Cardinality(upto[g]) # Cardinality(upto[h])
    BY <1>2, <2>1, <2>2, FS_Subset
  <2> QED
    BY <1>2, <1>3, <2>3
<1>6. \A g, h \in H : place[g] = place[h] => g = h
  <2> SUFFICES ASSUME NEW g \in H, NEW h \in H, place[g] = place[h]
               PROVE  g = h
    OBVIOUS
  <2>1. place[g] \in Int /\ ~(place[g] < place[h]) /\ ~(place[h] < place[g])
    BY <1>1, <1>4
  <2> QED
    BY <1>5, <2>1
<1>7. IsFiniteSet(N) /\ Cardinality(N) = Cardinality(H)
  BY <1>1, FS_Interval
<1> HIDE DEF N
<1>8. place \in Injection(H, N)
  BY <1>4, <1>6 DEF Injection, IsInjective
<1>9. place \in Surjection(H, N)
  BY <1>7, <1>8, FS_Injection
<1>10. \A n \in N : \E h \in H : place[h] = n
  BY <1>9 DEF Surjection
<1>11. ASSUME NEW g \in H, NEW h \in H, g \in upto[h]
       PROVE  place[g] <= place[h]
  <2>1. place[g] \in Int /\ place[h] \in Int
    BY <1>1, <1>4 DEF N
  <2> QED
    BY <1>5, <1>11, <2>1
<1> QED
  BY <1>4, <1>6, <1>10, <1>11 DEF N

\* A set of numbers has a least one.
LEMMA Least ==
    ASSUME NEW T, T \subseteq Nat, T # {}
    PROVE  \E n \in T : \A m \in T : n <= m
<1> DEFINE R == {ss \in Nat \X Nat : ss[1] < ss[2]}
<1>1. IsWellFoundedOn(R, Nat)
  BY NatLessThanWellFounded, Zenon DEF OpToRel
<1> HIDE DEF R
<1>2. PICK x \in T : \A y \in T : ~(<<y, x>> \in R)
  BY <1>1, WFMin
<1>3. \A y \in T : ~(y < x)
  BY <1>2 DEF R
<1> QED
  BY <1>3

\* Of the values of a finite set one is the highest.
LEMMA HasHighest ==
    ASSUME NEW S, IsFiniteSet(S), S # {}, NEW v, \A x \in S : v[x] \in Int
    PROVE  \E x \in S : \A y \in S : v[y] <= v[x]
<1> DEFINE above(x) == {u \in S : v[u] > v[x]}
           T == {Cardinality(above(x)) : x \in S}
<1>1. \A x \in S : IsFiniteSet(above(x)) /\ Cardinality(above(x)) \in Nat
  BY FS_Subset, FS_CardinalityType
<1>2. T \subseteq Nat /\ T # {}
  BY <1>1
<1> HIDE DEF T
<1>3. PICK n \in T : \A m \in T : n <= m
  BY <1>2, Least
<1>4. PICK x \in S : n = Cardinality(above(x))
  BY DEF T
<1>5. ASSUME NEW y \in S, ~(v[y] <= v[x])
      PROVE  FALSE
  <2>1. v[x] \in Int /\ v[y] \in Int /\ v[y] > v[x]
    BY <1>5
  <2>2. above(y) \subseteq above(x)
    BY <2>1
  <2>3. y \in above(x) /\ y \notin above(y)
    BY <2>1
  <2> HIDE DEF above
  <2>4. Cardinality(above(y)) <= Cardinality(above(x)) /\ Cardinality(above(y)) # Cardinality(above(x))
    BY <1>1, <2>2, <2>3, FS_Subset
  <2>5. Cardinality(above(y)) \in T
    BY DEF T
  <2> QED
    BY <1>1, <1>3, <1>4, <2>4, <2>5
<1> QED
  BY <1>5

----------------------------------------------------------------------------
(* What getPodsInfo finds, without the order it is listed in *)

\* No two pods have one address.
Distinct(state) ==
    \A p, q \in Pods :
        NoPod \notin {state[p], state[q]} /\ state[p].ip = state[q].ip /\ state[p].ip # 0 => p = q

\* The pods and their containers that are backends.
Found(state, spec) ==
    {b \in UNION {{p} \X DOMAIN Where[p].containers : p \in matching(state, spec)} :
        /\ usable(state[b[1]], spec.onlyReady)
        /\ matchingPort(Where[b[1]].containers[b[2]], spec.port) # 0}

\* By address, and in the order of the containers.
Earlier(state, a, b) ==
    state[a[1]].ip < state[b[1]].ip \/ (a[1] = b[1] /\ a[2] < b[2])

\* The place of a backend in the list.
Place(state, spec) ==
    [b \in Found(state, spec) |->
        Cardinality({a \in Found(state, spec) : a = b \/ Earlier(state, a, b)})]

\* Addresses are numbers.
LEMMA Addresses == \A ip \in IPs \cup {0} : ip \in Nat
<1>1. IPs \subseteq Nat \ {0}
  BY PodsAssumption
<1> QED
  BY <1>1

\* What matching pods are.
LEMMA MatchingPods ==
    ASSUME NEW state \in [Pods -> PodStates], NEW spec \in Specs, NEW p \in matching(state, spec)
    PROVE  /\ p \in Pods /\ state[p] # NoPod
           /\ state[p].ip \in Nat
<1>1. p \in Pods /\ state[p] # NoPod
  BY DEF matching
<1>2. state[p] \in [label : Labels, ip : IPs \cup {0}, ready : BOOLEAN]
  BY <1>1 DEF PodStates
<1>3. state[p].ip \in IPs \cup {0}
  BY <1>2
<1> QED
  BY <1>1, <1>3, Addresses

\* A backend is a container of a pod with an address.
LEMMA FoundType ==
    ASSUME NEW state \in [Pods -> PodStates], NEW spec \in Specs, NEW b \in Found(state, spec)
    PROVE  /\ b = <<b[1], b[2]>> /\ b[1] \in matching(state, spec)
           /\ b[1] \in Pods /\ state[b[1]] # NoPod
           /\ b[2] \in DOMAIN Where[b[1]].containers /\ b[2] \in Nat
           /\ state[b[1]].ip \in Nat \ {0}
           /\ matchingPort(Where[b[1]].containers[b[2]], spec.port) # 0
<1>1. PICK p \in matching(state, spec) : b \in {p} \X DOMAIN Where[p].containers
  BY DEF Found
<1>2. p \in Pods /\ state[p] # NoPod /\ state[p].ip \in Nat
  BY MatchingPods
<1>3. b = <<b[1], b[2]>> /\ b[1] = p /\ b[2] \in DOMAIN Where[p].containers
  BY <1>1
<1>4. Where[p].containers \in Seq(Range(Where[p].containers))
  BY <1>2, PodsAssumption
<1>5. DOMAIN Where[p].containers = 1 .. Len(Where[p].containers)
  BY <1>4
<1>6. b[2] \in Nat
  BY <1>3, <1>5
<1>7. /\ state[b[1]].ip # 0
      /\ matchingPort(Where[b[1]].containers[b[2]], spec.port) # 0
  BY DEF Found, usable
<1> QED
  BY <1>2, <1>3, <1>6, <1>7

\* There are finitely many backends.
LEMMA FoundFinite ==
    ASSUME NEW state \in [Pods -> PodStates], NEW spec \in Specs
    PROVE  IsFiniteSet(matching(state, spec)) /\ IsFiniteSet(Found(state, spec))
<1> DEFINE M == matching(state, spec)
           places == [p \in M |-> {p} \X DOMAIN Where[p].containers]
           T == {places[p] : p \in M}
<1>1. M \in SUBSET Pods
  BY DEF matching
<1>2. IsFiniteSet(M)
  BY <1>1, PodsAssumption, FS_Subset
<1>3. \A p \in M : IsFiniteSet(places[p])
  <2> SUFFICES ASSUME NEW p \in M PROVE IsFiniteSet({p} \X DOMAIN Where[p].containers)
    OBVIOUS
  <2>1. Where[p].containers \in Seq(Range(Where[p].containers))
    BY <1>1, PodsAssumption
  <2>2. DOMAIN Where[p].containers = 1 .. Len(Where[p].containers)
        /\ Len(Where[p].containers) \in Nat
    BY <2>1
  <2>3. IsFiniteSet(DOMAIN Where[p].containers)
    BY <2>2, FS_Interval
  <2> QED
    BY <2>3, FS_Singleton, FS_Product
<1>4. places \in Surjection(M, T)
  BY DEF Surjection
<1>5. IsFiniteSet(T)
  BY <1>2, <1>4, FS_Surjection
<1>6. IsFiniteSet(UNION T)
  BY <1>3, <1>5, FS_UNION
<1>7. Found(state, spec) \in SUBSET UNION T
  BY DEF Found
<1> QED
  BY <1>2, <1>6, <1>7, FS_Subset

\* Backends are in a strict total order.
LEMMA FoundPlaces ==
    ASSUME NEW state \in [Pods -> PodStates], NEW spec \in Specs, Distinct(state)
    PROVE  LET H == Found(state, spec)
               place == Place(state, spec)
           IN  /\ \A h \in H : place[h] \in 1 .. Cardinality(H)
               /\ \A g, h \in H : place[g] = place[h] => g = h
               /\ \A n \in 1 .. Cardinality(H) : \E h \in H : place[h] = n
<1> DEFINE H == Found(state, spec)
           upto == [h \in H |-> {g \in H : g = h \/ Earlier(state, g, h)}]
           place == Place(state, spec)
<1>1. \A a \in H : /\ a = <<a[1], a[2]>> /\ a[2] \in Nat /\ state[a[1]].ip \in Nat
  BY FoundType
<1>2. \A a, b \in H : state[a[1]].ip = state[b[1]].ip => a[1] = b[1]
  BY FoundType DEF Distinct
<1>3. upto \in [H -> SUBSET H]
  OBVIOUS
<1>4. \A a, b \in H : a \in upto[b] <=> a = b \/ Earlier(state, a, b)
  OBVIOUS
<1>5. place = [h \in H |-> Cardinality(upto[h])]
  BY DEF Place
<1>6. IsFiniteSet(H)
  BY FoundFinite
<1> HIDE DEF H, upto, place
<1>7. \A a, b, c \in H : a \in upto[b] /\ b \in upto[c] => a \in upto[c]
  BY <1>1, <1>4 DEF Earlier
<1>8. \A a, b \in H : a \in upto[b] /\ b \in upto[a] => a = b
  BY <1>1, <1>2, <1>4 DEF Earlier
<1>9. \A a, b \in H : a \in upto[b] \/ b \in upto[a]
  <2> SUFFICES ASSUME NEW a \in H, NEW b \in H, ~Earlier(state, a, b), ~Earlier(state, b, a)
               PROVE  a = b
    BY <1>4
  <2>1. state[a[1]].ip = state[b[1]].ip
    BY <1>1 DEF Earlier
  <2>2. a[1] = b[1]
    BY <1>2, <2>1
  <2>3. a[2] = b[2]
    BY <1>1, <2>2 DEF Earlier
  <2> QED
    BY <1>1, <2>2, <2>3
<1>10. \A a \in H : a \in upto[a]
  BY <1>4
<1>11. /\ \A h \in H : place[h] \in 1 .. Cardinality(H)
       /\ \A g, h \in H : place[g] = place[h] => g = h
       /\ \A n \in 1 .. Cardinality(H) : \E h \in H : place[h] = n
  BY <1>3, <1>5, <1>6, <1>7, <1>8, <1>9, <1>10, Places
<1> QED
  BY <1>11 DEF H, place

\* The pods of an order as getPodsInfo gets them.
Listing(order, state) == [i \in DOMAIN order |-> listedPod(order[i], state)]

\* A backend of a listing is one, whatever the order.
Named(order, b) == <<order[b[1]], b[2]>>

\* The backends of a listing and those of the pods are paired off, and their orders agree.
LEMMA Pairing ==
    ASSUME NEW state \in [Pods -> PodStates], NEW spec \in Specs, Distinct(state),
           NEW order \in SetToSeqs(matching(state, spec))
    PROVE  LET listing == Listing(order, state)
               F == backends(listing, spec.port, spec.onlyReady)
               H == Found(state, spec)
           IN  /\ \A b \in F : /\ b = <<b[1], b[2]>> /\ b[1] \in Nat /\ b[2] \in Nat
                               /\ b[1] \in DOMAIN order
                               /\ Named(order, b) \in H
                               /\ listing[b[1]].ip = state[order[b[1]]].ip
                               /\ listing[b[1]].node = Where[order[b[1]]].node
                               /\ listing[b[1]].containers = Where[order[b[1]]].containers
               /\ \A a, b \in F : Named(order, a) = Named(order, b) => a = b
               /\ \A h \in H : \E b \in F : Named(order, b) = h
               /\ \A a, b \in F :
                    a = b \/ sortedBefore(listing, a, b)
                    <=> Named(order, a) = Named(order, b)
                        \/ Earlier(state, Named(order, a), Named(order, b))
<1> DEFINE M == matching(state, spec)
           listing == Listing(order, state)
           F == backends(listing, spec.port, spec.onlyReady)
           H == Found(state, spec)
<1>1. /\ DOMAIN order = 1 .. Cardinality(M) /\ Cardinality(M) \in Nat
      /\ \A i \in DOMAIN order : order[i] \in M
      /\ \A i, j \in DOMAIN order : order[i] = order[j] => i = j
      /\ \A p \in M : \E i \in DOMAIN order : order[i] = p
  BY FoundFinite, ListsAll, FS_CardinalityType
<1>2. /\ DOMAIN listing = DOMAIN order
      /\ \A i \in DOMAIN order :
            /\ listing[i].ip = state[order[i]].ip /\ listing[i].ready = state[order[i]].ready
            /\ listing[i].node = Where[order[i]].node
            /\ listing[i].containers = Where[order[i]].containers
  BY DEF Listing, listedPod
<1>3. \A b : b \in F <=>
            /\ b \in UNION {{i} \X DOMAIN listing[i].containers : i \in DOMAIN order}
            /\ usable(listing[b[1]], spec.onlyReady)
            /\ matchingPort(listing[b[1]].containers[b[2]], spec.port) # 0
  BY <1>2 DEF backends
<1>4. \A b : b \in H <=>
            /\ b \in UNION {{p} \X DOMAIN Where[p].containers : p \in M}
            /\ usable(state[b[1]], spec.onlyReady)
            /\ matchingPort(Where[b[1]].containers[b[2]], spec.port) # 0
  BY DEF Found
<1> HIDE DEF M, listing, F, H
<1>5. \A i \in DOMAIN order :
            usable(listing[i], spec.onlyReady) <=> usable(state[order[i]], spec.onlyReady)
  BY <1>2 DEF usable
<1>6. ASSUME NEW b \in F
      PROVE  /\ b = <<b[1], b[2]>> /\ b[1] \in DOMAIN order
             /\ Named(order, b) \in H
  <2>1. PICK i \in DOMAIN order : b \in {i} \X DOMAIN listing[i].containers
    BY <1>3
  <2>2. b = <<b[1], b[2]>> /\ b[1] = i /\ b[2] \in DOMAIN Where[order[i]].containers
    BY <1>2, <2>1
  <2>3. order[i] \in M /\ Named(order, b) = <<order[i], b[2]>>
    BY <1>1, <2>2 DEF Named
  <2>4. Named(order, b) \in {order[i]} \X DOMAIN Where[order[i]].containers
    BY <2>2, <2>3
  <2>5. usable(state[order[i]], spec.onlyReady)
    BY <1>3, <1>5, <2>2
  <2>6. matchingPort(Where[order[i]].containers[b[2]], spec.port) # 0
    BY <1>2, <1>3, <2>2
  <2> QED
    BY <1>4, <2>2, <2>3, <2>4, <2>5, <2>6
<1>7. ASSUME NEW b \in F
      PROVE  b[1] \in Nat /\ b[2] \in Nat /\ Named(order, b) = <<order[b[1]], b[2]>>
  <2>1. Named(order, b) \in Found(state, spec) /\ Named(order, b)[2] = b[2]
    BY <1>6 DEF Named, H
  <2>2. b[2] \in Nat
    BY <2>1, FoundType
  <2>3. b[1] \in 1 .. Cardinality(M)
    BY <1>1, <1>6
  <2>4. b[1] \in Nat
    BY <1>1, <2>3
  <2> QED
    BY <2>2, <2>4 DEF Named
<1>8. ASSUME NEW a \in F, NEW b \in F, Named(order, a) = Named(order, b)
      PROVE  a = b
  <2>1. order[a[1]] = order[b[1]] /\ a[2] = b[2]
    BY <1>7, <1>8
  <2>2. a[1] = b[1]
    BY <1>1, <1>6, <2>1
  <2> QED
    BY <1>6, <2>1, <2>2
<1>9. ASSUME NEW h \in H PROVE \E b \in F : Named(order, b) = h
  <2>1. /\ h = <<h[1], h[2]>> /\ h[1] \in M
        /\ h[2] \in DOMAIN Where[h[1]].containers
    BY <1>9, FoundType DEF H, M
  <2>2. PICK i \in DOMAIN order : order[i] = h[1]
    BY <1>1, <2>1
  <2>3. <<i, h[2]>> \in {i} \X DOMAIN listing[i].containers
    BY <1>2, <2>1, <2>2
  <2>4. usable(listing[i], spec.onlyReady)
    BY <1>4, <1>5, <2>2
  <2>5. matchingPort(listing[i].containers[h[2]], spec.port) # 0
    BY <1>2, <1>4, <2>2
  <2>6. <<i, h[2]>> \in F
    BY <1>3, <2>3, <2>4, <2>5
  <2>7. Named(order, <<i, h[2]>>) = h
    BY <2>1, <2>2 DEF Named
  <2> QED
    BY <2>6, <2>7
<1>10. ASSUME NEW a \in F, NEW b \in F
       PROVE  a = b \/ sortedBefore(listing, a, b)
              <=> Named(order, a) = Named(order, b)
                  \/ Earlier(state, Named(order, a), Named(order, b))
  <2>1. /\ Named(order, a) = <<order[a[1]], a[2]>> /\ Named(order, b) = <<order[b[1]], b[2]>>
        /\ a[1] \in DOMAIN order /\ b[1] \in DOMAIN order
        /\ a[1] \in Nat /\ b[1] \in Nat
        /\ Named(order, a) \in H /\ Named(order, b) \in H
    BY <1>6, <1>7
  <2>2. a = b <=> Named(order, a) = Named(order, b)
    BY <1>8
  <2>3. /\ state[order[a[1]]].ip \in Nat \ {0} /\ state[order[b[1]]].ip \in Nat \ {0}
        /\ state[order[a[1]]] # NoPod /\ state[order[b[1]]] # NoPod
        /\ order[a[1]] \in Pods /\ order[b[1]] \in Pods
    BY <2>1, FoundType DEF H
  <2>4. state[order[a[1]]].ip = state[order[b[1]]].ip => order[a[1]] = order[b[1]]
    BY <2>3 DEF Distinct
  <2>5. order[a[1]] = order[b[1]] <=> a[1] = b[1]
    BY <1>1, <2>1
  <2>6. sortedBefore(listing, a, b) <=> Earlier(state, Named(order, a), Named(order, b))
    BY <1>2, <2>1, <2>3, <2>4, <2>5 DEF sortedBefore, listedBefore, Earlier
  <2> QED
    BY <2>2, <2>6
<1>11. ASSUME NEW b \in F
       PROVE  /\ listing[b[1]].ip = state[order[b[1]]].ip
              /\ listing[b[1]].node = Where[order[b[1]]].node
              /\ listing[b[1]].containers = Where[order[b[1]]].containers
  BY <1>2, <1>6
<1>12. /\ \A b \in F : /\ b = <<b[1], b[2]>> /\ b[1] \in Nat /\ b[2] \in Nat
                       /\ b[1] \in DOMAIN order
                       /\ Named(order, b) \in H
                       /\ listing[b[1]].ip = state[order[b[1]]].ip
                       /\ listing[b[1]].node = Where[order[b[1]]].node
                       /\ listing[b[1]].containers = Where[order[b[1]]].containers
       /\ \A a, b \in F : Named(order, a) = Named(order, b) => a = b
       /\ \A h \in H : \E b \in F : Named(order, b) = h
  BY <1>6, <1>7, <1>8, <1>9, <1>11
<1> QED
  BY <1>10, <1>12 DEF listing, F, H

\* What getPodsInfo returns for matching pods listed in some order: of each backend, at its
\* place, address and node, and the port of one of them.
LEMMA Canonical ==
    ASSUME NEW state \in [Pods -> PodStates], NEW spec \in Specs, Distinct(state),
           NEW order \in SetToSeqs(matching(state, spec))
    PROVE  LET H == Found(state, spec)
               info == getPodsInfo(Listing(order, state), spec.port, spec.onlyReady)
           IN  /\ info = [list |-> info.list, port |-> info.port]
               /\ info.list = [n \in 1 .. Cardinality(H) |-> info.list[n]]
               /\ \A h \in H : info.list[Place(state, spec)[h]]
                    = [ip |-> state[h[1]].ip, node |-> Where[h[1]].node]
               /\ H = {} => info.port = 0
               /\ H # {} => \E h \in H :
                    info.port = matchingPort(Where[h[1]].containers[h[2]], spec.port)
<1> DEFINE listing == Listing(order, state)
           F == backends(listing, spec.port, spec.onlyReady)
           H == Found(state, spec)
           info == getPodsInfo(listing, spec.port, spec.onlyReady)
           before(b) == {a \in F : a = b \/ sortedBefore(listing, a, b)}
           place(b) == Cardinality(before(b))
           at(n) == CHOOSE b \in F : place(b) = n
           last == CHOOSE b \in F : \A a \in F : a = b \/ listedBefore(a, b)
           names == [b \in F |-> Named(order, b)]
<1>1. /\ \A b \in F : /\ b = <<b[1], b[2]>> /\ b[1] \in Nat /\ b[2] \in Nat
                      /\ b[1] \in DOMAIN order
                      /\ Named(order, b) \in H
                      /\ listing[b[1]].ip = state[order[b[1]]].ip
                      /\ listing[b[1]].node = Where[order[b[1]]].node
                      /\ listing[b[1]].containers = Where[order[b[1]]].containers
      /\ \A a, b \in F : Named(order, a) = Named(order, b) => a = b
      /\ \A h \in H : \E b \in F : Named(order, b) = h
      /\ \A a, b \in F :
            a = b \/ sortedBefore(listing, a, b)
            <=> Named(order, a) = Named(order, b)
                \/ Earlier(state, Named(order, a), Named(order, b))
  BY Pairing
<1>2. info = [list |-> [n \in 1 .. Cardinality(F) |->
                            [ip |-> listing[at(n)[1]].ip, node |-> listing[at(n)[1]].node]],
              port |-> IF F = {} THEN 0
                       ELSE matchingPort(listing[last[1]].containers[last[2]], spec.port)]
  BY DEF getPodsInfo
<1>3. IsFiniteSet(H)
  BY FoundFinite
<1>4. IsFiniteSet(F) /\ Cardinality(F) = Cardinality(H)
  <2>1. /\ names \in [F -> H] /\ \A x, y \in F : names[x] = names[y] => x = y
        /\ \A z \in H : \E x \in F : names[x] = z
    BY <1>1
  <2> HIDE DEF names, F, H
  <2> QED
    BY <1>3, <2>1, SameCount
<1>5. ASSUME NEW b \in F
      PROVE  place(b) = Place(state, spec)[Named(order, b)]
  <2> DEFINE h == Named(order, b)
             A == before(b)
             B == {g \in H : g = h \/ Earlier(state, g, h)}
             f == [a \in A |-> Named(order, a)]
  <2>1. h \in H
    BY <1>1
  <2>2. Place(state, spec)[h] = Cardinality(B)
    BY <2>1 DEF Place
  <2>3. f \in [A -> B] /\ \A x, y \in A : f[x] = f[y] => x = y
    BY <1>1
  <2>4. \A z \in B : \E x \in A : f[x] = z
    BY <1>1
  <2>5. IsFiniteSet(B)
    BY <1>3, FS_Subset
  <2> HIDE DEF f, A, B
  <2>6. Cardinality(A) = Cardinality(B)
    BY <2>3, <2>4, <2>5, SameCount
  <2> QED
    BY <2>2, <2>6 DEF A
<1>6. /\ \A h \in H : Place(state, spec)[h] \in 1 .. Cardinality(H)
      /\ \A g, h \in H : Place(state, spec)[g] = Place(state, spec)[h] => g = h
  BY FoundPlaces
<1>7. ASSUME NEW h \in H
      PROVE  info.list[Place(state, spec)[h]] = [ip |-> state[h[1]].ip, node |-> Where[h[1]].node]
  <2> DEFINE n == Place(state, spec)[h]
  <2>1. PICK b \in F : Named(order, b) = h
    BY <1>1
  <2>2. place(b) = n
    BY <1>5, <2>1
  <2>3. at(n) \in F /\ place(at(n)) = n
    BY <2>2
  <2> HIDE DEF at, place
  <2>4. Named(order, at(n)) = h
    BY <1>1, <1>5, <1>6, <2>3
  <2>5. order[at(n)[1]] = h[1]
    BY <2>4 DEF Named
  <2>6. n \in 1 .. Cardinality(F)
    BY <1>4, <1>6
  <2>7. info.list[n] = [ip |-> listing[at(n)[1]].ip, node |-> listing[at(n)[1]].node]
    BY <1>2, <2>6
  <2> QED
    BY <1>1, <2>3, <2>5, <2>7
<1>8. ASSUME F # {}
      PROVE  last \in F
  <2> DEFINE upto == [b \in F |-> {a \in F : a = b \/ listedBefore(a, b)}]
             rank == [b \in F |-> Cardinality(upto[b])]
  <2>1. upto \in [F -> SUBSET F]
    OBVIOUS
  <2>2. \A a, b \in F : a \in upto[b] <=> a = b \/ listedBefore(a, b)
    OBVIOUS
  <2>3. \A b \in F : b = <<b[1], b[2]>> /\ b[1] \in Nat /\ b[2] \in Nat
    BY <1>1
  <2> HIDE DEF F, upto
  <2>4. \A a, b, c \in F : a \in upto[b] /\ b \in upto[c] => a \in upto[c]
    BY <2>2, <2>3 DEF listedBefore
  <2>5. \A a, b \in F : a \in upto[b] /\ b \in upto[a] => a = b
    BY <2>2, <2>3 DEF listedBefore
  <2>6. \A a, b \in F : a \in upto[b] \/ b \in upto[a]
    BY <2>2, <2>3 DEF listedBefore
  <2>7. \A a \in F : a \in upto[a]
    BY <2>2
  <2>rank. rank = [b \in F |-> Cardinality(upto[b])]
    OBVIOUS
  <2>finite. IsFiniteSet(F)
    BY <1>4 DEF F
  <2> HIDE DEF rank
  <2>8. /\ \A b \in F : rank[b] \in 1 .. Cardinality(F)
        /\ \A a, b \in F : a \in upto[b] => rank[a] <= rank[b]
        /\ \A a, b \in F : rank[a] = rank[b] => a = b
        /\ \A n \in 1 .. Cardinality(F) : \E b \in F : rank[b] = n
    BY <2>rank, <2>finite, <2>1, <2>4, <2>5, <2>6, <2>7, Places
  <2>9. Cardinality(F) \in Nat /\ Cardinality(F) # 0
    BY <1>4, <1>8, FS_CardinalityType, FS_EmptySet
  <2>10. PICK b \in F : rank[b] = Cardinality(F)
    BY <2>8, <2>9
  <2>11. ASSUME NEW a \in F PROVE a \in upto[b]
    <3>1. CASE b \in upto[a]
      <4>1. rank[b] <= rank[a] /\ rank[a] \in 1 .. Cardinality(F)
        BY <2>8, <3>1
      <4>2. rank[a] = rank[b]
        BY <2>9, <2>10, <4>1
      <4> QED
        BY <2>7, <2>8, <4>2
    <3> QED
      BY <2>6, <3>1
  <2>12. \E c \in F : \A a \in F : a = c \/ listedBefore(a, c)
    BY <2>2, <2>11
  <2> QED
    BY <2>12
<1>9. F = {} <=> H = {}
  BY <1>1
<1>10. ASSUME H # {}
       PROVE  \E h \in H : info.port = matchingPort(Where[h[1]].containers[h[2]], spec.port)
  <2>1. last \in F /\ F # {}
    BY <1>8, <1>9, <1>10
  <2> HIDE DEF last
  <2>2. info.port = matchingPort(listing[last[1]].containers[last[2]], spec.port)
    BY <1>2, <2>1
  <2>3. Named(order, last) \in H /\ Named(order, last) = <<order[last[1]], last[2]>>
    BY <1>1, <2>1 DEF Named
  <2>4. listing[last[1]].containers = Where[order[last[1]]].containers
    BY <1>1, <2>1
  <2> HIDE DEF info, H
  <2> QED
    BY <2>2, <2>3, <2>4
<1> HIDE DEF at, last, F
<1>11. /\ info = [list |-> info.list, port |-> info.port]
       /\ info.list = [n \in 1 .. Cardinality(F) |-> info.list[n]]
       /\ F = {} => info.port = 0
  <2> HIDE DEF info
  <2> QED
    BY <1>2
<1>12. info.list = [n \in 1 .. Cardinality(H) |-> info.list[n]] /\ (H = {} => info.port = 0)
  BY <1>4, <1>9, <1>11
<1> HIDE DEF info, H
<1>13. /\ info = [list |-> info.list, port |-> info.port]
       /\ info.list = [n \in 1 .. Cardinality(H) |-> info.list[n]]
       /\ \A h \in H : info.list[Place(state, spec)[h]]
            = [ip |-> state[h[1]].ip, node |-> Where[h[1]].node]
       /\ H = {} => info.port = 0
       /\ H # {} => \E h \in H :
            info.port = matchingPort(Where[h[1]].containers[h[2]], spec.port)
  BY <1>7, <1>10, <1>11, <1>12
<1> QED
  BY <1>13 DEF info, H, listing

----------------------------------------------------------------------------
(* What is rendered is what a pass made of some listing of the pods it was made for *)

\* The present addresses and those last rendered for are pods' own, and what was rendered
\* is getBackendEndpoints of what it was rendered for, in some order of the pods.
RenderInv ==
    /\ Distinct(pods) /\ Distinct(renderedFor.pods)
    /\ rendered # NothingRendered =>
        \E order \in SetToSeqs(matching(renderedFor.pods, renderedFor.spec)) :
            rendered = renderedFrom(order, renderedFor.pods, renderedFor.spec)

\* Nothing is rendered at first.
LEMMA RenderInit == Init => RenderInv
<1> SUFFICES ASSUME Init PROVE RenderInv
  OBVIOUS
<1>1. rendered = NothingRendered
  BY DEF Init
<1>2. PICK i \in Initial : pods = i.pods
  BY DEF Init
<1>3. Distinct(pods)
  BY <1>2, AddressesAssumption DEF Distinct
<1>4. \A p \in Pods : renderedFor.pods[p] = NoPod
  BY DEF Init
<1>5. Distinct(renderedFor.pods)
  BY <1>4 DEF Distinct
<1> QED
  BY <1>1, <1>3, <1>5 DEF RenderInv

\* A pod gets an address no other pod has; any other change of a pod leaves it its
\* address or takes it away.
LEMMA AddressesStayDistinct ==
    ASSUME TypeOK, Distinct(pods), NEW p \in Pods, PodChanges(p)
    PROVE  Distinct(pods)'
<1> DEFINE b == pods[p]
<1>1. /\ pods \in [Pods -> PodStates]
      /\ b # NoPod => b \in [label : Labels, ip : IPs \cup {0}, ready : BOOLEAN]
  BY DEF TypeOK, PodStates
<1> HIDE DEF b
<1>2. ASSUME NEW s, PodBecomes(p, s),
             \/ s = NoPod \/ s.ip = 0 \/ (b # NoPod /\ s.ip = b.ip)
             \/ \A q \in Pods : pods[q] # NoPod => pods[q].ip # s.ip
      PROVE  Distinct(pods)'
  <2>1. pods' = [pods EXCEPT ![p] = s]
    BY <1>2 DEF PodBecomes
  <2> QED
    BY <1>1, <1>2, <2>1 DEF Distinct, b
<1>3. CASE CreatePod(p)
  <2>1. PICK l \in Labels : PodBecomes(p, [label |-> l, ip |-> 0, ready |-> FALSE])
    BY <1>3 DEF CreatePod
  <2>2. [label |-> l, ip |-> 0, ready |-> FALSE].ip = 0
    OBVIOUS
  <2> QED
    BY <1>2, <2>1, <2>2
<1>4. CASE AddressPod(p)
  <2>1. PICK ip \in IPs : /\ \A q \in Pods : pods[q] # NoPod => pods[q].ip # ip
                          /\ PodBecomes(p, [b EXCEPT !.ip = ip, !.ready = FALSE])
    BY <1>4 DEF AddressPod, b
  <2>2. [b EXCEPT !.ip = ip, !.ready = FALSE].ip = ip
    BY <1>1, <1>4 DEF AddressPod, b
  <2> QED
    BY <1>2, <2>1, <2>2
<1>5. CASE ReadinessChanges(p)
  <2>1. b # NoPod /\ PodBecomes(p, [b EXCEPT !.ready = ~@])
    BY <1>5 DEF ReadinessChanges, b
  <2>2. [b EXCEPT !.ready = ~@].ip = b.ip
    BY <1>1, <2>1
  <2> QED
    BY <1>2, <2>1, <2>2
<1>6. CASE EvictPod(p)
  <2>1. b # NoPod /\ PodBecomes(p, [b EXCEPT !.ip = 0, !.ready = FALSE])
    BY <1>6 DEF EvictPod, b
  <2>2. [b EXCEPT !.ip = 0, !.ready = FALSE].ip = 0
    BY <1>1, <2>1
  <2> QED
    BY <1>2, <2>1, <2>2
<1>7. CASE RelabelPod(p)
  <2>1. b # NoPod /\ \E l \in Labels : PodBecomes(p, [b EXCEPT !.label = l])
    BY <1>7 DEF RelabelPod, b
  <2>2. \A l \in Labels : [b EXCEPT !.label = l].ip = b.ip
    BY <1>1, <2>1
  <2> QED
    BY <1>2, <2>1, <2>2
<1>8. CASE DeletePod(p)
  BY <1>2, <1>8 DEF DeletePod
<1> QED
  BY <1>3, <1>4, <1>5, <1>6, <1>7, <1>8 DEF PodChanges

\* Only ListAndRender renders; it remembers what it rendered for.
LEMMA RenderStep == TypeOK /\ RenderInv /\ [Next]_vars => RenderInv'
<1> SUFFICES ASSUME TypeOK, RenderInv, [Next]_vars PROVE RenderInv'
  OBVIOUS
<1> USE DEF clusterVars, procVars, predVars, passVars, outVars
<1>1. ASSUME UNCHANGED <<own, rendered, renderedFor>>, Distinct(pods)'
      PROVE  RenderInv'
  BY <1>1 DEF RenderInv, renderedFrom, NothingRendered, matching, namespacesOf, Distinct
<1>2. UNCHANGED pods => Distinct(pods)'
  BY DEF RenderInv, Distinct
<1>3. CASE \E p \in Pods : PodChanges(p)
  <2>1. PICK p \in Pods : PodChanges(p)
    BY <1>3
  <2>2. Distinct(pods)'
    BY <2>1, AddressesStayDistinct DEF RenderInv
  <2>3. \E s \in PodStates : PodBecomes(p, s)
    BY <2>1, PodChangeType
  <2> QED
    BY <1>1, <2>2, <2>3 DEF PodBecomes
<1>4. CASE EditSpec
  BY <1>1, <1>2, <1>4 DEF EditSpec
<1>5. CASE StartProcess \/ StartManager \/ PingTimesOut \/ ProcessFails
  BY <1>1, <1>2, <1>5 DEF StartProcess, StartManager, PingTimesOut, ProcessFails, ProcessEnds
<1>6. CASE PingAnswered \/ VarnishStarts \/ VarnishStops \/ UNCHANGED vars
  BY <1>1, <1>2, <1>6 DEF PingAnswered, VarnishStarts, VarnishStops, vars
<1>7. CASE DeliverEvent \/ StartPass \/ SetPredicates \/ PassFails
  BY <1>1, <1>2, <1>7 DEF DeliverEvent, StartPass, SetPredicates, PassFails
<1>8. CASE ListAndRender
  <2>1. PICK order \in SetToSeqs(matching(pods, inst)) : rendered' = renderedFrom(order, pods, inst)
    BY <1>8 DEF ListAndRender
  <2>2. /\ renderedFor' = [spec |-> inst, pods |-> pods] /\ UNCHANGED <<own, pods>>
        /\ renderedFor'.spec = inst /\ renderedFor'.pods = pods
    BY <1>8 DEF ListAndRender
  <2>3. rendered' = renderedFrom(order, renderedFor.pods, renderedFor.spec)'
    BY <2>1, <2>2 DEF renderedFrom
  <2>4. order \in SetToSeqs(matching(renderedFor.pods, renderedFor.spec))'
    BY <2>1, <2>2 DEF matching, namespacesOf
  <2>5. Distinct(pods)' /\ Distinct(renderedFor.pods)'
    BY <2>2 DEF RenderInv, Distinct
  <2> QED
    BY <2>3, <2>4, <2>5 DEF RenderInv
<1> QED
  BY <1>3, <1>4, <1>5, <1>6, <1>7, <1>8 DEF Next, Runs

\* What is rendered is always some listing of what it was rendered for.
LEMMA Rendering == Spec => [](TypeOK /\ RenderInv)
<1>1. Init => TypeInv /\ RenderInv
  BY TypeInit, RenderInit
<1>2. TypeInv /\ RenderInv /\ [Next]_vars => (TypeInv /\ RenderInv)'
  BY TypeStep, RenderStep DEF TypeInv
<1>3. TypeInv => TypeOK
  BY DEF TypeInv
<1> QED
  BY <1>1, <1>2, <1>3, PTL DEF Spec

\* The pods a spec may select have their matching ports, if any, under one number: a port
\* that is asked for by name means the same everywhere.
PortsAgree ==
    \A s \in Specs : \A p, q \in Pods :
        \A c \in DOMAIN Where[p].containers, d \in DOMAIN Where[q].containers :
            LET a == matchingPort(Where[p].containers[c], s.port)
                b == matchingPort(Where[q].containers[d], s.port)
            IN  {Where[p].ns, Where[q].ns} \subseteq namespacesOf(s) /\ 0 \notin {a, b} => a = b

\* Two listings of the same pods are rendered to the same.
LEMMA OneRendering ==
    ASSUME PortsAgree, NEW state \in [Pods -> PodStates], NEW spec \in Specs, Distinct(state),
           NEW order1 \in SetToSeqs(matching(state, spec)),
           NEW order2 \in SetToSeqs(matching(state, spec))
    PROVE  renderedFrom(order1, state, spec) = renderedFrom(order2, state, spec)
<1> DEFINE H == Found(state, spec)
           place == Place(state, spec)
           info1 == getPodsInfo(Listing(order1, state), spec.port, spec.onlyReady)
           info2 == getPodsInfo(Listing(order2, state), spec.port, spec.onlyReady)
           port(h) == matchingPort(Where[h[1]].containers[h[2]], spec.port)
<1>1. /\ info1 = [list |-> info1.list, port |-> info1.port]
      /\ info1.list = [n \in 1 .. Cardinality(H) |-> info1.list[n]]
      /\ \A h \in H : info1.list[place[h]] = [ip |-> state[h[1]].ip, node |-> Where[h[1]].node]
      /\ H = {} => info1.port = 0
      /\ H # {} => \E h \in H : info1.port = port(h)
  BY Canonical
<1>2. /\ info2 = [list |-> info2.list, port |-> info2.port]
      /\ info2.list = [n \in 1 .. Cardinality(H) |-> info2.list[n]]
      /\ \A h \in H : info2.list[place[h]] = [ip |-> state[h[1]].ip, node |-> Where[h[1]].node]
      /\ H = {} => info2.port = 0
      /\ H # {} => \E h \in H : info2.port = port(h)
  BY Canonical
<1>3. \A n \in 1 .. Cardinality(H) : \E h \in H : place[h] = n
  BY FoundPlaces
<1>4. \A g, h \in H : port(g) = port(h)
  <2> SUFFICES ASSUME NEW g \in H, NEW h \in H PROVE port(g) = port(h)
    OBVIOUS
  <2>1. /\ g[1] \in matching(state, spec) /\ g[1] \in Pods
        /\ g[2] \in DOMAIN Where[g[1]].containers /\ port(g) # 0
    BY FoundType
  <2>2. /\ h[1] \in matching(state, spec) /\ h[1] \in Pods
        /\ h[2] \in DOMAIN Where[h[1]].containers /\ port(h) # 0
    BY FoundType
  <2>3. Where[g[1]].ns \in namespacesOf(spec) /\ Where[h[1]].ns \in namespacesOf(spec)
    BY <2>1, <2>2 DEF matching
  <2> QED
    BY <2>1, <2>2, <2>3 DEF PortsAgree
<1> HIDE DEF H, place, info1, info2, port
<1>5. info1.list = info2.list
  <2>1. ASSUME NEW n \in 1 .. Cardinality(H) PROVE info1.list[n] = info2.list[n]
    <3>1. PICK h \in H : place[h] = n
      BY <1>3
    <3>2. /\ info1.list[place[h]] = [ip |-> state[h[1]].ip, node |-> Where[h[1]].node]
          /\ info2.list[place[h]] = [ip |-> state[h[1]].ip, node |-> Where[h[1]].node]
      BY <1>1, <1>2
    <3> QED
      BY <3>1, <3>2
  <2> QED
    BY <1>1, <1>2, <2>1
<1>6. info1.port = info2.port
  BY <1>1, <1>2, <1>4
<1>7. info1 = info2
  BY <1>1, <1>2, <1>5, <1>6
<1> QED
  BY <1>7 DEF renderedFrom, getBackendEndpoints, Listing, info1, info2

\* If a port means the same in every pod, the backends do not depend on the order in which
\* the cache lists them: the stable sort in getPodsInfo is by an address no two pods share.
THEOREM RenderingIsOrderless == PortsAgree => (Spec => []RenderingIsStable)
<1> SUFFICES ASSUME PortsAgree PROVE Spec => []RenderingIsStable
  OBVIOUS
<1>1. TypeOK /\ RenderInv => RenderingIsStable
  <2> SUFFICES ASSUME TypeOK, RenderInv, rendered # NothingRendered,
                      NEW order \in SetToSeqs(matching(renderedFor.pods, renderedFor.spec))
               PROVE  renderedFrom(order, renderedFor.pods, renderedFor.spec) = rendered
    BY DEF RenderingIsStable
  <2>1. PICK first \in SetToSeqs(matching(renderedFor.pods, renderedFor.spec)) :
            rendered = renderedFrom(first, renderedFor.pods, renderedFor.spec)
    BY DEF RenderInv
  <2>2. renderedFor.pods \in [Pods -> PodStates] /\ renderedFor.spec \in Specs
    BY DEF TypeOK
  <2> QED
    BY <2>1, <2>2, OneRendering DEF RenderInv
<1> QED
  BY <1>1, Rendering, PTL

----------------------------------------------------------------------------
(* Weights *)

\* A threshold is chosen from those of the spec: one the ratio is within and no lower one
\* is, or, if there is none, the highest.
LEMMA Chosen ==
    ASSUME NEW T, IsFiniteSet(T), T # {}, \A t \in T : t.threshold \in Int,
           NEW r1 \in Nat, NEW r2 \in Nat
    PROVE  LET c == chosenThreshold(T, <<r1, r2>>)
           IN  /\ c \in T
               /\ \A u \in T :
                    IF within(<<r1, r2>>, c)
                    THEN within(<<r1, r2>>, u) => c.threshold <= u.threshold
                    ELSE ~within(<<r1, r2>>, u) /\ u.threshold <= c.threshold
<1> DEFINE ratio == <<r1, r2>>
           c == chosenThreshold(T, ratio)
           passed == {t \in T : \A u \in T : u.threshold >= t.threshold => within(ratio, u)}
           up == [t \in T |-> t.threshold]
           down == [t \in T |-> 0 - t.threshold]
<1>1. \A t \in T : up[t] = t.threshold /\ down[t] = 0 - t.threshold /\ t.threshold \in Int
  OBVIOUS
<1>2. \A t, u \in T : within(ratio, t) /\ t.threshold <= u.threshold => within(ratio, u)
  <2> SUFFICES ASSUME NEW t \in T, NEW u \in T, within(ratio, t), t.threshold <= u.threshold
               PROVE  within(ratio, u)
    OBVIOUS
  <2>1. 100 * r1 < (t.threshold + 1) * r2
    BY DEF within
  <2>2. \A a, b \in Int : \A n \in Nat : a <= b => a * n <= b * n
    OBVIOUS
  <2>3. (t.threshold + 1) * r2 <= (u.threshold + 1) * r2
    BY <1>1, <2>2
  <2>4. \A x, y, z \in Int : x < y /\ y <= z => x < z
    OBVIOUS
  <2>5. /\ 100 * r1 \in Int /\ (t.threshold + 1) * r2 \in Int
        /\ (u.threshold + 1) * r2 \in Int
    BY <1>1
  <2>6. 100 * r1 < (u.threshold + 1) * r2
    BY <2>1, <2>3, <2>4, <2>5
  <2> QED
    BY <2>6 DEF within
<1>3. \A t \in T : t \in passed <=> within(ratio, t)
  BY <1>1, <1>2
<1>4. passed \in SUBSET T /\ IsFiniteSet(passed)
  BY FS_Subset
<1>5. c = IF passed = {} THEN highest(T) ELSE lowest(passed)
  BY DEF chosenThreshold
<1> HIDE DEF passed, up, down, c, ratio
<1>6. CASE passed = {}
  <2>1. \E x \in T : \A y \in T : up[y] <= up[x]
    BY <1>1, HasHighest
  <2>2. \E x \in T : \A y \in T : y.threshold <= x.threshold
    BY <1>1, <2>1
  <2>3. c = CHOOSE t \in T : \A u \in T : u.threshold <= t.threshold
    BY <1>5, <1>6 DEF highest
  <2>4. c \in T /\ \A u \in T : u.threshold <= c.threshold
    BY <2>2, <2>3
  <2>5. \A u \in T : ~within(ratio, u)
    BY <1>3, <1>6
  <2> QED
    BY <2>4, <2>5 DEF c, ratio
<1>7. CASE passed # {}
  <2>1. \A x \in passed : down[x] \in Int
    BY <1>1, <1>4
  <2>2. \E x \in passed : \A y \in passed : down[y] <= down[x]
    BY <1>4, <1>7, <2>1, HasHighest
  <2>3. \E x \in passed : \A y \in passed : x.threshold <= y.threshold
    BY <1>1, <1>4, <2>2
  <2>4. c = CHOOSE t \in passed : \A u \in passed : t.threshold <= u.threshold
    BY <1>5, <1>7 DEF lowest
  <2>5. c \in passed /\ \A u \in passed : c.threshold <= u.threshold
    BY <2>3, <2>4
  <2>6. c \in T /\ within(ratio, c)
    BY <1>3, <1>4, <2>5
  <2>7. \A u \in T : within(ratio, u) => c.threshold <= u.threshold
    BY <1>3, <2>5
  <2> QED
    BY <2>6, <2>7 DEF c, ratio
<1> QED
  BY <1>6, <1>7

\* The zones of a list are finitely many, and so are the backends in any of them.
LEMMA ZonesFinite ==
    ASSUME NEW k \in Nat, NEW list, DOMAIN list = 1 .. k, NEW node
    PROVE  /\ IsFiniteSet(zonesOf(list, node)) /\ Cardinality(zonesOf(list, node)) \in Nat
           /\ \A zones : countIn(list, node, zones) \in Nat
<1> DEFINE D == 1 .. k
           zone == [i \in D |-> zoneOf(list[i].node, node)]
           Z == {zone[i] : i \in D}
<1>1. IsFiniteSet(D)
  BY FS_Interval
<1>2. zone \in Surjection(D, Z)
  BY DEF Surjection
<1>3. IsFiniteSet(Z)
  BY <1>1, <1>2, FS_Surjection
<1>4. zonesOf(list, node) \in SUBSET Z
  BY DEF zonesOf
<1>5. ASSUME NEW zones PROVE countIn(list, node, zones) \in Nat
  <2>1. {i \in D : zoneOf(list[i].node, node) \in zones} \in SUBSET D
    OBVIOUS
  <2>2. Cardinality({i \in D : zoneOf(list[i].node, node) \in zones}) \in Nat
    BY <1>1, <2>1, FS_Subset, FS_CardinalityType
  <2> QED
    BY <2>2 DEF countIn
<1> QED
  BY <1>3, <1>4, <1>5, FS_Subset, FS_CardinalityType

\* A local backend in a known zone, and any backend in another one: the ratio is not zero.
LEMMA RatioIsPositive ==
    ASSUME NEW k \in Nat, NEW list, DOMAIN list = 1 .. k, NEW node,
           currentZone(node) # NoZone, checkMultizone(list, node),
           NEW i \in DOMAIN list, isLocal(list[i], node)
    PROVE  calculateBackendRatio(list, node)[1] \in Nat \ {0}
<1> DEFINE here == currentZone(node)
           Z == zonesOf(list, node)
           L == {j \in DOMAIN list : zoneOf(list[j].node, node) \in Z \cap {here}}
<1>1. IsFiniteSet(Z) /\ Cardinality(Z) \in Nat
  BY ZonesFinite
<1>2. here \in Z
  BY DEF zonesOf, isLocal
<1>3. PICK z \in Z : z # here
  BY DEF checkMultizone
<1>4. Cardinality(Z) - 1 \in Nat \ {0}
  <2>1. Cardinality(Z) # 0
    BY <1>1, <1>2, FS_EmptySet
  <2>2. Cardinality(Z) # 1
    <3> SUFFICES ASSUME Cardinality(Z) = 1 PROVE FALSE
      OBVIOUS
    <3>1. PICK x : Z = {x}
      BY <1>1, FS_Singleton
    <3> QED
      BY <1>2, <1>3, <3>1
  <2> HIDE DEF Z
  <2> QED
    BY <1>1, <2>1, <2>2
<1>5. i \in L
  BY <1>2 DEF isLocal
<1>6. IsFiniteSet(L)
  <2>1. L \in SUBSET (1 .. k) /\ IsFiniteSet(1 .. k)
    BY FS_Interval
  <2> QED
    BY <2>1, FS_Subset
<1>7. Cardinality(L) \in Nat \ {0}
  BY <1>5, <1>6, FS_CardinalityType, FS_EmptySet
<1>8. calculateBackendRatio(list, node)[1] = Cardinality(L) * (Cardinality(Z) - 1)
  BY DEF calculateBackendRatio, countIn
<1>9. \A m, n \in Nat \ {0} : m * n \in Nat \ {0}
  OBVIOUS
<1> HIDE DEF L, Z
<1> QED
  BY <1>4, <1>7, <1>8, <1>9

\* The weights of a threshold are positive, as the webhook requires of those a user gives
\* (ValidateCreate and ValidateUpdate, varnishcluster_webhook.go).
WeightsAsValidated ==
    \A s \in Specs : s.balancing.type = "thresholds" =>
        \A t \in s.balancing.thresholds : t.local \in Nat \ {0} /\ t.remote \in Nat \ {0}

\* No pass gives a backend no weight.
LEMMA WeightsOfAPass ==
    ASSUME WeightsAsValidated, NEW state \in [Pods -> PodStates], NEW spec \in Specs,
           Distinct(state), currentZone(own) # NoZone,
           NEW order \in SetToSeqs(matching(state, spec)),
           NEW i \in DOMAIN renderedFrom(order, state, spec).list
    PROVE  renderedFrom(order, state, spec).list[i].weight[1] > 0
<1> DEFINE info == getPodsInfo(Listing(order, state), spec.port, spec.onlyReady)
           list == info.list
           k == Cardinality(Found(state, spec))
           T == spec.balancing.thresholds
           ratio == calculateBackendRatio(list, own)
           weights == IF checkMultizone(list, own)
                      THEN weightsFor(list, own, spec.balancing) ELSE <<One, One>>
           w == weights[IF isLocal(list[i], own) THEN 1 ELSE 2]
<1>1. /\ DOMAIN renderedFrom(order, state, spec).list = DOMAIN list
      /\ renderedFrom(order, state, spec).list[i].weight = w
  BY DEF renderedFrom, getBackendEndpoints, Listing
<1>2. k \in Nat /\ DOMAIN list = 1 .. k /\ i \in DOMAIN list
  <2>1. list = [n \in 1 .. k |-> list[n]]
    BY Canonical
  <2>2. k \in Nat
    BY FoundFinite, FS_CardinalityType
  <2> HIDE DEF list, k
  <2> QED
    BY <1>1, <2>1, <2>2
<1> HIDE DEF info, k
<1>3. CASE ~checkMultizone(list, own)
  BY <1>1, <1>3 DEF One
<1>4. CASE checkMultizone(list, own) /\ spec.balancing.type = "auto"
  <2>1. weights = <<<<10 * ratio[1], ratio[2]>>, One>>
    BY <1>4 DEF weightsFor
  <2>2. CASE isLocal(list[i], own)
    <3>1. ratio[1] \in Nat \ {0}
      BY <1>2, <1>4, <2>2, RatioIsPositive
    <3>2. w[1] = 10 * ratio[1]
      BY <2>1, <2>2
    <3> HIDE DEF ratio, w
    <3>3. 10 * ratio[1] > 0
      BY <3>1
    <3> QED
      BY <1>1, <3>2, <3>3
  <2>3. CASE ~isLocal(list[i], own)
    BY <1>1, <2>1, <2>3 DEF One
  <2> QED
    BY <2>2, <2>3
<1>5. CASE checkMultizone(list, own) /\ spec.balancing.type = "thresholds" /\ T # {}
  <2> DEFINE c == chosenThreshold(T, ratio)
             r1 == countIn(list, own, zonesOf(list, own) \cap {currentZone(own)})
                     * (Cardinality(zonesOf(list, own)) - 1)
             r2 == countIn(list, own, zonesOf(list, own) \ {currentZone(own)})
  <2>1. ratio = <<r1, r2>>
    BY DEF calculateBackendRatio
  <2>2. r1 \in Nat /\ r2 \in Nat
    <3>1. /\ Cardinality(zonesOf(list, own)) \in Nat /\ IsFiniteSet(zonesOf(list, own))
          /\ countIn(list, own, zonesOf(list, own) \cap {currentZone(own)}) \in Nat
          /\ r2 \in Nat
      BY <1>2, ZonesFinite
    <3>2. zonesOf(list, own) # {}
      BY <1>5 DEF checkMultizone
    <3>3. Cardinality(zonesOf(list, own)) - 1 \in Nat
      BY <3>1, <3>2, FS_EmptySet
    <3>4. \A m, n \in Nat : m * n \in Nat
      OBVIOUS
    <3> QED
      BY <3>1, <3>3, <3>4
  <2>3. IsFiniteSet(T) /\ \A t \in T : t.threshold \in Int
    BY SpecsAssumption
  <2> HIDE DEF r1, r2
  <2>4. c \in T
    BY <1>5, <2>1, <2>2, <2>3, Chosen
  <2>5. c.local \in Nat \ {0} /\ c.remote \in Nat \ {0}
    BY <1>5, <2>4 DEF WeightsAsValidated
  <2>6. weights = <<<<c.local, 1>>, <<c.remote, 1>>>>
    BY <1>5 DEF weightsFor
  <2> HIDE DEF c
  <2>7. w[1] = IF isLocal(list[i], own) THEN c.local ELSE c.remote
    BY <2>6
  <2> HIDE DEF w
  <2> QED
    BY <1>1, <2>5, <2>7
<1>6. CASE /\ checkMultizone(list, own) /\ spec.balancing.type # "auto"
           /\ ~(spec.balancing.type = "thresholds" /\ T # {})
  BY <1>1, <1>6 DEF weightsFor, One
<1> QED
  BY <1>3, <1>4, <1>5, <1>6

\* If the zone of the Varnish pod is known, the random director has requests for each
\* backend: getBackendEndpoints counts the backend it weighs, and divides by the zones
\* it found others in.
THEOREM EveryBackendHasWeight == WeightsAsValidated => (Spec => []NoBackendWithoutWeight)
<1> SUFFICES ASSUME WeightsAsValidated PROVE Spec => []NoBackendWithoutWeight
  OBVIOUS
<1>1. TypeOK /\ RenderInv => NoBackendWithoutWeight
  <2> SUFFICES ASSUME TypeOK, RenderInv, currentZone(own) # NoZone, NEW i \in DOMAIN rendered.list
               PROVE  rendered.list[i].weight[1] > 0
    BY DEF NoBackendWithoutWeight
  <2>1. rendered # NothingRendered
    BY DEF NothingRendered
  <2>2. PICK order \in SetToSeqs(matching(renderedFor.pods, renderedFor.spec)) :
            rendered = renderedFrom(order, renderedFor.pods, renderedFor.spec)
    BY <2>1 DEF RenderInv
  <2>3. renderedFor.pods \in [Pods -> PodStates] /\ renderedFor.spec \in Specs
    BY DEF TypeOK
  <2> QED
    BY <2>2, <2>3, WeightsOfAPass DEF RenderInv
<1> QED
  BY <1>1, Rendering, PTL

----------------------------------------------------------------------------
(* The threshold the weights are of *)

\* A pod a spec may select has one container at most with a matching port.
OnePortEach ==
    \A s \in Specs : \A p \in Pods : \A c, d \in DOMAIN Where[p].containers :
        /\ Where[p].ns \in namespacesOf(s)
        /\ 0 \notin {matchingPort(Where[p].containers[c], s.port),
                     matchingPort(Where[p].containers[d], s.port)}
        => c = d

\* A finite set and its image under a function that keeps its elements apart are of one size.
LEMMA SameImage ==
    ASSUME NEW A, IsFiniteSet(A), NEW f, \A x, y \in A : f[x] = f[y] => x = y
    PROVE  /\ IsFiniteSet({f[x] : x \in A})
           /\ Cardinality({f[x] : x \in A}) = Cardinality(A)
<1> DEFINE B == {f[x] : x \in A}
           g == [x \in A |-> f[x]]
<1>1. g \in Injection(A, B) /\ g \in Surjection(A, B)
  BY DEF Injection, IsInjective, Surjection
<1> HIDE DEF B, g
<1>2. IsFiniteSet(B) /\ Cardinality(B) = Cardinality(A)
  BY <1>1, FS_Surjection
<1> QED
  BY <1>2 DEF B

\* If each pod is one backend, the list and the pods that are its backends are paired off.
LEMMA OneBackendPerPod ==
    ASSUME OnePortEach, NEW state \in [Pods -> PodStates], NEW spec \in Specs, Distinct(state),
           NEW order \in SetToSeqs(matching(state, spec))
    PROVE  LET list == getPodsInfo(Listing(order, state), spec.port, spec.onlyReady).list
               k == Cardinality(Found(state, spec))
           IN  /\ k \in Nat /\ DOMAIN list = 1 .. k
               /\ \A i \in DOMAIN list : \E p \in Pods :
                    /\ state[p] # NoPod /\ state[p].ip # 0
                    /\ list[i].ip = state[p].ip /\ list[i].node = Where[p].node
               /\ \A i, j \in DOMAIN list : list[i].ip = list[j].ip => i = j
<1> DEFINE H == Found(state, spec)
           place == Place(state, spec)
           k == Cardinality(H)
           list == getPodsInfo(Listing(order, state), spec.port, spec.onlyReady).list
<1>1. /\ list = [n \in 1 .. k |-> list[n]]
      /\ \A h \in H : list[place[h]] = [ip |-> state[h[1]].ip, node |-> Where[h[1]].node]
  BY Canonical
<1>2. \A n \in 1 .. k : \E h \in H : place[h] = n
  BY FoundPlaces
<1>3. k \in Nat
  BY FoundFinite, FS_CardinalityType
<1>4. \A h \in H : /\ h = <<h[1], h[2]>> /\ h[1] \in Pods /\ state[h[1]] # NoPod
                   /\ state[h[1]].ip # 0
  BY FoundType
<1>5. ASSUME NEW g \in H, NEW h \in H, state[g[1]].ip = state[h[1]].ip
      PROVE  g = h
  <2>1. g[1] = h[1]
    BY <1>4, <1>5 DEF Distinct
  <2>2. /\ g[1] \in matching(state, spec)
        /\ g[2] \in DOMAIN Where[g[1]].containers
        /\ matchingPort(Where[g[1]].containers[g[2]], spec.port) # 0
    BY FoundType
  <2>3. /\ h[2] \in DOMAIN Where[g[1]].containers
        /\ matchingPort(Where[g[1]].containers[h[2]], spec.port) # 0
    BY <2>1, FoundType
  <2>4. Where[g[1]].ns \in namespacesOf(spec) /\ g[1] \in Pods
    BY <2>2 DEF matching
  <2>5. g[2] = h[2]
    BY <2>2, <2>3, <2>4 DEF OnePortEach
  <2> QED
    BY <1>4, <2>1, <2>5
<1> HIDE DEF H, place, k, list
<1>6. DOMAIN list = 1 .. k
  BY <1>1
<1>7. \A i \in DOMAIN list : \E h \in H : place[h] = i /\ list[i].ip = state[h[1]].ip
                                          /\ list[i].node = Where[h[1]].node
  <2> SUFFICES ASSUME NEW i \in DOMAIN list
               PROVE  \E h \in H : place[h] = i /\ list[i].ip = state[h[1]].ip
                                   /\ list[i].node = Where[h[1]].node
    OBVIOUS
  <2>1. PICK h \in H : place[h] = i
    BY <1>2, <1>6
  <2>2. list[i] = [ip |-> state[h[1]].ip, node |-> Where[h[1]].node]
    BY <1>1, <2>1
  <2> QED
    BY <2>1, <2>2
<1>8. \A i \in DOMAIN list : \E p \in Pods :
            /\ state[p] # NoPod /\ state[p].ip # 0
            /\ list[i].ip = state[p].ip /\ list[i].node = Where[p].node
  BY <1>4, <1>7
<1>9. \A i, j \in DOMAIN list : list[i].ip = list[j].ip => i = j
  BY <1>5, <1>7
<1> QED
  BY <1>3, <1>6, <1>8, <1>9 DEF H, k, list

\* The addresses of the backends of a list in the zone of a node, and of the others.
nearIPs(list, node) == {list[i].ip : i \in {j \in DOMAIN list : isLocal(list[j], node)}}
\* The addresses of the backends that are not local.
farIPs(list, node) == {list[i].ip : i \in {j \in DOMAIN list : ~isLocal(list[j], node)}}

\* The pods that have some addresses and are in a known zone, and their zones.
knownPods(state, ips, node) ==
    {p \in Pods : /\ state[p] # NoPod
                  /\ state[p].ip \in ips
                  /\ zoneOf(Where[p].node, node) # NoZone}
\* The zones of the pods that are known.
zonesOfPods(known, node) == {zoneOf(Where[p].node, node) : p \in known}

\* The addresses of the local backends of a rendering.
localOf(out) == {out.list[i].ip : i \in {j \in DOMAIN out.list : out.list[j].local}}
\* The addresses of the remote backends of a rendering.
remoteOf(out) == {out.list[i].ip : i \in {j \in DOMAIN out.list : ~out.list[j].local}}

\* What the property counts among the pods is what the code counts in its list.
LEMMA SameCounts ==
    ASSUME NEW state \in [Pods -> PodStates], Distinct(state), NEW node,
           NEW k \in Nat, NEW list, DOMAIN list = 1 .. k,
           \A i \in DOMAIN list : \E p \in Pods :
                /\ state[p] # NoPod /\ state[p].ip # 0
                /\ list[i].ip = state[p].ip /\ list[i].node = Where[p].node,
           \A i, j \in DOMAIN list : list[i].ip = list[j].ip => i = j
    PROVE  LET near == nearIPs(list, node)
               known == knownPods(state, farIPs(list, node), node)
               here == currentZone(node)
               Z == zonesOf(list, node)
           IN  /\ here # NoZone => Cardinality(near) = countIn(list, node, Z \cap {here})
               /\ here # NoZone /\ near # {} => here \in Z
               /\ Cardinality(known) = countIn(list, node, Z \ {here})
               /\ zonesOfPods(known, node) = Z \ {here}
               /\ IsFiniteSet(near)
<1> DEFINE zone(i) == zoneOf(list[i].node, node)
           near == {list[i].ip : i \in {j \in DOMAIN list : isLocal(list[j], node)}}
           far == {list[i].ip : i \in {j \in DOMAIN list : ~isLocal(list[j], node)}}
           known == {p \in Pods : /\ state[p] # NoPod
                                  /\ state[p].ip \in far
                                  /\ zoneOf(Where[p].node, node) # NoZone}
           here == currentZone(node)
           Z == zonesOf(list, node)
           A == {i \in DOMAIN list : zone(i) \in Z \cap {here}}
           B == {i \in DOMAIN list : zone(i) \in Z \ {here}}
           podAt == [i \in B |-> CHOOSE p \in Pods :
                        /\ state[p] # NoPod /\ state[p].ip # 0
                        /\ list[i].ip = state[p].ip /\ list[i].node = Where[p].node]
<1>1. \A i \in DOMAIN list : zone(i) \in Z <=> zone(i) # NoZone
  BY DEF zonesOf
<1>2. \A i \in DOMAIN list : isLocal(list[i], node) <=> zone(i) = here
  BY DEF isLocal
<1>3. \A i : i \in A <=> i \in DOMAIN list /\ zone(i) = here /\ here # NoZone
  BY <1>1
<1>4. \A i : i \in B <=> i \in DOMAIN list /\ zone(i) # here /\ zone(i) # NoZone
  BY <1>1
<1>5. IsFiniteSet(A) /\ IsFiniteSet(B)
  <2>1. A \in SUBSET (1 .. k) /\ B \in SUBSET (1 .. k) /\ IsFiniteSet(1 .. k)
    BY FS_Interval
  <2> HIDE DEF A, B
  <2> QED
    BY <2>1, FS_Subset
<1>6. ASSUME here # NoZone
      PROVE  Cardinality(near) = Cardinality(A)
  <2> DEFINE f == [i \in A |-> list[i].ip]
  <2>1. near = {list[i].ip : i \in A}
    BY <1>2, <1>3, <1>6
  <2>2. \A x, y \in A : f[x] = f[y] => x = y
    BY <1>3
  <2> HIDE DEF near, A
  <2>3. near = {f[i] : i \in A}
    BY <2>1
  <2>4. IsFiniteSet(A)
    BY <1>5
  <2> HIDE DEF f
  <2> QED
    BY <2>2, <2>3, <2>4, SameImage
<1>7. \A i \in B : /\ podAt[i] \in Pods /\ state[podAt[i]] # NoPod /\ state[podAt[i]].ip # 0
                   /\ list[i].ip = state[podAt[i]].ip /\ list[i].node = Where[podAt[i]].node
  <2> SUFFICES ASSUME NEW i \in B
               PROVE  /\ podAt[i] \in Pods /\ state[podAt[i]] # NoPod
                      /\ state[podAt[i]].ip # 0
                      /\ list[i].ip = state[podAt[i]].ip
                      /\ list[i].node = Where[podAt[i]].node
    OBVIOUS
  <2>1. \E p \in Pods :
            /\ state[p] # NoPod /\ state[p].ip # 0
            /\ list[i].ip = state[p].ip /\ list[i].node = Where[p].node
    OBVIOUS
  <2> HIDE DEF B
  <2> QED
    BY <2>1
<1>8. DOMAIN podAt = B /\ podAt = [i \in B |-> podAt[i]]
  OBVIOUS
<1> HIDE DEF podAt
<1>9. \A p : p \in known <=> \E i \in B : podAt[i] = p
  <2>1. ASSUME NEW i \in B PROVE podAt[i] \in known
    <3>1. i \in DOMAIN list /\ zone(i) # here /\ zone(i) # NoZone
      BY <1>4
    <3>2. list[i].ip \in far
      BY <1>2, <3>1
    <3> HIDE DEF far
    <3>3. zoneOf(Where[podAt[i]].node, node) = zone(i)
      BY <1>7
    <3> QED
      BY <1>7, <3>1, <3>2, <3>3
  <2>2. ASSUME NEW p \in known PROVE \E i \in B : podAt[i] = p
    <3>1. PICK i \in DOMAIN list : ~isLocal(list[i], node) /\ list[i].ip = state[p].ip
      OBVIOUS
    <3>2. PICK q \in Pods : /\ state[q] # NoPod /\ state[q].ip # 0
                            /\ list[i].ip = state[q].ip /\ list[i].node = Where[q].node
      OBVIOUS
    <3>3. p = q
      BY <3>1, <3>2 DEF Distinct
    <3>4. zone(i) # NoZone /\ zone(i) # here
      BY <1>2, <3>1, <3>2, <3>3
    <3>5. i \in B
      BY <1>4, <3>4
    <3>6. podAt[i] = p
      BY <1>7, <3>2, <3>3, <3>5 DEF Distinct
    <3> QED
      BY <3>5, <3>6
  <2> QED
    BY <2>1, <2>2
<1> HIDE DEF A, B, known, near, far
<1>10. \A i, j \in B : podAt[i] = podAt[j] => i = j
  BY <1>4, <1>7
<1>11. Cardinality(known) = Cardinality(B)
  <2>1. known = {podAt[i] : i \in B}
    BY <1>9
  <2>2. IsFiniteSet(B)
    BY <1>5
  <2> QED
    BY <1>10, <2>1, <2>2, SameImage
<1>12. {zoneOf(Where[p].node, node) : p \in known} = Z \ {here}
  <2>1. \A i \in B : zoneOf(Where[podAt[i]].node, node) = zone(i)
    BY <1>7
  <2>2. \A z : z \in Z \ {here} <=> \E i \in B : zone(i) = z
    BY <1>4 DEF zonesOf
  <2> HIDE DEF Z, here
  <2> QED
    BY <1>9, <2>1, <2>2
<1>13. here # NoZone /\ near # {} => here \in Z
  BY <1>1, <1>2 DEF near
<1>14. IsFiniteSet(near)
  <2> DEFINE N == {j \in DOMAIN list : isLocal(list[j], node)}
             f == [j \in N |-> list[j].ip]
  <2>1. N \in SUBSET (1 .. k) /\ IsFiniteSet(1 .. k)
    BY FS_Interval
  <2>2. f \in Surjection(N, near)
    BY DEF Surjection, near
  <2> HIDE DEF N, f
  <2> QED
    BY <2>1, <2>2, FS_Subset, FS_Surjection
<1> QED
  BY <1>6, <1>11, <1>12, <1>13, <1>14 
  DEF A, B, near, far, known, countIn, nearIPs, farIPs, knownPods, zonesOfPods

\* How many local backends the ratio counts: none, if their zone is not known.
counted(ips, node) == IF currentZone(node) = NoZone THEN 0 ELSE Cardinality(ips)

\* The weight of local backends, of which n are counted, and as many as m remote ones in z
\* zones.
localWeight(balancing, n, z, m) ==
    IF m = 0 THEN One
    ELSE IF balancing.type = "auto" THEN <<10 * (n * z), m>>
    ELSE IF balancing.type = "thresholds" /\ balancing.thresholds # {}
         THEN <<chosenThreshold(balancing.thresholds, <<n * z, m>>).local, 1>>
    ELSE One

\* The local backends of a pass have one weight, which only depends on how many addresses
\* they have, on the pods behind the remote ones in a known zone, and on their zones.
LEMMA LocalWeight ==
    ASSUME OnePortEach, NEW state \in [Pods -> PodStates], NEW spec \in Specs, Distinct(state),
           NEW order \in SetToSeqs(matching(state, spec)),
           NEW out, out = renderedFrom(order, state, spec)
    PROVE  LET near == localOf(out)
               far == remoteOf(out)
               known == knownPods(state, far, own)
               zones == zonesOfPods(known, own)
               n == counted(near, own)
               m == Cardinality(known)
               z == Cardinality(zones)
           IN  /\ IsFiniteSet(near) /\ n \in Nat /\ m \in Nat /\ z \in Nat
               /\ \A i \in DOMAIN out.list : out.list[i].local =>
                    out.list[i].weight = localWeight(spec.balancing, n, z, m)
<1> DEFINE near == localOf(out)
           far == remoteOf(out)
           known == knownPods(state, far, own)
           zones == zonesOfPods(known, own)
           here == currentZone(own)
           n == counted(near, own)
           m == Cardinality(known)
           z == Cardinality(zones)
           list == getPodsInfo(Listing(order, state), spec.port, spec.onlyReady).list
           k == Cardinality(Found(state, spec))
           ratio == calculateBackendRatio(list, own)
           Z == zonesOf(list, own)
           weights == IF checkMultizone(list, own)
                      THEN weightsFor(list, own, spec.balancing) ELSE <<One, One>>
<1>1. /\ k \in Nat /\ DOMAIN list = 1 .. k
      /\ \A i \in DOMAIN list : \E p \in Pods :
           /\ state[p] # NoPod /\ state[p].ip # 0
           /\ list[i].ip = state[p].ip /\ list[i].node = Where[p].node
      /\ \A i, j \in DOMAIN list : list[i].ip = list[j].ip => i = j
  BY OneBackendPerPod
<1>2. /\ DOMAIN out.list = DOMAIN list
      /\ \A i \in DOMAIN list :
           /\ out.list[i].ip = list[i].ip
           /\ out.list[i].local = isLocal(list[i], own)
           /\ out.list[i].weight = weights[IF isLocal(list[i], own) THEN 1 ELSE 2]
  BY DEF renderedFrom, getBackendEndpoints, Listing
<1> HIDE DEF list, k, weights
<1>3. near = nearIPs(list, own) /\ far = farIPs(list, own)
  BY <1>2 DEF nearIPs, farIPs, localOf, remoteOf
<1> HIDE DEF near, far
<1>4. /\ here # NoZone => Cardinality(nearIPs(list, own)) = countIn(list, own, Z \cap {here})
      /\ here # NoZone /\ nearIPs(list, own) # {} => here \in Z
      /\ Cardinality(knownPods(state, farIPs(list, own), own)) = countIn(list, own, Z \ {here})
      /\ zonesOfPods(knownPods(state, farIPs(list, own), own), own) = Z \ {here}
      /\ IsFiniteSet(nearIPs(list, own))
  BY <1>1, SameCounts
<1>5. /\ here # NoZone => Cardinality(near) = countIn(list, own, Z \cap {here})
      /\ here # NoZone /\ near # {} => here \in Z
      /\ Cardinality(known) = countIn(list, own, Z \ {here})
      /\ zonesOfPods(known, own) = Z \ {here}
      /\ IsFiniteSet(near)
  BY <1>3, <1>4
<1>6. /\ IsFiniteSet(Z) /\ Cardinality(Z) \in Nat
      /\ \A zs : countIn(list, own, zs) \in Nat
  BY <1>1, ZonesFinite
<1>7. zones = Z \ {here}
  BY <1>5
<1>8. checkMultizone(list, own) <=> m # 0
  <2>1. checkMultizone(list, own) <=> Z \ {here} # {}
    BY DEF checkMultizone
  <2>2. zones # {} <=> known # {}
    BY DEF zonesOfPods
  <2>3. known \in SUBSET Pods
    BY DEF knownPods
  <2>4. known # {} <=> m # 0
    BY <2>3, PodsAssumption, FS_Subset, FS_EmptySet
  <2> QED
    BY <1>7, <2>1, <2>2, <2>4
<1> HIDE DEF known
<1>9. IsFiniteSet(near) /\ n \in Nat /\ m \in Nat
  BY <1>5, <1>6, FS_CardinalityType DEF counted
<1>10. z \in Nat /\ (here \in Z => z = Cardinality(Z) - 1)
  <2> HIDE DEF Z, here, zones
  <2>1. IsFiniteSet(zones) /\ (here \in Z => z = Cardinality(Z) - 1)
    BY <1>6, <1>7, FS_RemoveElement
  <2> QED
    BY <2>1, FS_CardinalityType
<1> HIDE DEF zones
<1>11. ratio = <<countIn(list, own, Z \cap {here}) * (Cardinality(Z) - 1), m>>
  BY <1>5 DEF calculateBackendRatio
<1>12. near # {} => ratio = <<n * z, m>>
  <2>1. CASE here = NoZone
    <3>1. Z \cap {here} = {}
      BY <2>1 DEF zonesOf
    <3>2. countIn(list, own, {}) = 0
      BY FS_EmptySet DEF countIn
    <3>3. \A c \in Int : 0 * c = 0
      OBVIOUS
    <3>4. n = 0 /\ Cardinality(Z) - 1 \in Int
      BY <1>6, <2>1 DEF counted
    <3> HIDE DEF n, z, Z, here
    <3>5. n * z = 0
      BY <1>10, <3>3, <3>4
    <3>6. countIn(list, own, Z \cap {here}) * (Cardinality(Z) - 1) = 0
      BY <3>1, <3>2, <3>3, <3>4
    <3> QED
      BY <1>11, <3>5, <3>6
  <2>2. CASE here # NoZone /\ near # {}
    BY <1>5, <1>10, <1>11, <2>2 DEF counted
  <2> QED
    BY <2>1, <2>2
<1> HIDE DEF n, m, z, ratio, Z
<1>13. ASSUME NEW i \in DOMAIN out.list, out.list[i].local
       PROVE  out.list[i].weight = localWeight(spec.balancing, n, z, m)
  <2>1. near # {} /\ out.list[i].weight = weights[1]
    BY <1>2, <1>13 DEF near, localOf
  <2>2. ratio = <<n * z, m>>
    BY <1>12, <2>1
  <2>3. CASE m = 0
    BY <1>8, <2>1, <2>3 DEF weights, localWeight
  <2>4. CASE m # 0
    <3>1. weights = weightsFor(list, own, spec.balancing)
      BY <1>8, <2>4 DEF weights
    <3> QED
      BY <2>1, <2>2, <2>4, <3>1 DEF weightsFor, ratio, localWeight, One
  <2> QED
    BY <2>3, <2>4
<1> QED
  BY <1>9, <1>10, <1>13 DEF near, far, known, zones, n, m, z

\* If each pod is one backend and the zone of the Varnish pod is known, the weights are
\* those of the threshold the documentation says: getBackendEndpoints takes the thresholds
\* from the highest down, and what it counts in its list are these pods.
THEOREM WeightsFollowThresholds ==
    OnePortEach => (Spec => [](currentZone(own) # NoZone => TightestThreshold))
<1> SUFFICES ASSUME OnePortEach
             PROVE  Spec => [](currentZone(own) # NoZone => TightestThreshold)
  OBVIOUS
<1>1. ASSUME TypeOK, RenderInv, currentZone(own) # NoZone
      PROVE  TightestThreshold
  <2> DEFINE state == renderedFor.pods
             spec == renderedFor.spec
             T == spec.balancing.thresholds
             known == knownPods(state, remoteIPs, own)
             n == Cardinality(localIPs)
             m == Cardinality(known)
             z == Cardinality(zonesOfPods(known, own))
             fits(t) == 100 * n * z < (t.threshold + 1) * m
             c == chosenThreshold(T, <<n * z, m>>)
  <2> SUFFICES ASSUME spec.balancing.type = "thresholds", T # {}, localIPs # {}, known # {}
               PROVE  \E t \in T :
                        /\ localWeights = {<<t.local, 1>>}
                        /\ \A u \in T :
                            IF fits(t) THEN fits(u) => t.threshold <= u.threshold
                            ELSE ~fits(u) /\ u.threshold <= t.threshold
    BY DEF TightestThreshold, knownPods, zonesOfPods
  <2>1. state \in [Pods -> PodStates] /\ spec \in Specs /\ Distinct(state)
    BY <1>1 DEF TypeOK, RenderInv
  <2>2. rendered # NothingRendered
    BY DEF localIPs, NothingRendered
  <2>3. PICK order \in SetToSeqs(matching(state, spec)) : rendered = renderedFrom(order, state, spec)
    BY <1>1, <2>2 DEF RenderInv
  <2>4. /\ n \in Nat /\ m \in Nat /\ z \in Nat
        /\ \A i \in DOMAIN rendered.list : rendered.list[i].local =>
                rendered.list[i].weight = localWeight(spec.balancing, n, z, m)
        /\ m # 0
    <3>1. localIPs = localOf(rendered) /\ remoteIPs = remoteOf(rendered)
      BY DEF localIPs, remoteIPs, localOf, remoteOf
    <3>2. counted(localIPs, own) = n
      BY <1>1 DEF counted
    <3>3. known \in SUBSET Pods
      BY DEF knownPods
    <3>4. m # 0
      BY <3>3, PodsAssumption, FS_Subset, FS_EmptySet
    <3> QED
      BY <2>1, <2>3, <3>1, <3>2, <3>4, LocalWeight
  <2> HIDE DEF n, m, z, known
  <2>weight. localWeight(spec.balancing, n, z, m) = <<c.local, 1>>
    BY <2>4 DEF localWeight
  <2> HIDE DEF T
  <2>5. localWeights = {<<c.local, 1>>}
    <3>1. PICK i \in DOMAIN rendered.list : rendered.list[i].local
      BY DEF localIPs
    <3> HIDE DEF c
    <3> QED
      BY <2>4, <2>weight, <3>1 DEF localWeights
  <2>6. n * z \in Nat /\ 100 * n * z = 100 * (n * z)
    <3>1. \A a, b \in Nat : a * b \in Nat /\ 100 * a * b = 100 * (a * b)
      OBVIOUS
    <3> QED
      BY <2>4, <3>1
  <2>7. \A t : fits(t) <=> within(<<n * z, m>>, t)
    BY <2>6 DEF within
  <2>8. IsFiniteSet(T) /\ \A t \in T : t.threshold \in Int
    BY <2>1, SpecsAssumption DEF T
  <2>9. /\ c \in T
        /\ \A u \in T :
            IF within(<<n * z, m>>, c) THEN within(<<n * z, m>>, u) => c.threshold <= u.threshold
            ELSE ~within(<<n * z, m>>, u) /\ u.threshold <= c.threshold
    BY <2>4, <2>6, <2>8, Chosen
  <2> HIDE DEF c, fits
  <2> QED
    BY <2>5, <2>7, <2>9
<1>2. TypeOK /\ RenderInv => (currentZone(own) # NoZone => TightestThreshold)
  BY <1>1
<1> QED
  BY <1>2, Rendering, PTL

\* The node of the Varnish pod stays.
LEMMA OwnStays == [Next]_vars => own' = own
<1> SUFFICES ASSUME [Next]_vars PROVE own' = own
  OBVIOUS
<1> USE DEF clusterVars
<1>1. CASE \E p \in Pods : PodChanges(p)
  BY <1>1 DEF PodChanges, CreatePod, AddressPod, ReadinessChanges, EvictPod, RelabelPod,
     DeletePod, PodBecomes
<1>2. CASE EditSpec \/ VarnishStarts \/ VarnishStops \/ ListAndRender \/ UNCHANGED vars
  BY <1>2 DEF EditSpec, VarnishStarts, VarnishStops, ListAndRender, vars
<1>3. CASE ProcessFails \/ PassFails \/ PingTimesOut
  BY <1>3 DEF ProcessFails, PassFails, PingTimesOut, ProcessEnds
<1>4. CASE StartProcess \/ PingAnswered \/ StartManager
  BY <1>4 DEF StartProcess, PingAnswered, StartManager
<1>5. CASE DeliverEvent \/ StartPass \/ SetPredicates
  BY <1>5 DEF DeliverEvent, StartPass, SetPredicates
<1> QED
  BY <1>1, <1>2, <1>3, <1>4, <1>5 DEF Next, Runs

\* With automatic balancing, what the weight of the local backends of a rendering is.
LEMMA AutoWeight ==
    ASSUME OnePortEach, NEW state \in [Pods -> PodStates], NEW spec \in Specs, Distinct(state),
           spec.balancing.type = "auto", NEW out,
           out # NothingRendered =>
                \E order \in SetToSeqs(matching(state, spec)) : out = renderedFrom(order, state, spec),
           NEW i \in DOMAIN out.list, out.list[i].local
    PROVE  LET known == knownPods(state, remoteOf(out), own)
               n == counted(localOf(out), own)
               m == Cardinality(known)
               z == Cardinality(zonesOfPods(known, own))
           IN  /\ IsFiniteSet(localOf(out)) /\ n \in Nat /\ m \in Nat /\ z \in Nat
               /\ out.list[i].weight = IF m = 0 THEN <<1, 1>> ELSE <<10 * (n * z), m>>
<1> DEFINE known == knownPods(state, remoteOf(out), own)
           n == counted(localOf(out), own)
           m == Cardinality(known)
           z == Cardinality(zonesOfPods(known, own))
<1>1. out # NothingRendered
  BY DEF NothingRendered
<1>2. PICK order \in SetToSeqs(matching(state, spec)) : out = renderedFrom(order, state, spec)
  BY <1>1
<1>3. n \in Nat /\ m \in Nat /\ z \in Nat
  BY <1>2, LocalWeight
<1>4. IsFiniteSet(localOf(out))
  BY <1>2, LocalWeight
<1>5. \A j \in DOMAIN out.list : out.list[j].local =>
            out.list[j].weight = localWeight(spec.balancing, n, z, m)
  BY <1>2, LocalWeight
<1> HIDE DEF n, m, z
<1>6. localWeight(spec.balancing, n, z, m) = IF m = 0 THEN <<1, 1>> ELSE <<10 * (n * z), m>>
  BY DEF localWeight, One
<1> QED
  BY <1>3, <1>4, <1>5, <1>6 DEF n, m, z

\* With fewer local backends and the same remote ones the weight is not higher.
LEMMA FewerWeighLess ==
    ASSUME NEW n1 \in Nat, NEW n2 \in Nat, n2 <= n1, NEW m \in Nat, NEW z \in Nat
    PROVE  LET w(n) == IF m = 0 THEN <<1, 1>> ELSE <<10 * (n * z), m>>
           IN  w(n2)[1] * w(n1)[2] <= w(n1)[1] * w(n2)[2]
<1>1. \A a, b, c \in Nat : a <= b => a * c <= b * c
  OBVIOUS
<1>2. \A a, b \in Nat : a * b \in Nat
  OBVIOUS
<1>3. n2 * z \in Nat /\ n1 * z \in Nat /\ n2 * z <= n1 * z
  BY <1>1, <1>2
<1>4. /\ 10 * (n2 * z) \in Nat /\ 10 * (n1 * z) \in Nat
      /\ 10 * (n2 * z) <= 10 * (n1 * z)
  BY <1>3
<1>5. (10 * (n2 * z)) * m <= (10 * (n1 * z)) * m
  BY <1>1, <1>4
<1> QED
  BY <1>5

\* If each pod is one backend, losing local backends never raises the weight of those that
\* are left: the ratio in calculateBackendRatio grows with the local ones only.
THEOREM LossIsNoHotspot == OnePortEach => (Spec => NoHotspot)
<1> SUFFICES ASSUME OnePortEach PROVE Spec => NoHotspot
  OBVIOUS
<1> DEFINE Inv == TypeOK /\ RenderInv
<1>1. ASSUME Inv, Inv', [Next]_vars,
             renderedFor'.spec = renderedFor.spec, renderedFor.spec.balancing.type = "auto",
             remotePods' = remotePods, localIPs' \subseteq localIPs,
             NEW w \in localWeights, NEW v \in localWeights'
      PROVE  v[1] * w[2] <= w[1] * v[2]
  <2> DEFINE spec == renderedFor.spec
             state1 == renderedFor.pods
             state2 == renderedFor'.pods
             out1 == rendered
             out2 == rendered'
             known1 == knownPods(state1, remoteOf(out1), own)
             known2 == knownPods(state2, remoteOf(out2), own)
             n1 == counted(localOf(out1), own)
             n2 == counted(localOf(out2), own)
             m == Cardinality(known1)
             z == Cardinality(zonesOfPods(known1, own))
  <2>1. own' = own
    BY <1>1, OwnStays
  <2>2. /\ spec \in Specs /\ Distinct(state1) /\ Distinct(state2)
        /\ state1 \in [Pods -> PodStates] /\ state2 \in [Pods -> PodStates]
    BY <1>1 DEF TypeOK, RenderInv, Distinct
  <2>3. out1 # NothingRendered =>
            \E order \in SetToSeqs(matching(state1, spec)) : out1 = renderedFrom(order, state1, spec)
    BY <1>1 DEF RenderInv
  <2>4. out2 # NothingRendered =>
            \E order \in SetToSeqs(matching(state2, spec)) : out2 = renderedFrom(order, state2, spec)
    BY <1>1, <2>1 DEF RenderInv, renderedFrom, matching, namespacesOf, NothingRendered
  <2>5. PICK i \in DOMAIN out1.list : out1.list[i].local /\ w = out1.list[i].weight
    BY <1>1 DEF localWeights
  <2>6. PICK j \in DOMAIN out2.list : out2.list[j].local /\ v = out2.list[j].weight
    BY <1>1 DEF localWeights
  <2>7. known1 = {p \in remotePods : zoneOf(Where[p].node, own) # NoZone}
    BY DEF knownPods, remotePods, remoteIPs, remoteOf
  <2>8. known2 = {p \in remotePods' : zoneOf(Where[p].node, own) # NoZone}
    BY <2>1 DEF knownPods, remotePods, remoteIPs, remoteOf
  <2>9. known1 = known2
    BY <1>1, <2>7, <2>8
  <2>10. localOf(out2) \subseteq localOf(out1)
    BY <1>1 DEF localIPs, localOf
  <2> HIDE DEF spec, state1, state2, out1, out2
  <2>11. spec.balancing.type = "auto"
    BY <1>1 DEF spec
  <2>12. /\ IsFiniteSet(localOf(out1)) /\ n1 \in Nat /\ m \in Nat /\ z \in Nat
         /\ w = IF m = 0 THEN <<1, 1>> ELSE <<10 * (n1 * z), m>>
    BY <2>2, <2>3, <2>5, <2>11, AutoWeight
  <2>13. /\ IsFiniteSet(localOf(out2)) /\ n2 \in Nat
         /\ v = IF m = 0 THEN <<1, 1>> ELSE <<10 * (n2 * z), m>>
    BY <2>2, <2>4, <2>6, <2>9, <2>11, AutoWeight
  <2>14. n2 <= n1
    BY <2>10, <2>12, FS_Subset DEF counted
  <2> HIDE DEF n1, n2, m, z
  <2> QED
    BY <2>12, <2>13, <2>14, FewerWeighLess
<1>2. Inv /\ Inv' /\ [Next]_vars =>
        [/\ renderedFor'.spec = renderedFor.spec
         /\ renderedFor.spec.balancing.type = "auto"
         /\ remotePods' = remotePods
         /\ localIPs' \subseteq localIPs
         => \A w \in localWeights, v \in localWeights' : v[1] * w[2] <= w[1] * v[2]]_vars
  BY <1>1
<1>3. Spec => []Inv
  BY Rendering
<1> QED
  BY <1>2, <1>3, PTL DEF Spec, NoHotspot
=============================================================================
