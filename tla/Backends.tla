------------------------------ MODULE Backends ------------------------------
(***************************************************************************)
(* How a Varnish controller learns of backends: the start of the process   *)
(* (cmd/varnish-controller/main.go, Ping), the predicates that decide      *)
(* which pod events queue a request (pkg/varnishcontroller/predicates),    *)
(* and the part of a pass that points the predicates at the present spec   *)
(* and lists the pods (controller.go, endpoints.go).                       *)
(*                                                                         *)
(* pods and vc are what the informers' caches hold; an event reaches the   *)
(* predicates some time after the cache has changed.  What happens to the  *)
(* rendered backends afterwards is the subject of VarnishController.       *)
(***************************************************************************)
EXTENDS BackendEndpoints, FiniteSets

CONSTANTS
    Pods,         \* pods that may be backends
    Namespaces,   \* namespaces
    Own,          \* the namespace of the Varnish pod
    Labels,       \* what a pod may be labelled with
    Everything,   \* the empty selector
    Where,        \* pod -> [ns, node, containers], which do not change
    OwnNodes,     \* nodes the Varnish pod may run on
    Specs,        \* spec.backend: [namespaces, selector, port, onlyReady, balancing]
    IPs,          \* addresses, positive and ordered
    Initial,      \* how things may be at first: [own, vc, pods]
    NoPod,        \* there is no such pod
    MaxEvents,    \* bound: events on their way
    MaxChanges,   \* bound: changes of pods and of the spec
    MaxFaults     \* bound: crashes, failing calls, stops of varnishd

PodStates == [label : Labels, ip : IPs \cup {0}, ready : BOOLEAN] \cup {NoPod}

ASSUME PodsAssumption ==
    /\ IsFiniteSet(Pods)
    /\ NoPod \notin [label : Labels, ip : IPs \cup {0}, ready : BOOLEAN]
    /\ Own \in Namespaces
    /\ \A p \in Pods :
        /\ Where[p].ns \in Namespaces
        /\ Where[p].containers \in Seq(Range(Where[p].containers))
    /\ Initial \subseteq [own : OwnNodes, vc : Specs, pods : [Pods -> PodStates]]
    /\ IPs \subseteq Nat \ {0}
    /\ Everything \notin Labels

\* An address is one pod's.
ASSUME AddressesAssumption ==
    \A i \in Initial : \A p, q \in Pods :
        NoPod \notin {i.pods[p], i.pods[q]} /\ i.pods[p].ip = i.pods[q].ip /\ i.pods[p].ip # 0
            => p = q

ASSUME SpecsAssumption ==
    \A s \in Specs :
        /\ s.namespaces \subseteq Namespaces
        /\ s.selector \in Labels
        /\ IsFiniteSet(s.balancing.thresholds)
        /\ \A t \in s.balancing.thresholds : t.threshold \in Int

ASSUME BoundsAssumption == MaxEvents \in Nat /\ MaxChanges \in Nat /\ MaxFaults \in Nat

VARIABLES
    own,         \* the node of the Varnish pod
    vc,          \* spec.backend of the VarnishCluster
    pods,        \* pod -> its state
    varnishd,    \* varnishd answers
    proc,        \* the process: "down", "ping" or "up"
    answered,    \* Ping's goroutine got an answer and has ended
    events,      \* pod events that have not reached the predicates
    predNs,      \* namespaces of the backends' predicate
    predLabel,   \* selector of the backends' predicate
    queue,       \* requests: "vc", "pod"
    pc,          \* where the pass is
    inst,        \* the spec the pass works with
    rendered,    \* the backends last rendered
    \* history: the spec and the pods they were rendered for, and the pods that were
    \* relabelled since
    renderedFor, relabelled,
    changes, faults   \* bounds

clusterVars == <<own, vc, pods>>
procVars == <<varnishd, proc, answered>>
predVars == <<predNs, predLabel>>
passVars == <<pc, inst>>
outVars == <<rendered, renderedFor, relabelled>>
vars == <<clusterVars, procVars, events, predVars, queue, passVars, outVars, changes, faults>>

----------------------------------------------------------------------------

namespacesOf(spec) == IF spec.namespaces = {} THEN {Own} ELSE spec.namespaces

\* The pods List finds in the namespaces, by the selector.
matching(state, spec) ==
    {p \in Pods : /\ state[p] # NoPod
                  /\ Where[p].ns \in namespacesOf(spec)
                  /\ state[p].label = spec.selector}

\* A pod as getPodsInfo sees it.
listedPod(p, state) ==
    [ip |-> state[p].ip, ready |-> state[p].ready,
     node |-> Where[p].node, containers |-> Where[p].containers]

\* What a pass makes of pods listed in an order.
renderedFrom(order, state, spec) ==
    getBackendEndpoints([i \in DOMAIN order |-> listedPod(order[i], state)], spec, own)

NothingRendered == [port |-> 0, list |-> <<>>]

Init ==
    /\ \E i \in Initial : own = i.own /\ vc = i.vc /\ pods = i.pods
    /\ varnishd = FALSE
    /\ proc = "down"
    /\ answered = FALSE
    /\ events = <<>>
    /\ predNs = {Own}
    /\ predLabel = Everything
    /\ queue = {}
    /\ pc = "idle"
    /\ inst = vc
    /\ rendered = NothingRendered
    /\ renderedFor = [spec |-> vc, pods |-> [p \in Pods |-> NoPod]]
    /\ relabelled = {}
    /\ changes = 0
    /\ faults = 0

----------------------------------------------------------------------------
(* The cluster *)

\* A pod changes; a running informer passes it on.
PodBecomes(p, state) ==
    /\ changes < MaxChanges
    /\ changes' = changes + 1
    /\ pods' = [pods EXCEPT ![p] = state]
    /\ proc = "up" => Len(events) < MaxEvents
    /\ events' = IF proc = "up"
                 THEN Append(events, [pod |-> p, old |-> pods[p], new |-> state]) ELSE events
    /\ relabelled' = IF NoPod \notin {pods[p], state} /\ pods[p].label # state.label
                     THEN relabelled \cup {p} ELSE relabelled
    /\ UNCHANGED <<own, vc, procVars, predVars, queue, passVars, rendered, renderedFor, faults>>

CreatePod(p) ==
    /\ pods[p] = NoPod
    /\ \E l \in Labels : PodBecomes(p, [label |-> l, ip |-> 0, ready |-> FALSE])

\* A pod gets its (first) address, or another one with a new sandbox.
AddressPod(p) ==
    /\ pods[p] # NoPod
    /\ \E ip \in IPs :
        /\ \A q \in Pods : pods[q] # NoPod => pods[q].ip # ip
        /\ PodBecomes(p, [pods[p] EXCEPT !.ip = ip, !.ready = FALSE])

ReadinessChanges(p) ==
    /\ pods[p] # NoPod
    /\ pods[p].ip # 0
    /\ PodBecomes(p, [pods[p] EXCEPT !.ready = ~@])

\* Its status is emptied, as the kubelet does when it evicts a pod.
EvictPod(p) ==
    /\ pods[p] # NoPod
    /\ pods[p].ip # 0
    /\ PodBecomes(p, [pods[p] EXCEPT !.ip = 0, !.ready = FALSE])

RelabelPod(p) ==
    /\ pods[p] # NoPod
    /\ \E l \in Labels \ {pods[p].label} : PodBecomes(p, [pods[p] EXCEPT !.label = l])

DeletePod(p) ==
    /\ pods[p] # NoPod
    /\ PodBecomes(p, NoPod)

\* The event of the VarnishCluster passes its predicate: the UID is the process's own.
EditSpec ==
    /\ changes < MaxChanges
    /\ changes' = changes + 1
    /\ \E s \in Specs \ {vc} : vc' = s
    /\ queue' = IF proc = "up" THEN queue \cup {"vc"} ELSE queue
    /\ UNCHANGED <<own, pods, procVars, events, predVars, passVars, outVars, faults>>

PodChanges(p) ==
    \/ CreatePod(p) \/ AddressPod(p) \/ ReadinessChanges(p)
    \/ EvictPod(p) \/ RelabelPod(p) \/ DeletePod(p)

----------------------------------------------------------------------------
(* The process *)

\* A new process: the predicates are those of SetupVarnishReconciler, and Ping runs.
StartProcess ==
    /\ proc = "down"
    /\ proc' = "ping"
    /\ answered' = FALSE
    /\ predNs' = {Own}
    /\ predLabel' = Everything
    /\ UNCHANGED <<clusterVars, varnishd, events, queue, passVars, outVars, changes, faults>>

\* An attempt of Ping's goroutine that succeeds ends it; one that fails changes nothing.
PingAnswered ==
    /\ proc = "ping"
    /\ varnishd
    /\ ~answered
    /\ answered' = TRUE
    /\ UNCHANGED <<clusterVars, varnishd, proc, events, predVars, queue, passVars, outVars,
                   changes, faults>>

\* Ping returns, the manager starts and fills its caches: an event for every pod it
\* finds, and one for the VarnishCluster.
StartManager ==
    /\ proc = "ping"
    /\ answered
    /\ proc' = "up"
    /\ queue' = {"vc"}
    /\ LET order == SetToSeq({p \in Pods : pods[p] # NoPod})
       IN  events' = [i \in DOMAIN order |->
                        [pod |-> order[i], old |-> NoPod, new |-> pods[order[i]]]]
    /\ UNCHANGED <<clusterVars, varnishd, answered, predVars, passVars, outVars, changes, faults>>

\* Variant of ProcessEnds: the requests are those of before.
ProcessEndsQueueKept ==
    /\ proc' = "down"
    /\ answered' = FALSE
    /\ events' = <<>>
    /\ pc' = "idle"
    /\ UNCHANGED <<clusterVars, varnishd, predVars, queue, inst, outVars, changes>>

\* Everything in memory is lost; what was rendered stays on the volume.
ProcessEnds ==
    /\ proc' = "down"
    /\ answered' = FALSE
    /\ events' = <<>>
    /\ queue' = {}
    /\ pc' = "idle"
    /\ UNCHANGED <<clusterVars, varnishd, predVars, inst, outVars, changes>>

\* "varnish is unreachable": the process exits.  With an answer there already, select
\* may still take the deadline; that counts as a fault.
PingTimesOut ==
    /\ proc = "ping"
    /\ ~varnishd /\ ~answered
    /\ ProcessEnds
    /\ UNCHANGED faults

Fault == faults < MaxFaults /\ faults' = faults + 1

ProcessFails ==
    /\ proc # "down"
    /\ Fault
    /\ ProcessEnds

VarnishStarts ==
    /\ ~varnishd
    /\ varnishd' = TRUE
    /\ UNCHANGED <<clusterVars, proc, answered, events, predVars, queue, passVars, outVars,
                   changes, faults>>

\* Looked at until the process has found varnishd only.
VarnishStops ==
    /\ varnishd
    /\ proc # "up"
    /\ Fault
    /\ varnishd' = FALSE
    /\ UNCHANGED <<clusterVars, proc, answered, events, predVars, queue, passVars, outVars, changes>>

----------------------------------------------------------------------------
(* Predicates *)

\* NamespacesMatcherPredicate; an empty list lets everything through.
allow(p, ns) == ns = {} \/ Where[p].ns \in ns

\* The object of a Create or Delete, the new object of an Update.
selects(e, label) ==
    LET obj == IF e.new = NoPod THEN e.old ELSE e.new
    IN  label = Everything \/ obj.label = label

\* Variant of LabelMatcherUpdate: a new address is not looked at.
LabelMatcherUpdateReadiness(e) == e.new.ready # e.old.ready

\* A new address, or a change of readiness.
LabelMatcherUpdate(e) ==
    \/ e.new.ip # 0 /\ e.old.ip # e.new.ip
    \/ e.new.ready # e.old.ready

letThrough(e) ==
    /\ allow(e.pod, predNs)
    /\ selects(e, predLabel)
    /\ e.old # NoPod /\ e.new # NoPod => LabelMatcherUpdate(e)

\* The next event reaches the predicates.  While a pass writes them nothing orders the
\* informer's reads: any answer is possible.
DeliverEvent ==
    /\ proc = "up"
    /\ events # <<>>
    /\ \E queued \in IF pc = "predicates" THEN BOOLEAN ELSE {letThrough(events[1])} :
        queue' = IF queued THEN queue \cup {"pod"} ELSE queue
    /\ events' = Tail(events)
    /\ UNCHANGED <<clusterVars, procVars, predVars, passVars, outVars, changes, faults>>

----------------------------------------------------------------------------
(* A pass *)

\* Variant of StartPass: the request is queued again while it is served.
StartPassAgain ==
    /\ proc = "up"
    /\ pc = "idle"
    /\ queue # {}
    /\ inst' = vc
    /\ pc' = "predicates"
    /\ UNCHANGED <<clusterVars, procVars, events, predVars, queue, outVars, changes, faults>>

\* Whatever the request is, the pass reads the VarnishCluster.
StartPass ==
    /\ proc = "up"
    /\ pc = "idle"
    /\ \E r \in queue : queue' = queue \ {r}
    /\ inst' = vc
    /\ pc' = "predicates"
    /\ UNCHANGED <<clusterVars, procVars, events, predVars, outVars, changes, faults>>

SetPredicates ==
    /\ pc = "predicates"
    /\ predNs' = namespacesOf(inst)
    /\ predLabel' = inst.selector
    /\ pc' = "list"
    /\ UNCHANGED <<clusterVars, procVars, events, queue, inst, outVars, changes, faults>>

\* The cache lists the pods in any order.
ListAndRender ==
    /\ pc = "list"
    /\ \E order \in SetToSeqs(matching(pods, inst)) : rendered' = renderedFrom(order, pods, inst)
    /\ renderedFor' = [spec |-> inst, pods |-> pods]
    /\ relabelled' = {}
    /\ pc' = "idle"
    /\ UNCHANGED <<clusterVars, procVars, events, predVars, queue, inst, changes, faults>>

\* A call fails: the request is queued again.
PassFails ==
    /\ pc # "idle"
    /\ Fault
    /\ pc' = "idle"
    /\ queue' = queue \cup {"pod"}
    /\ UNCHANGED <<clusterVars, procVars, events, predVars, inst, outVars, changes>>

----------------------------------------------------------------------------

Runs ==
    \/ StartProcess \/ PingAnswered \/ StartManager \/ PingTimesOut
    \/ DeliverEvent \/ StartPass \/ SetPredicates

Next ==
    \/ Runs
    \/ ListAndRender
    \/ ProcessFails \/ PassFails
    \/ VarnishStarts \/ VarnishStops
    \/ \E p \in Pods : PodChanges(p)
    \/ EditSpec

Spec == Init /\ [][Next]_vars

\* Of the steps of Next those of ListAndRender; no backends have to be computed to see
\* that it is enabled.
Renders == pc = "list" /\ pc' = "idle" /\ faults' = faults

\* The process and its worker go on, the kubelet starts a process that has ended, and
\* varnishd starts some time.  Nothing has to be fair to each goroutine on its own, as
\* none can keep the others waiting for ever.
Fairness == WF_vars(Runs) /\ WF_<<pc, faults>>(Renders) /\ WF_vars(VarnishStarts)

FairSpec == Spec /\ Fairness

----------------------------------------------------------------------------
(* Properties *)

\* Type invariant: the values every variable takes; requests, events and passes are in
\* the memory of a running process.
TypeOK ==
    /\ relabelled \subseteq Pods
    /\ own \in OwnNodes
    /\ vc \in Specs /\ inst \in Specs
    /\ pods \in [Pods -> PodStates]
    /\ varnishd \in BOOLEAN /\ answered \in BOOLEAN
    /\ proc \in {"down", "ping", "up"}
    /\ \A i \in DOMAIN events :
        events[i].pod \in Pods /\ events[i].old \in PodStates /\ events[i].new \in PodStates
    /\ predNs \in SUBSET Namespaces
    /\ predLabel \in Labels \cup {Everything}
    /\ queue \subseteq {"vc", "pod"}
    /\ pc \in {"idle", "predicates", "list"}
    /\ renderedFor \in [spec : Specs, pods : [Pods -> PodStates]]
    /\ proc # "up" => events = <<>> /\ queue = {} /\ pc = "idle"
    /\ changes \in Nat /\ faults \in Nat

Settled == proc = "up" /\ events = <<>> /\ queue = {} /\ pc = "idle"

\* What a pod adds to the backends: its address.
Address(p, state, spec) ==
    IF p \in matching(state, spec) /\ usable(state[p], spec.onlyReady) THEN state[p].ip ELSE 0

\* "prepares configurations updates rebuilds every time it notices a change"
\* (docs/architecture.md:29): with nothing left to do the backends are those of the
\* present spec and pods, whatever the predicates were, or were being set to, when an
\* event came, and whenever the process restarted.  Two changes no predicate notices:
\* a pod that was relabelled (nor what happens to it then, not even its deletion), and
\* one that lost its address while it was not ready.
SettledIsCurrent ==
    Settled =>
        /\ renderedFor.spec = vc
        /\ \A p \in Pods \ relabelled :
            \/ Address(p, renderedFor.pods, vc) = Address(p, pods, vc)
            \/ pods[p] # NoPod /\ pods[p].ip = 0 /\ ~renderedFor.pods[p].ready

\* "prevents cases when generated VCL files change only because of order changes in the
\* slice" (endpoints.go:178): what is rendered is a function of spec and pods, not of
\* the order the cache lists them in.
RenderingIsStable ==
    \A order \in SetToSeqs(matching(renderedFor.pods, renderedFor.spec)) :
        rendered # NothingRendered =>
            renderedFrom(order, renderedFor.pods, renderedFor.spec) = rendered

\* Every backend gets requests from the random director: no weight is zero, if the
\* node of the Varnish pod has a zone.
NoBackendWithoutWeight ==
    currentZone(own) # NoZone =>
        \A i \in DOMAIN rendered.list : rendered.list[i].weight[1] > 0

localWeights == {rendered.list[i].weight : i \in {j \in DOMAIN rendered.list : rendered.list[j].local}}
localIPs == {rendered.list[i].ip : i \in {j \in DOMAIN rendered.list : rendered.list[j].local}}
remoteIPs == {rendered.list[i].ip : i \in {j \in DOMAIN rendered.list : ~rendered.list[j].local}}

\* The pods behind the remote backends.
remotePods == {p \in Pods : renderedFor.pods[p] # NoPod /\ renderedFor.pods[p].ip \in remoteIPs}

\* "To prevent such scenario, auto balancing will ... reduce the weight by that ratio"
\* (docs/varnish-cluster.md:170): while the remote backends stay, losing local ones
\* never raises the weight of those that are left.
NoHotspot ==
    [][/\ renderedFor'.spec = renderedFor.spec
       /\ renderedFor.spec.balancing.type = "auto"
       /\ remotePods' = remotePods
       /\ localIPs' \subseteq localIPs
       => \A w \in localWeights, v \in localWeights' : v[1] * w[2] <= w[1] * v[2]]_vars

\* The thresholds' documentation (docs/varnish-cluster.md:202-204): the weights are those
\* of the lowest threshold the percentage of local backends does not exceed, of the
\* highest one beyond that.  Backends on nodes of unknown zone get the weight of remote
\* ones, but do not count (endpoints.go:95).
TightestThreshold ==
    LET inKnownZone == {p \in Pods : /\ renderedFor.pods[p] # NoPod
                                     /\ renderedFor.pods[p].ip \in remoteIPs
                                     /\ zoneOf(Where[p].node, own) # NoZone}
        zones == {zoneOf(Where[p].node, own) : p \in inKnownZone}
        fits(t) == 100 * Cardinality(localIPs) * Cardinality(zones)
                     < (t.threshold + 1) * Cardinality(inKnownZone)
        balancing == renderedFor.spec.balancing
    IN  /\ balancing.type = "thresholds" /\ balancing.thresholds # {}
        /\ localIPs # {} /\ inKnownZone # {}
        =>  \E t \in balancing.thresholds :
                /\ localWeights = {<<t.local, 1>>}
                /\ \A u \in balancing.thresholds :
                    IF fits(t) THEN fits(u) => t.threshold <= u.threshold
                    ELSE ~fits(u) /\ u.threshold <= t.threshold

\* Once nothing changes or fails any more, varnishd is found and every event and request
\* is dealt with.
Settles == <>[]Settled
=============================================================================
