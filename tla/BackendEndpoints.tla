-------------------------- MODULE BackendEndpoints --------------------------
(***************************************************************************)
(* From the pods the cache lists to the backends of the VCL templates:     *)
(* which pods are taken, in which order, with which port and which weight  *)
(* (pkg/varnishcontroller/controller/endpoints.go).  Pure operators.       *)
(*                                                                         *)
(* A weight is a fraction <<numerator, denominator>>.  Go computes it in   *)
(* floating point; for the few backends of the instances and thresholds    *)
(* of at most 100 the comparison with a threshold comes out the same.      *)
(***************************************************************************)
EXTENDS Integers, Sequences, SequencesExt

CONSTANTS
    NoZone,    \* the label is missing: the empty string
    NoName     \* the name of a port without name, and of an intstr that is a number

----------------------------------------------------------------------------
(* Pods and their ports *)

\* intstr.IntOrString: a number, with no name, or a name, with the number 0.
PortNumber(n) == [number |-> n, name |-> NoName]
PortName(s) == [number |-> 0, name |-> s]

\* A port without name has the name of every port that is asked for by number.
Matches(cp, port) == cp.number = port.number \/ cp.name = port.name

\* The matching port of a container, 0 if there is none: "break" leaves the loop
\* over the ports of one container.
matchingPort(container, port) ==
    LET i == SelectInSeq(container, LAMBDA cp : Matches(cp, port))
    IN  IF i = 0 THEN 0 ELSE container[i].number

\* A pod with an address (and a node), ready if only ready ones are wanted.
usable(pod, onlyReady) == pod.ip # 0 /\ (onlyReady => pod.ready)

\* The backends: the places of a pod in the list and of a container with a matching port
\* in the pod.
backends(pods, port, onlyReady) ==
    {b \in UNION {{i} \X DOMAIN pods[i].containers : i \in DOMAIN pods} :
        /\ usable(pods[b[1]], onlyReady)
        /\ matchingPort(pods[b[1]].containers[b[2]], port) # 0}

listedBefore(a, b) == a[1] < b[1] \/ (a[1] = b[1] /\ a[2] < b[2])

\* Variant of sortedBefore: as the cache lists them.
sortedBeforeNot(pods, a, b) == listedBefore(a, b)

\* sort.SliceStable by IP.
sortedBefore(pods, a, b) ==
    \/ pods[a[1]].ip < pods[b[1]].ip
    \/ pods[a[1]].ip = pods[b[1]].ip /\ listedBefore(a, b)

\* getPodsInfo, of pods in the order the cache lists them; the port is the one found last.
getPodsInfo(pods, port, onlyReady) ==
    LET found == backends(pods, port, onlyReady)
        place(b) == Cardinality({a \in found : a = b \/ sortedBefore(pods, a, b)})
        at(n) == CHOOSE b \in found : place(b) = n
        last == CHOOSE b \in found : \A a \in found : a = b \/ listedBefore(a, b)
    IN  [list |-> [n \in 1 .. Cardinality(found) |->
                    [ip |-> pods[at(n)[1]].ip, node |-> pods[at(n)[1]].node]],
         port |-> IF found = {} THEN 0
                  ELSE matchingPort(pods[last[1]].containers[last[2]], port)]

----------------------------------------------------------------------------
(* Zones; a node is [beta, zone]: the deprecated label and the present one *)

\* The label the own node has decides which one is read of every node.
zoneOf(node, own) == IF own.beta # NoZone THEN node.beta ELSE node.zone

currentZone(own) == zoneOf(own, own)

zonesOf(list, own) == {zoneOf(list[i].node, own) : i \in DOMAIN list} \ {NoZone}

\* Variant of checkMultizone: any zone will do.
anyZone(list, own) == zonesOf(list, own) # {}

checkMultizone(list, own) == \E z \in zonesOf(list, own) : z # currentZone(own)

isLocal(backend, own) == zoneOf(backend.node, own) = currentZone(own)

countIn(list, own, zones) ==
    Cardinality({i \in DOMAIN list : zoneOf(list[i].node, own) \in zones})

\* Variant of calculateBackendRatio: the fraction upside down.
ratioUpsideDown(list, own) ==
    LET zones == zonesOf(list, own)
    IN  <<countIn(list, own, zones \ {currentZone(own)}),
          countIn(list, own, zones \cap {currentZone(own)}) * (Cardinality(zones) - 1)>>

\* Local backends per average of the remote zones.  Backends of unknown zone do not
\* count.  With no remote zone but one and none local, Go divides by +Inf: zero.
calculateBackendRatio(list, own) ==
    LET zones == zonesOf(list, own)
    IN  <<countIn(list, own, zones \cap {currentZone(own)}) * (Cardinality(zones) - 1),
          countIn(list, own, zones \ {currentZone(own)})>>

One == <<1, 1>>

\* The percentage, of which Go drops the fraction, is at most the threshold.
within(ratio, t) == 100 * ratio[1] < (t.threshold + 1) * ratio[2]

highest(thresholds) ==
    CHOOSE t \in thresholds : \A u \in thresholds : u.threshold <= t.threshold
lowest(thresholds) ==
    CHOOSE t \in thresholds : \A u \in thresholds : t.threshold <= u.threshold

\* Variant of chosenThreshold: the loop goes from the lowest threshold up.
chosenFromBelow(thresholds, ratio) ==
    LET passed == {t \in thresholds :
                    \A u \in thresholds : u.threshold <= t.threshold => within(ratio, u)}
    IN  IF passed = {} THEN lowest(thresholds) ELSE highest(passed)

\* The loop over the thresholds from the highest down, until one is exceeded.
chosenThreshold(thresholds, ratio) ==
    LET passed == {t \in thresholds :
                    \A u \in thresholds : u.threshold >= t.threshold => within(ratio, u)}
    IN  IF passed = {} THEN highest(thresholds) ELSE lowest(passed)

weightsFor(list, own, balancing) ==
    LET ratio == calculateBackendRatio(list, own)
        chosen == chosenThreshold(balancing.thresholds, ratio)
    IN  CASE balancing.type = "auto" -> <<<<10 * ratio[1], ratio[2]>>, One>>
          [] balancing.type = "thresholds" /\ balancing.thresholds # {} ->
                <<<<chosen.local, 1>>, <<chosen.remote, 1>>>>
          [] OTHER -> <<One, One>>

\* getBackendEndpoints: the weighted backends and their port.
getBackendEndpoints(pods, spec, own) ==
    LET found == getPodsInfo(pods, spec.port, spec.onlyReady)
        weights == IF checkMultizone(found.list, own)
                   THEN weightsFor(found.list, own, spec.balancing) ELSE <<One, One>>
    IN  [port |-> found.port,
         list |-> [i \in DOMAIN found.list |->
                    LET b == found.list[i]
                    IN  [ip |-> b.ip, local |-> isLocal(b, own),
                         weight |-> weights[IF isLocal(b, own) THEN 1 ELSE 2]]]]
=============================================================================
