----------------------------- MODULE MCBackends -----------------------------
(* Instances of Backends for TLC: one pod in the own zone and two in another. *)
EXTENDS Backends

CONSTANTS p1, p2, p3, Other, App, Canary, Z1, Z2, Http, Metrics

\* The node of the middle pod has both labels.
Zone1 == [beta |-> NoZone, zone |-> Z1]
Zone2 == [beta |-> NoZone, zone |-> Z2]
Labelled2 == [beta |-> Z2, zone |-> Z2]
Unlabelled == [beta |-> NoZone, zone |-> NoZone]
AnyOwnNode == {Zone1, Zone2, Labelled2, Unlabelled}

Port(number, name) == [number |-> number, name |-> name]

\* The container that listens, after a sidecar.
Named == << <<Port(9000, Metrics)>>, <<Port(8080, Http)>> >>

Spread(containers) ==
    [p \in {p1, p2, p3} |->
        CASE p = p1 -> [ns |-> Own, node |-> Zone1, containers |-> containers]
          [] p = p2 -> [ns |-> Own, node |-> Labelled2, containers |-> containers]
          [] p = p3 -> [ns |-> Other, node |-> Zone2, containers |-> containers]]
NamedPorts == Spread(Named)

BackendSpec(namespaces, port, onlyReady, balancing) ==
    [namespaces |-> namespaces, selector |-> App, port |-> port,
     onlyReady |-> onlyReady, balancing |-> balancing]

Disabled == [type |-> "disabled", thresholds |-> {}]
Auto == [type |-> "auto", thresholds |-> {}]
Threshold(t, l, r) == [threshold |-> t, local |-> l, remote |-> r]
ByThreshold == [type |-> "thresholds",
                thresholds |-> {Threshold(100, 10, 1), Threshold(50, 3, 2), Threshold(20, 1, 1)}]

Everywhere == BackendSpec({Own, Other}, PortNumber(8080), FALSE, Auto)
ByWeight == BackendSpec({Own, Other}, PortName(Http), FALSE, ByThreshold)
ReadyHere == [BackendSpec({}, PortName(Http), TRUE, Disabled) EXCEPT !.selector = Canary]
AllSpecs == {Everywhere, ByWeight, ReadyHere}

Running(label, ip) == [label |-> label, ip |-> ip, ready |-> TRUE]
AllRunning == [p \in Pods |-> CASE p = p1 -> Running(App, 2)
                                [] p = p2 -> Running(App, 1)
                                [] p = p3 -> Running(App, 3)]
Mixed == [AllRunning EXCEPT ![p2] = [label |-> Canary, ip |-> 1, ready |-> FALSE], ![p3] = NoPod]
At(node, spec, state) == [own |-> node, vc |-> spec, pods |-> state]
Starts == {At(Zone1, Everywhere, AllRunning), At(Zone1, ByWeight, AllRunning),
           At(Zone2, Everywhere, AllRunning), At(Labelled2, Everywhere, AllRunning),
           At(Unlabelled, ReadyHere, Mixed)}
=============================================================================
