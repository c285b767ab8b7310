---------------------------- MODULE MCAdmission ----------------------------
(* Instances of Admission for TLC. *)
EXTENDS Admission

\* In string order.
SomeWords == <<"-F", "-S", "-T", "-a", "-b", "-d", "-f", "-n", "-p",
               "0.0.0.0:6081", "0.0.0.0:6082", "127.0.0.1:0", "default_grace", "default_ttl",
               "secret">>
SomeKeys == {"-F", "-S", "-T", "-a", "-b", "-d", "-f", "-n", "-p"}
SomeFlags == {"-F", "-d"}

Plain == [args |-> <<>>, replicas |-> Absent, strategy |-> Absent, delay |-> Absent,
          scrapeInterval |-> Absent, metricsPort |-> Absent, port |-> 80,
          balancing |-> Absent, thresholds |-> {}, pullPolicy |-> Absent]

\* One or two options with values, a flag, a value without key.
Parameters == {"default_grace", "default_ttl"}
Pairs == { <<k, v>> : k \in {"-p", "-T", "-n", "-a"}, v \in Parameters }
AllArgs == {<<>>, <<"-d", "-T", "127.0.0.1:0">>, <<"default_ttl">>}
               \cup Pairs \cup {p \o q : p \in Pairs, q \in Pairs}

Threshold(t, l, r) == [threshold |-> t, local |-> l, remote |-> r]
ThresholdSets ==
    {{}} \cup {{Threshold(t, l, r)} : t \in {50, 101}, l \in {0, 1}, r \in {0, 1}}

OtherSpecs ==
    {[Plain EXCEPT !.strategy = s, !.delay = d, !.thresholds = t, !.balancing = "thresholds",
                   !.metricsPort = m] :
        s \in {Absent, "OnDelete", "DelayedRollingUpdate"}, d \in {Absent, 0, 1},
        t \in ThresholdSets, m \in {Absent, 0}}

AllSubmissions == {[Plain EXCEPT !.args = a] : a \in AllArgs} \cup OtherSpecs
=============================================================================
