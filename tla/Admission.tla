------------------------------ MODULE Admission ------------------------------
(***************************************************************************)
(* From the VarnishCluster somebody submits to what varnishd is started    *)
(* with: the admission webhooks (api/v1alpha1/varnishcluster_webhook.go),  *)
(* which an operator may run without, the defaults every pass fills in     *)
(* (defaults.go), and the arguments it makes of spec.varnish.args          *)
(* (varnishcluster_varnish_args.go).                                       *)
(*                                                                         *)
(* A spec holds what these look at.  Absent is a field that is not given.  *)
(* Words are arguments; they stand in string order, and as a space comes   *)
(* before every other character, joined words are ordered as their         *)
(* sequences are.                                                          *)
(***************************************************************************)
EXTENDS Integers, Sequences, SequencesExt, FiniteSets

CONSTANTS
    Words,         \* the words arguments are made of, in string order
    Keys,          \* those that match ^-\w$
    Flags,         \* options varnishd reads without a value
    Submissions,   \* specs that are submitted; the CRD's schema lets them through
    Absent,        \* a field that is not given
    MaxEdits,      \* bound: submissions
    MaxDeploys     \* bound: deployments of the operator

\* The part of VarnishClusterSpec that is looked at.
SpecFields == {"args", "replicas", "strategy", "delay", "scrapeInterval", "metricsPort", "port",
               "balancing", "thresholds", "pullPolicy"}

ASSUME WordsAssumption ==
    /\ Words \in Seq(Range(Words))
    /\ \A i, j \in DOMAIN Words : Words[i] = Words[j] => i = j
    /\ Flags \subseteq Keys /\ Keys \subseteq Range(Words)

\* The operator's own words, and what varnishd makes of them.
ASSUME OwnWordsAssumption ==
    /\ {"secret", "127.0.0.1:0", "0.0.0.0:6082", "0.0.0.0:6081"} \subseteq Range(Words)
    /\ {"-S", "-b", "-T", "-a"} \subseteq Keys \ Flags
    /\ "-F" \in Flags

\* What the schema requires of the numbers; a threshold has all three of its own.
ASSUME SubmissionsAssumption ==
    /\ Absent \notin Int
    /\ \A s \in Submissions :
        /\ s = [f \in SpecFields |-> s[f]]
        /\ s.args \in Seq(Range(Words))
        /\ s.delay \in Int \cup {Absent} /\ s.metricsPort \in Int \cup {Absent}
        /\ s.thresholds \subseteq [threshold : Int, local : Int, remote : Int]

ASSUME BoundsAssumption == MaxEdits \in Nat /\ MaxDeploys \in Nat

VARIABLES
    stored,      \* the spec in the API server, or Absent
    webhooks,    \* the operator runs with its webhooks
    checked,     \* history: the stored spec passed them
    applied,     \* the spec with defaults and the arguments of the last pass, or Absent
    edits, deploys   \* bounds

vars == <<stored, webhooks, checked, applied, edits, deploys>>

----------------------------------------------------------------------------
(* Arguments *)

\* Both parsers: where the argument of each word starts.  The word after a key is its value
\* unless it is a key.
argumentOf(args, keys) ==
    LET start[i \in DOMAIN args] ==
            IF i = 1 \/ args[i] \in keys \/ start[i - 1] # i - 1 THEN i ELSE i - 1
    IN  start

argumentsAt(args, keys) == {i \in DOMAIN args : argumentOf(args, keys)[i] = i}

\* The argument that starts at i, with its value if it has one.
argument(args, at, i) ==
    IF i + 1 \in DOMAIN args \ at THEN <<args[i], args[i + 1]>> ELSE <<args[i]>>

disallowedVarnishArgs == {"-f", "-F", "-n", "-S", "-b"}

validVarnishArgs(args) ==
    \A i \in argumentsAt(args, Keys) : args[i] \in Keys \ disallowedVarnishArgs

\* The operator's expression asks, in a raw string, for a backslash after the dash: no
\* argument is a key, and whatever comes second is a value.
varnishArgsKeys == {}

varnishArgsOverrides ==
    << <<"-F">>, <<"-S", "secret">>, <<"-b", "127.0.0.1:0">>, <<"-T", "0.0.0.0:6082">> >>
ownListener == <<"-a", "0.0.0.0:6081">>
disallowedArgs == {"-n", "-f"}

argSpecified(arg) ==
    arg \in disallowedArgs \cup {varnishArgsOverrides[i][1] : i \in DOMAIN varnishArgsOverrides}

rank(word) == CHOOSE i \in DOMAIN Words : Words[i] = word

\* The joined words of a come before those of b.
before(a, b) ==
    \/ Len(a) < Len(b) /\ SubSeq(b, 1, Len(a)) = a
    \/ \E i \in DOMAIN a \cap DOMAIN b :
        SubSeq(a, 1, i - 1) = SubSeq(b, 1, i - 1) /\ rank(a[i]) < rank(b[i])

\* Variant of sortedChunks: by keys only, as if there were one of each.
sortedByKey(list) ==
    LET place(i) == Cardinality({j \in DOMAIN list :
                        \/ before(<<list[j][1]>>, <<list[i][1]>>)
                        \/ list[j][1] = list[i][1] /\ j <= i})
    IN  [n \in 1 .. Cardinality(DOMAIN list) |-> list[CHOOSE i \in DOMAIN list : place(i) = n]]

\* sort.SliceStable by the joined words, of arguments with their places in the list.
sortedChunks(list) ==
    LET place(i) == Cardinality({j \in DOMAIN list :
                        before(list[j], list[i]) \/ (list[j] = list[i] /\ j <= i)})
    IN  [n \in 1 .. Cardinality(DOMAIN list) |-> list[CHOOSE i \in DOMAIN list : place(i) = n]]

\* The arguments that start at some of the words, and ours behind them.
withOurs(args, kept) ==
    LET ours == Append(varnishArgsOverrides, ownListener)
    IN  [i \in kept \cup {Len(args) + j : j \in DOMAIN ours} |->
            IF i \in kept THEN argument(args, argumentsAt(args, varnishArgsKeys), i)
            ELSE ours[i - Len(args)]]

\* Variant of getSanitizedVarnishArgs: what is not allowed is left to the webhook.
withoutSanitizing(args) ==
    FlattenSeq(sortedChunks(withOurs(args, argumentsAt(args, varnishArgsKeys))))

getSanitizedVarnishArgs(args) ==
    LET parsedArgs == {i \in argumentsAt(args, varnishArgsKeys) : ~argSpecified(args[i])}
    IN  FlattenSeq(sortedChunks(withOurs(args, parsedArgs)))

----------------------------------------------------------------------------
(* Defaults *)

orDefault(value, default) == IF value = Absent THEN default ELSE value

\* defaultVarnishClusterSpec: an unset strategy is OnDelete, and a delayed one without
\* settings gets a delay of 60 seconds; a scrape interval that does not parse is taken
\* for none.
defaultVarnishClusterSpec(s) ==
    LET type == orDefault(s.strategy, "OnDelete")
    IN  [s EXCEPT !.replicas = orDefault(@, 1),
                  !.strategy = type,
                  !.delay = IF type = "DelayedRollingUpdate" THEN orDefault(@, 60) ELSE @,
                  !.scrapeInterval = orDefault(@, 30),
                  !.metricsPort = orDefault(@, 9131),
                  !.balancing = orDefault(@, "disabled")]

\* defaultVarnish: the three containers' pull policy, volume mode of claims.
defaultVarnish(s) == [s EXCEPT !.pullPolicy = orDefault(@, "Always")]

SetVarnishClusterDefaults(s) == defaultVarnish(defaultVarnishClusterSpec(s))

----------------------------------------------------------------------------
(* The webhooks *)

\* The mutating one.
Default(s) == [s EXCEPT !.replicas = orDefault(@, 1)]

inAllowedRange(value, lowest, highest) ==
    value # Absent => lowest <= value /\ value <= highest

atLeastOne(value) == value # Absent => value >= 1

\* Variant of validThresholds: the weights are left to the schema.
validPercentages(s) == \A t \in s.thresholds : inAllowedRange(t.threshold, 1, 100)

validThresholds(s) ==
    \A t \in s.thresholds :
        /\ atLeastOne(t.local) /\ atLeastOne(t.remote)
        /\ t.local # Absent => inAllowedRange(t.threshold, 1, 100)

\* The thresholds are looked at whatever the type of balancing.
validateCreateUpdate(s) ==
    /\ validVarnishArgs(s.args)
    /\ inAllowedRange(s.port, 1, 65535)
    /\ inAllowedRange(s.metricsPort, 1, 65535)
    /\ validThresholds(s)
    /\ atLeastOne(s.delay)

----------------------------------------------------------------------------

Init ==
    /\ stored = Absent
    /\ webhooks \in BOOLEAN
    /\ checked = FALSE
    /\ applied = Absent
    /\ edits = 0
    /\ deploys = 0

\* Create or update: a spec that is not valid leaves the stored one as it is.
Submit(s) ==
    /\ edits < MaxEdits
    /\ edits' = edits + 1
    /\ IF webhooks
       THEN /\ validateCreateUpdate(Default(s))
            /\ stored' = Default(s)
       ELSE stored' = s
    /\ checked' = webhooks
    /\ UNCHANGED <<webhooks, applied, deploys>>

\* The operator is deployed with or without webhooks; nothing looks at what is stored.
Deploy ==
    /\ deploys < MaxDeploys
    /\ deploys' = deploys + 1
    /\ webhooks' = ~webhooks
    /\ UNCHANGED <<stored, checked, applied, edits>>

\* A pass, as far as the pods' template and the backends' weights depend on it.
Reconcile ==
    /\ stored # Absent
    /\ LET s == SetVarnishClusterDefaults(stored)
       IN  applied' = [spec |-> s, args |-> getSanitizedVarnishArgs(s.args)]
    /\ UNCHANGED <<stored, webhooks, checked, edits, deploys>>

Next == Reconcile \/ Deploy \/ \E s \in Submissions : Submit(s)

Spec == Init /\ [][Next]_vars

----------------------------------------------------------------------------
(* Properties *)

\* The options varnishd reads, by where they start: the word after an option is its value
\* unless the option is a flag.
options(args) ==
    LET start[i \in DOMAIN args] ==
            IF i = 1 \/ args[i - 1] \in Flags \/ start[i - 1] # i - 1 THEN i ELSE i - 1
        at == {i \in DOMAIN args : start[i] = i}
    IN  [i \in at |-> argument(args, at, i)]

\* Keys and values alternate: no flag, no value in the place of a key.
paired(args) ==
    /\ Len(args) % 2 = 0
    /\ \A i \in DOMAIN args : IF i % 2 = 1 THEN args[i] \in Keys \ Flags ELSE args[i] \notin Keys

\* "start a varnishd without predefined backend. It has to be overridden by settings from
\* ConfigMap" (varnish_args.go:23), the admin port and the secret the controller knows:
\* whatever is asked for, and with or without webhooks, varnishd reads each of our options
\* once and as we set it, none that is not allowed, and otherwise what was asked for.
OurOptionsHold ==
    applied # Absent /\ paired(applied.spec.args) =>
        LET read == options(applied.args)
            asked == options(applied.spec.args)
            ours == {i \in DOMAIN read : argSpecified(read[i][1])}
        IN  /\ {read[i] : i \in ours} = Range(varnishArgsOverrides)
            /\ \A i, j \in ours : read[i] = read[j] => i = j
            /\ {read[i] : i \in DOMAIN read \ ours} =
                    {o \in Range(asked) : ~argSpecified(o[1])} \cup {ownListener}

\* The same options, each as often.
reordered(old, new) ==
    \E f \in Bijection(DOMAIN old, DOMAIN new) : \A i \in DOMAIN old : new[f[i]] = old[i]

\* "so they won't appear in different order in different reconcile loops and trigger
\* redeployment" (varnish_args.go:56): the same options in another order are the same
\* arguments, and no pod is outdated.
OrderRestartsNothing ==
    [][applied # Absent /\ applied' # Absent
       /\ paired(applied.spec.args) /\ paired(applied'.spec.args)
       /\ reordered(options(applied.spec.args), options(applied'.spec.args))
       => applied'.args = applied.args]_vars

\* What the code behind it takes for granted: a delay between two deletions, positive
\* weights, a percentage.
Sane(s) ==
    /\ s.strategy = "DelayedRollingUpdate" => s.delay > 0
    /\ \A t \in s.thresholds : t.local > 0 /\ t.remote > 0 /\ t.threshold \in 1 .. 100
    /\ 1 <= s.metricsPort /\ s.metricsPort <= 65535

\* What a pass works with, defaults included, is sane if the webhooks were there when it
\* was stored.  They see the spec before its defaults, and are not asked again.
CheckedIsSane ==
    checked /\ applied # Absent /\ applied.spec = SetVarnishClusterDefaults(stored) =>
        Sane(applied.spec)
=============================================================================
