--------------------------- MODULE AdmissionProofs ---------------------------
(***************************************************************************)
(* Proofs about Admission, for all words, all submissions the schema lets  *)
(* through, and any number of them and of deployments.                     *)
(***************************************************************************)
EXTENDS Admission, FiniteSetTheorems, SequenceTheorems, WellFoundedInduction, TLAPS

----------------------------------------------------------------------------
(* What the webhooks saw *)

\* What passed the webhooks is valid in the form it was stored in.
CheckedInv ==
    checked => \E s \in Submissions : stored = Default(s) /\ validateCreateUpdate(stored)

\* What the webhooks find valid keeps them after the pass has filled in its defaults: no
\* default takes the place of a value that was looked at.
LEMMA DefaultsAreSane ==
    ASSUME NEW s \in Submissions, validateCreateUpdate(Default(s))
    PROVE  Sane(SetVarnishClusterDefaults(Default(s)))
<1> DEFINE w == Default(s)
           d == SetVarnishClusterDefaults(w)
<1>1. /\ s = [f \in SpecFields |-> s[f]] /\ Absent \notin Int
      /\ s.delay \in Int \cup {Absent} /\ s.metricsPort \in Int \cup {Absent}
      /\ s.thresholds \subseteq [threshold : Int, local : Int, remote : Int]
  BY SubmissionsAssumption
<1>2. /\ DOMAIN w = SpecFields /\ w.strategy = s.strategy /\ w.delay = s.delay
      /\ w.metricsPort = s.metricsPort /\ w.thresholds = s.thresholds
  BY <1>1 DEF Default, SpecFields
<1>3. /\ d.strategy = orDefault(w.strategy, "OnDelete")
      /\ d.delay = IF d.strategy = "DelayedRollingUpdate" THEN orDefault(w.delay, 60) ELSE w.delay
      /\ d.metricsPort = orDefault(w.metricsPort, 9131)
      /\ d.thresholds = w.thresholds
  BY <1>2 DEF SetVarnishClusterDefaults, defaultVarnish, defaultVarnishClusterSpec, SpecFields
<1>4. validateCreateUpdate(w)
  OBVIOUS
<1> HIDE DEF w, d
<1>5. d.strategy = "DelayedRollingUpdate" => d.delay > 0
  BY <1>1, <1>2, <1>3, <1>4 DEF validateCreateUpdate, atLeastOne, orDefault
<1>6. 1 <= d.metricsPort /\ d.metricsPort <= 65535
  BY <1>1, <1>2, <1>3, <1>4 DEF validateCreateUpdate, inAllowedRange, orDefault
<1>7. \A t \in d.thresholds : t.local > 0 /\ t.remote > 0 /\ t.threshold \in 1 .. 100
  <2> TAKE t \in d.thresholds
  <2>1. t.local \in Int /\ t.remote \in Int /\ t.threshold \in Int /\ t \in w.thresholds
    BY <1>1, <1>2, <1>3
  <2>2. atLeastOne(t.local) /\ atLeastOne(t.remote)
        /\ (t.local # Absent => inAllowedRange(t.threshold, 1, 100))
    BY <1>4, <2>1 DEF validateCreateUpdate, validThresholds
  <2> QED
    BY <1>1, <2>1, <2>2 DEF atLeastOne, inAllowedRange
<1>8. Sane(d)
  BY <1>5, <1>6, <1>7 DEF Sane
<1> QED
  BY <1>8 DEF d, w

\* Only a submission that the webhooks saw counts as checked.
LEMMA CheckedStep ==
    ASSUME CheckedInv, [Next]_vars
    PROVE  CheckedInv'
<1>1. ASSUME NEW s \in Submissions, Submit(s) PROVE CheckedInv'
  <2>1. CASE webhooks
    BY <1>1, <2>1 DEF Submit, CheckedInv
  <2>2. CASE ~webhooks
    BY <1>1, <2>2 DEF Submit, CheckedInv
  <2> QED
    BY <2>1, <2>2
<1>2. CASE UNCHANGED <<stored, checked>>
  BY <1>2 DEF CheckedInv
<1>3. CASE Deploy \/ Reconcile \/ UNCHANGED vars
  BY <1>2, <1>3 DEF Deploy, Reconcile, vars
<1> QED
  BY <1>1, <1>3 DEF Next

\* A pass never works with a delay, a weight or a percentage out of bounds if the webhooks
\* (varnishcluster_webhook.go:104) were there when the spec was stored, though they see it
\* before the defaults of defaults.go:38 and are not asked again.
THEOREM CheckedStaysSane == Spec => []CheckedIsSane
<1>1. Init => CheckedInv
  BY DEF Init, CheckedInv
<1>2. CheckedInv /\ [Next]_vars => CheckedInv'
  BY CheckedStep
<1>3. CheckedInv => CheckedIsSane
  BY DefaultsAreSane DEF CheckedInv, CheckedIsSane
<1> QED
  BY <1>1, <1>2, <1>3, PTL DEF Spec

----------------------------------------------------------------------------
(* Places in an order *)

\* Two sets whose elements are paired off are of one size.
LEMMA SameCount ==
    ASSUME NEW A, NEW B, IsFiniteSet(B), NEW f \in [A -> B],
           \A x, y \in A : f[x] = f[y] => x = y,
           \A z \in B : \E x \in A : f[x] = z
    PROVE  IsFiniteSet(A) /\ Cardinality(A) = Cardinality(B)
<1>1. f \in Injection(A, B)
  BY DEF Injection, IsInjective
<1>2. f \in Surjection(A, B)
  BY DEF Surjection
<1> QED
  BY <1>1, <1>2, FS_Injection

\* In a finite set with a strict total order the number of elements up to one is its place:
\* each place is some element's, and only one's.
LEMMA Places ==
    ASSUME NEW H, IsFiniteSet(H), NEW upto \in [H -> SUBSET H], NEW place,
           \A a \in H : a \in upto[a],
           \A a, b, c \in H : a \in upto[b] /\ b \in upto[c] => a \in upto[c],
           \A a, b \in H : a \in upto[b] /\ b \in upto[a] => a = b,
           \A a, b \in H : a \in upto[b] \/ b \in upto[a],
           place = [h \in H |-> Cardinality(upto[h])]
    PROVE  /\ \A h \in H : place[h] \in 1 .. Cardinality(H)
           /\ \A g, h \in H : g \in upto[h] => place[g] <= place[h]
           /\ \A g, h \in H : place[g] = place[h] => g = h
           /\ \A n \in 1 .. Cardinality(H) : \E h \in H : place[h] = n
<1> DEFINE N == 1 .. Cardinality(H)
<1>1. Cardinality(H) \in Nat
  BY FS_CardinalityType
<1>2. \A h \in H : /\ IsFiniteSet(upto[h]) /\ Cardinality(upto[h]) \in Nat
                   /\ Cardinality(upto[h]) <= Cardinality(H)
  BY FS_Subset, FS_CardinalityType
<1>3. \A h \in H : place[h] = Cardinality(upto[h])
  OBVIOUS
<1>4. \A h \in H : place[h] \in N
  <2> SUFFICES ASSUME NEW h \in H PROVE place[h] \in N
    OBVIOUS
  <2>1. upto[h] # {}
    OBVIOUS
  <2>2. Cardinality(upto[h]) # 0
    BY <1>2, <2>1, FS_EmptySet
  <2> QED
    BY <1>1, <1>2, <1>3, <2>2
<1>5. ASSUME NEW g \in H, NEW h \in H, g \in upto[h], g # h
      PROVE  place[g] < place[h]
  <2>1. upto[g] \in SUBSET upto[h]
    BY <1>5
  <2>2. h \in upto[h] /\ h \notin upto[g]
    BY <1>5
  <2>3. Cardinality(upto[g]) <= Cardinality(upto[h]) /\ Cardinality(upto[g]) # Cardinality(upto[h])
    BY <1>2, <2>1, <2>2, FS_Subset
  <2> QED
    BY <1>2, <1>3, <2>3
<1>6. \A g, h \in H : place[g] = place[h] => g = h
  <2> SUFFICES ASSUME NEW g \in H, NEW h \in H, place[g] = place[h]
               PROVE  g = h
    OBVIOUS
  <2>1. place[g] \in Int /\ ~(place[g] < place[h]) /\ ~(place[h] < place[g])
    BY <1>1, <1>4
  <2> QED
    BY <1>5, <2>1
<1>7. IsFiniteSet(N) /\ Cardinality(N) = Cardinality(H)
  BY <1>1, FS_Interval
<1> HIDE DEF N
<1>8. place \in Injection(H, N)
  BY <1>4, <1>6 DEF Injection, IsInjective
<1>9. place \in Surjection(H, N)
  BY <1>7, <1>8, FS_Injection
<1>10. \A n \in N : \E h \in H : place[h] = n
  BY <1>9 DEF Surjection
<1>11. ASSUME NEW g \in H, NEW h \in H, g \in upto[h]
       PROVE  place[g] <= place[h]
  <2>1. place[g] \in Int /\ place[h] \in Int
    BY <1>1, <1>4 DEF N
  <2> QED
    BY <1>5, <1>11, <2>1
<1> QED
  BY <1>4, <1>6, <1>10, <1>11 DEF N

\* A set of numbers has a least one.
LEMMA Least ==
    ASSUME NEW T, T \subseteq Nat, T # {}
    PROVE  \E n \in T : \A m \in T : n <= m
<1> DEFINE R == {ss \in Nat \X Nat : ss[1] < ss[2]}
<1>1. IsWellFoundedOn(R, Nat)
  BY NatLessThanWellFounded, Zenon DEF OpToRel
<1> HIDE DEF R
<1>2. PICK x \in T : \A y \in T : ~(<<y, x>> \in R)
  BY <1>1, WFMin
<1>3. \A y \in T : ~(y < x)
  BY <1>2 DEF R
<1> QED
  BY <1>3

----------------------------------------------------------------------------
(* Where arguments start *)

\* Where each of n words starts, if those of R start anew.
Starts(s, n, R) ==
    s = [i \in 1 .. n |-> IF i = 1 \/ i \in R \/ s[i - 1] # i - 1 THEN i ELSE i - 1]

\* There is such a function.
LEMMA StartsExist ==
    ASSUME NEW n \in Nat, NEW R
    PROVE  \E s : Starts(s, n, R)
<1> DEFINE T == {m \in Nat : ~ \E s : Starts(s, m, R)}
<1> SUFFICES T = {}
  OBVIOUS
<1> SUFFICES ASSUME T # {} PROVE FALSE
  OBVIOUS
<1>1. PICK m \in T : \A k \in T : m <= k
  BY Least
<1>2. CASE m = 0
  <2> DEFINE s == [i \in 1 .. 0 |-> i]
  <2>1. Starts(s, 0, R)
    BY DEF Starts
  <2> QED
    BY <1>2, <2>1
<1>3. CASE m # 0
  <2>1. m - 1 \in Nat /\ m - 1 \notin T
    BY <1>1, <1>3
  <2>2. PICK s : Starts(s, m - 1, R)
    BY <2>1
  <2> DEFINE next(f, i) == IF i = 1 \/ i \in R \/ f[i - 1] # i - 1 THEN i ELSE i - 1
             t == [i \in 1 .. m |-> IF i = m THEN next(s, m) ELSE s[i]]
  <2>3. ASSUME NEW i \in 1 .. m PROVE t[i] = next(t, i)
    <3>1. i # 1 => i - 1 \in 1 .. m /\ i - 1 # m
      OBVIOUS
    <3>2. i # 1 => t[i - 1] = s[i - 1]
      BY <3>1
    <3>3. next(t, i) = next(s, i)
      BY <3>2
    <3>4. CASE i = m
      BY <3>3, <3>4
    <3>5. CASE i # m
      <4>1. i \in 1 .. m - 1
        BY <1>3, <3>5
      <4> QED
        BY <2>2, <3>3, <3>5, <4>1 DEF Starts
    <3> QED
      BY <3>4, <3>5
  <2>4. t = [i \in 1 .. m |-> t[i]]
    OBVIOUS
  <2> HIDE DEF t
  <2>5. Starts(t, m, R)
    BY <2>3, <2>4 DEF Starts
  <2> QED
    BY <2>5
<1> QED
  BY <1>2, <1>3

\* The operator's parser.
LEMMA ArgumentOf ==
    ASSUME NEW W, NEW args \in Seq(W), NEW keys
    PROVE  Starts(argumentOf(args, keys), Len(args), {i \in DOMAIN args : args[i] \in keys})
<1> DEFINE R == {i \in DOMAIN args : args[i] \in keys}
<1>1. DOMAIN args = 1 .. Len(args) /\ Len(args) \in Nat
  OBVIOUS
<1>2. \A s : Starts(s, Len(args), R) <=>
        s = [i \in DOMAIN args |->
                IF i = 1 \/ args[i] \in keys \/ s[i - 1] # i - 1 THEN i ELSE i - 1]
  BY <1>1 DEF Starts
<1>3. \E s : Starts(s, Len(args), R)
  BY <1>1, StartsExist
<1> HIDE DEF R
<1> QED
  BY <1>2, <1>3 DEF argumentOf, R

\* Only one set of words can be where arguments start.
LEMMA StartsAt ==
    ASSUME NEW n \in Nat, NEW R, NEW s, Starts(s, n, R), NEW A,
           \A i \in 1 .. n : i \in A <=> (i = 1 \/ i \in R \/ i - 1 \notin A)
    PROVE  \A i \in 1 .. n : s[i] = i <=> i \in A
<1> DEFINE T == {i \in 1 .. n : ~(s[i] = i <=> i \in A)}
<1> SUFFICES ASSUME T # {} PROVE FALSE
  OBVIOUS
<1>0. T \subseteq Nat
  OBVIOUS
<1>1. PICK i \in T : \A k \in T : i <= k
  <2> HIDE DEF T
  <2> QED
    BY <1>0, Least
<1>2. i \in 1 .. n /\ s[i] = (IF i = 1 \/ i \in R \/ s[i - 1] # i - 1 THEN i ELSE i - 1)
  BY <1>1 DEF Starts
<1>3. s[i] = i <=> (i = 1 \/ i \in R \/ s[i - 1] # i - 1)
  BY <1>2
<1>4. i # 1 => (s[i - 1] = i - 1 <=> i - 1 \in A)
  <2> SUFFICES ASSUME i # 1 PROVE (s[i - 1] = i - 1 <=> i - 1 \in A)
    OBVIOUS
  <2>1. i - 1 \in 1 .. n /\ ~(i <= i - 1)
    BY <1>2
  <2> QED
    BY <1>1, <2>1
<1>5. i \in A <=> (i = 1 \/ i \in R \/ i - 1 \notin A)
  BY <1>2
<1> QED
  BY <1>1, <1>3, <1>4, <1>5

\* The odd places.
Odd(args) == {i \in DOMAIN args : i % 2 = 1}

\* An odd place comes first, and after an even one.
LEMMA OddPlaces ==
    ASSUME NEW n \in Nat, NEW i \in 1 .. n
    PROVE  /\ i % 2 \in {0, 1}
           /\ i % 2 = 1 <=> (i = 1 \/ (i - 1) % 2 # 1)
           /\ i % 2 = 0 => i # 1 /\ i - 1 \in 1 .. n /\ (i - 1) % 2 = 1
           /\ i % 2 = 1 /\ n % 2 = 0 => i + 1 \in 1 .. n /\ (i + 1) % 2 = 0
OBVIOUS

\* No word is a key to the operator: every second one starts an argument.
LEMMA EverySecond ==
    ASSUME NEW W, NEW args \in Seq(W)
    PROVE  argumentsAt(args, varnishArgsKeys) = Odd(args)
<1> DEFINE n == Len(args)
           R == {i \in DOMAIN args : args[i] \in varnishArgsKeys}
<1>1. n \in Nat /\ DOMAIN args = 1 .. n
  OBVIOUS
<1>2. Starts(argumentOf(args, varnishArgsKeys), n, R)
  BY ArgumentOf
<1>3. R = {}
  BY DEF varnishArgsKeys
<1> HIDE DEF n
<1>4. \A i \in 1 .. n : i \in Odd(args) <=> (i = 1 \/ i \in R \/ i - 1 \notin Odd(args))
  <2> TAKE i \in 1 .. n
  <2>1. i - 1 \in DOMAIN args <=> i # 1
    BY <1>1
  <2> QED
    BY <1>1, <1>3, <2>1, OddPlaces DEF Odd
<1> HIDE DEF R
<1>5. \A i \in 1 .. n : argumentOf(args, varnishArgsKeys)[i] = i <=> i \in Odd(args)
  BY <1>1, <1>2, <1>4, StartsAt
<1> QED
  BY <1>1, <1>5 DEF argumentsAt, Odd

\* What varnishd reads, by the set of places where options start.
LEMMA OptionsAt ==
    ASSUME NEW W, NEW args \in Seq(W), NEW A \in SUBSET DOMAIN args,
           \A i \in DOMAIN args :
                i \in A <=> (i = 1 \/ (i # 1 /\ args[i - 1] \in Flags) \/ i - 1 \notin A)
    PROVE  options(args) = [i \in A |-> argument(args, A, i)]
<1> DEFINE n == Len(args)
           R == {i \in DOMAIN args : i # 1 /\ args[i - 1] \in Flags}
           eq(s) == s = [i \in DOMAIN args |->
                        IF i = 1 \/ args[i - 1] \in Flags \/ s[i - 1] # i - 1 THEN i ELSE i - 1]
           start == CHOOSE s : eq(s)
           at == {i \in DOMAIN args : start[i] = i}
<1>1. n \in Nat /\ DOMAIN args = 1 .. n
  OBVIOUS
<1>2. \A s : Starts(s, n, R) <=> eq(s)
  <2> TAKE s
  <2>1. \A i \in 1 .. n : i = 1 \/ i \in R \/ s[i - 1] # i - 1
                          <=> i = 1 \/ args[i - 1] \in Flags \/ s[i - 1] # i - 1
    BY <1>1
  <2>2. [i \in 1 .. n |-> IF i = 1 \/ i \in R \/ s[i - 1] # i - 1 THEN i ELSE i - 1]
        = [i \in DOMAIN args |->
                IF i = 1 \/ args[i - 1] \in Flags \/ s[i - 1] # i - 1 THEN i ELSE i - 1]
    BY <1>1, <2>1
  <2> QED
    BY <2>2 DEF Starts
<1>3. \E s : eq(s)
  <2> HIDE DEF eq, n, R
  <2>1. \E s : Starts(s, n, R)
    BY <1>1, StartsExist
  <2> QED
    BY <1>2, <2>1
<1>4. options(args) = [i \in at |-> argument(args, at, i)]
  BY DEF options
<1> HIDE DEF eq
<1>5. Starts(start, n, R)
  BY <1>2, <1>3
<1>6. \A i \in 1 .. n : i \in A <=> (i = 1 \/ i \in R \/ i - 1 \notin A)
  BY <1>1
<1> HIDE DEF start, n, R
<1>7. \A i \in 1 .. n : start[i] = i <=> i \in A
  BY <1>1, <1>5, <1>6, StartsAt
<1>8. at = A
  BY <1>1, <1>7
<1> QED
  BY <1>4, <1>8

\* Of options and values in pairs varnishd reads the pairs, and so does the operator.
LEMMA PairsAreRead ==
    ASSUME NEW W, NEW args \in Seq(W), paired(args)
    PROVE  /\ options(args) = [i \in Odd(args) |-> <<args[i], args[i + 1]>>]
           /\ \A i \in Odd(args) :
                /\ argument(args, Odd(args), i) = <<args[i], args[i + 1]>>
                /\ args[i] \in Keys \ Flags /\ args[i] \in W /\ args[i + 1] \in W
<1> DEFINE n == Len(args)
           A == Odd(args)
<1>1. n \in Nat /\ DOMAIN args = 1 .. n /\ n % 2 = 0 /\ \A i \in DOMAIN args : args[i] \in W
  BY DEF paired
<1> HIDE DEF n
<1>2. \A i \in A : /\ i \in DOMAIN args /\ i + 1 \in DOMAIN args /\ i + 1 \notin A
                   /\ args[i] \in Keys \ Flags
  BY <1>1, OddPlaces DEF Odd, paired
<1>3. \A i \in A : argument(args, A, i) = <<args[i], args[i + 1]>>
  BY <1>2 DEF argument
<1>4. \A i \in DOMAIN args :
        i \in A <=> (i = 1 \/ (i # 1 /\ args[i - 1] \in Flags) \/ i - 1 \notin A)
  <2> TAKE i \in DOMAIN args
  <2>1. i - 1 \in A => args[i - 1] \notin Flags
    BY <1>2
  <2>2. i \in A <=> i % 2 = 1
    BY DEF Odd
  <2>3. i # 1 => i - 1 \in DOMAIN args
    BY <1>1
  <2>4. i # 1 => (i - 1 \in A <=> (i - 1) % 2 = 1)
    BY <2>3 DEF Odd
  <2>5. i - 1 \in A => i # 1
    BY <1>1 DEF Odd
  <2> HIDE DEF A
  <2> QED
    BY <1>1, <2>1, <2>2, <2>3, <2>4, <2>5, OddPlaces
<1>5. options(args) = [i \in A |-> argument(args, A, i)]
  BY <1>4, OptionsAt DEF Odd
<1> QED
  BY <1>1, <1>2, <1>3, <1>5

----------------------------------------------------------------------------
(* The order of arguments *)

\* What an argument is: a word, with a value or without.
Arguments == {<<v>> : v \in Range(Words)} \cup (Range(Words) \X Range(Words))

\* Words have different ranks.
LEMMA Ranks ==
    ASSUME NEW v \in Range(Words), NEW w \in Range(Words)
    PROVE  rank(v) \in Int /\ (rank(v) = rank(w) => v = w)
<1>1. DOMAIN Words \subseteq Int
  BY WordsAssumption
<1>2. \A x \in Range(Words) : \E i \in DOMAIN Words : Words[i] = x
  BY DEF Range
<1>3. \A x \in Range(Words) : rank(x) \in DOMAIN Words /\ Words[rank(x)] = x
  BY <1>2 DEF rank
<1> QED
  BY <1>1, <1>3

\* The shapes of arguments.
LEMMA Shapes ==
    ASSUME NEW a \in Arguments
    PROVE  /\ a \in Seq(Range(Words)) /\ Len(a) \in {1, 2} /\ DOMAIN a = 1 .. Len(a)
           /\ a[1] \in Range(Words)
           /\ Len(a) = 1 => a = <<a[1]>> /\ SubSeq(a, 1, 1) = a
           /\ Len(a) = 2 => /\ a = <<a[1], a[2]>> /\ a[2] \in Range(Words)
                            /\ SubSeq(a, 1, 1) = <<a[1]>>
           /\ SubSeq(a, 1, 0) = <<>>
<1> DEFINE W == Range(Words)
<1>1. CASE a \in {<<v>> : v \in W}
  <2>1. PICK v \in W : a = <<v>>
    BY <1>1
  <2> HIDE DEF W
  <2>2. a \in Seq(W) /\ Len(a) = 1 /\ DOMAIN a = 1 .. 1 /\ a[1] = v
    BY <2>1
  <2>3. SubSeq(a, 1, 1) = a
    BY <2>2
  <2>4. SubSeq(a, 1, 0) = <<>>
    BY <2>2
  <2> QED
    BY <2>1, <2>2, <2>3, <2>4 DEF W
<1>2. CASE a \in W \X W
  <2>1. PICK v \in W, w \in W : a = <<v, w>>
    BY <1>2
  <2> HIDE DEF W
  <2>2. a \in Seq(W) /\ Len(a) = 2 /\ DOMAIN a = 1 .. 2 /\ a[1] = v /\ a[2] = w
    BY <2>1
  <2>3. SubSeq(a, 1, 1) = <<a[1]>>
    <3> DEFINE t == SubSeq(a, 1, 1)
    <3>1. t \in Seq(W) /\ Len(t) = 1 /\ t[1] = a[1]
      BY <2>2, SubSeqProperties
    <3> HIDE DEF t
    <3>2. t = <<t[1]>>
      BY <3>1
    <3> QED
      BY <3>1, <3>2 DEF t
  <2>4. SubSeq(a, 1, 0) = <<>>
    BY <2>2
  <2> QED
    BY <2>1, <2>2, <2>3, <2>4 DEF W
<1> QED
  BY <1>1, <1>2 DEF Arguments

\* One argument before another: by the first words, then by the second ones, if any.
LEMMA BeforeByWords ==
    ASSUME NEW a \in Arguments, NEW b \in Arguments
    PROVE  before(a, b) <=>
               \/ rank(a[1]) < rank(b[1])
               \/ /\ a[1] = b[1]
                  /\ Len(b) = 2
                  /\ Len(a) = 1 \/ (Len(a) = 2 /\ rank(a[2]) < rank(b[2]))
<1> DEFINE less(i) == SubSeq(a, 1, i - 1) = SubSeq(b, 1, i - 1) /\ rank(a[i]) < rank(b[i])
<1>1. Len(a) < Len(b) /\ SubSeq(b, 1, Len(a)) = a
      <=> Len(a) = 1 /\ Len(b) = 2 /\ a[1] = b[1]
  BY Shapes
<1>2. less(1) <=> rank(a[1]) < rank(b[1])
  BY Shapes
<1>3. Len(a) = 2 /\ Len(b) = 2 => (less(2) <=> a[1] = b[1] /\ rank(a[2]) < rank(b[2]))
  BY Shapes
<1>4. (\E i \in DOMAIN a \cap DOMAIN b : less(i))
      <=> less(1) \/ (Len(a) = 2 /\ Len(b) = 2 /\ less(2))
  <2>1. DOMAIN a \cap DOMAIN b = IF Len(a) = 2 /\ Len(b) = 2 THEN {1, 2} ELSE {1}
    BY Shapes
  <2> HIDE DEF less
  <2> QED
    BY <2>1
<1>5. Len(a) \in {1, 2} /\ Len(b) \in {1, 2}
  BY Shapes
<1> QED
  BY <1>1, <1>2, <1>3, <1>4, <1>5 DEF before

\* It is a strict total order.
LEMMA BeforeOrders ==
    ASSUME NEW a \in Arguments, NEW b \in Arguments, NEW c \in Arguments
    PROVE  /\ ~before(a, a)
           /\ before(a, b) /\ before(b, c) => before(a, c)
           /\ a = b \/ before(a, b) \/ before(b, a)
<1> DEFINE key(x) == <<rank(x[1]), Len(x), IF Len(x) = 2 THEN rank(x[2]) ELSE 0>>
           less(x, y) == \/ key(x)[1] < key(y)[1]
                         \/ /\ key(x)[1] = key(y)[1]
                            /\ \/ key(x)[2] < key(y)[2]
                               \/ key(x)[2] = key(y)[2] /\ key(x)[3] < key(y)[3]
<1>1. ASSUME NEW x \in Arguments
      PROVE  key(x)[1] \in Int /\ key(x)[2] \in Int /\ key(x)[3] \in Int
  BY Shapes, Ranks
<1>2. ASSUME NEW x \in Arguments, NEW y \in Arguments
      PROVE  before(x, y) <=> less(x, y)
  <2>1. rank(x[1]) = rank(y[1]) <=> x[1] = y[1]
    BY Shapes, Ranks
  <2>2. Len(x) \in {1, 2} /\ Len(y) \in {1, 2}
    BY Shapes
  <2>3. /\ key(x)[1] = rank(x[1]) /\ key(x)[2] = Len(x)
        /\ Len(x) = 2 => key(x)[3] = rank(x[2])
        /\ Len(x) = 1 => key(x)[3] = 0
        /\ key(y)[1] = rank(y[1]) /\ key(y)[2] = Len(y)
        /\ Len(y) = 2 => key(y)[3] = rank(y[2])
        /\ Len(y) = 1 => key(y)[3] = 0
    OBVIOUS
  <2>4. /\ key(x)[1] \in Int /\ key(x)[2] \in Int /\ key(x)[3] \in Int
        /\ key(y)[1] \in Int /\ key(y)[2] \in Int /\ key(y)[3] \in Int
    BY <1>1
  <2>5. before(x, y) <=>
            \/ rank(x[1]) < rank(y[1])
            \/ /\ x[1] = y[1]
               /\ Len(y) = 2
               /\ Len(x) = 1 \/ (Len(x) = 2 /\ rank(x[2]) < rank(y[2]))
    BY BeforeByWords
  <2> HIDE DEF key
  <2>6. less(x, y) <=>
            \/ rank(x[1]) < rank(y[1])
            \/ /\ x[1] = y[1]
               /\ Len(y) = 2
               /\ Len(x) = 1 \/ (Len(x) = 2 /\ rank(x[2]) < rank(y[2]))
    <3>1. CASE Len(x) = 1 /\ Len(y) = 1
      BY <2>1, <2>3, <2>4, <3>1
    <3>2. CASE Len(x) = 1 /\ Len(y) = 2
      BY <2>1, <2>3, <2>4, <3>2
    <3>3. CASE Len(x) = 2 /\ Len(y) = 1
      BY <2>1, <2>3, <2>4, <3>3
    <3>4. CASE Len(x) = 2 /\ Len(y) = 2
      BY <2>1, <2>3, <2>4, <3>4
    <3> QED
      BY <2>2, <3>1, <3>2, <3>3, <3>4
  <2> QED
    BY <2>5, <2>6
<1>3. ASSUME NEW x \in Arguments, NEW y \in Arguments,
             key(x)[1] = key(y)[1], key(x)[2] = key(y)[2], key(x)[3] = key(y)[3]
      PROVE  x = y
  <2>1. Len(x) = Len(y) /\ x[1] = y[1]
    BY <1>3, Shapes, Ranks
  <2>2. Len(x) = 2 => x[2] = y[2]
    BY <1>3, <2>1, Shapes, Ranks
  <2>3. /\ Len(x) \in {1, 2}
        /\ Len(x) = 1 => x = <<x[1]>> /\ y = <<y[1]>>
        /\ Len(x) = 2 => x = <<x[1], x[2]>> /\ y = <<y[1], y[2]>>
    BY <2>1, Shapes
  <2> HIDE DEF key
  <2>4. CASE Len(x) = 1
    BY <2>1, <2>3, <2>4
  <2>5. CASE Len(x) = 2
    BY <2>1, <2>2, <2>3, <2>5
  <2> QED
    BY <2>3, <2>4, <2>5
<1> HIDE DEF key
<1> QED
  BY <1>1, <1>2, <1>3

----------------------------------------------------------------------------
(* Sorted arguments *)

\* The places of a list that are not behind i once it is sorted.
Upto(list, i) ==
    {j \in DOMAIN list : before(list[j], list[i]) \/ (list[j] = list[i] /\ j <= i)}

\* The places whose arguments are not behind c.
Below(list, c) == {j \in DOMAIN list : before(list[j], c) \/ list[j] = c}

\* The places of a list, in order.
Numbers(D) == D \subseteq Int

\* The sorted list has each argument, at the place that is counted for it.
LEMMA Sorted ==
    ASSUME NEW D, IsFiniteSet(D), Numbers(D), NEW list \in [D -> Arguments]
    PROVE  /\ sortedChunks(list) = [n \in 1 .. Cardinality(D) |-> sortedChunks(list)[n]]
           /\ \A n \in 1 .. Cardinality(D) :
                \E i \in D : n = Cardinality(Upto(list, i)) /\ sortedChunks(list)[n] = list[i]
           /\ \A i \in D : /\ Cardinality(Upto(list, i)) \in 1 .. Cardinality(D)
                           /\ sortedChunks(list)[Cardinality(Upto(list, i))] = list[i]
           /\ \A i, j \in D : Cardinality(Upto(list, i)) = Cardinality(Upto(list, j)) => i = j
<1> DEFINE N == 1 .. Cardinality(D)
           upto == [i \in D |-> Upto(list, i)]
           place == [i \in D |-> Cardinality(upto[i])]
           at(n) == CHOOSE i \in D : Cardinality(Upto(list, i)) = n
           out == [n \in N |-> list[at(n)]]
<1>1. DOMAIN list = D /\ \A i \in D : list[i] \in Arguments /\ i \in Int
  BY DEF Numbers
<1>2. upto \in [D -> SUBSET D]
  BY <1>1 DEF Upto
<1>3. \A i, j \in D : j \in upto[i] <=> before(list[j], list[i]) \/ (list[j] = list[i] /\ j <= i)
  BY <1>1 DEF Upto
<1>4. \A a, b \in D : a \in upto[b] \/ b \in upto[a]
  BY <1>1, <1>3, BeforeOrders
<1>5. \A a, b \in D : a \in upto[b] /\ b \in upto[a] => a = b
  <2> TAKE a \in D, b \in D
  <2>1. ~(before(list[a], list[b]) /\ before(list[b], list[a]))
    BY <1>1, BeforeOrders
  <2>2. list[a] = list[b] => ~before(list[a], list[b]) /\ ~before(list[b], list[a])
    BY <1>1, BeforeOrders
  <2> QED
    BY <1>1, <1>3, <2>1, <2>2
<1>6. \A a, b, c \in D : a \in upto[b] /\ b \in upto[c] => a \in upto[c]
  <2> TAKE a \in D, b \in D, c \in D
  <2>1. before(list[a], list[b]) /\ before(list[b], list[c]) => before(list[a], list[c])
    BY <1>1, BeforeOrders
  <2>2. a <= b /\ b <= c => a <= c
    BY <1>1
  <2> QED
    BY <1>3, <2>1, <2>2
<1>7. \A a \in D : a \in upto[a]
  BY <1>1, <1>3
<1>8. \A i \in D : place[i] = Cardinality(Upto(list, i))
  OBVIOUS
<1> HIDE DEF upto
<1>9. /\ \A i \in D : place[i] \in N
      /\ \A i, j \in D : place[i] = place[j] => i = j
      /\ \A n \in N : \E i \in D : place[i] = n
  <2>1. place = [i \in D |-> Cardinality(upto[i])]
    OBVIOUS
  <2> HIDE DEF place, at, out, N
  <2>2. /\ \A i \in D : place[i] \in 1 .. Cardinality(D)
        /\ \A i, j \in D : place[i] = place[j] => i = j
        /\ \A n \in 1 .. Cardinality(D) : \E i \in D : place[i] = n
    BY <2>1, <1>2, <1>4, <1>5, <1>6, <1>7, Places
  <2> QED
    BY <2>2 DEF N
<1>10. sortedChunks(list) = out
  BY <1>1 DEF sortedChunks, Upto
<1> HIDE DEF N, place
<1>11. \A i \in D : at(place[i]) = i
  BY <1>8, <1>9
<1>12. \A i \in D : out[place[i]] = list[i]
  <2> HIDE DEF at
  <2> QED
    BY <1>9, <1>11
<1>13. \A n \in N : \E i \in D : n = place[i] /\ out[n] = list[i]
  <2> HIDE DEF out
  <2> QED
    BY <1>9, <1>12
<1>14. out = [n \in N |-> out[n]]
  OBVIOUS
<1> HIDE DEF out
<1> QED
  BY <1>8, <1>9, <1>10, <1>12, <1>13, <1>14 DEF N

\* If two lists have as many arguments up to any one, neither is ahead of the other once they
\* are sorted.
LEMMA NotAhead ==
    ASSUME NEW D, IsFiniteSet(D), Numbers(D), NEW f \in [D -> Arguments],
           NEW E, IsFiniteSet(E), Numbers(E), NEW g \in [E -> Arguments],
           \A c \in Arguments : Cardinality(Below(f, c)) = Cardinality(Below(g, c)),
           Cardinality(D) = Cardinality(E), NEW n \in 1 .. Cardinality(D)
    PROVE  /\ sortedChunks(f)[n] \in Arguments
           /\ sortedChunks(g)[n] \in Arguments
           /\ ~before(sortedChunks(f)[n], sortedChunks(g)[n])
<1>1. PICK i \in D : n = Cardinality(Upto(f, i)) /\ sortedChunks(f)[n] = f[i]
  BY Sorted
<1>2. n \in 1 .. Cardinality(E)
  OBVIOUS
<1>3. PICK j \in E : n = Cardinality(Upto(g, j)) /\ sortedChunks(g)[n] = g[j]
  BY <1>2, Sorted
<1>4. f[i] \in Arguments /\ g[j] \in Arguments /\ DOMAIN f = D /\ DOMAIN g = E
  OBVIOUS
<1> SUFFICES ASSUME before(f[i], g[j]) PROVE FALSE
  BY <1>1, <1>3, <1>4
<1> DEFINE c == f[i]
<1>5. Upto(f, i) \subseteq Below(f, c) /\ Below(f, c) \subseteq D
  BY <1>4 DEF Upto, Below
<1>6. IsFiniteSet(Below(f, c)) /\ Cardinality(Upto(f, i)) <= Cardinality(Below(f, c))
  BY <1>5, FS_Subset
<1>7. Below(g, c) \subseteq Upto(g, j)
  <2> SUFFICES ASSUME NEW k \in E, before(g[k], c) \/ g[k] = c PROVE k \in Upto(g, j)
    BY <1>4 DEF Below
  <2>1. before(g[k], g[j])
    BY <1>4, BeforeOrders
  <2> QED
    BY <1>4, <2>1 DEF Upto
<1>8. j \in Upto(g, j) /\ j \notin Below(g, c)
  <2>1. ~before(g[j], c) /\ g[j] # c
    BY <1>4, BeforeOrders
  <2>2. j <= j
    BY DEF Numbers
  <2> QED
    BY <1>4, <2>1, <2>2 DEF Upto, Below
<1>9. Upto(g, j) \subseteq E
  BY <1>4 DEF Upto
<1>10. IsFiniteSet(Upto(g, j))
  BY <1>9, FS_Subset
<1>11. /\ Cardinality(Below(g, c)) <= Cardinality(Upto(g, j))
       /\ Cardinality(Below(g, c)) # Cardinality(Upto(g, j))
  BY <1>7, <1>8, <1>10, FS_Subset
<1>12. Cardinality(Below(f, c)) = Cardinality(Below(g, c))
  BY <1>4
<1>13. /\ Cardinality(Below(f, c)) \in Nat /\ Cardinality(Upto(f, i)) \in Nat
       /\ Cardinality(Below(g, c)) \in Nat /\ Cardinality(Upto(g, j)) \in Nat
  BY <1>1, <1>3, <1>6, <1>12, FS_CardinalityType
<1> HIDE DEF c
<1> QED
  BY <1>1, <1>3, <1>6, <1>11, <1>12, <1>13

\* The same arguments in another order are sorted to the same list.
LEMMA SortedSame ==
    ASSUME NEW D, IsFiniteSet(D), Numbers(D), NEW f \in [D -> Arguments],
           NEW E, IsFiniteSet(E), Numbers(E), NEW g \in [E -> Arguments],
           NEW b \in [D -> E], \A i, j \in D : b[i] = b[j] => i = j,
           \A k \in E : \E i \in D : b[i] = k,
           \A i \in D : g[b[i]] = f[i]
    PROVE  sortedChunks(f) = sortedChunks(g)
<1>1. Cardinality(D) = Cardinality(E) /\ Cardinality(D) \in Nat
  BY SameCount, FS_CardinalityType
<1>2. ASSUME NEW c \in Arguments
      PROVE  Cardinality(Below(f, c)) = Cardinality(Below(g, c))
  <2> DEFINE A == Below(f, c)
             B == Below(g, c)
             h == [i \in A |-> b[i]]
  <2>1. \A i \in D : i \in A <=> b[i] \in B
    BY DEF Below
  <2>2. A \subseteq D /\ B \subseteq E
    BY DEF Below
  <2>3. IsFiniteSet(B)
    BY <2>2, FS_Subset
  <2> HIDE DEF A, B
  <2>4. h \in [A -> B]
    BY <2>1, <2>2
  <2>5. \A x, y \in A : h[x] = h[y] => x = y
    BY <2>2
  <2>6. \A z \in B : \E x \in A : h[x] = z
    BY <2>1, <2>2
  <2> HIDE DEF h
  <2>7. Cardinality(A) = Cardinality(B)
    BY <2>3, <2>4, <2>5, <2>6, SameCount
  <2> QED
    BY <2>7 DEF A, B
<1>3. ASSUME NEW n \in 1 .. Cardinality(D)
      PROVE  sortedChunks(f)[n] = sortedChunks(g)[n]
  <2>1. /\ sortedChunks(f)[n] \in Arguments /\ sortedChunks(g)[n] \in Arguments
        /\ ~before(sortedChunks(f)[n], sortedChunks(g)[n])
    BY <1>1, <1>2, <1>3, NotAhead
  <2>2. n \in 1 .. Cardinality(E)
    BY <1>1
  <2>3. ~before(sortedChunks(g)[n], sortedChunks(f)[n])
    BY <1>1, <1>2, <2>2, NotAhead
  <2> QED
    BY <2>1, <2>3, BeforeOrders
<1>4. /\ sortedChunks(f) = [n \in 1 .. Cardinality(D) |-> sortedChunks(f)[n]]
      /\ sortedChunks(g) = [n \in 1 .. Cardinality(E) |-> sortedChunks(g)[n]]
  BY Sorted
<1>5. [n \in 1 .. Cardinality(D) |-> sortedChunks(f)[n]]
      = [n \in 1 .. Cardinality(E) |-> sortedChunks(g)[n]]
  BY <1>1, <1>3
<1> QED
  BY <1>4, <1>5

----------------------------------------------------------------------------
(* The arguments of varnishd *)

\* Our arguments, the last ones of the list.
Ours == Append(varnishArgsOverrides, ownListener)

\* There are five.
LEMMA OursByPlace ==
    /\ DOMAIN Ours = 1 .. 5
    /\ Ours[1] = <<"-F">>
    /\ Ours[2] = <<"-S", "secret">>
    /\ Ours[3] = <<"-b", "127.0.0.1:0">>
    /\ Ours[4] = <<"-T", "0.0.0.0:6082">>
    /\ Ours[5] = <<"-a", "0.0.0.0:6081">>
BY DEF Ours, varnishArgsOverrides, ownListener

\* They are made of words that varnishd knows.
LEMMA OursAreArguments ==
    ASSUME NEW j \in 1 .. 5
    PROVE  Ours[j] \in Arguments
<1> DEFINE W == Range(Words)
<1>1. "-F" \in W /\ "-S" \in W /\ "-b" \in W /\ "-T" \in W /\ "-a" \in W
  BY WordsAssumption, OwnWordsAssumption
<1>2. "secret" \in W /\ "127.0.0.1:0" \in W /\ "0.0.0.0:6082" \in W /\ "0.0.0.0:6081" \in W
  BY OwnWordsAssumption
<1>3. j = 1 \/ j = 2 \/ j = 3 \/ j = 4 \/ j = 5
  OBVIOUS
<1> HIDE DEF W
<1>4. /\ <<"-F">> \in {<<v>> : v \in W}
      /\ <<"-S", "secret">> \in W \X W
      /\ <<"-b", "127.0.0.1:0">> \in W \X W
      /\ <<"-T", "0.0.0.0:6082">> \in W \X W
      /\ <<"-a", "0.0.0.0:6081">> \in W \X W
  BY <1>1, <1>2
<1> QED
  BY <1>3, <1>4, OursByPlace DEF Arguments, W

\* Where the options start that are kept.
Kept(args) == {i \in Odd(args) : ~argSpecified(args[i])}

\* The places of what is kept and of ours.
Listed(args) == Kept(args) \cup {Len(args) + j : j \in 1 .. 5}

\* The list that is sorted, if options and values were asked for in pairs.
LEMMA ListOfPairs ==
    ASSUME NEW args \in Seq(Range(Words)), paired(args)
    PROVE  /\ IsFiniteSet(Listed(args)) /\ Numbers(Listed(args))
           /\ withOurs(args, Kept(args)) \in [Listed(args) -> Arguments]
           /\ \A i \in Kept(args) : withOurs(args, Kept(args))[i] = <<args[i], args[i + 1]>>
           /\ \A j \in 1 .. 5 : withOurs(args, Kept(args))[Len(args) + j] = Ours[j]
           /\ \A i \in Kept(args) : i \in 1 .. Len(args)
           /\ Len(args) \in Nat
           /\ getSanitizedVarnishArgs(args) = FlattenSeq(sortedChunks(withOurs(args, Kept(args))))
<1> DEFINE n == Len(args)
           K == Kept(args)
           list == withOurs(args, K)
<1>1. n \in Nat /\ DOMAIN args = 1 .. n
  OBVIOUS
<1>2. \A i \in K : i \in 1 .. n
  BY <1>1 DEF Kept, Odd
<1>3. IsFiniteSet(Listed(args)) /\ Numbers(Listed(args))
  <2>1. Listed(args) \subseteq 1 .. n + 5
    BY <1>1, <1>2 DEF Listed
  <2>2. IsFiniteSet(1 .. n + 5)
    BY <1>1, FS_Interval
  <2> QED
    BY <1>1, <2>1, <2>2, FS_Subset DEF Numbers
<1>4. argumentsAt(args, varnishArgsKeys) = Odd(args)
  BY EverySecond
<1>5. list = [i \in Listed(args) |->
                IF i \in K THEN argument(args, Odd(args), i) ELSE Ours[i - n]]
  BY <1>4, OursByPlace DEF withOurs, Ours, Listed
<1>6. \A i \in K : argument(args, Odd(args), i) = <<args[i], args[i + 1]>>
                   /\ args[i] \in Range(Words) /\ args[i + 1] \in Range(Words)
  BY PairsAreRead DEF Kept
<1> HIDE DEF n, K
<1>7. \A i \in K : i \in Listed(args) /\ list[i] = <<args[i], args[i + 1]>>
  BY <1>5, <1>6 DEF Listed, K
<1>8. \A j \in 1 .. 5 : n + j \in Listed(args) /\ list[n + j] = Ours[j]
  <2> TAKE j \in 1 .. 5
  <2> DEFINE i == n + j
  <2>1. i \in Listed(args) /\ i \notin K /\ i - n = j
    BY <1>1, <1>2 DEF Listed, n
  <2> HIDE DEF list, i
  <2>2. list[i] = Ours[i - n]
    BY <1>5, <2>1
  <2> QED
    BY <2>1, <2>2 DEF i
<1>9. \A i \in Listed(args) : i \in K \/ \E j \in 1 .. 5 : i = n + j
  BY DEF Listed, K, n
<1>10. \A i \in K : list[i] \in Arguments
  <2> TAKE i \in K
  <2>1. <<args[i], args[i + 1]>> \in Range(Words) \X Range(Words)
    BY <1>6
  <2> QED
    BY <1>7, <2>1 DEF Arguments
<1>11. \A i \in Listed(args) : list[i] \in Arguments
  BY <1>8, <1>9, <1>10, OursAreArguments
<1>12. list \in [Listed(args) -> Arguments]
  <2> DEFINE F == Listed(args)
  <2>1. list = [i \in F |-> list[i]]
    BY <1>5
  <2> HIDE DEF list
  <2> QED
    BY <1>11, <2>1
<1>13. getSanitizedVarnishArgs(args) = FlattenSeq(sortedChunks(withOurs(args, Kept(args))))
  BY <1>4 DEF getSanitizedVarnishArgs, Kept
<1> QED
  BY <1>1, <1>2, <1>3, <1>7, <1>8, <1>12, <1>13 DEF K, n

\* What is asked for in another order is passed on in the same.
LEMMA OrderIsLost ==
    ASSUME NEW old \in Seq(Range(Words)), paired(old),
           NEW new \in Seq(Range(Words)), paired(new),
           reordered(options(old), options(new))
    PROVE  getSanitizedVarnishArgs(old) = getSanitizedVarnishArgs(new)
<1> DEFINE m == Len(old)
           n == Len(new)
           f == withOurs(old, Kept(old))
           g == withOurs(new, Kept(new))
           D == Listed(old)
           E == Listed(new)
           A == Odd(old)
           B == Odd(new)
<1>1. /\ options(old) = [i \in A |-> <<old[i], old[i + 1]>>]
      /\ options(new) = [i \in B |-> <<new[i], new[i + 1]>>]
  BY PairsAreRead
<1>2. DOMAIN options(old) = A /\ DOMAIN options(new) = B
  BY <1>1
<1>3. PICK p \in Bijection(A, B) : \A i \in A : options(new)[p[i]] = options(old)[i]
  BY <1>2 DEF reordered
<1>4. /\ p \in [A -> B]
      /\ \A i, j \in A : p[i] = p[j] => i = j
      /\ \A k \in B : \E i \in A : p[i] = k
  BY DEF Bijection, Injection, Surjection, IsInjective
<1>5. \A i \in A : p[i] \in B /\ <<new[p[i]], new[p[i] + 1]>> = <<old[i], old[i + 1]>>
  <2> TAKE i \in A
  <2>1. p[i] \in B
    BY <1>4
  <2> HIDE DEF A, B
  <2>2. options(new)[p[i]] = <<new[p[i]], new[p[i] + 1]>>
    BY <1>1, <2>1
  <2>3. options(old)[i] = <<old[i], old[i + 1]>>
    BY <1>1
  <2> QED
    BY <1>3, <2>1, <2>2, <2>3
<1>6. \A i \in A : new[p[i]] = old[i] /\ (i \in Kept(old) <=> p[i] \in Kept(new))
  <2> TAKE i \in A
  <2>1. p[i] \in B /\ new[p[i]] = old[i]
    BY <1>5
  <2> QED
    BY <2>1 DEF Kept
<1>7. Kept(old) \subseteq A /\ Kept(new) \subseteq B
  BY DEF Kept
<1>8. /\ IsFiniteSet(D) /\ Numbers(D) /\ f \in [D -> Arguments]
      /\ IsFiniteSet(E) /\ Numbers(E) /\ g \in [E -> Arguments]
      /\ \A i \in Kept(old) : f[i] = <<old[i], old[i + 1]>> /\ i \in 1 .. m
      /\ \A i \in Kept(new) : g[i] = <<new[i], new[i + 1]>> /\ i \in 1 .. n
      /\ \A j \in 1 .. 5 : f[m + j] = Ours[j] /\ g[n + j] = Ours[j]
      /\ m \in Nat /\ n \in Nat
  BY ListOfPairs
<1>9. /\ \A i : i \in D <=> i \in Kept(old) \/ \E j \in 1 .. 5 : i = m + j
      /\ \A i : i \in E <=> i \in Kept(new) \/ \E j \in 1 .. 5 : i = n + j
  BY DEF Listed
<1> DEFINE b == [i \in D |-> IF i \in Kept(old) THEN p[i] ELSE n + (i - m)]
<1> HIDE DEF f, g, D, E, A, B, m, n
<1>10. \A i \in D : /\ i \in Kept(old) => b[i] = p[i] /\ b[i] \in Kept(new)
                    /\ i \notin Kept(old) =>
                        \E j \in 1 .. 5 : i = m + j /\ b[i] = n + j
  <2> TAKE i \in D
  <2>1. CASE i \in Kept(old)
    BY <1>6, <1>7, <2>1
  <2>2. CASE i \notin Kept(old)
    <3>1. PICK j \in 1 .. 5 : i = m + j
      BY <1>9, <2>2
    <3>2. b[i] = n + j
      BY <1>8, <2>2, <3>1
    <3> QED
      BY <2>2, <3>1, <3>2
  <2> QED
    BY <2>1, <2>2
<1>11. b \in [D -> E]
  <2>1. \A i \in D : b[i] \in E
    BY <1>9, <1>10
  <2>2. b = [i \in D |-> b[i]]
    OBVIOUS
  <2> HIDE DEF b
  <2> QED
    BY <2>1, <2>2
<1> HIDE DEF b
<1>12. \A i \in Kept(old), j \in D : b[i] = b[j] => i = j
  <2> SUFFICES ASSUME NEW i \in Kept(old), NEW j \in D, b[i] = b[j] PROVE i = j
    OBVIOUS
  <2>1. i \in D /\ b[i] = p[i] /\ b[i] \in 1 .. n
    BY <1>8, <1>9, <1>10
  <2>2. ASSUME j \notin Kept(old) PROVE FALSE
    <3>1. PICK k \in 1 .. 5 : b[j] = n + k
      BY <1>10, <2>2
    <3>2. n \in Nat /\ k \in 1 .. 5 /\ b[i] \in 1 .. n /\ b[i] = n + k
      BY <1>8, <2>1, <3>1
    <3> QED
      BY <3>2
  <2> QED
    BY <1>4, <1>7, <1>10, <2>1, <2>2
<1>13. \A i, j \in D : b[i] = b[j] => i = j
  <2> SUFFICES ASSUME NEW i \in D, NEW j \in D, b[i] = b[j], i \notin Kept(old), j \notin Kept(old)
               PROVE  i = j
    BY <1>12
  <2>1. PICK k \in 1 .. 5 : i = m + k /\ b[i] = n + k
    BY <1>10
  <2>2. PICK l \in 1 .. 5 : j = m + l /\ b[j] = n + l
    BY <1>10
  <2>3. k = l
    <3>1. n \in Nat /\ n + k = n + l
      BY <1>8, <2>1, <2>2
    <3> QED
      BY <3>1
  <2> QED
    BY <2>1, <2>2, <2>3
<1>14. \A k \in E : \E i \in D : b[i] = k
  <2> TAKE k \in E
  <2>1. CASE k \in Kept(new)
    <3>1. PICK i \in A : p[i] = k
      BY <1>4, <1>7, <2>1
    <3>2. i \in Kept(old) /\ i \in D
      BY <1>6, <1>9, <2>1, <3>1
    <3> QED
      BY <1>10, <3>1, <3>2
  <2>2. CASE k \notin Kept(new)
    <3>1. PICK j \in 1 .. 5 : k = n + j
      BY <1>9, <2>2
    <3>2. m + j \in D /\ m + j \notin Kept(old)
      <4>1. m + j \in D
        BY <1>9
      <4>2. m \in Nat /\ m + j \notin 1 .. m
        BY <1>8
      <4> QED
        BY <1>8, <4>1, <4>2
    <3>3. PICK l \in 1 .. 5 : m + j = m + l /\ b[m + j] = n + l
      BY <1>10, <3>2
    <3>4. l = j
      <4>1. m \in Nat /\ m + j = m + l
        BY <1>8, <3>3
      <4> QED
        BY <4>1
    <3> QED
      BY <3>1, <3>2, <3>3, <3>4
  <2> QED
    BY <2>1, <2>2
<1>15. \A i \in D : g[b[i]] = f[i]
  <2> TAKE i \in D
  <2>1. CASE i \in Kept(old)
    <3>1. b[i] = p[i] /\ b[i] \in Kept(new) /\ i \in A
      BY <1>7, <1>10, <2>1
    <3>2. g[b[i]] = <<new[p[i]], new[p[i] + 1]>>
      BY <1>8, <3>1
    <3> QED
      BY <1>5, <1>8, <2>1, <3>1, <3>2
  <2>2. CASE i \notin Kept(old)
    <3>1. PICK j \in 1 .. 5 : i = m + j /\ b[i] = n + j
      BY <1>10, <2>2
    <3> QED
      BY <1>8, <3>1
  <2> QED
    BY <2>1, <2>2
<1>16. sortedChunks(f) = sortedChunks(g)
  <2>1. IsFiniteSet(D) /\ Numbers(D) /\ f \in [D -> Arguments]
    BY <1>8
  <2>2. IsFiniteSet(E) /\ Numbers(E) /\ g \in [E -> Arguments]
    BY <1>8
  <2> QED
    BY <2>1, <2>2, <1>11, <1>13, <1>14, <1>15, SortedSame
<1> QED
  BY <1>16, ListOfPairs DEF f, g

----------------------------------------------------------------------------
(* What a pass applies *)

\* What is stored has arguments of known words, and what was applied was made of such.
AppliedInv ==
    /\ stored # Absent => DOMAIN stored = SpecFields /\ stored.args \in Seq(Range(Words))
    /\ applied # Absent => /\ applied.spec.args \in Seq(Range(Words))
                           /\ applied.args = getSanitizedVarnishArgs(applied.spec.args)

\* Defaults leave the arguments as they are.
LEMMA DefaultsKeepArgs ==
    ASSUME NEW s, DOMAIN s = SpecFields
    PROVE  /\ DOMAIN Default(s) = SpecFields /\ Default(s).args = s.args
           /\ SetVarnishClusterDefaults(s).args = s.args
BY DEF SpecFields, Default, SetVarnishClusterDefaults, defaultVarnish, defaultVarnishClusterSpec

\* Every step applies what the stored spec asks for.
LEMMA AppliedStep ==
    ASSUME AppliedInv, [Next]_vars
    PROVE  AppliedInv'
<1>1. ASSUME NEW s \in Submissions, Submit(s) PROVE AppliedInv'
  <2>1. DOMAIN s = SpecFields /\ s.args \in Seq(Range(Words))
    BY SubmissionsAssumption
  <2>2. stored' \in {s, Default(s)} /\ applied' = applied
    BY <1>1 DEF Submit
  <2> QED
    BY <2>1, <2>2, DefaultsKeepArgs DEF AppliedInv
<1>2. CASE Reconcile
  <2>1. stored # Absent /\ stored' = stored
        /\ applied' = [spec |-> SetVarnishClusterDefaults(stored),
                       args |-> getSanitizedVarnishArgs(SetVarnishClusterDefaults(stored).args)]
    BY <1>2 DEF Reconcile
  <2>2. SetVarnishClusterDefaults(stored).args \in Seq(Range(Words))
    BY <2>1, DefaultsKeepArgs DEF AppliedInv
  <2>3. applied'.spec.args = SetVarnishClusterDefaults(stored).args
        /\ applied'.args = getSanitizedVarnishArgs(SetVarnishClusterDefaults(stored).args)
    BY <2>1
  <2> QED
    BY <2>1, <2>2, <2>3 DEF AppliedInv
<1>3. CASE Deploy \/ UNCHANGED vars
  BY <1>3 DEF Deploy, vars, AppliedInv
<1> QED
  BY <1>1, <1>2, <1>3 DEF Next

\* It holds throughout.
LEMMA AppliedInvariance == Spec => []AppliedInv
<1>1. Init => AppliedInv
  BY DEF Init, AppliedInv
<1> QED
  BY <1>1, AppliedStep, PTL DEF Spec

\* "so they won't appear in different order in different reconcile loops and trigger
\* redeployment" (varnish_args.go:56): if options and values are asked for in pairs, the
\* arguments that getSanitizedVarnishArgs makes of them do not depend on their order.
THEOREM OrderDoesNotMatter == Spec => OrderRestartsNothing
<1>1. ASSUME AppliedInv, AppliedInv', applied # Absent, applied' # Absent,
             paired(applied.spec.args), paired(applied'.spec.args),
             reordered(options(applied.spec.args), options(applied'.spec.args))
      PROVE  applied'.args = applied.args
  <2> DEFINE old == applied.spec.args
             new == applied'.spec.args
  <2>1. old \in Seq(Range(Words)) /\ applied.args = getSanitizedVarnishArgs(old)
    BY <1>1 DEF AppliedInv
  <2>2. new \in Seq(Range(Words)) /\ applied'.args = getSanitizedVarnishArgs(new)
    BY <1>1 DEF AppliedInv
  <2>3. paired(old) /\ paired(new) /\ reordered(options(old), options(new))
    BY <1>1
  <2> HIDE DEF old, new
  <2>4. getSanitizedVarnishArgs(old) = getSanitizedVarnishArgs(new)
    BY <2>1, <2>2, <2>3, OrderIsLost
  <2> QED
    BY <2>1, <2>2, <2>4
<1>2. AppliedInv /\ AppliedInv' /\ [Next]_vars =>
        [/\ applied # Absent /\ applied' # Absent
         /\ paired(applied.spec.args) /\ paired(applied'.spec.args)
         /\ reordered(options(applied.spec.args), options(applied'.spec.args))
         => applied'.args = applied.args]_vars
  BY <1>1
<1> QED
  BY <1>2, AppliedInvariance, PTL DEF Spec, OrderRestartsNothing

----------------------------------------------------------------------------
(* What varnishd reads of the arguments *)

\* The first m lists of L, one behind the other, for each m.
Flattened(f, L, n) == f = [i \in 1 .. n |-> IF i = 1 THEN L[i] ELSE f[i - 1] \o L[i]]

\* There are such.
LEMMA FlattenedExist ==
    ASSUME NEW n \in Nat, NEW L
    PROVE  \E f : Flattened(f, L, n)
<1> DEFINE T == {m \in Nat : ~ \E f : Flattened(f, L, m)}
<1> SUFFICES ASSUME T # {} PROVE FALSE
  OBVIOUS
<1>1. PICK m \in T : \A k \in T : m <= k
  BY Least
<1>2. CASE m = 0
  <2> DEFINE f == [i \in 1 .. 0 |-> i]
  <2>1. Flattened(f, L, 0)
    BY DEF Flattened
  <2> QED
    BY <1>2, <2>1
<1>3. CASE m # 0
  <2>1. m - 1 \in Nat /\ m - 1 \notin T
    BY <1>1, <1>3
  <2>2. PICK f : Flattened(f, L, m - 1)
    BY <2>1
  <2> DEFINE next(h, i) == IF i = 1 THEN L[i] ELSE h[i - 1] \o L[i]
             g == [i \in 1 .. m |-> IF i = m THEN next(f, m) ELSE f[i]]
  <2>3. ASSUME NEW i \in 1 .. m PROVE g[i] = next(g, i)
    <3>1. i # 1 => i - 1 \in 1 .. m /\ i - 1 # m
      OBVIOUS
    <3>2. i # 1 => g[i - 1] = f[i - 1]
      BY <3>1
    <3>3. next(g, i) = next(f, i)
      BY <3>2
    <3>4. CASE i = m
      BY <3>3, <3>4
    <3>5. CASE i # m
      <4>1. i \in 1 .. m - 1
        BY <1>3, <3>5
      <4> QED
        BY <2>2, <3>3, <3>5, <4>1 DEF Flattened
    <3> QED
      BY <3>4, <3>5
  <2>4. g = [i \in 1 .. m |-> g[i]]
    OBVIOUS
  <2> HIDE DEF g
  <2>5. Flattened(g, L, m)
    BY <2>3, <2>4 DEF Flattened
  <2> QED
    BY <2>5
<1> QED
  BY <1>2, <1>3

\* The last of them is what FlattenSeq returns.
LEMMA FlattenSeqIsLast ==
    ASSUME NEW n \in Nat \ {0}, NEW S, NEW L \in [1 .. n -> S]
    PROVE  \E f : Flattened(f, L, n) /\ FlattenSeq(L) = f[n]
<1>1. L \in Seq(S) /\ Len(L) = n
  OBVIOUS
<1>2. \E f : Flattened(f, L, n)
  BY FlattenedExist
<1> DEFINE eq(f) == f = [i \in 1 .. Len(L) |-> IF i = 1 THEN L[i] ELSE f[i - 1] \o L[i]]
           last == CHOOSE f : eq(f)
<1>3. \A f : eq(f) <=> Flattened(f, L, n)
  BY <1>1 DEF Flattened
<1>4. FlattenSeq(L) = last[Len(L)]
  BY <1>1 DEF FlattenSeq
<1> HIDE DEF eq
<1>5. eq(last)
  BY <1>2, <1>3
<1> QED
  BY <1>1, <1>3, <1>4, <1>5

\* Where list k starts in what is flattened.
From(f, L, k) == Len(f[k]) - Len(L[k]) + 1

\* The first m lists lie in f[m] one behind the other, and nothing else does.
Laid(f, L, m, W) ==
    /\ f[m] \in Seq(W)
    /\ From(f, L, m) + Len(L[m]) = Len(f[m]) + 1
    /\ \A k \in 1 .. m :
        /\ From(f, L, k) \in Nat \ {0}
        /\ From(f, L, k) + Len(L[k]) <= Len(f[m]) + 1
        /\ f[m][From(f, L, k)] = L[k][1]
        /\ Len(L[k]) = 2 => f[m][From(f, L, k) + 1] = L[k][2]
        /\ k # 1 => From(f, L, k) = From(f, L, k - 1) + Len(L[k - 1])
    /\ \A j, k \in 1 .. m : j < k => From(f, L, j) + Len(L[j]) <= From(f, L, k)
    /\ \A i \in 1 .. Len(f[m]) : \E k \in 1 .. m :
        i = From(f, L, k) \/ (Len(L[k]) = 2 /\ i = From(f, L, k) + 1)

\* One or two words behind others.
LEMMA OneOrTwoMore ==
    ASSUME NEW W, NEW s \in Seq(W), NEW c \in Seq(W), Len(c) \in {1, 2}
    PROVE  /\ s \o c \in Seq(W) /\ Len(s \o c) = Len(s) + Len(c)
           /\ \A i \in 1 .. Len(s) : (s \o c)[i] = s[i]
           /\ (s \o c)[Len(s) + 1] = c[1]
           /\ Len(c) = 2 => (s \o c)[Len(s) + 2] = c[2]
           /\ \A i \in 1 .. Len(s \o c) :
                i \in 1 .. Len(s) \/ i = Len(s) + 1 \/ (Len(c) = 2 /\ i = Len(s) + 2)
<1> DEFINE t == s \o c
           l == Len(s)
           m == Len(c)
<1>1. /\ t \in Seq(W) /\ Len(t) = l + m
      /\ \A i \in 1 .. l + m : t[i] = IF i <= l THEN s[i] ELSE c[i - l]
  BY ConcatProperties
<1>2. l \in Nat /\ m \in {1, 2}
  OBVIOUS
<1> HIDE DEF t, l, m
<1>3. \A i \in 1 .. l : t[i] = s[i]
  BY <1>1, <1>2
<1>4. t[l + 1] = c[1]
  <2>1. l + 1 \in 1 .. l + m /\ ~(l + 1 <= l) /\ (l + 1) - l = 1
    BY <1>2
  <2> QED
    BY <1>1, <2>1
<1>5. m = 2 => t[l + 2] = c[2]
  <2>1. m = 2 => l + 2 \in 1 .. l + m /\ ~(l + 2 <= l) /\ (l + 2) - l = 2
    BY <1>2
  <2> QED
    BY <1>1, <2>1
<1>6. \A i \in 1 .. l + m : i \in 1 .. l \/ i = l + 1 \/ (m = 2 /\ i = l + 2)
  BY <1>2
<1>7. /\ t \in Seq(W) /\ Len(t) = l + m
      /\ \A i \in 1 .. l : t[i] = s[i]
      /\ t[l + 1] = c[1]
      /\ m = 2 => t[l + 2] = c[2]
      /\ \A i \in 1 .. Len(t) : i \in 1 .. l \/ i = l + 1 \/ (m = 2 /\ i = l + 2)
  BY <1>1, <1>3, <1>4, <1>5, <1>6
<1> QED
  BY <1>7 DEF t, l, m

\* Lists of one or two words are laid so, however many.
LEMMA AllLaid ==
    ASSUME NEW n \in Nat, NEW W, NEW f, NEW L, Flattened(f, L, n),
           \A k \in 1 .. n : L[k] \in Seq(W) /\ Len(L[k]) \in {1, 2}
    PROVE  \A m \in 1 .. n : Laid(f, L, m, W)
<1> DEFINE T == {m \in 1 .. n : ~Laid(f, L, m, W)}
<1> SUFFICES ASSUME T # {} PROVE FALSE
  OBVIOUS
<1>0. T \subseteq Nat
  OBVIOUS
<1>1. PICK m \in T : \A k \in T : m <= k
  <2> HIDE DEF T
  <2> QED
    BY <1>0, Least
<1> DEFINE from(k) == From(f, L, k)
<1>2. m \in 1 .. n /\ ~Laid(f, L, m, W) /\ L[m] \in Seq(W) /\ Len(L[m]) \in {1, 2}
  BY <1>1
<1>3. CASE m = 1
  <2>1. f[1] = L[1]
    BY <1>2, <1>3 DEF Flattened
  <2>2. from(1) = 1
    BY <1>2, <1>3, <2>1 DEF From
  <2>3. \A i \in 1 .. Len(f[1]) : i = 1 \/ (Len(L[1]) = 2 /\ i = 1 + 1)
    <3>1. CASE Len(L[1]) = 1
      BY <2>1, <3>1
    <3>2. CASE Len(L[1]) = 2
      BY <2>1, <3>2
    <3> QED
      BY <1>2, <1>3, <3>1, <3>2
  <2>4. Laid(f, L, 1, W)
    BY <1>2, <1>3, <2>1, <2>2, <2>3 DEF Laid
  <2> QED
    BY <1>2, <1>3, <2>4
<1>4. CASE m # 1
  <2> DEFINE p == m - 1
             s == f[p]
             t == f[m]
  <2>1. p \in 1 .. n /\ p \notin T /\ p \in Nat
    BY <1>1, <1>2, <1>4
  <2>2. Laid(f, L, p, W)
    BY <2>1
  <2>3. t = s \o L[m]
    BY <1>2, <1>4 DEF Flattened
  <2>4. s \in Seq(W) /\ Len(s) \in Nat
    BY <2>2 DEF Laid
  <2>5. /\ t \in Seq(W) /\ Len(t) = Len(s) + Len(L[m])
        /\ \A i \in 1 .. Len(s) : t[i] = s[i]
        /\ t[Len(s) + 1] = L[m][1]
        /\ Len(L[m]) = 2 => t[Len(s) + 2] = L[m][2]
        /\ \A i \in 1 .. Len(t) :
            i \in 1 .. Len(s) \/ i = Len(s) + 1 \/ (Len(L[m]) = 2 /\ i = Len(s) + 2)
    <3> HIDE DEF s, t
    <3> QED
      BY <1>2, <2>3, <2>4, OneOrTwoMore
  <2>6. from(m) = Len(s) + 1
    BY <1>2, <2>4, <2>5 DEF From
  <2> HIDE DEF s, t, from
  <2>7. /\ from(p) + Len(L[p]) = Len(s) + 1
        /\ \A k \in 1 .. p :
            /\ from(k) \in Nat \ {0}
            /\ from(k) + Len(L[k]) <= Len(s) + 1
            /\ s[from(k)] = L[k][1]
            /\ Len(L[k]) = 2 => s[from(k) + 1] = L[k][2]
            /\ k # 1 => from(k) = from(k - 1) + Len(L[k - 1])
        /\ \A j, k \in 1 .. p : j < k => from(j) + Len(L[j]) <= from(k)
        /\ \A i \in 1 .. Len(s) : \E k \in 1 .. p :
            i = from(k) \/ (Len(L[k]) = 2 /\ i = from(k) + 1)
    BY <2>2 DEF Laid, s, from
  <2>8. \A k \in 1 .. m : k \in 1 .. p \/ k = m
    BY <1>2
  <2>9. ASSUME NEW k \in 1 .. m
        PROVE  /\ from(k) \in Nat \ {0}
               /\ from(k) + Len(L[k]) <= Len(t) + 1
               /\ t[from(k)] = L[k][1]
               /\ Len(L[k]) = 2 => t[from(k) + 1] = L[k][2]
               /\ k # 1 => from(k) = from(k - 1) + Len(L[k - 1])
    <3>1. CASE k = m
      BY <1>2, <2>4, <2>5, <2>6, <2>7, <3>1
    <3>2. CASE k \in 1 .. p
      <4>1. Len(L[k]) \in {1, 2}
        BY <1>2
      <4>2. from(k) \in Nat \ {0} /\ from(k) + Len(L[k]) <= Len(s) + 1
        BY <2>7, <3>2
      <4>3. from(k) \in 1 .. Len(s) /\ (Len(L[k]) = 2 => from(k) + 1 \in 1 .. Len(s))
        <5> DEFINE l == Len(s)
                   w == Len(L[k])
                   i == from(k)
        <5>1. l \in Nat /\ w \in {1, 2} /\ i \in Nat \ {0} /\ i + w <= l + 1
          BY <2>4, <4>1, <4>2
        <5> HIDE DEF l, w, i
        <5>2. i \in 1 .. l /\ (w = 2 => i + 1 \in 1 .. l)
          BY <5>1
        <5> QED
          BY <5>2 DEF l, w, i
      <4>4. from(k) + Len(L[k]) <= Len(t) + 1
        BY <1>2, <2>4, <2>5, <4>1, <4>2
      <4> QED
        BY <2>5, <2>7, <3>2, <4>3, <4>4
    <3> QED
      BY <2>8, <3>1, <3>2
  <2>10. ASSUME NEW j \in 1 .. m, NEW k \in 1 .. m, j < k
         PROVE  from(j) + Len(L[j]) <= from(k)
    <3>1. j \in 1 .. p
      BY <1>2, <2>10
    <3>2. CASE k = m
      BY <2>6, <2>7, <3>1, <3>2
    <3>3. CASE k \in 1 .. p
      BY <2>7, <2>10, <3>1, <3>3
    <3> QED
      BY <2>8, <3>2, <3>3
  <2>11. ASSUME NEW i \in 1 .. Len(t)
         PROVE  \E k \in 1 .. m : i = from(k) \/ (Len(L[k]) = 2 /\ i = from(k) + 1)
    <3>1. CASE i \in 1 .. Len(s)
      <4>1. PICK k \in 1 .. p : i = from(k) \/ (Len(L[k]) = 2 /\ i = from(k) + 1)
        BY <2>7, <3>1
      <4>2. k \in 1 .. m
        BY <1>2
      <4> QED
        BY <4>1, <4>2
    <3>2. CASE i \notin 1 .. Len(s)
      <4>1. i = Len(s) + 1 \/ (Len(L[m]) = 2 /\ i = Len(s) + 2)
        BY <2>5, <3>2
      <4>2. i = from(m) \/ (Len(L[m]) = 2 /\ i = from(m) + 1)
        BY <2>4, <2>6, <4>1
      <4>3. m \in 1 .. m
        BY <1>2
      <4> QED
        BY <4>2, <4>3
    <3> QED
      BY <3>1, <3>2
  <2>12. from(m) + Len(L[m]) = Len(t) + 1
    <3> DEFINE l == Len(s)
               w == Len(L[m])
    <3>1. l \in Nat /\ w \in {1, 2} /\ Len(t) = l + w /\ from(m) = l + 1
      BY <1>2, <2>4, <2>5, <2>6
    <3> HIDE DEF l, w
    <3>2. from(m) + w = Len(t) + 1
      BY <3>1
    <3> QED
      BY <3>2 DEF w
  <2>13. Laid(f, L, m, W)
    BY <2>5, <2>9, <2>10, <2>11, <2>12 DEF Laid, t, from
  <2> QED
    BY <1>2, <2>13
<1> QED
  BY <1>3, <1>4

\* Of flags alone and options with values varnishd reads each as it was put down, where it
\* was put, and nothing else.
LEMMA ReadBack ==
    ASSUME NEW n \in Nat \ {0}, NEW L \in [1 .. n -> Arguments],
           \A k \in 1 .. n : L[k][1] \in Flags <=> Len(L[k]) = 1
    PROVE  \E from :
            /\ \A k \in 1 .. n : /\ from[k] \in DOMAIN options(FlattenSeq(L))
                                 /\ options(FlattenSeq(L))[from[k]] = L[k]
            /\ \A i \in DOMAIN options(FlattenSeq(L)) : \E k \in 1 .. n : i = from[k]
            /\ \A j, k \in 1 .. n : from[j] = from[k] => j = k
<1> DEFINE W == Range(Words)
           out == FlattenSeq(L)
<1>1. PICK f : Flattened(f, L, n) /\ out = f[n]
  BY FlattenSeqIsLast
<1> DEFINE from == [k \in 1 .. n |-> From(f, L, k)]
           A == {from[k] : k \in 1 .. n}
<1> HIDE DEF out
<1>2. \A k \in 1 .. n : /\ L[k] \in Seq(W) /\ Len(L[k]) \in {1, 2}
                        /\ Len(L[k]) = 1 => L[k] = <<L[k][1]>>
                        /\ Len(L[k]) = 2 => L[k] = <<L[k][1], L[k][2]>>
  BY Shapes
<1>3. Laid(f, L, n, W)
  <2>1. n \in 1 .. n
    OBVIOUS
  <2> HIDE DEF W
  <2> QED
    BY <1>1, <1>2, <2>1, AllLaid
<1>4. /\ out \in Seq(W)
      /\ \A k \in 1 .. n :
            /\ from[k] \in Nat \ {0}
            /\ from[k] + Len(L[k]) <= Len(out) + 1
            /\ out[from[k]] = L[k][1]
            /\ Len(L[k]) = 2 => out[from[k] + 1] = L[k][2]
      /\ \A j, k \in 1 .. n : j < k => from[j] + Len(L[j]) <= from[k]
      /\ \A i \in 1 .. Len(out) : \E k \in 1 .. n :
            i = from[k] \/ (Len(L[k]) = 2 /\ i = from[k] + 1)
  BY <1>1, <1>3 DEF Laid
<1> HIDE DEF from, W
<1> DEFINE l == Len(out)
<1>5. l \in Nat /\ DOMAIN out = 1 .. l
  BY <1>4
<1> HIDE DEF l
<1>6. \A k \in 1 .. n :
        /\ from[k] \in 1 .. l
        /\ Len(L[k]) = 2 => from[k] + 1 \in 1 .. l
  <2> TAKE k \in 1 .. n
  <2> DEFINE w == Len(L[k])
  <2>1. w \in {1, 2} /\ from[k] \in Nat \ {0} /\ from[k] + w <= l + 1
    BY <1>2, <1>4 DEF l
  <2> HIDE DEF w
  <2>2. from[k] \in 1 .. l /\ (w = 2 => from[k] + 1 \in 1 .. l)
    BY <1>5, <2>1
  <2> QED
    BY <2>2 DEF w
<1>7. ASSUME NEW j \in 1 .. n, NEW k \in 1 .. n, j < k
      PROVE  from[j] # from[k] /\ (Len(L[j]) = 2 => from[j] + 1 # from[k]) /\ from[k] + 1 # from[j]
  <2> DEFINE w == Len(L[j])
  <2>1. w \in {1, 2} /\ from[j] + w <= from[k] /\ from[j] \in Nat /\ from[k] \in Nat
    BY <1>2, <1>4, <1>7
  <2> HIDE DEF w
  <2>2. from[j] # from[k] /\ (w = 2 => from[j] + 1 # from[k]) /\ from[k] + 1 # from[j]
    BY <2>1
  <2> QED
    BY <2>2 DEF w
<1>8. \A j, k \in 1 .. n : j = k \/ j < k \/ k < j
  OBVIOUS
<1>9. \A j, k \in 1 .. n : from[j] = from[k] => j = k
  BY <1>7, <1>8
<1>10. \A j, k \in 1 .. n : Len(L[j]) = 2 => from[j] + 1 # from[k]
  <2> TAKE j, k \in 1 .. n
  <2>1. j = k => from[j] + 1 # from[k]
    BY <1>4
  <2> QED
    BY <1>7, <1>8, <2>1
<1>11. A \in SUBSET DOMAIN out
  BY <1>5, <1>6
<1>12. \A i \in 1 .. l : \E k \in 1 .. n : i = from[k] \/ (Len(L[k]) = 2 /\ i = from[k] + 1)
  BY <1>4 DEF l
<1>13. ASSUME NEW i \in DOMAIN out
       PROVE  i \in A <=> (i = 1 \/ (i # 1 /\ out[i - 1] \in Flags) \/ i - 1 \notin A)
  <2>1. PICK k \in 1 .. n : i = from[k] \/ (Len(L[k]) = 2 /\ i = from[k] + 1)
    BY <1>5, <1>12
  <2>2. from[k] \in 1 .. l /\ i \in 1 .. l
    BY <1>5, <1>6
  <2>3. CASE i = from[k]
    <3>1. i \in A
      BY <2>3
    <3>2. ASSUME i # 1, i - 1 \in A PROVE out[i - 1] \in Flags
      <4>1. PICK j \in 1 .. n : i - 1 = from[j]
        BY <3>2
      <4>2. from[j] + 1 = from[k]
        BY <2>2, <2>3, <4>1
      <4>3. Len(L[j]) = 1
        BY <1>2, <1>10, <4>2
      <4> QED
        BY <1>4, <4>1, <4>3
    <3> QED
      BY <3>1, <3>2
  <2>4. CASE Len(L[k]) = 2 /\ i = from[k] + 1
    <3>1. i \notin A
      BY <1>10, <2>4
    <3>2. i - 1 = from[k] /\ i # 1
      BY <2>2, <2>4
    <3>3. i - 1 \in A
      BY <3>2
    <3>4. out[i - 1] = L[k][1]
      BY <1>4, <3>2
    <3>5. L[k][1] \notin Flags
      <4>1. Len(L[k]) # 1
        BY <2>4
      <4> QED
        BY <4>1
    <3> QED
      BY <3>1, <3>2, <3>3, <3>4, <3>5
  <2> QED
    BY <2>1, <2>3, <2>4
<1>14. options(out) = [i \in A |-> argument(out, A, i)]
  <2> HIDE DEF A
  <2> QED
    BY <1>4, <1>11, <1>13, OptionsAt
<1>15. ASSUME NEW k \in 1 .. n
       PROVE  from[k] \in A /\ argument(out, A, from[k]) = L[k]
  <2>1. from[k] \in A
    OBVIOUS
  <2>2. CASE Len(L[k]) = 2
    <3>1. from[k] + 1 \in DOMAIN out \ A
      BY <1>5, <1>6, <1>10, <2>2
    <3>2. argument(out, A, from[k]) = <<out[from[k]], out[from[k] + 1]>>
      BY <3>1 DEF argument
    <3> QED
      BY <1>2, <1>4, <2>1, <2>2, <3>2
  <2>3. CASE Len(L[k]) = 1
    <3>1. from[k] + 1 \notin DOMAIN out \ A
      <4> SUFFICES ASSUME from[k] + 1 \in DOMAIN out, from[k] + 1 \notin A PROVE FALSE
        OBVIOUS
      <4>1. PICK j \in 1 .. n : Len(L[j]) = 2 /\ from[k] + 1 = from[j] + 1
        BY <1>5, <1>12
      <4>2. from[k] = from[j]
        <5>1. from[k] \in Nat /\ from[j] \in Nat
          BY <1>4
        <5> QED
          BY <4>1, <5>1
      <4> QED
        BY <1>9, <2>3, <4>1, <4>2
    <3>2. argument(out, A, from[k]) = <<out[from[k]]>>
      BY <3>1 DEF argument
    <3> QED
      BY <1>2, <1>4, <2>1, <2>3, <3>2
  <2> QED
    BY <1>2, <2>2, <2>3
<1>16. \A k \in 1 .. n : from[k] \in DOMAIN options(out) /\ options(out)[from[k]] = L[k]
  <2> TAKE k \in 1 .. n
  <2>1. from[k] \in A /\ argument(out, A, from[k]) = L[k]
    BY <1>15
  <2> HIDE DEF A
  <2> QED
    BY <1>14, <2>1
<1>17. \A i \in DOMAIN options(out) : \E k \in 1 .. n : i = from[k]
  <2>1. DOMAIN options(out) = A
    BY <1>14
  <2> QED
    BY <2>1
<1> QED
  BY <1>9, <1>16, <1>17 DEF out

\* Of a list varnishd reads each argument, at h of its place, and nothing else.
Reads(read, list, D, h) ==
    /\ \A i \in D : h[i] \in DOMAIN read /\ read[h[i]] = list[i]
    /\ \A x \in DOMAIN read : \E i \in D : x = h[i]
    /\ \A i, j \in D : h[i] = h[j] => i = j

\* However the arguments are sorted, varnishd reads each of the list.
LEMMA SortedIsRead ==
    ASSUME NEW D, IsFiniteSet(D), Numbers(D), D # {}, NEW list \in [D -> Arguments],
           \A i \in D : list[i][1] \in Flags <=> Len(list[i]) = 1
    PROVE  \E h : Reads(options(FlattenSeq(sortedChunks(list))), list, D, h)
<1> DEFINE out == FlattenSeq(sortedChunks(list))
           n == Cardinality(D)
           L == sortedChunks(list)
           place(i) == Cardinality(Upto(list, i))
<1>1. n \in Nat \ {0}
  BY FS_CardinalityType, FS_EmptySet
<1>2. /\ L = [k \in 1 .. n |-> L[k]]
      /\ \A k \in 1 .. n : \E i \in D : k = place(i) /\ L[k] = list[i]
      /\ \A i \in D : place(i) \in 1 .. n /\ L[place(i)] = list[i]
      /\ \A i, j \in D : place(i) = place(j) => i = j
  BY Sorted
<1> HIDE DEF n, L, place, out
<1>3. \A k \in 1 .. n : L[k] \in Arguments /\ (L[k][1] \in Flags <=> Len(L[k]) = 1)
  BY <1>2
<1>4. L \in [1 .. n -> Arguments]
  BY <1>2, <1>3
<1>5. PICK from :
        /\ \A k \in 1 .. n : from[k] \in DOMAIN options(out) /\ options(out)[from[k]] = L[k]
        /\ \A x \in DOMAIN options(out) : \E k \in 1 .. n : x = from[k]
        /\ \A j, k \in 1 .. n : from[j] = from[k] => j = k
  <2>1. out = FlattenSeq(L)
    BY DEF L, out
  <2>2. \E from :
            /\ \A k \in 1 .. n : /\ from[k] \in DOMAIN options(FlattenSeq(L))
                                 /\ options(FlattenSeq(L))[from[k]] = L[k]
            /\ \A x \in DOMAIN options(FlattenSeq(L)) : \E k \in 1 .. n : x = from[k]
            /\ \A j, k \in 1 .. n : from[j] = from[k] => j = k
    <3>1. \A k \in 1 .. n : L[k][1] \in Flags <=> Len(L[k]) = 1
      BY <1>3
    <3> QED
      BY <1>1, <1>4, <3>1, ReadBack
  <2> QED
    BY <2>1, <2>2
<1> DEFINE h == [i \in D |-> from[place(i)]]
<1>6. \A i \in D : h[i] \in DOMAIN options(out) /\ options(out)[h[i]] = list[i]
  BY <1>2, <1>5
<1>7. ASSUME NEW x \in DOMAIN options(out) PROVE \E i \in D : x = h[i]
  <2>1. PICK k \in 1 .. n : x = from[k]
    BY <1>5
  <2>2. PICK i \in D : k = place(i)
    BY <1>2
  <2> QED
    BY <2>1, <2>2
<1>8. \A i, j \in D : h[i] = h[j] => i = j
  BY <1>2, <1>5
<1> HIDE DEF h
<1>9. Reads(options(out), list, D, h)
  BY <1>6, <1>7, <1>8 DEF Reads
<1> QED
  BY <1>9 DEF out

\* Ours are different options, with values where varnishd reads one; all but the listener
\* take the place of what is asked for.
LEMMA OursSpecified ==
    /\ \A j \in 1 .. 5 : Ours[j][1] \in Flags <=> Len(Ours[j]) = 1
    /\ \A j \in 1 .. 4 : argSpecified(Ours[j][1])
    /\ ~argSpecified(Ours[5][1])
    /\ \A j, k \in 1 .. 5 : Ours[j] = Ours[k] => j = k
    /\ Range(varnishArgsOverrides) = {Ours[j] : j \in 1 .. 4}
    /\ Ours[5] = ownListener
<1>1. \A j \in 1 .. 5 : j = 1 \/ j = 2 \/ j = 3 \/ j = 4 \/ j = 5
  OBVIOUS
<1>2. /\ Ours[1][1] = "-F" /\ Ours[2][1] = "-S" /\ Ours[3][1] = "-b"
      /\ Ours[4][1] = "-T" /\ Ours[5][1] = "-a"
      /\ Len(Ours[1]) = 1 /\ Len(Ours[2]) = 2 /\ Len(Ours[3]) = 2
      /\ Len(Ours[4]) = 2 /\ Len(Ours[5]) = 2
  BY OursByPlace
<1>3. \A j \in 1 .. 5 : Ours[j][1] \in Flags <=> Len(Ours[j]) = 1
  BY <1>1, <1>2, OwnWordsAssumption
<1>4. /\ DOMAIN varnishArgsOverrides = 1 .. 4
      /\ \A j \in 1 .. 4 : varnishArgsOverrides[j] = Ours[j]
  <2>1. /\ DOMAIN varnishArgsOverrides = 1 .. 4
        /\ varnishArgsOverrides[1] = <<"-F">>
        /\ varnishArgsOverrides[2] = <<"-S", "secret">>
        /\ varnishArgsOverrides[3] = <<"-b", "127.0.0.1:0">>
        /\ varnishArgsOverrides[4] = <<"-T", "0.0.0.0:6082">>
    BY DEF varnishArgsOverrides
  <2>2. \A j \in 1 .. 4 : j = 1 \/ j = 2 \/ j = 3 \/ j = 4
    OBVIOUS
  <2> QED
    BY <2>1, <2>2, OursByPlace
<1>5. \A j \in 1 .. 4 : argSpecified(Ours[j][1])
  BY <1>4 DEF argSpecified
<1>6. ~argSpecified(Ours[5][1])
  <2>1. \A j \in 1 .. 4 : varnishArgsOverrides[j][1] # "-a"
    <3>1. \A j \in 1 .. 4 : j = 1 \/ j = 2 \/ j = 3 \/ j = 4
      OBVIOUS
    <3> QED
      BY <1>2, <1>4, <3>1
  <2> QED
    BY <1>2, <1>4, <2>1 DEF argSpecified, disallowedArgs
<1>7. \A j, k \in 1 .. 5 : Ours[j] = Ours[k] => j = k
  <2> SUFFICES ASSUME NEW j \in 1 .. 5, NEW k \in 1 .. 5, Ours[j][1] = Ours[k][1] PROVE j = k
    OBVIOUS
  <2> QED
    BY <1>1, <1>2
<1>8. Range(varnishArgsOverrides) = {Ours[j] : j \in 1 .. 4}
  BY <1>4 DEF Range
<1> QED
  BY <1>3, <1>5, <1>6, <1>7, <1>8, OursByPlace DEF ownListener

\* What OurOptionsHold says of the options that are read, and those asked for.
Overridden(read, asked) ==
    LET ours == {i \in DOMAIN read : argSpecified(read[i][1])}
    IN  /\ {read[i] : i \in ours} = Range(varnishArgsOverrides)
        /\ \A i, j \in ours : read[i] = read[j] => i = j
        /\ {read[i] : i \in DOMAIN read \ ours} =
                {o \in Range(asked) : ~argSpecified(o[1])} \cup {ownListener}

\* What varnishd reads of the arguments made of pairs.
LEMMA PairsAreOverridden ==
    ASSUME NEW args \in Seq(Range(Words)), paired(args)
    PROVE  Overridden(options(getSanitizedVarnishArgs(args)), options(args))
<1> DEFINE read == options(getSanitizedVarnishArgs(args))
           ours == {i \in DOMAIN read : argSpecified(read[i][1])}
           n == Len(args)
           K == Kept(args)
           D == Listed(args)
           list == withOurs(args, K)
<1>1. /\ IsFiniteSet(D) /\ Numbers(D) /\ list \in [D -> Arguments]
      /\ \A i \in K : list[i] = <<args[i], args[i + 1]>>
      /\ \A j \in 1 .. 5 : list[n + j] = Ours[j]
      /\ getSanitizedVarnishArgs(args) = FlattenSeq(sortedChunks(list))
  BY ListOfPairs
<1>2. \A i : i \in D <=> i \in K \/ \E j \in 1 .. 5 : i = n + j
  BY DEF Listed
<1>3. \A i \in K : i \in Odd(args) /\ ~argSpecified(args[i]) /\ args[i] \notin Flags
  BY PairsAreRead DEF Kept
<1>4. options(args) = [i \in Odd(args) |-> <<args[i], args[i + 1]>>]
  BY PairsAreRead
<1>5. \A i \in Odd(args) : ~argSpecified(args[i]) => i \in K
  BY DEF Kept
<1> HIDE DEF n, K, D, list, read
<1>6. \A i \in D : list[i][1] \in Flags <=> Len(list[i]) = 1
  <2> TAKE i \in D
  <2>1. CASE i \in K
    <3>1. list[i] = <<args[i], args[i + 1]>> /\ args[i] \notin Flags
      BY <1>1, <1>3, <2>1
    <3>2. Len(list[i]) = 2 /\ list[i][1] = args[i]
      BY <3>1
    <3>3. Len(list[i]) # 1
      BY <3>2
    <3> QED
      BY <3>1, <3>2, <3>3
  <2>2. CASE i \notin K
    <3>1. PICK j \in 1 .. 5 : list[i] = Ours[j]
      BY <1>1, <1>2, <2>2
    <3> QED
      BY <3>1, OursSpecified
  <2> QED
    BY <2>1, <2>2
<1>7. D # {}
  <2>1. n + 1 \in D
    <3>1. 1 \in 1 .. 5
      OBVIOUS
    <3> QED
      BY <1>2, <3>1
  <2> QED
    BY <2>1
<1>8. PICK h :
        /\ \A i \in D : h[i] \in DOMAIN read /\ read[h[i]] = list[i]
        /\ \A x \in DOMAIN read : \E i \in D : x = h[i]
        /\ \A i, j \in D : h[i] = h[j] => i = j
  <2>1. PICK h : Reads(options(FlattenSeq(sortedChunks(list))), list, D, h)
    BY <1>1, <1>6, <1>7, SortedIsRead
  <2>2. read = options(FlattenSeq(sortedChunks(list)))
    BY <1>1 DEF read
  <2> QED
    BY <2>1, <2>2 DEF Reads
<1>9. \A j \in 1 .. 5 : /\ n + j \in D /\ h[n + j] \in DOMAIN read /\ read[h[n + j]] = Ours[j]
                        /\ j # 5 <=> h[n + j] \in ours
  <2> TAKE j \in 1 .. 5
  <2>1. n + j \in D /\ h[n + j] \in DOMAIN read /\ read[h[n + j]] = Ours[j]
    BY <1>1, <1>2, <1>8
  <2>2. j # 5 <=> argSpecified(Ours[j][1])
    <3>1. j # 5 => j \in 1 .. 4
      OBVIOUS
    <3> QED
      BY <3>1, OursSpecified
  <2> QED
    BY <2>1, <2>2
<1>10. \A i \in K : /\ i \in D /\ h[i] \in DOMAIN read \ ours
                    /\ read[h[i]] = <<args[i], args[i + 1]>>
  <2> TAKE i \in K
  <2>1. i \in D /\ h[i] \in DOMAIN read /\ read[h[i]] = <<args[i], args[i + 1]>>
    BY <1>1, <1>2, <1>8
  <2>2. read[h[i]][1] = args[i]
    BY <2>1
  <2> QED
    BY <1>3, <2>1, <2>2
<1>11. \A x \in DOMAIN read :
            (\E i \in K : x = h[i]) \/ (\E j \in 1 .. 5 : x = h[n + j])
  BY <1>2, <1>8
<1>12. ASSUME NEW x \in ours PROVE \E j \in 1 .. 4 : x = h[n + j]
  <2>1. x \in DOMAIN read /\ ~(\E i \in K : x = h[i])
    BY <1>10
  <2>2. PICK j \in 1 .. 5 : x = h[n + j]
    BY <1>11, <2>1
  <2>3. j \in 1 .. 4
    BY <1>9, <2>2
  <2> QED
    BY <2>2, <2>3
<1>13. \A j \in 1 .. 4 : j \in 1 .. 5 /\ j # 5
  OBVIOUS
<1>14. {read[i] : i \in ours} = Range(varnishArgsOverrides)
  <2>1. \A j \in 1 .. 4 : h[n + j] \in ours /\ read[h[n + j]] = Ours[j]
    BY <1>9, <1>13
  <2>2. {read[i] : i \in ours} = {Ours[j] : j \in 1 .. 4}
    BY <1>12, <2>1
  <2> QED
    BY <2>2, OursSpecified
<1>15. ASSUME NEW x \in ours, NEW y \in ours, read[x] = read[y] PROVE x = y
  <2>1. PICK j \in 1 .. 4 : x = h[n + j]
    BY <1>12
  <2>2. PICK k \in 1 .. 4 : y = h[n + k]
    BY <1>12
  <2>3. Ours[j] = Ours[k]
    BY <1>9, <1>13, <1>15, <2>1, <2>2
  <2>4. j = k
    BY <1>13, <2>3, OursSpecified
  <2> QED
    BY <2>1, <2>2, <2>4
<1> DEFINE theirs == {o \in Range(options(args)) : ~argSpecified(o[1])}
<1>16. \A i \in K : <<args[i], args[i + 1]>> \in theirs
  <2> TAKE i \in K
  <2> DEFINE o == <<args[i], args[i + 1]>>
  <2>1. i \in Odd(args) /\ ~argSpecified(args[i])
    BY <1>3
  <2>2. i \in DOMAIN options(args) /\ options(args)[i] = o
    BY <1>4, <2>1
  <2>3. o[1] = args[i]
    OBVIOUS
  <2> HIDE DEF o
  <2>4. o \in Range(options(args))
    BY <2>2 DEF Range
  <2> QED
    BY <2>1, <2>3, <2>4 DEF o
<1>17. \A o \in theirs : \E i \in K : o = <<args[i], args[i + 1]>>
  <2> TAKE o \in theirs
  <2>1. PICK i \in DOMAIN options(args) : o = options(args)[i]
    BY DEF Range
  <2>2. i \in Odd(args)
    BY <1>4
  <2>3. o = <<args[i], args[i + 1]>>
    BY <1>4, <2>1, <2>2
  <2>4. ~argSpecified(args[i])
    <3>1. o[1] = args[i]
      BY <2>3
    <3> QED
      BY <3>1
  <2> QED
    BY <1>5, <2>2, <2>3, <2>4
<1>18. {read[i] : i \in DOMAIN read \ ours} = theirs \cup {ownListener}
  <2> HIDE DEF theirs
  <2>1. ASSUME NEW x \in DOMAIN read \ ours PROVE read[x] \in theirs \cup {ownListener}
    <3>1. CASE \E i \in K : x = h[i]
      BY <1>10, <1>16, <3>1
    <3>2. CASE \E j \in 1 .. 5 : x = h[n + j]
      <4>1. PICK j \in 1 .. 5 : x = h[n + j]
        BY <3>2
      <4>2. j = 5
        BY <1>9, <4>1
      <4> QED
        BY <1>9, <4>1, <4>2, OursSpecified
    <3> QED
      BY <1>11, <3>1, <3>2
  <2>2. ASSUME NEW o \in theirs PROVE \E x \in DOMAIN read \ ours : o = read[x]
    BY <1>10, <1>17
  <2>3. \E x \in DOMAIN read \ ours : ownListener = read[x]
    <3>1. 5 \in 1 .. 5
      OBVIOUS
    <3>2. h[n + 5] \in DOMAIN read \ ours /\ read[h[n + 5]] = Ours[5]
      BY <1>9, <3>1
    <3> QED
      BY <3>2, OursSpecified
  <2> QED
    BY <2>1, <2>2, <2>3
<1> QED
  BY <1>14, <1>15, <1>18 DEF Overridden, read

\* Whatever options with values are asked for, and with or without webhooks, varnishd reads
\* each of ours once and as getSanitizedVarnishArgs sets it, none that is not allowed, and
\* otherwise what was asked for.
THEOREM OurOptionsAreRead == Spec => []OurOptionsHold
<1>1. AppliedInv => OurOptionsHold
  <2> SUFFICES ASSUME AppliedInv, applied # Absent, paired(applied.spec.args) PROVE OurOptionsHold
    BY DEF OurOptionsHold
  <2> DEFINE args == applied.spec.args
  <2>1. args \in Seq(Range(Words)) /\ applied.args = getSanitizedVarnishArgs(args) /\ paired(args)
    BY DEF AppliedInv
  <2> HIDE DEF args
  <2>2. Overridden(options(applied.args), options(args))
    BY <2>1, PairsAreOverridden
  <2> QED
    BY <2>2 DEF OurOptionsHold, Overridden, args
<1> QED
  BY <1>1, AppliedInvariance, PTL
=============================================================================
