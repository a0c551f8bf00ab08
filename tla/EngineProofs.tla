---------------------------- MODULE EngineProofs ----------------------------
(***************************************************************************)
(* For every request, every set of agents and every number of retries: the *)
(* countdown of hasCycle decides acyclicity, skipBlocked skips exactly the *)
(* steps behind a failure, and the answer of /v1/run tells what happened.  *)
(***************************************************************************)
EXTENDS Engine, FiniteSetTheorems, SequenceTheorems, WellFoundedInduction, TLAPS

-----------------------------------------------------------------------------
(* The graph of a request.                                                 *)

\* Every set of naturals that has an element has a least one.
LEMMA LeastOfNaturals ==
  ASSUME NEW T \in SUBSET Nat, T # {}
  PROVE  \E m \in T : \A k \in T : m <= k
<1> DEFINE R == {p \in Nat \X Nat : p[1] < p[2]}
<1>1. IsWellFoundedOn(R, Nat)
  BY NatLessThanWellFounded DEF OpToRel
<1>2. \E m \in T : \A k \in T : <<k, m>> \notin R
  <2> HIDE DEF R
  <2> QED
    BY <1>1, WFMin
<1>3. PICK m \in T : \A k \in T : <<k, m>> \notin R
  BY <1>2
<1>4. \A k \in T : ~(k < m)
  BY <1>3
<1> QED
  BY <1>4

\* The steps are numbered, and a step depends on steps.
LEMMA GraphTypes ==
  ASSUME request \in Requests
  PROVE  /\ Len(steps) \in Nat /\ DOMAIN steps = Ordinals
         /\ \A i \in Ordinals : i \in Nat \ {0}
         /\ IsFiniteSet(Ordinals) /\ Cardinality(Ordinals) = Len(steps)
         /\ \A i \in Ordinals : Dependencies[i] \in SUBSET Ordinals
         /\ \A i \in Ordinals : steps[i].dependsOn \in Seq(Range(steps[i].dependsOn))
<1>1. steps \in Seq(Range(steps))
  BY EngineAssumption DEF EngineAssumption, steps
<1>2. Len(steps) \in Nat /\ DOMAIN steps = Ordinals
  BY <1>1, LenProperties DEF Ordinals
<1>3. IsFiniteSet(Ordinals) /\ Cardinality(Ordinals) = Len(steps)
  <2> DEFINE n == Len(steps)
  <2>1. n \in Nat /\ n \in Int /\ 1 \in Int
    BY <1>2
  <2> HIDE DEF n
  <2>2. IsFiniteSet(1..n) /\ Cardinality(1..n) = IF 1 > n THEN 0 ELSE n - 1 + 1
    BY <2>1, FS_Interval
  <2>3. Cardinality(1..n) = n
    BY <2>1, <2>2
  <2> QED
    BY <2>2, <2>3 DEF Ordinals, n
<1>4. \A i \in Ordinals : i \in Nat \ {0}
  BY <1>2 DEF Ordinals
<1>5. \A i \in Ordinals : Dependencies[i] \in SUBSET Ordinals
  BY DEF Dependencies, Named
<1>6. \A i \in Ordinals : steps[i].dependsOn \in Seq(Range(steps[i].dependsOn))
  BY <1>2, EngineAssumption DEF EngineAssumption, steps
<1> QED
  BY <1>2, <1>3, <1>4, <1>5, <1>6

\* A set of steps that holds what its members depend on.
Closed(S) == \A s \in S : Dependencies[s] \subseteq S

\* What is behind a step: its dependencies, what is behind them, and no more.
LEMMA BehindCloses ==
  ASSUME request \in Requests, NEW i \in Ordinals
  PROVE  /\ Behind(i) \in SUBSET Ordinals
         /\ Dependencies[i] \subseteq Behind(i) /\ Closed(Behind(i))
         /\ \A S \in SUBSET Ordinals :
              Dependencies[i] \subseteq S /\ Closed(S) => Behind(i) \subseteq S
<1>1. Behind(i) \in SUBSET Ordinals
  BY DEF Behind
<1>2. \A S \in SUBSET Ordinals :
        Dependencies[i] \subseteq S /\ Closed(S) => Behind(i) \subseteq S
  BY DEF Behind, Closed
<1>3. Dependencies[i] \subseteq Behind(i)
  BY GraphTypes DEF Behind
<1>4. Closed(Behind(i))
  <2> SUFFICES ASSUME NEW s \in Behind(i), NEW d \in Dependencies[s]
               PROVE  d \in Behind(i)
    BY DEF Closed
  <2>1. s \in Ordinals /\ d \in Ordinals
    BY <1>1, GraphTypes
  <2>2. ASSUME NEW S \in SUBSET Ordinals,
               Dependencies[i] \subseteq S, \A t \in S : Dependencies[t] \subseteq S
        PROVE  d \in S
    BY <2>2 DEF Behind
  <2> QED
    BY <2>1, <2>2 DEF Behind
<1> QED
  BY <1>1, <1>2, <1>3, <1>4

\* What is behind a step behind i is behind i.
LEMMA BehindNests ==
  ASSUME request \in Requests, NEW i \in Ordinals, NEW s \in Behind(i)
  PROVE  s \in Ordinals /\ Behind(s) \subseteq Behind(i)
<1>1. s \in Ordinals
  BY BehindCloses
<1>2. Dependencies[s] \subseteq Behind(i) /\ Closed(Behind(i)) /\ Behind(i) \in SUBSET Ordinals
  BY BehindCloses DEF Closed
<1> QED
  BY <1>1, <1>2, BehindCloses

\* Where every set of steps has one that depends on none of them, no step is
\* behind itself.
LEMMA FoundedIsAcyclic ==
  ASSUME request \in Requests, Founded(Ordinals)
  PROVE  \A i \in Ordinals : i \notin Behind(i)
<1> SUFFICES ASSUME NEW i \in Ordinals, i \in Behind(i) PROVE FALSE
  OBVIOUS
<1> DEFINE T == {k \in Behind(i) : i \in Behind(k)}
<1>1. T \in (SUBSET Ordinals) \ {{}}
  BY BehindCloses
<1>2. PICK k \in T : Dependencies[k] \cap T = {}
  <2> HIDE DEF T
  <2> QED
    BY <1>1 DEF Founded
<1>3. k \in Ordinals /\ Behind(k) \subseteq Behind(i) /\ i \in Behind(k)
  BY <1>2, BehindNests
<1> DEFINE C == {s \in Ordinals : \E d \in Dependencies[k] : s = d \/ s \in Behind(d)}
<1>4. \A d \in Dependencies[k] : d \in Ordinals
  BY <1>3, GraphTypes
<1>5. Dependencies[k] \subseteq C
  BY <1>4
<1>6. Closed(C)
  <2> SUFFICES ASSUME NEW s \in C, NEW t \in Dependencies[s] PROVE t \in C
    BY DEF Closed
  <2>1. PICK d \in Dependencies[k] : s = d \/ s \in Behind(d)
    OBVIOUS
  <2>2. t \in Behind(d)
    BY <1>4, <2>1, BehindCloses DEF Closed
  <2> QED
    BY <1>4, <2>1, <2>2, BehindCloses
<1>7. i \in C
  <2>1. C \in SUBSET Ordinals
    OBVIOUS
  <2> HIDE DEF C
  <2> QED
    BY <1>3, <1>5, <1>6, <2>1, BehindCloses
<1>8. PICK d \in Dependencies[k] : i = d \/ i \in Behind(d)
  BY <1>7
<1>9. i \in Behind(d)
  BY <1>8
<1>10. d \in Behind(i)
  BY <1>3, BehindCloses
<1> QED
  BY <1>2, <1>9, <1>10

\* Steps that all depend on one of themselves include a step behind itself.
LEMMA UnfoundedIsCyclic ==
  ASSUME request \in Requests, NEW U \in (SUBSET Ordinals) \ {{}},
         \A u \in U : Dependencies[u] \cap U # {}
  PROVE  \E i \in Ordinals : i \in Behind(i)
<1> SUFFICES ASSUME \A i \in Ordinals : i \notin Behind(i) PROVE FALSE
  OBVIOUS
<1> DEFINE Reach(s) == Behind(s) \cap U
           N == {Cardinality(Reach(s)) : s \in U}
<1>1. \A s \in U : IsFiniteSet(Reach(s)) /\ Cardinality(Reach(s)) \in Nat
  <2>1. IsFiniteSet(U)
    BY GraphTypes, FS_Subset
  <2> QED
    BY <2>1, FS_Subset, FS_CardinalityType
<1>2. N \in SUBSET Nat /\ N # {}
  BY <1>1
<1>3. PICK m \in N : \A n \in N : m <= n
  <2> HIDE DEF N
  <2> QED
    BY <1>2, LeastOfNaturals
<1>4. PICK s \in U : m = Cardinality(Reach(s))
  BY <1>3
<1>5. PICK d \in U : d \in Dependencies[s]
  BY <1>4
<1>6. d \in Behind(s)
  BY <1>4, <1>5, BehindCloses
<1>7. Reach(d) \in SUBSET Reach(s)
  BY <1>4, <1>6, BehindNests
<1>8. d \in Reach(s) /\ d \notin Reach(d)
  BY <1>5, <1>6
<1>9. Cardinality(Reach(d)) <= Cardinality(Reach(s)) /\ Cardinality(Reach(d)) # Cardinality(Reach(s))
  <2>1. Reach(d) # Reach(s) /\ IsFiniteSet(Reach(s))
    BY <1>1, <1>4, <1>8
  <2> HIDE DEF Reach
  <2> QED
    BY <1>7, <2>1, FS_Subset
<1>10. m <= Cardinality(Reach(d))
  BY <1>3, <1>5
<1>11. Cardinality(Reach(d)) \in Nat /\ Cardinality(Reach(s)) \in Nat
  BY <1>1, <1>4, <1>5
<1> QED
  BY <1>4, <1>9, <1>10, <1>11
-----------------------------------------------------------------------------
(* The countdown of hasCycle.                                              *)

\* A listing of some steps holds each of them once.
LEMMA Listing ==
  ASSUME request \in Requests, NEW S \in SUBSET Ordinals, NEW q \in SetToSeqs(S)
  PROVE  q \in Seq(S) /\ IsInjective(q) /\ Range(q) = S
<1> DEFINE c == Cardinality(S)
<1>1. IsFiniteSet(S) /\ c \in Nat
  BY GraphTypes, FS_Subset, FS_CardinalityType
<1>2. q \in [1..c -> S] /\ \A i, k \in 1..c : i # k => q[i] # q[k]
  BY DEF SetToSeqs
<1>3. IsFiniteSet(1..c) /\ Cardinality(1..c) = c
  <2>1. c \in Int /\ 1 \in Int
    BY <1>1
  <2> HIDE DEF c
  <2>2. IsFiniteSet(1..c) /\ Cardinality(1..c) = IF 1 > c THEN 0 ELSE c - 1 + 1
    BY <2>1, FS_Interval
  <2> QED
    BY <1>1, <2>2
<1>4. q \in Injection(1..c, S)
  BY <1>2 DEF Injection, IsInjective
<1>5. q \in Surjection(1..c, S)
  BY <1>1, <1>3, <1>4, FS_Injection
<1>6. q \in Seq(S)
  BY <1>1, <1>2, SeqDef
<1>7. Range(q) = S
  BY <1>2, <1>5 DEF Range, Surjection
<1>8. IsInjective(q)
  BY <1>2 DEF IsInjective
<1> QED
  BY <1>6, <1>7, <1>8

\* NewWorkflow has found the IDs distinct, and no dependency unknown or listed
\* twice: the length of DependsOn is the number of dependencies.
LEMMA ListedOnce ==
  ASSUME request \in Requests, Valid, NEW i \in Ordinals
  PROVE  /\ Len(steps[i].dependsOn) = Cardinality(Dependencies[i])
         /\ Len(steps[i].dependsOn) \in Nat
         /\ Len(steps[i].dependsOn) = 0 <=> steps[i].dependsOn = <<>>
<1> DEFINE l == steps[i].dependsOn
           D == Dependencies[i]
           f == [j \in 1..Len(l) |-> CHOOSE k \in Ordinals : steps[k].id = l[j]]
<1>1. l \in Seq(Range(l))
  BY GraphTypes
<1>2. Len(l) \in Nat /\ DOMAIN l = 1..Len(l)
  BY <1>1, LenProperties
<1>3. \A d \in Range(l) : \E k \in Ordinals : steps[k].id = d
  BY DEF Valid
<1>4. \A j \in 1..Len(l) : l[j] \in Range(l)
  BY <1>2 DEF Range
<1>5. \A j \in 1..Len(l) : f[j] \in Ordinals /\ steps[f[j]].id = l[j]
  BY <1>3, <1>4
<1>6. D = {k \in Ordinals : steps[k].id \in Range(l)}
  BY DEF Dependencies, Named
<1> HIDE DEF D
<1>7. f \in [1..Len(l) -> D]
  <2>1. f = [j \in 1..Len(l) |-> f[j]]
    OBVIOUS
  <2> HIDE DEF f
  <2>2. \A j \in 1..Len(l) : f[j] \in D
    BY <1>4, <1>5, <1>6
  <2> QED
    BY <2>1, <2>2
<1> HIDE DEF f
<1>8. \A j, k \in 1..Len(l) : f[j] = f[k] => j = k
  <2>1. \A j, k \in 1..Len(l) : l[j] = l[k] => j = k
    BY <1>2 DEF Valid, IsInjective
  <2> QED
    BY <1>5, <2>1
<1>9. \A k \in D : \E j \in 1..Len(l) : f[j] = k
  <2> SUFFICES ASSUME NEW k \in D PROVE \E j \in 1..Len(l) : f[j] = k
    OBVIOUS
  <2>1. k \in Ordinals /\ steps[k].id \in Range(l)
    BY <1>6
  <2>2. PICK j \in 1..Len(l) : l[j] = steps[k].id
    BY <1>2, <2>1 DEF Range
  <2>3. f[j] \in Ordinals /\ steps[f[j]].id = steps[k].id
    BY <1>5, <2>2
  <2>4. f[j] = k
    BY <2>1, <2>3 DEF Valid
  <2> QED
    BY <2>4
<1>10. ExistsBijection(1..Len(l), D)
  BY <1>7, <1>8, <1>9 DEF ExistsBijection, Bijection, Injection, Surjection, IsInjective
<1>11. IsFiniteSet(1..Len(l)) /\ Cardinality(1..Len(l)) = Len(l)
  <2> DEFINE n == Len(l)
  <2>1. n \in Nat /\ n \in Int /\ 1 \in Int
    BY <1>2
  <2> HIDE DEF n
  <2>2. IsFiniteSet(1..n) /\ Cardinality(1..n) = IF 1 > n THEN 0 ELSE n - 1 + 1
    BY <2>1, FS_Interval
  <2>3. Cardinality(1..n) = n
    BY <2>1, <2>2
  <2> QED
    BY <2>2, <2>3 DEF n
<1>12. Cardinality(D) = Len(l)
  BY <1>10, <1>11, FS_Bijection
<1>13. Len(l) = 0 <=> l = <<>>
  BY <1>1, EmptySeq
<1> QED
  BY <1>2, <1>12, <1>13 DEF D

\* The queue starts with the steps that depend on nothing, and none is visited.
LEMMA CountingStarts ==
  ASSUME TypeOK, Valid, CountsDown, CountDependencies
  PROVE  /\ ready' \in Seq(Ordinals) /\ degree' \in [Ordinals -> Nat]
         /\ CountsDown'
<1> DEFINE S == {i \in Ordinals : steps[i].dependsOn = <<>>}
<1>1. request \in Requests /\ request' = request
  BY DEF TypeOK, CountDependencies
<1>2. Ordinals' = Ordinals /\ Dependencies' = Dependencies
  BY <1>1 DEF Ordinals, Dependencies, Named, steps
<1>3. /\ degree' = [i \in Ordinals |-> Len(steps[i].dependsOn)] /\ phase' = "sort"
      /\ visited' = 0
  BY DEF CountDependencies, CountsDown
<1>4. ready' \in Seq(S) /\ IsInjective(ready') /\ Range(ready') = S
  <2>1. ready' \in SetToSeqs(S) /\ S \in SUBSET Ordinals
    BY DEF CountDependencies
  <2> HIDE DEF S
  <2> QED
    BY <1>1, <2>1, Listing
<1>5. \A i \in Ordinals : /\ degree'[i] \in Nat /\ degree'[i] = Cardinality(Dependencies[i])
                          /\ degree'[i] = 0 <=> i \in S
  BY <1>1, <1>3, ListedOnce
<1>6. degree' \in [Ordinals -> Nat]
  BY <1>3, <1>5
<1>7. Visited' = {}
  BY <1>2, <1>4, <1>5 DEF Visited
<1>8. \A i \in Ordinals : Dependencies[i] \ {} = Dependencies[i]
  OBVIOUS
<1>9. Founded(Visited)'
  BY <1>7 DEF Founded
<1>10. CountsDown'
  BY <1>2, <1>3, <1>4, <1>5, <1>7, <1>8, <1>9, FS_EmptySet DEF CountsDown
<1>11. ready' \in Seq(Ordinals)
  <2>1. S \in SUBSET Ordinals
    OBVIOUS
  <2> HIDE DEF S
  <2> QED
    BY <1>4, <2>1, SeqDef
<1> QED
  BY <1>6, <1>10, <1>11
\* The queue after its first step is gone and some others have been appended.
LEMMA QueueMoves ==
  ASSUME NEW r, r \in Seq(Ordinals), r # <<>>, IsInjective(r),
         NEW F \in SUBSET Ordinals, F \cap Range(r) = {},
         NEW q \in Seq(F), IsInjective(q), Range(q) = F
  PROVE  /\ Tail(r) \o q \in Seq(Ordinals) /\ IsInjective(Tail(r) \o q)
         /\ Range(Tail(r) \o q) = (Range(r) \ {Head(r)}) \cup F
         /\ Head(r) \in Range(r) /\ Head(r) \in Ordinals
<1> DEFINE t == Tail(r)
           n == Len(r)
           m == Len(q)
           z == t \o q
<1>1. n \in Nat \ {0} /\ DOMAIN r = 1..n /\ \A i \in 1..n : r[i] \in Ordinals
  BY LenProperties, EmptySeq, ElementOfSeq
<1>2. m \in Nat /\ DOMAIN q = 1..m /\ \A i \in 1..m : q[i] \in F
  BY LenProperties, ElementOfSeq
<1>3. /\ t \in Seq(Ordinals) /\ Len(t) = n - 1 /\ Head(r) = r[1]
      /\ \A i \in 1..(n - 1) : t[i] = r[i + 1]
  BY <1>1, HeadTailProperties
<1>4. q \in Seq(Ordinals)
  BY <1>2, SeqDef
<1>5. /\ z \in Seq(Ordinals) /\ Len(z) = n - 1 + m /\ DOMAIN z = 1..(n - 1 + m)
      /\ \A i \in 1..(n - 1 + m) : z[i] = IF i <= n - 1 THEN t[i] ELSE q[i - (n - 1)]
  <2>1. z \in Seq(Ordinals) /\ Len(z) = Len(t) + Len(q)
        /\ \A i \in 1..(Len(t) + Len(q)) : z[i] = IF i <= Len(t) THEN t[i] ELSE q[i - Len(t)]
    BY <1>3, <1>4, ConcatProperties
  <2> QED
    BY <1>3, <2>1, LenProperties
<1> HIDE DEF t, n, m, z
<1>6. \A i \in 1..(n - 1 + m) : \/ i + 1 \in 2..n /\ z[i] = r[i + 1]
                                \/ i - (n - 1) \in 1..m /\ z[i] = q[i - (n - 1)] /\ ~(i <= n - 1)
  <2> SUFFICES ASSUME NEW i \in 1..(n - 1 + m)
               PROVE  \/ i + 1 \in 2..n /\ z[i] = r[i + 1]
                      \/ i - (n - 1) \in 1..m /\ z[i] = q[i - (n - 1)] /\ ~(i <= n - 1)
    OBVIOUS
  <2>1. CASE i <= n - 1
    <3>1. i \in 1..(n - 1) /\ i + 1 \in 2..n
      BY <1>1, <1>2, <2>1
    <3>2. z[i] = t[i] /\ t[i] = r[i + 1]
      BY <1>3, <1>5, <2>1, <3>1
    <3> QED
      BY <3>1, <3>2
  <2>2. CASE ~(i <= n - 1)
    <3>1. i - (n - 1) \in 1..m
      BY <1>1, <1>2, <2>2
    <3>2. z[i] = q[i - (n - 1)]
      BY <1>5, <2>2
    <3> QED
      BY <2>2, <3>1, <3>2
  <2> QED
    BY <2>1, <2>2
<1>7. \A i, k \in 1..n : r[i] = r[k] => i = k
  BY <1>1 DEF IsInjective
<1>8. \A i, k \in 1..m : q[i] = q[k] => i = k
  BY <1>2 DEF IsInjective
<1>9. \A i \in 1..n : r[i] \in Range(r) /\ r[i] \notin F
  BY <1>1 DEF Range
<1>10. IsInjective(z)
  <2> SUFFICES ASSUME NEW i \in 1..(n - 1 + m), NEW k \in 1..(n - 1 + m), z[i] = z[k]
               PROVE  i = k
    BY <1>5 DEF IsInjective
  <2>1. CASE i + 1 \in 2..n /\ z[i] = r[i + 1] /\ k + 1 \in 2..n /\ z[k] = r[k + 1]
    <3>1. i + 1 \in 1..n /\ k + 1 \in 1..n
      BY <1>1, <2>1
    <3>2. i + 1 = k + 1
      BY <1>7, <2>1, <3>1
    <3> QED
      BY <1>1, <1>2, <3>2
  <2>2. CASE /\ i - (n - 1) \in 1..m /\ z[i] = q[i - (n - 1)]
             /\ k - (n - 1) \in 1..m /\ z[k] = q[k - (n - 1)]
    <3>1. i - (n - 1) = k - (n - 1)
      BY <1>8, <2>2
    <3> QED
      BY <1>1, <1>2, <3>1
  <2>3. \A j \in 2..n : r[j] \notin F
    BY <1>1, <1>9
  <2> QED
    BY <1>2, <1>6, <2>1, <2>2, <2>3
<1>11. Range(z) = (Range(r) \ {r[1]}) \cup F
  <2>1. ASSUME NEW x \in Range(z) PROVE x \in (Range(r) \ {r[1]}) \cup F
    <3>1. PICK i \in 1..(n - 1 + m) : x = z[i]
      BY <1>5 DEF Range
    <3>2. CASE i + 1 \in 2..n /\ z[i] = r[i + 1]
      <4>1. i + 1 \in 1..n /\ 1 \in 1..n /\ i + 1 # 1
        BY <1>1, <3>2
      <4> QED
        BY <1>7, <1>9, <3>1, <3>2, <4>1
    <3>3. CASE i - (n - 1) \in 1..m /\ z[i] = q[i - (n - 1)]
      BY <1>2, <3>1, <3>3
    <3> QED
      BY <1>6, <3>2, <3>3
  <2>2. ASSUME NEW x \in Range(r), x # r[1] PROVE x \in Range(z)
    <3>1. PICK j \in 1..n : x = r[j]
      BY <1>1 DEF Range
    <3>2. j # 1
      BY <2>2, <3>1
    <3>3. j - 1 \in 1..(n - 1 + m) /\ j - 1 <= n - 1 /\ j - 1 \in 1..(n - 1) /\ j - 1 + 1 = j
      BY <1>1, <1>2, <3>1, <3>2
    <3>4. z[j - 1] = r[j]
      BY <1>3, <1>5, <3>3
    <3> QED
      BY <1>5, <3>1, <3>3, <3>4 DEF Range
  <2>3. ASSUME NEW x \in F PROVE x \in Range(z)
    <3>1. PICK j \in 1..m : x = q[j]
      BY <1>2 DEF Range
    <3> DEFINE p == j + (n - 1)
    <3>2. p \in 1..(n - 1 + m) /\ ~(p <= n - 1) /\ p - (n - 1) = j
      BY <1>1, <1>2, <3>1
    <3> HIDE DEF p
    <3>3. z[p] = q[j]
      BY <1>5, <3>2
    <3> QED
      BY <1>5, <3>1, <3>2, <3>3 DEF Range
  <2> QED
    BY <2>1, <2>2, <2>3
<1>12. r[1] \in Range(r) /\ r[1] \in Ordinals
  BY <1>1, <1>9
<1> QED
  BY <1>3, <1>5, <1>10, <1>11, <1>12 DEF z, t

\* A visit moves the head of the queue to the visited steps, and what it counts
\* off its children is exactly that step.
LEMMA VisitCounts ==
  ASSUME TypeOK, CountsDown, Visit
  PROVE  /\ ready' \in Seq(Ordinals) /\ degree' \in [Ordinals -> Nat]
         /\ visited' \in 0..Len(steps) /\ CountsDown'
<1> DEFINE h == Head(ready)
           V == Visited
           F == {i \in Ordinals : h \in Dependencies[i] /\ degree[i] = 1}
<1>1. /\ request \in Requests /\ request' = request /\ phase = "sort" /\ phase' = "sort"
      /\ ready \in Seq(Ordinals) /\ ready # <<>> /\ degree \in [Ordinals -> Nat]
      /\ visited' = visited + 1
      /\ degree' = [i \in Ordinals |-> IF h \in Dependencies[i] THEN degree[i] - 1 ELSE degree[i]]
  BY DEF TypeOK, Visit
<1>2. Ordinals' = Ordinals /\ Dependencies' = Dependencies
  BY <1>1 DEF Ordinals, Dependencies, Named, steps
<1>3. /\ IsInjective(ready) /\ \A i \in Range(ready) : degree[i] = 0
      /\ \A i \in Ordinals : degree[i] = Cardinality(Dependencies[i] \ V)
      /\ visited = Cardinality(V) /\ Founded(V)
  BY <1>1 DEF CountsDown
<1>4. V \in SUBSET Ordinals /\ \A i \in Ordinals : i \in V <=> degree[i] = 0 /\ i \notin Range(ready)
  BY DEF Visited
<1> HIDE DEF V
<1>5. PICK q \in SetToSeqs(F) : ready' = Tail(ready) \o q
  BY DEF Visit, InOrder
<1>6. F \in SUBSET Ordinals /\ \A i \in F : degree[i] = 1 /\ h \in Dependencies[i]
  OBVIOUS
<1>7. \A i \in Ordinals : IsFiniteSet(Dependencies[i] \ V) /\ Cardinality(Dependencies[i] \ V) \in Nat
  <2> SUFFICES ASSUME NEW i \in Ordinals
               PROVE  IsFiniteSet(Dependencies[i] \ V) /\ Cardinality(Dependencies[i] \ V) \in Nat
    OBVIOUS
  <2>1. Dependencies[i] \ V \in SUBSET Ordinals /\ IsFiniteSet(Ordinals)
    BY <1>1, GraphTypes
  <2> QED
    BY <2>1, FS_Subset, FS_CardinalityType
<1>8. /\ ready' \in Seq(Ordinals) /\ IsInjective(ready')
      /\ Range(ready') = (Range(ready) \ {h}) \cup F
      /\ h \in Range(ready) /\ h \in Ordinals
  <2>1. F \cap Range(ready) = {}
    BY <1>3, <1>6
  <2> HIDE DEF F
  <2>2. q \in Seq(F) /\ IsInjective(q) /\ Range(q) = F
    BY <1>1, <1>5, <1>6, Listing
  <2> QED
    BY <1>1, <1>3, <1>5, <1>6, <2>1, <2>2, QueueMoves
<1> HIDE DEF h
<1>9. h \notin V /\ degree[h] = 0
  BY <1>3, <1>4, <1>8
<1>10. \A i \in Ordinals : degree[i] = 0 <=> Dependencies[i] \subseteq V
  <2> SUFFICES ASSUME NEW i \in Ordinals PROVE degree[i] = 0 <=> Dependencies[i] \ V = {}
    OBVIOUS
  <2> QED
    BY <1>3, <1>7, FS_EmptySet
<1>11. \A i \in Ordinals : /\ h \in Dependencies[i] => degree[i] # 0
                           /\ degree'[i] \in Nat
                           /\ degree'[i] = 0 <=> degree[i] = 0 \/ i \in F
  <2> SUFFICES ASSUME NEW i \in Ordinals
               PROVE  /\ h \in Dependencies[i] => degree[i] # 0
                      /\ degree'[i] \in Nat
                      /\ degree'[i] = 0 <=> degree[i] = 0 \/ i \in F
    OBVIOUS
  <2>1. h \in Dependencies[i] => degree[i] # 0
    BY <1>9, <1>10
  <2>2. degree[i] \in Nat
    BY <1>1
  <2>3. degree'[i] = IF h \in Dependencies[i] THEN degree[i] - 1 ELSE degree[i]
    BY <1>1
  <2> QED
    BY <2>1, <2>2, <2>3
<1>12. Visited' = V \cup {h}
  <2>1. Visited' = {i \in Ordinals : degree'[i] = 0} \ Range(ready')
    BY <1>2 DEF Visited
  <2>2. \A i \in Ordinals : i \in Visited' <=> i \in V \/ i = h
    <3> SUFFICES ASSUME NEW i \in Ordinals PROVE i \in Visited' <=> i \in V \/ i = h
      OBVIOUS
    <3>1. i \in Visited' <=> /\ degree[i] = 0 \/ i \in F
                             /\ i \notin Range(ready) \/ i = h
                             /\ i \notin F
      BY <1>8, <1>11, <2>1
    <3>2. i \in V <=> degree[i] = 0 /\ i \notin Range(ready)
      BY <1>4
    <3>3. h \notin F /\ (degree[i] = 0 => i \notin F)
      BY <1>9
    <3> QED
      BY <1>9, <3>1, <3>2, <3>3
  <2> QED
    BY <1>4, <1>8, <2>1, <2>2
<1>13. \A i \in Ordinals : degree'[i] = Cardinality(Dependencies[i] \ (V \cup {h}))
  <2> SUFFICES ASSUME NEW i \in Ordinals
               PROVE  degree'[i] = Cardinality(Dependencies[i] \ (V \cup {h}))
    OBVIOUS
  <2> DEFINE D == Dependencies[i] \ V
  <2>1. Dependencies[i] \ (V \cup {h}) = D \ {h}
    OBVIOUS
  <2>2. h \in D <=> h \in Dependencies[i]
    BY <1>9
  <2>3. IsFiniteSet(D) /\ degree[i] = Cardinality(D)
    BY <1>3, <1>7
  <2>4. degree'[i] = IF h \in Dependencies[i] THEN degree[i] - 1 ELSE degree[i]
    BY <1>1
  <2> HIDE DEF D
  <2>5. Cardinality(D \ {h}) = IF h \in D THEN Cardinality(D) - 1 ELSE Cardinality(D)
    BY <2>3, FS_RemoveElement
  <2> QED
    BY <2>1, <2>2, <2>3, <2>4, <2>5
<1>14. /\ visited' = Cardinality(V \cup {h}) /\ visited' \in 0..Len(steps)
  <2>1. IsFiniteSet(Ordinals) /\ Cardinality(Ordinals) = Len(steps) /\ Len(steps) \in Nat
    BY <1>1, GraphTypes
  <2>2. IsFiniteSet(V) /\ V \cup {h} \in SUBSET Ordinals
    BY <1>4, <1>8, <2>1, FS_Subset
  <2>3. Cardinality(V \cup {h}) = Cardinality(V) + 1
    BY <1>9, <2>2, FS_AddElement
  <2>4. IsFiniteSet(V \cup {h}) /\ Cardinality(V \cup {h}) <= Len(steps)
    BY <2>1, <2>2, FS_Subset
  <2>5. Cardinality(V \cup {h}) \in Nat
    BY <2>4, FS_CardinalityType
  <2> QED
    BY <1>1, <1>3, <2>1, <2>3, <2>4, <2>5
<1>15. Founded(V \cup {h})
  <2> SUFFICES ASSUME NEW T \in (SUBSET (V \cup {h})) \ {{}}
               PROVE  \E i \in T : Dependencies[i] \cap T = {}
    BY DEF Founded
  <2>1. CASE T \cap V = {}
    <3>1. h \in T /\ T \subseteq {h}
      BY <2>1
    <3>2. h \notin Dependencies[h]
      BY <1>8, <1>9, <1>10
    <3> QED
      BY <3>1, <3>2
  <2>2. CASE T \cap V # {}
    <3>1. PICK i \in T \cap V : Dependencies[i] \cap (T \cap V) = {}
      BY <1>3, <2>2 DEF Founded
    <3>2. Dependencies[i] \subseteq V
      BY <1>4, <1>10, <3>1
    <3> QED
      BY <3>1, <3>2
  <2> QED
    BY <2>1, <2>2
<1>16. degree' \in [Ordinals -> Nat]
  <2>1. degree' = [i \in Ordinals |-> degree'[i]]
    BY <1>1
  <2> QED
    BY <1>11, <2>1
<1>17. \A i \in Range(ready') : degree'[i] = 0
  <2>1. \A i \in Range(ready) : i \in Ordinals
    BY <1>1, LenProperties, ElementOfSeq DEF Range
  <2> QED
    BY <1>3, <1>6, <1>8, <1>11, <2>1
<1>18. Founded(Visited)'
  BY <1>2, <1>12, <1>15 DEF Founded
<1>19. CountsDown'
  BY <1>1, <1>2, <1>8, <1>12, <1>13, <1>14, <1>17, <1>18 DEF CountsDown
<1> QED
  BY <1>8, <1>14, <1>16, <1>19
\* An empty queue: hasCycle has visited every step, or those it has not visited
\* depend on each other.
LEMMA CountingEnds ==
  ASSUME TypeOK, CountsDown, phase = "sort", ready = <<>>
  PROVE  /\ visited = Len(steps) => Founded(Ordinals)
         /\ visited # Len(steps) => \E i \in Ordinals : i \in Behind(i)
<1> DEFINE V == Visited
           U == Ordinals \ V
<1>1. request \in Requests
  BY DEF TypeOK
<1>2. /\ \A i \in Ordinals : degree[i] = Cardinality(Dependencies[i] \ V)
      /\ visited = Cardinality(V) /\ Founded(V)
  BY DEF CountsDown
<1>3. Range(ready) = {}
  BY DEF Range
<1>4. V \in SUBSET Ordinals /\ \A i \in Ordinals : i \in V <=> degree[i] = 0
  BY <1>3 DEF Visited
<1> HIDE DEF V
<1>5. IsFiniteSet(Ordinals) /\ Cardinality(Ordinals) = Len(steps)
  BY <1>1, GraphTypes
<1>6. visited = Len(steps) <=> V = Ordinals
  BY <1>2, <1>4, <1>5, FS_Subset
<1>7. ASSUME visited # Len(steps) PROVE \E i \in Ordinals : i \in Behind(i)
  <2>1. U \in (SUBSET Ordinals) \ {{}}
    BY <1>4, <1>6, <1>7
  <2>2. ASSUME NEW u \in U PROVE Dependencies[u] \cap U # {}
    <3>1. degree[u] # 0 /\ degree[u] = Cardinality(Dependencies[u] \ V)
      BY <1>2, <1>4, <2>2
    <3>2. Dependencies[u] \ V # {}
      BY <3>1, FS_EmptySet
    <3> QED
      BY <1>1, <2>2, <3>2, GraphTypes
  <2> HIDE DEF U
  <2> QED
    BY <1>1, <2>1, <2>2, UnfoundedIsCyclic
<1> QED
  BY <1>2, <1>6, <1>7

-----------------------------------------------------------------------------
(* Waves and passes.                                                       *)

\* What a run has recorded: a step that ran had its dependencies' outputs, and
\* one that was skipped depends on one that failed or was skipped.
Follows(f) ==
  \A i \in Ordinals :
    /\ f[i] \in {"succeeded", "failed"} => \A d \in Dependencies[i] : f[d] = "succeeded"
    /\ f[i] = "skipped" => \E d \in Dependencies[i] : f[d] \in {"failed", "skipped"}

\* What is behind a step whose dependencies succeeded has succeeded.
LEMMA SuccessBehind ==
  ASSUME request \in Requests, NEW f, Follows(f), NEW i \in Ordinals,
         \A d \in Dependencies[i] : f[d] = "succeeded"
  PROVE  \A k \in Behind(i) : f[k] = "succeeded"
<1> DEFINE S == {k \in Ordinals : f[k] = "succeeded"}
<1>1. S \in SUBSET Ordinals /\ Dependencies[i] \subseteq S
  BY GraphTypes
<1>2. Closed(S)
  BY GraphTypes DEF Closed, Follows
<1>3. Behind(i) \subseteq S
  <2> HIDE DEF S
  <2> QED
    BY <1>1, <1>2, BehindCloses
<1> QED
  BY <1>3

\* When no remaining step has a failed dependency, exactly the steps behind a
\* failure are skipped.
LEMMA ChainsAreSkipped ==
  ASSUME request \in Requests, Founded(Ordinals),
         NEW f \in [Ordinals -> Outcomes \cup {"none"}], Follows(f),
         \A i \in Ordinals : f[i] = "none" =>
           \A d \in Dependencies[i] : f[d] \notin {"failed", "skipped"}
  PROVE  \A i \in Ordinals : f[i] = "skipped" <=> \E k \in Behind(i) : f[k] = "failed"
<1>1. ASSUME NEW i \in Ordinals, f[i] = "skipped", \A k \in Behind(i) : f[k] # "failed"
      PROVE  FALSE
  <2> DEFINE T == {j \in Ordinals : f[j] = "skipped" /\ \A k \in Behind(j) : f[k] # "failed"}
  <2>1. T \in (SUBSET Ordinals) \ {{}}
    BY <1>1
  <2>2. PICK j \in T : Dependencies[j] \cap T = {}
    <3> HIDE DEF T
    <3> QED
      BY <2>1 DEF Founded
  <2>3. PICK d \in Dependencies[j] : f[d] \in {"failed", "skipped"}
    BY <2>2 DEF Follows
  <2>4. d \in Ordinals /\ d \in Behind(j) /\ j \in Ordinals
    BY <2>2, <2>3, GraphTypes, BehindCloses
  <2>5. f[d] = "skipped" /\ d \notin T
    BY <2>2, <2>3, <2>4
  <2>6. PICK k \in Behind(d) : f[k] = "failed"
    BY <2>4, <2>5
  <2>7. k \in Behind(j)
    BY <2>4, <2>6, BehindNests
  <2> QED
    BY <2>2, <2>6, <2>7
<1>2. ASSUME NEW i \in Ordinals, f[i] # "skipped", NEW k \in Behind(i), f[k] = "failed"
      PROVE  FALSE
  <2> DEFINE S == {j \in Ordinals : f[j] \in {"succeeded", "none"}}
  <2>1. ASSUME NEW j \in Ordinals, f[j] # "skipped" PROVE Dependencies[j] \subseteq S
    <3> SUFFICES ASSUME NEW d \in Dependencies[j] PROVE d \in S
      OBVIOUS
    <3>1. d \in Ordinals /\ f[d] \in {"succeeded", "failed", "skipped", "none"}
      BY <2>1, GraphTypes DEF Outcomes
    <3>2. f[j] \in {"succeeded", "failed", "none"}
      BY <2>1 DEF Outcomes
    <3> QED
      BY <3>1, <3>2 DEF Follows
  <2>2. S \in SUBSET Ordinals /\ Closed(S) /\ Dependencies[i] \subseteq S
    BY <1>2, <2>1 DEF Closed
  <2>3. Behind(i) \subseteq S
    <3> HIDE DEF S
    <3> QED
      BY <1>2, <2>2, BehindCloses
  <2> QED
    BY <1>2, <2>3
<1> QED
  BY <1>1, <1>2

\* When no wave is left and no remaining step has a failed dependency, no step
\* is left at all.
LEMMA NothingRemains ==
  ASSUME request \in Requests, Founded(Ordinals),
         NEW f \in [Ordinals -> Outcomes \cup {"none"}],
         \A i \in Ordinals : f[i] = "none" =>
           /\ \A d \in Dependencies[i] : f[d] \notin {"failed", "skipped"}
           /\ \E d \in Dependencies[i] : f[d] # "succeeded"
  PROVE  \A i \in Ordinals : f[i] # "none"
<1> SUFFICES ASSUME NEW j \in Ordinals, f[j] = "none" PROVE FALSE
  OBVIOUS
<1> DEFINE T == {i \in Ordinals : f[i] = "none"}
<1>1. T \in (SUBSET Ordinals) \ {{}}
  OBVIOUS
<1>2. PICK i \in T : Dependencies[i] \cap T = {}
  <2> HIDE DEF T
  <2> QED
    BY <1>1 DEF Founded
<1>3. PICK d \in Dependencies[i] : f[d] # "succeeded"
  BY <1>2
<1>4. d \in Ordinals /\ f[d] \notin {"failed", "skipped"} /\ d \notin T
  BY <1>2, <1>3, GraphTypes
<1> QED
  BY <1>3, <1>4 DEF Outcomes
-----------------------------------------------------------------------------
(* One step of a request.                                                  *)

\* Nothing that is said about the graph changes with a request under way.
LEMMA SameGraph ==
  ASSUME request' = request
  PROVE  /\ steps' = steps /\ Ordinals' = Ordinals /\ Dependencies' = Dependencies
         /\ Valid' = Valid /\ Founded(Ordinals)' = Founded(Ordinals)
         /\ \A i : Behind(i)' = Behind(i)
         /\ \A ids : Named(ids)' = Named(ids)
<1>1. steps' = steps
  BY DEF steps
<1>2. Ordinals' = Ordinals
  BY <1>1 DEF Ordinals
<1>3. \A ids : Named(ids)' = Named(ids)
  BY <1>1, <1>2 DEF Named
<1>4. Dependencies' = Dependencies
  BY <1>1, <1>2 DEF Dependencies, Named
<1>5. Valid' = Valid
  BY <1>1, <1>2 DEF Valid
<1>6. Founded(Ordinals)' = Founded(Ordinals)
  BY <1>2, <1>4 DEF Founded
<1>7. \A i : Behind(i)' = Behind(i)
  BY <1>2, <1>4 DEF Behind
<1> QED
  BY <1>1, <1>2, <1>3, <1>4, <1>5, <1>6, <1>7

\* The operators of Workflow over this request.
LEMMA PlanReads ==
  /\ \A f : Plan!Remaining(f) = {i \in Ordinals : f[i] = "none"}
  /\ \A i, f : Plan!DependenciesSucceeded(i, f) <=> \A d \in Dependencies[i] : f[d] = "succeeded"
  /\ \A i, f : Plan!HasFailedDependency(i, f, {}) <=>
                 \E d \in Dependencies[i] : f[d] \in {"failed", "skipped"}
  /\ \A f : Plan!ReadyWave(f) =
              {i \in Ordinals : f[i] = "none" /\ \A d \in Dependencies[i] : f[d] = "succeeded"}
<1>1. \A f : Plan!Remaining(f) = {i \in Ordinals : f[i] = "none"}
  BY DEF Plan!Remaining, Plan!Steps, Ordinals
<1>2. \A i, f : Plan!DependenciesSucceeded(i, f) <=> \A d \in Dependencies[i] : f[d] = "succeeded"
  BY DEF Plan!DependenciesSucceeded
<1>3. \A i, f : Plan!HasFailedDependency(i, f, {}) <=>
                  \E d \in Dependencies[i] : f[d] \in {"failed", "skipped"}
  BY DEF Plan!HasFailedDependency
<1>4. \A f : Plan!ReadyWave(f) =
               {i \in Ordinals : f[i] = "none" /\ \A d \in Dependencies[i] : f[d] = "succeeded"}
  BY <1>1 DEF Plan!ReadyWave, Plan!DependenciesSucceeded
<1> QED
  BY <1>1, <1>2, <1>3, <1>4

\* What the invariant says of a run, with the operators of Workflow expanded.
LEMMA RunReads ==
  /\ ResultsFollowGraph <=> (HasRun => Follows(results))
  /\ PassIsThorough <=>
       /\ phase = "skip" => \A i \in pass : i \in Ordinals /\ results[i] = "none"
       /\ phase = "wave" \/ (phase = "skip" /\ ~blocked) =>
            \A i \in Ordinals : results[i] = "none" /\ i \notin pass =>
              \A d \in Dependencies[i] : results[d] \notin {"failed", "skipped"}
       /\ phase # "skip" => pass = {}
<1>1. ResultsFollowGraph <=> (HasRun => Follows(results))
  BY DEF ResultsFollowGraph, Follows, Plan!DependenciesSucceeded, Plan!HasFailedDependency
<1>2. PassIsThorough <=>
       /\ phase = "skip" => \A i \in pass : i \in Ordinals /\ results[i] = "none"
       /\ phase = "wave" \/ (phase = "skip" /\ ~blocked) =>
            \A i \in Ordinals : results[i] = "none" /\ i \notin pass =>
              \A d \in Dependencies[i] : results[d] \notin {"failed", "skipped"}
       /\ phase # "skip" => pass = {}
  BY DEF PassIsThorough, Plan!HasFailedDependency, Plan!Remaining, Plan!Steps, Ordinals
<1> QED
  BY <1>1, <1>2

\* The same of the next state.
LEMMA RunReadsNext ==
  ASSUME request' = request
  PROVE
    /\ ResultsFollowGraph' <=> (HasRun' => Follows(results'))
    /\ PassIsThorough' <=>
       /\ phase' = "skip" => \A i \in pass' : i \in Ordinals /\ results'[i] = "none"
       /\ phase' = "wave" \/ (phase' = "skip" /\ ~blocked') =>
            \A i \in Ordinals : results'[i] = "none" /\ i \notin pass' =>
              \A d \in Dependencies[i] : results'[d] \notin {"failed", "skipped"}
       /\ phase' # "skip" => pass' = {}
<1>0. Ordinals' = Ordinals /\ Dependencies' = Dependencies
  BY SameGraph
<1>1. ResultsFollowGraph' <=> (HasRun' => Follows(results'))
  BY <1>0 DEF ResultsFollowGraph, Follows, Plan!DependenciesSucceeded, Plan!HasFailedDependency
<1>2. Plan!Remaining(results)' = {i \in Ordinals : results'[i] = "none"}
  BY <1>0 DEF Plan!Remaining, Plan!Steps, Ordinals
<1>3. PassIsThorough' <=>
       /\ phase' = "skip" => \A i \in pass' : i \in Ordinals /\ results'[i] = "none"
       /\ phase' = "wave" \/ (phase' = "skip" /\ ~blocked') =>
            \A i \in Ordinals : results'[i] = "none" /\ i \notin pass' =>
              \A d \in Dependencies[i] : results'[d] \notin {"failed", "skipped"}
       /\ phase' # "skip" => pass' = {}
  BY <1>0, <1>2 DEF PassIsThorough, Plan!HasFailedDependency
<1> QED
  BY <1>1, <1>3
\* A step before Run: nothing has a result.
LEMMA BeforeRun ==
  ASSUME EngineInv, request' = request, ~HasRun, ~HasRun', UNCHANGED <<runVars, skipVars, gone>>
  PROVE  /\ results' = <<>> /\ calls' = <<>> /\ flight' = {} /\ pass' = {}
         /\ ResultsFollowGraph' /\ PassIsThorough' /\ SkipsTheWholeChain'
         /\ AnswerTellsTheOutcome' /\ RetriesAreUsedUp'
<1>1. phase # "drain" /\ phase # "skip" /\ phase' # "skip" /\ phase' # "wave"
      /\ answer'.status # 200 /\ answer'.status # 502
  BY DEF HasRun
<1>2. results = <<>> /\ calls = <<>> /\ flight = {} /\ pass = {}
  BY <1>1 DEF EngineInv, TypeOK, RunsWhatIsValid, PassIsThorough
<1>3. results' = <<>> /\ calls' = <<>> /\ flight' = {} /\ pass' = {}
  BY <1>2 DEF runVars, skipVars
<1>4. ResultsFollowGraph' /\ PassIsThorough'
  BY <1>1, <1>3, RunReadsNext
<1>5. SkipsTheWholeChain' /\ AnswerTellsTheOutcome'
  BY <1>1 DEF SkipsTheWholeChain, AnswerTellsTheOutcome
<1>6. RetriesAreUsedUp'
  BY <1>3 DEF RetriesAreUsedUp
<1> QED
  BY <1>3, <1>4, <1>5, <1>6

\* A handler that has not answered has no answer, and one that runs has a graph
\* without a cycle.
LEMMA UnderWay ==
  ASSUME EngineInv
  PROVE  /\ request \in Requests /\ (phase # "answered" => answer.status = 0)
         /\ HasRun => /\ Founded(Ordinals) /\ \A i \in Ordinals : i \notin Behind(i)
                      /\ results \in [Ordinals -> Outcomes \cup {"none"}]
                      /\ calls \in [Ordinals -> 0..(MaxRetries + 1)] /\ Follows(results)
<1>1. request \in Requests /\ (phase # "answered" => answer.status = 0)
  BY DEF EngineInv, TypeOK, RunsWhatIsValid
<1>2. HasRun => /\ Founded(Ordinals) /\ results \in [Ordinals -> Outcomes \cup {"none"}]
                /\ calls \in [Ordinals -> 0..(MaxRetries + 1)]
  BY DEF EngineInv, TypeOK, RunsWhatIsValid
<1>3. HasRun => Follows(results)
  BY RunReads DEF EngineInv
<1> QED
  BY <1>1, <1>2, <1>3, FoundedIsAcyclic

\* A step within Run: the countdown is over and there is no answer yet.
LEMMA WithinRun ==
  ASSUME EngineInv, request' = request, UNCHANGED <<sortVars, answer>>,
         phase \in {"wave", "drain", "skip"}, phase' \in {"wave", "drain", "skip"}
  PROVE  /\ HasRun /\ HasRun' /\ answer'.status = 0
         /\ visited' \in 0..Len(steps) /\ ready' \in Seq(Ordinals)
         /\ answer'.step \in Ordinals \cup {NoStep}
         /\ CountsDown' /\ CycleTestExact' /\ AnswerTellsTheOutcome'
         /\ Valid' /\ Founded(Ordinals)' /\ (phase' # "wave" => SkipsTheWholeChain')
<1>1. HasRun /\ HasRun' /\ answer'.status = 0
  BY UnderWay DEF HasRun
<1>2. /\ visited' \in 0..Len(steps) /\ ready' \in Seq(Ordinals)
      /\ answer'.step \in Ordinals \cup {NoStep}
  BY DEF EngineInv, TypeOK, sortVars
<1>3. Valid' /\ Founded(Ordinals)'
  <2>1. Valid /\ Founded(Ordinals)
    BY <1>1 DEF EngineInv, RunsWhatIsValid
  <2> QED
    BY <2>1, SameGraph
<1>4. CountsDown'
  BY DEF CountsDown
<1>5. CycleTestExact'
  <2>1. Ordinals' = Ordinals /\ \A i : Behind(i)' = Behind(i)
    BY SameGraph
  <2>2. ~\E i \in Ordinals' : i \in Behind(i)'
    BY <1>1, <2>1, UnderWay
  <2> QED
    BY <1>1, <2>2 DEF CycleTestExact
<1>6. AnswerTellsTheOutcome' /\ (phase' # "wave" => SkipsTheWholeChain')
  BY <1>1 DEF AnswerTellsTheOutcome, SkipsTheWholeChain
<1> QED
  BY <1>1, <1>2, <1>3, <1>4, <1>5, <1>6

\* A result is never taken back, and a new one follows the graph.
LEMMA ResultsGrow ==
  ASSUME request \in Requests, NEW f, NEW g, Follows(f),
         \A i \in Ordinals : f[i] # "none" => g[i] = f[i],
         \A i \in Ordinals : f[i] = "none" /\ g[i] # "none" =>
           /\ g[i] \in {"succeeded", "failed"} => \A d \in Dependencies[i] : f[d] = "succeeded"
           /\ g[i] = "skipped" => \E d \in Dependencies[i] : f[d] \in {"failed", "skipped"}
  PROVE  Follows(g)
<1> SUFFICES ASSUME NEW i \in Ordinals
             PROVE  /\ g[i] \in {"succeeded", "failed"} =>
                         \A d \in Dependencies[i] : g[d] = "succeeded"
                    /\ g[i] = "skipped" =>
                         \E d \in Dependencies[i] : g[d] \in {"failed", "skipped"}
  BY DEF Follows
<1>1. \A d \in Dependencies[i] : d \in Ordinals
  BY GraphTypes
<1>2. CASE f[i] # "none"
  BY <1>1, <1>2 DEF Follows
<1>3. CASE f[i] = "none"
  BY <1>1, <1>3
<1> QED
  BY <1>2, <1>3
\* Decoding, counting and visiting keep the invariant.
LEMMA SortingKeeps ==
  ASSUME EngineInv, Decode \/ CountDependencies \/ Visit
  PROVE  EngineInv'
<1>1. /\ request' = request /\ UNCHANGED <<runVars, skipVars, gone>>
      /\ phase \in {"decode", "count", "sort"}
      /\ \/ phase' \in {"count", "sort"} /\ answer' = answer
         \/ phase = "decode" /\ phase' = "answered" /\ answer' = [status |-> 400, step |-> NoStep]
            /\ visited' = visited
  BY DEF Decode, CountDependencies, Visit, Respond, sortVars
<1>2. answer.status = 0 /\ request \in Requests
  BY <1>1, UnderWay
<1>3. ~HasRun /\ ~HasRun'
  BY <1>1, <1>2 DEF HasRun
<1>4. /\ results' = <<>> /\ calls' = <<>> /\ flight' = {} /\ pass' = {}
      /\ ResultsFollowGraph' /\ PassIsThorough' /\ SkipsTheWholeChain'
      /\ AnswerTellsTheOutcome' /\ RetriesAreUsedUp'
  BY <1>1, <1>3, BeforeRun
<1>5. steps' = steps /\ Ordinals' = Ordinals /\ Valid' = Valid
  BY <1>1, SameGraph
<1>6. TypeOK /\ CountsDown /\ (phase # "decode" => Valid)
  BY <1>1 DEF EngineInv, RunsWhatIsValid
<1>7. /\ ready' \in Seq(Ordinals) /\ visited' \in 0..Len(steps)
      /\ (phase' = "sort" => degree' \in [Ordinals -> Nat]) /\ CountsDown'
  <2>1. CASE Decode
    <3>1. ready' = ready /\ visited' = visited /\ phase = "decode" /\ phase' # "sort"
      BY <2>1 DEF Decode, sortVars, Respond
    <3>2. CountsDown'
      BY <1>6, <3>1 DEF CountsDown
    <3> QED
      BY <1>6, <3>1, <3>2 DEF TypeOK
  <2>2. CASE CountDependencies
    <3>1. phase = "count" /\ visited' = visited
      BY <2>2 DEF CountDependencies
    <3> QED
      BY <1>6, <2>2, <3>1, CountingStarts DEF TypeOK
  <2>3. CASE Visit
    BY <1>6, <2>3, VisitCounts
  <2> QED
    BY <2>1, <2>2, <2>3
<1>8. TypeOK'
  <2>1. phase' \in {"decode", "count", "sort", "wave", "drain", "skip", "answered"}
    BY <1>1
  <2>2. answer'.status \in {0, 200, 400, 502} /\ answer'.step \in Ordinals \cup {NoStep}
    BY <1>1, <1>6 DEF TypeOK
  <2>3. blocked' \in BOOLEAN /\ gone' \in BOOLEAN
    BY <1>1, <1>6 DEF TypeOK, skipVars
  <2> QED
    BY <1>1, <1>2, <1>3, <1>4, <1>5, <1>7, <2>1, <2>2, <2>3 DEF TypeOK
<1>9. RunsWhatIsValid'
  <2>1. phase' # "answered" => Valid
    BY <1>6 DEF Decode, CountDependencies, Visit, Respond
  <2>2. answer'.status # 0 => phase' = "answered"
    BY <1>1, <1>2
  <2> QED
    BY <1>1, <1>3, <1>4, <1>5, <2>1, <2>2 DEF RunsWhatIsValid
<1>10. CycleTestExact'
  <2>1. phase' \notin {"wave", "drain", "skip"} /\ answer'.status \notin {200, 502}
    BY <1>3 DEF HasRun
  <2>2. ~(answer'.status = 400 /\ visited' > 0)
    BY <1>1, <1>2, <1>6 DEF CountsDown
  <2> QED
    BY <2>1, <2>2 DEF CycleTestExact
<1> QED
  BY <1>4, <1>7, <1>8, <1>9, <1>10 DEF EngineInv

\* hasCycle's verdict is right, and Run starts with no result.
LEMMA AcceptKeeps ==
  ASSUME EngineInv, Accept
  PROVE  EngineInv'
<1>1. /\ request' = request /\ UNCHANGED <<sortVars, flight, skipVars, gone>>
      /\ phase = "sort" /\ ready = <<>> /\ TypeOK /\ CountsDown /\ Valid
  BY DEF Accept, EngineInv, RunsWhatIsValid
<1>2. answer.status = 0 /\ request \in Requests /\ ~HasRun /\ flight = {} /\ pass = {}
  BY <1>1, UnderWay DEF HasRun, EngineInv, RunsWhatIsValid, PassIsThorough
<1>3. /\ steps' = steps /\ Ordinals' = Ordinals /\ Dependencies' = Dependencies /\ Valid' = Valid
      /\ Founded(Ordinals)' = Founded(Ordinals) /\ \A i : Behind(i)' = Behind(i)
  BY <1>1, SameGraph
<1>4. ready' \in Seq(Ordinals) /\ visited' = visited /\ visited' \in 0..Len(steps)
      /\ blocked' \in BOOLEAN /\ gone' \in BOOLEAN /\ flight' = {} /\ pass' = {}
  BY <1>1, <1>2 DEF TypeOK, sortVars, skipVars
<1>5. CASE visited = Len(steps)
  <2>1. /\ phase' = "wave" /\ answer' = answer /\ HasRun'
        /\ results' = [i \in Ordinals |-> "none"] /\ calls' = [i \in Ordinals |-> 0]
    BY <1>5 DEF Accept, HasRun
  <2>2. Founded(Ordinals)
    BY <1>1, <1>5, CountingEnds
  <2>3. MaxRetries \in Nat
    BY EngineAssumption DEF EngineAssumption
  <2>4. TypeOK'
    <3>1. calls' \in [Ordinals -> 0..(MaxRetries + 1)]
      BY <2>1, <2>3
    <3>2. results' \in [Ordinals -> Outcomes \cup {"none"}]
      BY <2>1
    <3> QED
      BY <1>1, <1>2, <1>3, <1>4, <2>1, <3>1, <3>2 DEF TypeOK
  <2>5. \A i \in Ordinals : results'[i] = "none" /\ calls'[i] = 0
    BY <2>1
  <2>6. RunsWhatIsValid'
    BY <1>1, <1>2, <1>3, <1>4, <2>1, <2>2, <2>5 DEF RunsWhatIsValid
  <2>7. Follows(results')
    BY <2>5 DEF Follows
  <2>8. \A i \in Ordinals : \A d \in Dependencies[i] : d \in Ordinals
    BY <1>2, GraphTypes
  <2>9. ResultsFollowGraph' /\ PassIsThorough'
    BY <1>1, <1>4, <2>1, <2>5, <2>7, <2>8, RunReadsNext
  <2>10. CycleTestExact'
    BY <1>2, <1>3, <2>1, <2>2, FoundedIsAcyclic DEF CycleTestExact
  <2>11. SkipsTheWholeChain'
    <3>1. \A i \in Ordinals : Behind(i) \in SUBSET Ordinals
      BY DEF Behind
    <3> QED
      BY <1>3, <2>5, <3>1 DEF SkipsTheWholeChain
  <2>12. AnswerTellsTheOutcome' /\ RetriesAreUsedUp'
    BY <1>2, <2>1 DEF AnswerTellsTheOutcome, RetriesAreUsedUp
  <2>13. CountsDown'
    BY <2>1 DEF CountsDown
  <2> QED
    BY <2>4, <2>6, <2>9, <2>10, <2>11, <2>12, <2>13 DEF EngineInv
<1>6. CASE visited # Len(steps)
  <2>1. /\ phase' = "answered" /\ answer' = [status |-> 400, step |-> NoStep]
        /\ UNCHANGED <<runVars, skipVars, gone>>
    BY <1>1, <1>6 DEF Accept, Respond, runVars
  <2>2. ~HasRun'
    BY <2>1 DEF HasRun
  <2>3. /\ results' = <<>> /\ calls' = <<>>
        /\ ResultsFollowGraph' /\ PassIsThorough' /\ SkipsTheWholeChain'
        /\ AnswerTellsTheOutcome' /\ RetriesAreUsedUp'
    BY <1>1, <1>2, <2>1, <2>2, BeforeRun
  <2>4. TypeOK'
    BY <1>1, <1>2, <1>3, <1>4, <2>1, <2>2, <2>3 DEF TypeOK
  <2>5. RunsWhatIsValid'
    BY <1>4, <2>1, <2>2 DEF RunsWhatIsValid
  <2>6. \E i \in Ordinals' : i \in Behind(i)'
    BY <1>1, <1>3, <1>6, CountingEnds
  <2>7. CycleTestExact'
    BY <2>1, <2>6 DEF CycleTestExact
  <2>8. CountsDown'
    BY <2>1 DEF CountsDown
  <2> QED
    BY <2>3, <2>4, <2>5, <2>7, <2>8 DEF EngineInv
<1> QED
  BY <1>5, <1>6
\* What is left to show of a step within Run.
LEMMA RunStep ==
  ASSUME EngineInv, request' = request, UNCHANGED <<sortVars, answer>>,
         phase \in {"wave", "drain", "skip"}, phase' \in {"wave", "drain", "skip"},
         results' \in [Ordinals -> Outcomes \cup {"none"}],
         calls' \in [Ordinals -> 0..(MaxRetries + 1)],
         flight' \in SUBSET Ordinals, pass' \in SUBSET Ordinals,
         blocked' \in BOOLEAN, gone' \in BOOLEAN,
         phase' = "drain" => \A i \in flight' : /\ results'[i] = "none"
                                               /\ \A d \in Dependencies[i] : results'[d] = "succeeded",
         phase' # "drain" => flight' = {},
         \A i \in Ordinals : results'[i] = "none" /\ i \notin flight' => calls'[i] = 0,
         Follows(results'), PassIsThorough', phase' = "wave" => SkipsTheWholeChain',
         RetriesAreUsedUp'
  PROVE  EngineInv'
<1>1. /\ HasRun' /\ answer'.status = 0
      /\ visited' \in 0..Len(steps) /\ ready' \in Seq(Ordinals)
      /\ answer'.step \in Ordinals \cup {NoStep}
      /\ CountsDown' /\ CycleTestExact' /\ AnswerTellsTheOutcome'
      /\ Valid' /\ Founded(Ordinals)' /\ SkipsTheWholeChain'
  BY WithinRun
<1>2. steps' = steps /\ Ordinals' = Ordinals /\ Dependencies' = Dependencies
  BY SameGraph
<1>3. request' \in Requests
  BY UnderWay
<1>4. TypeOK'
  BY <1>1, <1>2, <1>3 DEF TypeOK
<1>5. RunsWhatIsValid'
  BY <1>1, <1>2 DEF RunsWhatIsValid, Plan!DependenciesSucceeded
<1>6. ResultsFollowGraph'
  BY RunReadsNext
<1> QED
  BY <1>1, <1>4, <1>5, <1>6 DEF EngineInv

\* A wave takes the steps whose dependencies succeeded.  A prompt that does not
\* render names an output that is not behind its step.
LEMMA StartWaveKeeps ==
  ASSUME EngineInv, StartWave
  PROVE  EngineInv'
<1> DEFINE wave == {i \in Ordinals : results[i] = "none"
                                     /\ \A d \in Dependencies[i] : results[d] = "succeeded"}
           rendered == {i \in wave : Renders(i)}
<1>1. /\ request' = request /\ UNCHANGED <<sortVars, answer>> /\ UNCHANGED <<skipVars, gone>>
      /\ phase = "wave" /\ phase' = "drain" /\ HasRun
  BY DEF StartWave, HasRun
<1>2. /\ request \in Requests /\ Founded(Ordinals) /\ Follows(results)
      /\ results \in [Ordinals -> Outcomes \cup {"none"}]
      /\ calls \in [Ordinals -> 0..(MaxRetries + 1)]
  BY <1>1, UnderWay
<1>3. /\ flight' = rendered
      /\ results' = [i \in Ordinals |-> IF i \in wave \ rendered THEN "failed" ELSE results[i]]
      /\ calls' = [i \in Ordinals |-> IF i \in rendered THEN 1 ELSE calls[i]]
  <2>1. Plan!ReadyWave(results) = wave
    BY PlanReads
  <2> QED
    BY <2>1 DEF StartWave
<1>4. flight = {} /\ pass = {} /\ \A i \in Ordinals : results[i] = "none" => calls[i] = 0
  BY <1>1 DEF EngineInv, RunsWhatIsValid, PassIsThorough
<1>5. MaxRetries \in Nat
  BY EngineAssumption DEF EngineAssumption
<1>6. /\ wave \in SUBSET Ordinals /\ rendered \in SUBSET wave
      /\ \A i \in wave : results[i] = "none" /\ \A d \in Dependencies[i] : results[d] = "succeeded"
      /\ \A i \in wave \ rendered : ~Renders(i)
  OBVIOUS
<1> HIDE DEF wave, rendered
<1>7. results' \in [Ordinals -> Outcomes \cup {"none"}]
  BY <1>2, <1>3 DEF Outcomes
<1>8. calls' \in [Ordinals -> 0..(MaxRetries + 1)]
  <2>1. 1 \in 0..(MaxRetries + 1)
    BY <1>5
  <2> QED
    BY <1>2, <1>3, <2>1
<1>9. \A i \in Ordinals : results[i] # "none" => results'[i] = results[i]
  BY <1>3, <1>6
<1>10. \A i \in Ordinals : \A d \in Dependencies[i] : d \in Ordinals
  BY <1>2, GraphTypes
<1>11. ASSUME NEW i \in flight'
       PROVE  results'[i] = "none" /\ \A d \in Dependencies[i] : results'[d] = "succeeded"
  <2>1. i \in wave /\ i \in rendered /\ i \in Ordinals
    BY <1>3, <1>6, <1>11
  <2>2. \A d \in Dependencies[i] : d \in Ordinals /\ results[d] = "succeeded"
    BY <1>6, <1>10, <2>1
  <2> QED
    BY <1>3, <1>6, <1>9, <2>1, <2>2
<1>12. \A i \in Ordinals : results'[i] = "none" /\ i \notin flight' => calls'[i] = 0
  BY <1>3, <1>4
<1>13. Follows(results')
  <2>1. \A i \in Ordinals : results[i] = "none" /\ results'[i] # "none" =>
           results'[i] = "failed" /\ \A d \in Dependencies[i] : results[d] = "succeeded"
    BY <1>3, <1>6
  <2> QED
    BY <1>2, <1>9, <2>1, ResultsGrow
<1>14. pass' = {} /\ blocked' \in BOOLEAN /\ gone' \in BOOLEAN
  BY <1>1, <1>4 DEF skipVars, EngineInv, TypeOK
<1>15. PassIsThorough'
  BY <1>1, <1>14, RunReadsNext
<1>16. RetriesAreUsedUp'
  <2> SUFFICES ASSUME ~gone', NEW i \in Ordinals, results'[i] = "failed"
               PROVE  \/ calls'[i] = MaxRetries + 1
                      \/ /\ calls'[i] = 0
                         /\ \E id \in steps'[i].references : Named({id})' \cap Behind(i)' = {}
    BY <1>7 DEF RetriesAreUsedUp
  <2>1. steps' = steps /\ (\A ids : Named(ids)' = Named(ids)) /\ Behind(i)' = Behind(i)
    BY <1>1, SameGraph
  <2>2. CASE i \in wave \ rendered
    <3>1. PICK id \in steps[i].references : ~\E k \in Named({id}) : results[k] = "succeeded"
      BY <1>6, <2>2 DEF Renders
    <3>2. \A k \in Behind(i) : results[k] = "succeeded"
      BY <1>2, <1>6, <2>2, SuccessBehind
    <3>3. Named({id}) \cap Behind(i) = {}
      BY <3>1, <3>2
    <3>4. calls'[i] = 0
      BY <1>3, <1>4, <1>6, <2>2
    <3>5. Named({id})' = Named({id})
      BY <2>1
    <3> QED
      BY <2>1, <3>3, <3>4, <3>5
  <2>3. CASE i \notin wave \ rendered
    <3>1. results[i] = "failed" /\ ~gone /\ i \in DOMAIN results
      BY <1>1, <1>2, <1>3, <2>3
    <3>2. i \notin rendered
      BY <1>6, <3>1
    <3>3. calls'[i] = calls[i]
      BY <1>3, <3>2
    <3>4. \/ calls[i] = MaxRetries + 1
          \/ calls[i] = 0 /\ \E id \in steps[i].references : Named({id}) \cap Behind(i) = {}
      BY <3>1 DEF EngineInv, RetriesAreUsedUp
    <3> QED
      BY <2>1, <3>3, <3>4
  <2> QED
    BY <2>2, <2>3
<1> QED
  BY <1>1, <1>3, <1>6, <1>7, <1>8, <1>11, <1>12, <1>13, <1>14, <1>15, <1>16, RunStep
\* What the invariant says of the wave in flight.
LEMMA InFlight ==
  ASSUME EngineInv, phase = "drain"
  PROVE  /\ HasRun /\ flight \in SUBSET Ordinals /\ pass = {}
         /\ blocked \in BOOLEAN /\ gone \in BOOLEAN
         /\ \A i \in flight : /\ results[i] = "none"
                              /\ \A d \in Dependencies[i] : results[d] = "succeeded"
         /\ \A i \in Ordinals : results[i] = "none" /\ i \notin flight => calls[i] = 0
<1>1. HasRun
  BY DEF HasRun
<1> QED
  BY <1>1 DEF EngineInv, TypeOK, RunsWhatIsValid, PassIsThorough, Plan!DependenciesSucceeded

\* A result of the wave is recorded; a failure only after every retry, or for a
\* client that has gone.
LEMMA DeliverKeeps ==
  ASSUME EngineInv, NEW i \in flight, AgentReplies(i) \/ AgentFails(i)
  PROVE  EngineInv'
<1>1. PICK outcome \in {"succeeded", "failed"} :
        /\ phase = "drain" /\ Deliver(i, outcome)
        /\ outcome = "failed" => calls[i] > MaxRetries \/ gone
  BY DEF AgentReplies, AgentFails
<1>2. /\ request' = request /\ UNCHANGED <<sortVars, answer>>
      /\ phase' = "drain" /\ calls' = calls /\ gone' = gone /\ UNCHANGED skipVars
      /\ results' = [results EXCEPT ![i] = outcome] /\ flight' = flight \ {i}
  BY <1>1 DEF Deliver
<1>3. /\ HasRun /\ flight \in SUBSET Ordinals /\ pass = {}
      /\ blocked \in BOOLEAN /\ gone \in BOOLEAN
      /\ \A k \in flight : /\ results[k] = "none"
                           /\ \A d \in Dependencies[k] : results[d] = "succeeded"
      /\ \A k \in Ordinals : results[k] = "none" /\ k \notin flight => calls[k] = 0
  BY <1>1, InFlight
<1>4. /\ request \in Requests /\ Follows(results)
      /\ results \in [Ordinals -> Outcomes \cup {"none"}]
      /\ calls \in [Ordinals -> 0..(MaxRetries + 1)]
  BY <1>3, UnderWay
<1>5. /\ i \in Ordinals /\ results'[i] = outcome
      /\ \A k \in Ordinals : k # i => results'[k] = results[k]
  BY <1>2, <1>3, <1>4
<1>6. results' \in [Ordinals -> Outcomes \cup {"none"}]
  BY <1>2, <1>4 DEF Outcomes
<1>7. \A k \in Ordinals : results[k] # "none" => results'[k] = results[k]
  BY <1>3, <1>5
<1>8. \A k \in Ordinals : \A d \in Dependencies[k] : d \in Ordinals
  BY <1>4, GraphTypes
<1>9. \A k \in flight' : results'[k] = "none" /\ \A d \in Dependencies[k] : results'[d] = "succeeded"
  <2> SUFFICES ASSUME NEW k \in flight'
               PROVE  results'[k] = "none" /\ \A d \in Dependencies[k] : results'[d] = "succeeded"
    OBVIOUS
  <2>1. k \in flight /\ k # i /\ k \in Ordinals
    BY <1>2, <1>3
  <2>2. \A d \in Dependencies[k] : d \in Ordinals /\ results[d] = "succeeded"
    BY <1>3, <1>8, <2>1
  <2> QED
    BY <1>3, <1>5, <1>7, <2>1, <2>2
<1>10. \A k \in Ordinals : results'[k] = "none" /\ k \notin flight' => calls'[k] = 0
  <2> SUFFICES ASSUME NEW k \in Ordinals, results'[k] = "none", k \notin flight'
               PROVE  calls'[k] = 0
    OBVIOUS
  <2>1. k # i
    BY <1>5
  <2> QED
    BY <1>2, <1>3, <1>5, <2>1
<1>11. Follows(results')
  <2>1. \A k \in Ordinals : results[k] = "none" /\ results'[k] # "none" =>
           /\ results'[k] # "skipped" /\ \A d \in Dependencies[k] : results[d] = "succeeded"
    BY <1>3, <1>5
  <2> QED
    BY <1>4, <1>7, <2>1, ResultsGrow
<1>12. pass' = {} /\ blocked' \in BOOLEAN /\ gone' \in BOOLEAN
  BY <1>2, <1>3 DEF skipVars
<1>13. PassIsThorough'
  BY <1>2, <1>12, RunReadsNext
<1>14. RetriesAreUsedUp'
  <2> SUFFICES ASSUME ~gone', NEW k \in Ordinals, results'[k] = "failed"
               PROVE  \/ calls'[k] = MaxRetries + 1
                      \/ /\ calls'[k] = 0
                         /\ \E id \in steps'[k].references : Named({id})' \cap Behind(k)' = {}
    BY <1>6 DEF RetriesAreUsedUp
  <2>1. steps' = steps /\ (\A ids : Named(ids)' = Named(ids)) /\ Behind(k)' = Behind(k)
    BY <1>2, SameGraph
  <2>2. CASE k = i
    <3>1. calls[i] > MaxRetries /\ calls[i] \in 0..(MaxRetries + 1) /\ MaxRetries \in Nat
      BY <1>1, <1>2, <1>4, <1>5, <2>2, EngineAssumption DEF EngineAssumption
    <3> QED
      BY <1>2, <2>2, <3>1
  <2>3. CASE k # i
    <3>1. results[k] = "failed" /\ ~gone /\ k \in DOMAIN results
      BY <1>2, <1>4, <1>5, <2>3
    <3>2. \/ calls[k] = MaxRetries + 1
          \/ calls[k] = 0 /\ \E id \in steps[k].references : Named({id}) \cap Behind(k) = {}
      BY <3>1 DEF EngineInv, RetriesAreUsedUp
    <3> QED
      BY <1>2, <2>1, <3>2
  <2> QED
    BY <2>2, <2>3
<1>15. flight' \in SUBSET Ordinals
  BY <1>2, <1>3
<1>16. calls' \in [Ordinals -> 0..(MaxRetries + 1)]
  BY <1>2, <1>4
<1> QED
  BY <1>1, <1>2, <1>6, <1>9, <1>10, <1>11, <1>12, <1>13, <1>14, <1>15, <1>16, RunStep

\* A retry adds one call, and the client's leaving changes no result.
LEMMA RetryKeeps ==
  ASSUME EngineInv, Disconnect \/ \E i \in flight : AgentRetries(i)
  PROVE  EngineInv'
<1>1. /\ request' = request /\ UNCHANGED <<sortVars, answer>> /\ UNCHANGED skipVars
      /\ phase = "drain" /\ phase' = "drain" /\ results' = results /\ flight' = flight
      /\ gone' \in BOOLEAN /\ (~gone' => ~gone)
      /\ \/ calls' = calls
         \/ \E i \in flight : calls[i] <= MaxRetries /\ calls' = [calls EXCEPT ![i] = @ + 1]
  <2>1. CASE Disconnect
    BY <2>1 DEF Disconnect, runVars
  <2>2. ASSUME NEW i \in flight, AgentRetries(i)
        PROVE  /\ request' = request /\ UNCHANGED <<sortVars, answer>> /\ UNCHANGED skipVars
               /\ phase = "drain" /\ phase' = "drain" /\ results' = results /\ flight' = flight
               /\ gone' = gone /\ gone \in BOOLEAN
               /\ calls[i] <= MaxRetries /\ calls' = [calls EXCEPT ![i] = @ + 1]
    <3>1. phase = "drain"
      BY <2>2 DEF AgentRetries
    <3>2. gone \in BOOLEAN
      BY <3>1, InFlight
    <3> QED
      BY <2>2, <3>2 DEF AgentRetries
  <2> QED
    BY <2>1, <2>2
<1>2. /\ HasRun /\ flight \in SUBSET Ordinals /\ pass = {}
      /\ blocked \in BOOLEAN /\ gone \in BOOLEAN
      /\ \A k \in flight : /\ results[k] = "none"
                           /\ \A d \in Dependencies[k] : results[d] = "succeeded"
      /\ \A k \in Ordinals : results[k] = "none" /\ k \notin flight => calls[k] = 0
  BY <1>1, InFlight
<1>3. /\ request \in Requests /\ Follows(results)
      /\ results \in [Ordinals -> Outcomes \cup {"none"}]
      /\ calls \in [Ordinals -> 0..(MaxRetries + 1)]
  BY <1>2, UnderWay
<1>4. /\ calls' \in [Ordinals -> 0..(MaxRetries + 1)]
      /\ \A k \in Ordinals : k \notin flight => calls'[k] = calls[k]
  <2>1. CASE calls' = calls
    BY <1>3, <2>1
  <2>2. ASSUME NEW i \in flight, calls[i] <= MaxRetries, calls' = [calls EXCEPT ![i] = @ + 1]
        PROVE  /\ calls' \in [Ordinals -> 0..(MaxRetries + 1)]
               /\ \A k \in Ordinals : k \notin flight => calls'[k] = calls[k]
    <3>1. i \in Ordinals /\ MaxRetries \in Nat
      BY <1>2, EngineAssumption DEF EngineAssumption
    <3>2. calls[i] \in 0..(MaxRetries + 1)
      BY <1>3, <3>1
    <3>3. calls[i] + 1 \in 0..(MaxRetries + 1)
      BY <2>2, <3>1, <3>2
    <3> QED
      BY <1>3, <2>2, <3>1, <3>3
  <2> QED
    BY <1>1, <2>1, <2>2
<1>5. pass' = {} /\ blocked' \in BOOLEAN
  BY <1>1, <1>2 DEF skipVars
<1>6. PassIsThorough'
  BY <1>1, <1>5, RunReadsNext
<1>7. RetriesAreUsedUp'
  <2> SUFFICES ASSUME ~gone', NEW k \in Ordinals, results'[k] = "failed"
               PROVE  \/ calls'[k] = MaxRetries + 1
                      \/ /\ calls'[k] = 0
                         /\ \E id \in steps'[k].references : Named({id})' \cap Behind(k)' = {}
    BY <1>1, <1>3 DEF RetriesAreUsedUp
  <2>1. steps' = steps /\ (\A ids : Named(ids)' = Named(ids)) /\ Behind(k)' = Behind(k)
    BY <1>1, SameGraph
  <2>2. results[k] = "failed" /\ ~gone /\ k \in DOMAIN results /\ k \notin flight
    BY <1>1, <1>2, <1>3
  <2>3. \/ calls[k] = MaxRetries + 1
        \/ calls[k] = 0 /\ \E id \in steps[k].references : Named({id}) \cap Behind(k) = {}
    BY <2>2 DEF EngineInv, RetriesAreUsedUp
  <2>4. calls'[k] = calls[k]
    BY <1>4, <2>2
  <2> QED
    BY <2>1, <2>3, <2>4
<1>8. \A k \in Ordinals : results'[k] = "none" /\ k \notin flight' => calls'[k] = 0
  BY <1>1, <1>2, <1>4
<1>9. /\ \A k \in flight' : /\ results'[k] = "none"
                            /\ \A d \in Dependencies[k] : results'[d] = "succeeded"
      /\ flight' \in SUBSET Ordinals /\ pass' \in SUBSET Ordinals
      /\ results' \in [Ordinals -> Outcomes \cup {"none"}] /\ Follows(results')
  BY <1>1, <1>2, <1>3, <1>5
<1> QED
  BY <1>1, <1>4, <1>5, <1>6, <1>7, <1>8, <1>9, RunStep
\* The passes of skipBlocked skip what depends on a failure, and the last one has
\* looked at every remaining step since the last skip.
LEMMA PassKeeps ==
  ASSUME EngineInv, WaveDrained \/ EndPass \/ \E i \in pass : Look(i)
  PROVE  EngineInv'
<1>1. /\ request' = request /\ UNCHANGED <<sortVars, answer>> /\ calls' = calls
      /\ flight' = flight /\ gone' = gone
      /\ phase \in {"drain", "skip"} /\ phase' \in {"skip", "wave"}
      /\ phase = "drain" => flight = {}
  BY DEF WaveDrained, EndPass, Look, BeginPass, runVars, skipVars
<1>2. HasRun
  BY <1>1 DEF HasRun
<1>3. /\ request \in Requests /\ Founded(Ordinals) /\ Follows(results)
      /\ results \in [Ordinals -> Outcomes \cup {"none"}]
      /\ calls \in [Ordinals -> 0..(MaxRetries + 1)]
  BY <1>2, UnderWay
<1>4. /\ flight = {} /\ \A k \in Ordinals : results[k] = "none" => calls[k] = 0
      /\ pass \in SUBSET Ordinals /\ blocked \in BOOLEAN /\ gone \in BOOLEAN
  BY <1>1, <1>2 DEF EngineInv, RunsWhatIsValid, TypeOK
<1>5. /\ phase = "skip" => \A i \in pass : i \in Ordinals /\ results[i] = "none"
      /\ phase = "skip" /\ ~blocked =>
            \A i \in Ordinals : results[i] = "none" /\ i \notin pass =>
              \A d \in Dependencies[i] : results[d] \notin {"failed", "skipped"}
  BY RunReads DEF EngineInv
<1>6. /\ steps' = steps /\ Ordinals' = Ordinals /\ \A ids : Named(ids)' = Named(ids)
      /\ \A k : Behind(k)' = Behind(k)
  BY <1>1, SameGraph
<1>7. CASE WaveDrained \/ EndPass
  <2>1. /\ results' = results
        /\ \/ /\ phase' = "skip" /\ blocked' = FALSE
              /\ pass' = {i \in Ordinals : results[i] = "none"}
           \/ phase = "skip" /\ ~blocked /\ phase' = "wave" /\ pass = {} /\ pass' = {}
              /\ blocked' = blocked
    BY <1>7, PlanReads DEF WaveDrained, EndPass, BeginPass, runVars, skipVars
  <2>2. PassIsThorough'
    BY <1>1, <1>5, <2>1, RunReadsNext
  <2>3. phase' = "wave" => SkipsTheWholeChain'
    <3> SUFFICES ASSUME phase' = "wave" PROVE SkipsTheWholeChain'
      OBVIOUS
    <3>1. \A i \in Ordinals : results[i] = "none" =>
             \A d \in Dependencies[i] : results[d] \notin {"failed", "skipped"}
      BY <1>5, <2>1
    <3>2. \A i \in Ordinals : results[i] = "skipped" <=> \E k \in Behind(i) : results[k] = "failed"
      BY <1>3, <3>1, ChainsAreSkipped
    <3> QED
      BY <1>6, <2>1, <3>2 DEF SkipsTheWholeChain
  <2>4. RetriesAreUsedUp'
    <3>1. RetriesAreUsedUp
      BY DEF EngineInv
    <3> QED
      BY <1>1, <1>6, <2>1, <3>1 DEF RetriesAreUsedUp
  <2>5. /\ pass' \in SUBSET Ordinals /\ blocked' \in BOOLEAN /\ gone' \in BOOLEAN
        /\ flight' = {} /\ phase' # "drain"
        /\ results' \in [Ordinals -> Outcomes \cup {"none"}] /\ Follows(results')
        /\ calls' \in [Ordinals -> 0..(MaxRetries + 1)]
        /\ \A k \in Ordinals : results'[k] = "none" => calls'[k] = 0
    BY <1>1, <1>3, <1>4, <2>1
  <2>6. phase \in {"wave", "drain", "skip"} /\ phase' \in {"wave", "drain", "skip"}
        /\ flight' \in SUBSET Ordinals
    BY <1>1, <2>5
  <2> QED
    BY <1>1, <2>2, <2>3, <2>4, <2>5, <2>6, RunStep
<1>8. ASSUME NEW i \in pass, Look(i) PROVE EngineInv'
  <2>1. /\ phase = "skip" /\ phase' = "skip" /\ pass' = pass \ {i}
        /\ \/ /\ \E d \in Dependencies[i] : results[d] \in {"failed", "skipped"}
              /\ results' = [results EXCEPT ![i] = "skipped"] /\ blocked' = TRUE
           \/ /\ \A d \in Dependencies[i] : results[d] \notin {"failed", "skipped"}
              /\ results' = results /\ blocked' = blocked
    BY <1>8, PlanReads DEF Look
  <2>2. i \in Ordinals /\ results[i] = "none"
    BY <1>5, <2>1
  <2>3. /\ results' \in [Ordinals -> Outcomes \cup {"none"}]
        /\ \A k \in Ordinals : k # i => results'[k] = results[k]
        /\ \/ results'[i] = "none"
           \/ results'[i] = "skipped" /\ \E d \in Dependencies[i] : results[d] \in {"failed", "skipped"}
    BY <1>3, <2>1, <2>2 DEF Outcomes
  <2>4. Follows(results')
    <3>1. \A k \in Ordinals : results[k] # "none" => results'[k] = results[k]
      BY <2>2, <2>3
    <3>2. \A k \in Ordinals : results[k] = "none" /\ results'[k] # "none" =>
             results'[k] = "skipped" /\ \E d \in Dependencies[k] : results[d] \in {"failed", "skipped"}
      BY <2>3
    <3> QED
      BY <1>3, <3>1, <3>2, ResultsGrow
  <2>5. PassIsThorough'
    <3>1. \A k \in pass' : k \in Ordinals /\ results'[k] = "none"
      BY <1>5, <2>1, <2>3
    <3>2. ASSUME ~blocked', NEW k \in Ordinals, results'[k] = "none", k \notin pass'
          PROVE  \A d \in Dependencies[k] : results'[d] \notin {"failed", "skipped"}
      <4>1. results' = results /\ ~blocked
            /\ \A d \in Dependencies[i] : results[d] \notin {"failed", "skipped"}
        BY <2>1, <3>2
      <4> QED
        BY <1>5, <2>1, <3>2, <4>1
    <3> QED
      BY <1>1, <2>1, <3>1, <3>2, RunReadsNext
  <2>6. RetriesAreUsedUp'
    <3> SUFFICES ASSUME ~gone', NEW k \in Ordinals, results'[k] = "failed"
                 PROVE  \/ calls'[k] = MaxRetries + 1
                        \/ /\ calls'[k] = 0
                           /\ \E id \in steps'[k].references : Named({id})' \cap Behind(k)' = {}
      BY <2>3 DEF RetriesAreUsedUp
    <3>1. results[k] = "failed" /\ ~gone /\ k \in DOMAIN results
      BY <1>1, <1>3, <2>3
    <3>2. \/ calls[k] = MaxRetries + 1
          \/ calls[k] = 0 /\ \E id \in steps[k].references : Named({id}) \cap Behind(k) = {}
      BY <3>1 DEF EngineInv, RetriesAreUsedUp
    <3> QED
      BY <1>1, <1>6, <3>2
  <2>7. \A k \in Ordinals : results'[k] = "none" /\ k \notin flight' => calls'[k] = 0
    BY <1>1, <1>4, <2>2, <2>3
  <2>8. /\ pass' \in SUBSET Ordinals /\ blocked' \in BOOLEAN /\ gone' \in BOOLEAN
        /\ flight' = {} /\ flight' \in SUBSET Ordinals
        /\ calls' \in [Ordinals -> 0..(MaxRetries + 1)]
    BY <1>1, <1>3, <1>4, <2>1
  <2>9. phase \in {"wave", "drain", "skip"} /\ phase' \in {"wave", "drain", "skip"}
        /\ phase' # "wave" /\ phase' # "drain"
    BY <2>1
  <2> QED
    BY <1>1, <2>3, <2>4, <2>5, <2>6, <2>7, <2>8, <2>9, RunStep
<1> QED
  BY <1>7, <1>8

\* Run leaves its loop with a result for every step, and the answer says which.
LEMMA FinishKeeps ==
  ASSUME EngineInv, Finish
  PROVE  EngineInv'
<1>1. /\ request' = request /\ UNCHANGED <<sortVars, skipVars>> /\ calls' = calls
      /\ flight' = flight /\ gone' = gone
      /\ phase = "wave" /\ phase' = "answered" /\ HasRun
  BY DEF Finish, Respond, HasRun
<1>2. /\ request \in Requests /\ Founded(Ordinals) /\ Follows(results)
      /\ results \in [Ordinals -> Outcomes \cup {"none"}]
      /\ calls \in [Ordinals -> 0..(MaxRetries + 1)]
      /\ \A i \in Ordinals : i \notin Behind(i)
  BY <1>1, UnderWay
<1>3. \A i \in Ordinals : results[i] # "none"
  <2>1. \A i \in Ordinals : results[i] = "none" =>
           \A d \in Dependencies[i] : results[d] \notin {"failed", "skipped"}
    BY <1>1, RunReads DEF EngineInv
  <2>2. \A i \in Ordinals : results[i] = "none" =>
           \E d \in Dependencies[i] : results[d] # "succeeded"
    BY PlanReads DEF Finish
  <2> QED
    BY <1>2, <2>1, <2>2, NothingRemains
<1>4. results' = results
  <2>1. results' = [i \in Ordinals |-> IF results[i] = "none" THEN "skipped" ELSE results[i]]
    BY DEF Finish, Plan!Ordered, Plan!Steps, Ordinals
  <2> QED
    BY <1>2, <1>3, <2>1
<1>5. /\ steps' = steps /\ Ordinals' = Ordinals /\ Dependencies' = Dependencies
      /\ Founded(Ordinals)' = Founded(Ordinals)
      /\ (\A ids : Named(ids)' = Named(ids)) /\ \A i : Behind(i)' = Behind(i)
  BY <1>1, SameGraph
<1>6. \/ /\ answer' = [status |-> 200, step |-> NoStep]
         /\ \A i \in Ordinals : results[i] # "failed"
      \/ \E first \in Ordinals : /\ answer' = [status |-> 502, step |-> first]
                                 /\ results[first] = "failed"
                                 /\ \A i \in Ordinals : results[i] = "failed" => first <= i
  BY DEF Finish, Respond
<1>7. /\ answer'.status \in {200, 502} /\ answer'.step \in Ordinals \cup {NoStep} /\ HasRun'
  BY <1>6 DEF HasRun
<1>8. /\ flight = {} /\ pass = {} /\ \A k \in Ordinals : results[k] = "none" => calls[k] = 0
      /\ blocked \in BOOLEAN /\ gone \in BOOLEAN
      /\ visited \in 0..Len(steps) /\ ready \in Seq(Ordinals)
  BY <1>1 DEF EngineInv, RunsWhatIsValid, PassIsThorough, TypeOK
<1>9. /\ flight' = {} /\ pass' = {} /\ blocked' \in BOOLEAN /\ gone' \in BOOLEAN
      /\ visited' \in 0..Len(steps) /\ ready' \in Seq(Ordinals)
  BY <1>1, <1>8 DEF sortVars, skipVars
<1>10. TypeOK'
  BY <1>1, <1>2, <1>4, <1>5, <1>7, <1>9 DEF TypeOK
<1>11. RunsWhatIsValid'
  BY <1>1, <1>2, <1>3, <1>4, <1>5, <1>9 DEF RunsWhatIsValid
<1>12. ResultsFollowGraph' /\ PassIsThorough'
  BY <1>1, <1>2, <1>4, <1>9, RunReadsNext
<1>13. \A i \in Ordinals : results[i] = "skipped" <=> \E k \in Behind(i) : results[k] = "failed"
  BY <1>1 DEF EngineInv, SkipsTheWholeChain
<1>14. SkipsTheWholeChain'
  BY <1>4, <1>5, <1>13 DEF SkipsTheWholeChain
<1>15. CycleTestExact'
  BY <1>1, <1>2, <1>5, <1>7 DEF CycleTestExact
<1>16. RetriesAreUsedUp'
  <2>1. RetriesAreUsedUp
    BY DEF EngineInv
  <2> QED
    BY <1>1, <1>4, <1>5, <2>1 DEF RetriesAreUsedUp
<1>17. AnswerTellsTheOutcome'
  <2>1. CASE answer' = [status |-> 200, step |-> NoStep] /\ \A i \in Ordinals : results[i] # "failed"
    <3>1. \A i \in Ordinals : results[i] = "succeeded"
      <4> SUFFICES ASSUME NEW i \in Ordinals PROVE results[i] = "succeeded"
        OBVIOUS
      <4>1. results[i] \in {"succeeded", "failed", "skipped", "none"}
        BY <1>2 DEF Outcomes
      <4>2. \A k \in Behind(i) : k \in Ordinals
        BY DEF Behind
      <4> QED
        BY <1>3, <1>13, <2>1, <4>1, <4>2
    <3>2. answer'.status = 200
      BY <2>1
    <3> QED
      BY <1>4, <1>5, <3>1, <3>2 DEF AnswerTellsTheOutcome
  <2>2. ASSUME NEW first \in Ordinals, answer' = [status |-> 502, step |-> first],
               results[first] = "failed", \A i \in Ordinals : results[i] = "failed" => first <= i
        PROVE  AnswerTellsTheOutcome'
    <3>1. answer'.status = 502 /\ answer'.step = first
      BY <2>2
    <3>2. \A i \in 1..(first - 1) : i \in Ordinals /\ ~(first <= i)
      BY <1>2, GraphTypes DEF Ordinals
    <3> QED
      BY <1>4, <2>2, <3>1, <3>2 DEF AnswerTellsTheOutcome
  <2> QED
    BY <1>6, <2>1, <2>2
<1>18. CountsDown'
  BY <1>1 DEF CountsDown
<1> QED
  BY <1>10, <1>11, <1>12, <1>14, <1>15, <1>16, <1>17, <1>18 DEF EngineInv

\* A step that changes nothing keeps the invariant.
LEMMA StutteringKeeps ==
  ASSUME EngineInv, UNCHANGED engineVars
  PROVE  EngineInv'
<1>1. /\ request' = request /\ phase' = phase /\ degree' = degree /\ ready' = ready
      /\ visited' = visited /\ results' = results /\ calls' = calls /\ flight' = flight
      /\ pass' = pass /\ blocked' = blocked /\ gone' = gone /\ answer' = answer
  BY DEF engineVars, sortVars, runVars, skipVars
<1>2. /\ steps' = steps /\ Ordinals' = Ordinals /\ Dependencies' = Dependencies /\ Valid' = Valid
      /\ Founded(Ordinals)' = Founded(Ordinals)
      /\ (\A i : Behind(i)' = Behind(i)) /\ \A ids : Named(ids)' = Named(ids)
  BY <1>1, SameGraph
<1>3. HasRun' = HasRun
  BY <1>1 DEF HasRun
<1>4. TypeOK'
  BY <1>1, <1>2, <1>3 DEF EngineInv, TypeOK
<1>5. CountsDown'
  <2>1. Visited' = Visited
    BY <1>1, <1>2 DEF Visited
  <2>2. Founded(Visited)' <=> Founded(Visited)
    BY <1>2, <2>1 DEF Founded
  <2> QED
    BY <1>1, <1>2, <2>1, <2>2 DEF EngineInv, CountsDown
<1>6. RunsWhatIsValid'
  BY <1>1, <1>2, <1>3 DEF EngineInv, RunsWhatIsValid, Plan!DependenciesSucceeded
<1>7. ResultsFollowGraph' /\ PassIsThorough'
  BY <1>1, <1>3, RunReads, RunReadsNext DEF EngineInv
<1>8. CycleTestExact' /\ SkipsTheWholeChain' /\ AnswerTellsTheOutcome'
  BY <1>1, <1>2 DEF EngineInv, CycleTestExact, SkipsTheWholeChain, AnswerTellsTheOutcome
<1>9. RetriesAreUsedUp'
  BY <1>1, <1>2 DEF EngineInv, RetriesAreUsedUp
<1> QED
  BY <1>4, <1>5, <1>6, <1>7, <1>8, <1>9 DEF EngineInv
-----------------------------------------------------------------------------
(* The theorems.                                                           *)

\* A request that has just come in satisfies the invariant.
LEMMA EngineInit == Init => EngineInv
<1> SUFFICES ASSUME Init PROVE EngineInv
  OBVIOUS
<1>1. request \in Requests /\ ~HasRun /\ answer.status = 0
  BY DEF Init, HasRun
<1>2. TypeOK
  <2>1. Len(steps) \in Nat
    BY <1>1, GraphTypes
  <2>2. <<>> \in Seq(Ordinals)
    OBVIOUS
  <2>3. visited \in 0..Len(steps) /\ ready \in Seq(Ordinals)
    BY <2>1, <2>2 DEF Init
  <2>4. answer.status = 0 /\ answer.step = NoStep /\ phase = "decode"
    BY DEF Init
  <2>5. /\ flight = {} /\ pass = {} /\ blocked \in BOOLEAN /\ gone \in BOOLEAN
        /\ results = <<>> /\ calls = <<>>
    BY DEF Init
  <2> QED
    BY <1>1, <2>3, <2>4, <2>5 DEF TypeOK
<1>3. CountsDown /\ RunsWhatIsValid
  BY <1>1 DEF Init, CountsDown, RunsWhatIsValid
<1>4. ResultsFollowGraph /\ PassIsThorough
  BY <1>1, RunReads DEF Init
<1>5. CycleTestExact /\ SkipsTheWholeChain /\ AnswerTellsTheOutcome
  BY <1>1 DEF Init, CycleTestExact, SkipsTheWholeChain, AnswerTellsTheOutcome
<1>6. RetriesAreUsedUp
  BY DEF Init, RetriesAreUsedUp
<1> QED
  BY <1>2, <1>3, <1>4, <1>5, <1>6 DEF EngineInv

\* The inductive invariant of a request: the types, the countdown of hasCycle
\* over what it has visited, and what the waves and the passes have recorded.
THEOREM EngineInvariant == Spec => []EngineInv
<1>1. Init => EngineInv
  BY EngineInit
<1>2. EngineInv /\ [Next]_engineVars => EngineInv'
  <2> SUFFICES ASSUME EngineInv, [Next]_engineVars PROVE EngineInv'
    OBVIOUS
  <2>1. CASE Decode \/ CountDependencies \/ Visit
    BY <2>1, SortingKeeps
  <2>2. CASE Accept
    BY <2>2, AcceptKeeps
  <2>3. CASE StartWave
    BY <2>3, StartWaveKeeps
  <2>4. CASE \E i \in flight : AgentReplies(i) \/ AgentFails(i)
    BY <2>4, DeliverKeeps
  <2>5. CASE Disconnect \/ \E i \in flight : AgentRetries(i)
    BY <2>5, RetryKeeps
  <2>6. CASE WaveDrained \/ EndPass \/ \E i \in pass : Look(i)
    BY <2>6, PassKeeps
  <2>7. CASE Finish
    BY <2>7, FinishKeeps
  <2>8. CASE UNCHANGED engineVars
    BY <2>8, StutteringKeeps
  <2> QED
    BY <2>1, <2>2, <2>3, <2>4, <2>5, <2>6, <2>7, <2>8 DEF Next, Handle, Answered
<1> QED
  BY <1>1, <1>2, PTL DEF Spec

\* hasCycle decides acyclicity exactly, for every graph and every order in which
\* the map yields the first steps: a workflow that runs has no cycle, and one that
\* it refuses has one.
THEOREM CycleTestIsExact == Spec => []CycleTestExact
<1>1. EngineInv => CycleTestExact
  BY DEF EngineInv
<1> QED
  BY <1>1, EngineInvariant, PTL

\* skipBlocked reaches the end of every chain behind a failed step and touches
\* nothing else, in whatever order its passes meet the steps.
THEOREM SkipsAreExact == Spec => []SkipsTheWholeChain
<1>1. EngineInv => SkipsTheWholeChain
  BY DEF EngineInv
<1> QED
  BY <1>1, EngineInvariant, PTL

\* A 200 means that every step succeeded, and the WorkflowError behind a 502 names
\* the first failed step:
\* Run never leaves its loop with a step that it did not come to.
THEOREM AnswersAreTrue == Spec => []AnswerTellsTheOutcome
<1>1. EngineInv => AnswerTellsTheOutcome
  BY DEF EngineInv
<1> QED
  BY <1>1, EngineInvariant, PTL

\* runStep gives a step up only after MaxRetries + 1 calls as long as the client
\* listens, and a prompt that does not render names an output that its step has
\* no dependency on.
THEOREM RetriesBeforeFailure == Spec => []RetriesAreUsedUp
<1>1. EngineInv => RetriesAreUsedUp
  BY DEF EngineInv
<1> QED
  BY <1>1, EngineInvariant, PTL


=============================================================================
