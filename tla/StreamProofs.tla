---------------------------- MODULE StreamProofs ----------------------------
(***************************************************************************)
(* For every number of writers, clients, events and broken connections, a  *)
(* client reads the events of a job in order, once and without a hole.     *)
(***************************************************************************)
EXTENDS EventStream, FiniteSetTheorems, SequenceTheorems, WellFoundedInduction, TLAPS

USE EventStreamAssumption DEF EventStreamAssumption

-----------------------------------------------------------------------------
(* The rows in the order of their IDs.                                     *)

\* Every set of naturals that has an element has a least one.
LEMMA LeastNatural ==
  ASSUME NEW T \in SUBSET Nat, T # {}
  PROVE  \E m \in T : \A k \in T : m <= k
<1> DEFINE R == {p \in Nat \X Nat : p[1] < p[2]}
<1>1. IsWellFoundedOn(R, Nat)
  BY NatLessThanWellFounded DEF OpToRel
<1>2. \E m \in T : \A k \in T : <<k, m>> \notin R
  <2> HIDE DEF R
  <2> QED
    BY <1>1, WFMin
<1>3. PICK m \in T : \A k \in T : <<k, m>> \notin R
  BY <1>2
<1>4. \A k \in T : ~(k < m)
  BY <1>3
<1> QED
  BY <1>4

\* q lists the elements of S in ascending order.
Lists(q, S) ==
  /\ q \in [1..Cardinality(S) -> S]
  /\ \A i, k \in 1..Cardinality(S) : i < k => q[i] < q[k]

\* Every finite set of naturals can be listed in ascending order.
LEMMA AscendingExists ==
  ASSUME NEW n \in Nat, NEW S \in SUBSET (1..n)
  PROVE  \E q : Lists(q, S)
<1> DEFINE T == {m \in Nat : \E U \in SUBSET (1..m) : \A q : ~Lists(q, U)}
<1> SUFFICES ASSUME T # {} PROVE FALSE
  OBVIOUS
<1>1. PICK m \in T : \A k \in T : m <= k
  <2>1. T \in SUBSET Nat
    OBVIOUS
  <2> HIDE DEF T
  <2> QED
    BY <2>1, LeastNatural
<1>2. PICK U \in SUBSET (1..m) : \A q : ~Lists(q, U)
  BY <1>1
<1>3. m \in Nat /\ IsFiniteSet(U) /\ Cardinality(U) \in Nat
  <2>1. m \in Nat
    BY <1>1
  <2>2. IsFiniteSet(1..m)
    BY <2>1, FS_Interval
  <2> QED
    BY <2>1, <2>2, FS_Subset, FS_CardinalityType
<1>4. \A k \in Nat : k < m => \A V \in SUBSET (1..k) : \E q : Lists(q, V)
  BY <1>1, <1>3
<1>5. U # {}
  <2>1. ASSUME U = {} PROVE Lists([i \in {} |-> i], U)
    BY <2>1, FS_EmptySet DEF Lists
  <2> QED
    BY <1>2, <2>1
<1>6. m # 0 /\ m \in U
  <2>1. m # 0
    <3>1. PICK u \in U : TRUE
      BY <1>5
    <3>2. u \in 1..m
      BY <3>1
    <3> QED
      BY <1>3, <3>2
  <2>2. ASSUME m \notin U PROVE FALSE
    <3>1. m - 1 \in Nat /\ m - 1 < m /\ U \in SUBSET (1..(m - 1))
      BY <1>3, <2>1, <2>2
    <3> QED
      BY <1>2, <1>4, <3>1
  <2> QED
    BY <2>1, <2>2
<1> DEFINE V == U \ {m}
<1>7. V \in SUBSET (1..(m - 1)) /\ m - 1 \in Nat /\ m - 1 < m
  BY <1>3, <1>6
<1>8. PICK r : Lists(r, V)
  BY <1>4, <1>7
<1>9. Cardinality(V) = Cardinality(U) - 1 /\ Cardinality(U) \in Nat \ {0}
  BY <1>3, <1>5, <1>6, FS_RemoveElement, FS_EmptySet
<1> DEFINE c == Cardinality(U)
           q == [i \in 1..c |-> IF i = c THEN m ELSE r[i]]
<1>10. \A i \in 1..c : i # c => i \in 1..Cardinality(V) /\ r[i] \in V /\ r[i] < m /\ r[i] \in U
  <2> SUFFICES ASSUME NEW i \in 1..c, i # c
               PROVE  i \in 1..Cardinality(V) /\ r[i] \in V /\ r[i] < m /\ r[i] \in U
    OBVIOUS
  <2>1. i \in 1..Cardinality(V)
    BY <1>9
  <2>2. r[i] \in V
    BY <1>8, <2>1 DEF Lists
  <2>3. \A v \in V : v \in 1..(m - 1) /\ v \in U
    BY <1>7
  <2>4. \A v \in 1..(m - 1) : v < m
    BY <1>3
  <2> QED
    BY <2>1, <2>2, <2>3, <2>4
<1>11. q \in [1..c -> U]
  BY <1>6, <1>10
<1>12. \A i, k \in 1..c : i < k => q[i] < q[k]
  <2> SUFFICES ASSUME NEW i \in 1..c, NEW k \in 1..c, i < k PROVE q[i] < q[k]
    OBVIOUS
  <2>1. i # c
    BY <1>9
  <2>2. CASE k = c
    BY <1>10, <2>1, <2>2
  <2>3. CASE k # c
    <3>1. r[i] < r[k]
      BY <1>8, <1>10, <2>1, <2>3 DEF Lists
    <3> QED
      BY <2>1, <2>3, <3>1
  <2> QED
    BY <2>2, <2>3
<1> QED
  BY <1>2, <1>11, <1>12 DEF Lists

\* Events returns every row that it found, in ascending order, and the last one
\* is the greatest.
LEMMA ByIdSorts ==
  ASSUME NEW n \in Nat, NEW S \in SUBSET (1..n), S # {}
  PROVE  /\ ById(S) \in Seq(S)
         /\ ById(S) # <<>>
         /\ \A i, k \in 1..Len(ById(S)) : i < k => ById(S)[i] < ById(S)[k]
         /\ \A x \in S : \E i \in 1..Len(ById(S)) : ById(S)[i] = x
         /\ Max(S) = ById(S)[Len(ById(S))]
         /\ Max(S) \in S /\ \A x \in S : x <= Max(S)
<1> DEFINE c == Cardinality(S)
           q == ById(S)
<1>0. \A x \in S : x \in Nat
  OBVIOUS
<1>1. IsFiniteSet(S) /\ c \in Nat \ {0}
  <2>1. IsFiniteSet(1..n)
    BY FS_Interval
  <2>2. IsFiniteSet(S)
    BY <2>1, FS_Subset
  <2> QED
    BY <2>2, FS_CardinalityType, FS_EmptySet
<1>2. Lists(q, S)
  <2>1. PICK r : Lists(r, S)
    BY AscendingExists
  <2>2. \A i \in 1..c : r[i] \in Nat
    BY <1>0, <2>1 DEF Lists
  <2>3. r \in SetToSeqs(S)
    BY <1>1, <2>1, <2>2 DEF Lists, SetToSeqs
  <2>4. \A i, k \in DOMAIN r : i < k => r[i] < r[k]
    BY <2>1 DEF Lists
  <2>5. q \in SetToSeqs(S) /\ \A i, k \in DOMAIN q : i < k => q[i] < q[k]
    BY <2>3, <2>4 DEF ById
  <2> HIDE DEF q
  <2> QED
    BY <2>5 DEF Lists, SetToSeqs
<1> HIDE DEF q
<1>3. q \in Seq(S) /\ Len(q) = c
  <2>1. q \in Seq(S)
    BY <1>1, <1>2, SeqDef DEF Lists
  <2>2. 1..Len(q) = 1..c /\ Len(q) \in Nat
    BY <1>2, <2>1, LenProperties DEF Lists
  <2> QED
    BY <1>1, <2>1, <2>2
<1>4. \A i, k \in 1..c : i < k => q[i] < q[k]
  BY <1>2 DEF Lists
<1>5. \A x \in S : \E i \in 1..c : q[i] = x
  <2>1. \A i \in 1..c : q[i] \in Nat
    BY <1>0, <1>2 DEF Lists
  <2>2. \A i, k \in 1..c : q[i] = q[k] => i = k
    BY <1>1, <1>4, <2>1
  <2>3. q \in Injection(1..c, S)
    BY <1>2, <2>2 DEF Injection, IsInjective, Lists
  <2>4. Cardinality(1..c) = c
    BY <1>1, FS_Interval
  <2>5. q \in Surjection(1..c, S)
    BY <1>1, <2>3, <2>4, FS_Injection
  <2> QED
    BY <2>5 DEF Surjection
<1>6. c \in 1..c /\ q[c] \in S /\ \A x \in S : q[c] >= x
  <2>1. c \in 1..c /\ q[c] \in S
    BY <1>1, <1>2 DEF Lists
  <2>2. ASSUME NEW x \in S PROVE q[c] >= x
    <3>1. PICK i \in 1..c : q[i] = x
      BY <1>5
    <3>2. x \in Nat /\ q[c] \in Nat
      BY <1>0, <2>1
    <3> QED
      BY <1>1, <1>4, <2>1, <3>1, <3>2
  <2> QED
    BY <2>1, <2>2
<1>7. Max(S) \in S /\ \A y \in S : Max(S) >= y
  BY <1>6 DEF Max
<1>8. Max(S) = q[c] /\ \A x \in S : x <= Max(S)
  <2>1. Max(S) >= q[c] /\ q[c] >= Max(S) /\ q[c] \in Nat /\ Max(S) \in Nat
    BY <1>0, <1>6, <1>7
  <2> QED
    BY <1>0, <1>7, <2>1
<1>9. q # <<>>
  BY <1>1, <1>3
<1> QED
  BY <1>3, <1>4, <1>5, <1>7, <1>8, <1>9 DEF q

-----------------------------------------------------------------------------
(* Types.                                                                  *)

\* What a client has read and what is on its way are IDs of the log.
LEMMA ClientTypes ==
  ASSUME TypeOK, NEW c \in Clients
  PROVE  /\ wire[c] \in Seq(log) /\ seen[c] \in Seq(log)
         /\ \A id \in log : id \in Nat \ {0} /\ id \in 1..drawn
         /\ drawn \in Nat
         /\ LastEventID(c) = 0 \/ LastEventID(c) \in log
         /\ LastEventID(c) \in 0..drawn
<1>1. wire[c] \in Seq(log) /\ seen[c] \in Seq(log) /\ drawn \in Nat
  BY DEF TypeOK
<1>2. \A id \in log : id \in Nat \ {0} /\ id \in 1..drawn
  BY <1>1 DEF TypeOK
<1>3. seen[c] # <<>> => Last(seen[c]) \in log
  <2> SUFFICES ASSUME seen[c] # <<>> PROVE Last(seen[c]) \in log
    OBVIOUS
  <2>1. Len(seen[c]) \in Nat \ {0}
    BY <1>1, EmptySeq
  <2> QED
    BY <1>1, <2>1, ElementOfSeq DEF Last
<1> QED
  BY <1>1, <1>2, <1>3 DEF LastEventID

\* A poll that finds events.
LEMMA Polled ==
  ASSUME TypeOK, NEW c \in Clients, Poll(c)
  PROVE  LET S == EventsAfter(after[c])
         IN  /\ S \in SUBSET log /\ S \in SUBSET (1..drawn) /\ S # {} /\ drawn \in Nat
             /\ \A id \in S : after[c] < id
             /\ wire' = [wire EXCEPT ![c] = @ \o ById(S)]
             /\ after' = [after EXCEPT ![c] = Max(S)]
<1> DEFINE S == EventsAfter(after[c])
<1>1. \A id \in S : id \in log /\ id > after[c]
  BY DEF EventsAfter
<1>3. after[c] \in Nat /\ drawn \in Nat /\ log \subseteq 1..drawn
  BY DEF TypeOK
<1>4. \A id \in S : id \in Nat /\ id \in 1..drawn
  <2> HIDE DEF S
  <2>1. \A id \in 1..drawn : id \in Nat
    BY <1>3
  <2> QED
    BY <1>1, <1>3, <2>1
<1>5. \A id \in S : after[c] < id
  BY <1>1, <1>3, <1>4
<1>2. /\ S # {}
      /\ wire' = [wire EXCEPT ![c] = @ \o ById(S)]
      /\ after' = [after EXCEPT ![c] = Max(S)]
  BY DEF Poll
<1> HIDE DEF S
<1>6. S \in SUBSET log /\ S \in SUBSET (1..drawn)
  BY <1>1, <1>4
<1> QED
  BY <1>2, <1>3, <1>5, <1>6 DEF S

\* Every step keeps the types.
LEMMA TypeStep ==
  ASSUME TypeOK, [Next]_streamVars
  PROVE  TypeOK'
<1>t. /\ drawn \in Nat /\ drawn \in 0..MaxEvents /\ insert \in [Writers -> 0..drawn]
      /\ log \subseteq 1..drawn
      /\ wire \in [Clients -> Seq(log)] /\ seen \in [Clients -> Seq(log)]
      /\ conn \in [Clients -> {"none", "open", "ending", "closed"}]
      /\ after \in [Clients -> 0..drawn] /\ drops \in 0..MaxDrops
  BY DEF TypeOK
<1>1. ASSUME NEW w \in Writers, NEW type \in {"progress", "terminal"}, Begin(w, type)
      PROVE  TypeOK'
  <2>1. drawn' = drawn + 1 /\ drawn' \in 0..MaxEvents
    BY <1>1, <1>t DEF Begin
  <2>2. types' \in [1..drawn' -> {"progress", "terminal"}]
    <3>1. types \in [1..drawn -> {"progress", "terminal"}]
      BY DEF TypeOK
    <3>2. types \in Seq({"progress", "terminal"})
      BY <1>t, <3>1, SeqDef
    <3>3. Len(types) = drawn
      <4>1. 1..Len(types) = 1..drawn /\ Len(types) \in Nat
        BY <3>1, <3>2, LenProperties
      <4> QED
        BY <1>t, <4>1
    <3>4. types' = Append(types, type)
      BY <1>1 DEF Begin
    <3>5. types' \in Seq({"progress", "terminal"}) /\ Len(types') = drawn'
      BY <2>1, <3>2, <3>3, <3>4, AppendProperties
    <3> QED
      BY <3>5, LenProperties
  <2>3. insert' \in [Writers -> 0..drawn']
    BY <1>1, <1>t, <2>1 DEF Begin
  <2>4. UNCHANGED <<log, late, clientVars>>
    BY <1>1 DEF Begin
  <2>5. 1..drawn \subseteq 1..drawn' /\ 0..drawn \subseteq 0..drawn'
    BY <1>t, <2>1
  <2> QED
    BY <1>t, <2>1, <2>2, <2>3, <2>4, <2>5 DEF TypeOK, clientVars
<1>2. ASSUME NEW w \in Writers, Commit(w) \/ Abort(w)
      PROVE  TypeOK'
  <2>1. log \subseteq log' /\ log' \subseteq 1..drawn /\ late' \subseteq log'
    <3>1. late \subseteq log
      BY DEF TypeOK
    <3>2. insert[w] # 0 => insert[w] \in 1..drawn
      BY <1>t
    <3> QED
      BY <1>2, <1>t, <3>1, <3>2 DEF Commit, Abort
  <2>2. wire \in [Clients -> Seq(log')] /\ seen \in [Clients -> Seq(log')]
    <3>1. Seq(log) \subseteq Seq(log')
      BY <2>1, SeqMonotonic
    <3> QED
      BY <1>t, <3>1
  <2>3. insert' \in [Writers -> 0..drawn]
    BY <1>2, <1>t DEF Commit, Abort
  <2>4. UNCHANGED <<drawn, types, clientVars>>
    BY <1>2 DEF Commit, Abort
  <2> QED
    BY <1>t, <2>1, <2>2, <2>3, <2>4 DEF TypeOK, clientVars
<1>3. ASSUME NEW c \in Clients, Connect(c) \/ Reopen(c)
      PROVE  TypeOK'
  <2>1. LastEventID(c) \in 0..drawn
    BY ClientTypes
  <2>2. after' \in [Clients -> 0..drawn] /\ conn' \in [Clients -> {"none", "open", "ending", "closed"}]
    BY <1>3, <1>t, <2>1 DEF Connect, Reopen
  <2> QED
    BY <1>3, <2>2 DEF Connect, Reopen, TypeOK, logVars
<1>4. ASSUME NEW c \in Clients, Poll(c)
      PROVE  TypeOK'
  <2> DEFINE S == EventsAfter(after[c])
  <2>1. /\ S \in SUBSET log /\ S \in SUBSET (1..drawn) /\ S # {} /\ drawn \in Nat
        /\ wire' = [wire EXCEPT ![c] = @ \o ById(S)] /\ after' = [after EXCEPT ![c] = Max(S)]
    BY <1>4, Polled
  <2> HIDE DEF S
  <2>2. ById(S) \in Seq(S) /\ Max(S) \in S
    BY <2>1, ByIdSorts
  <2>3. ById(S) \in Seq(log)
    BY <2>1, <2>2, SeqMonotonic
  <2>4. wire[c] \o ById(S) \in Seq(log)
    BY <1>t, <2>3, ConcatProperties
  <2>5. wire' \in [Clients -> Seq(log)]
    BY <1>t, <2>1, <2>4
  <2>6. after' \in [Clients -> 0..drawn]
    <3>1. Max(S) \in 1..drawn
      BY <2>1, <2>2
    <3>2. 1..drawn \subseteq 0..drawn
      BY <1>t
    <3> QED
      BY <1>t, <2>1, <3>1, <3>2
  <2>7. conn' \in [Clients -> {"none", "open", "ending", "closed"}]
    BY <1>4, <1>t DEF Poll
  <2> QED
    BY <1>4, <2>5, <2>6, <2>7 DEF Poll, TypeOK, logVars
<1>5. ASSUME NEW c \in Clients, Receive(c)
      PROVE  TypeOK'
  <2>1. wire[c] \in Seq(log) /\ seen[c] \in Seq(log) /\ wire[c] # <<>>
    BY <1>5, <1>t DEF Receive
  <2>2. Head(wire[c]) \in log /\ Tail(wire[c]) \in Seq(log)
    BY <2>1, HeadTailProperties
  <2>3. Append(seen[c], Head(wire[c])) \in Seq(log)
    BY <2>1, <2>2, AppendProperties
  <2>4. seen' \in [Clients -> Seq(log)] /\ wire' \in [Clients -> Seq(log)]
    BY <1>5, <1>t, <2>2, <2>3 DEF Receive
  <2> QED
    BY <1>5, <2>4 DEF Receive, TypeOK, logVars
<1>6. ASSUME NEW c \in Clients, EndOfStream(c) \/ PollFails(c)
      PROVE  TypeOK'
  <2>1. conn' \in [Clients -> {"none", "open", "ending", "closed"}]
    BY <1>6, <1>t DEF EndOfStream, PollFails
  <2>2. drops' \in 0..MaxDrops
    BY <1>6, <1>t DEF EndOfStream, PollFails
  <2> QED
    BY <1>6, <2>1, <2>2 DEF EndOfStream, PollFails, TypeOK, logVars
<1>7. ASSUME NEW c \in Clients, Break(c)
      PROVE  TypeOK'
  <2>1. /\ conn' \in [Clients -> {"none", "open", "ending", "closed"}] /\ drops' \in 0..MaxDrops
        /\ wire' \in [Clients -> Seq(log)]
    BY <1>7, <1>t, EmptySeq DEF Break
  <2> QED
    BY <1>7, <2>1 DEF Break, TypeOK, logVars
<1>8. CASE UNCHANGED streamVars
  BY <1>8 DEF TypeOK, streamVars, logVars, clientVars
<1> QED
  BY <1>1, <1>2, <1>3, <1>4, <1>5, <1>6, <1>7, <1>8 DEF Next, Follow, PollNothing

-----------------------------------------------------------------------------
(* One client.                                                             *)

Connected(c) == conn[c] \in {"open", "ending"}

\* StreamInv, for one client and position by position.
InSync(c) ==
  /\ \A i, k \in 1..Len(seen[c]) : i < k => seen[c][i] < seen[c][k]
  /\ \A i, k \in 1..Len(wire[c]) : i < k => wire[c][i] < wire[c][k]
  /\ \A i \in 1..Len(seen[c]), k \in 1..Len(wire[c]) : seen[c][i] < wire[c][k]
  /\ IF Connected(c)
     THEN after[c] = IF wire[c] = <<>> THEN LastEventID(c) ELSE wire[c][Len(wire[c])]
     ELSE wire[c] = <<>>
  /\ \A id \in log \ late : id <= LastEventID(c) => \E i \in 1..Len(seen[c]) : seen[c][i] = id
  /\ \A id \in log \ late : Connected(c) /\ id <= after[c] =>
       \/ \E i \in 1..Len(wire[c]) : wire[c][i] = id
       \/ \E i \in 1..Len(seen[c]) : seen[c][i] = id

\* What is in the range of a client's sequences, by position.
LEMMA Positions ==
  ASSUME TypeOK, NEW c \in Clients, NEW id
  PROVE  /\ id \in Range(seen[c]) <=> \E i \in 1..Len(seen[c]) : seen[c][i] = id
         /\ id \in Range(wire[c] \o seen[c]) <=>
              \/ \E i \in 1..Len(wire[c]) : wire[c][i] = id
              \/ \E i \in 1..Len(seen[c]) : seen[c][i] = id
<1>1. wire[c] \in Seq(log) /\ seen[c] \in Seq(log)
  BY ClientTypes
<1>2. Range(wire[c] \o seen[c]) = Range(wire[c]) \cup Range(seen[c])
  BY <1>1, RangeConcatenation
<1>3. /\ Range(wire[c]) = {wire[c][i] : i \in 1..Len(wire[c])}
      /\ Range(seen[c]) = {seen[c][i] : i \in 1..Len(seen[c])}
  BY <1>1, RangeEquality
<1> QED
  BY <1>2, <1>3

\* The invariant is that every client is in sync.
LEMMA StreamInvByClient ==
  ASSUME TypeOK
  PROVE  StreamInv <=> \A c \in Clients : InSync(c)
<1>1. \A c \in Clients, id \in log \ late :
        /\ id \in Range(seen[c]) <=> \E i \in 1..Len(seen[c]) : seen[c][i] = id
        /\ id \in Range(wire[c] \o seen[c]) <=>
             \/ \E i \in 1..Len(wire[c]) : wire[c][i] = id
             \/ \E i \in 1..Len(seen[c]) : seen[c][i] = id
  BY Positions
<1>2. NoHoles <=> \A c \in Clients, id \in log \ late :
        /\ id <= LastEventID(c) => \E i \in 1..Len(seen[c]) : seen[c][i] = id
        /\ Connected(c) /\ id <= after[c] =>
             \/ \E i \in 1..Len(wire[c]) : wire[c][i] = id
             \/ \E i \in 1..Len(seen[c]) : seen[c][i] = id
  BY <1>1 DEF NoHoles, Connected
<1>3. CursorIsLast <=> \A c \in Clients :
        IF Connected(c)
        THEN after[c] = IF wire[c] = <<>> THEN LastEventID(c) ELSE wire[c][Len(wire[c])]
        ELSE wire[c] = <<>>
  BY DEF CursorIsLast, Connected, Last
<1> QED
  BY <1>2, <1>3 DEF StreamInv, InOrderOnce, WireGoesOn, InSync

\* A client that nobody touches stays in sync while the log does not change.
LEMMA OthersInSync ==
  ASSUME NEW c \in Clients, InSync(c),
         UNCHANGED <<conn[c], after[c], wire[c], seen[c], log, late>>
  PROVE  InSync(c)'
BY DEF InSync, Connected, LastEventID, Last

\* A commit does not leave a hole behind a client: either nothing that was
\* committed before has a higher ID, or the event counts as late.
LEMMA CommitInSync ==
  ASSUME TypeOK, NEW c \in Clients, InSync(c), NEW w \in Writers, Commit(w)
  PROVE  InSync(c)'
<1>1. UNCHANGED <<conn[c], after[c], wire[c], seen[c], LastEventID(c)>>
  BY DEF Commit, clientVars, LastEventID, Last
<1>2. insert[w] \in Nat /\ \A id \in log : id \in Nat
  <2>1. drawn \in Nat /\ insert[w] \in 0..drawn
    BY DEF TypeOK
  <2> QED
    BY <2>1, ClientTypes
<1>3. Connected(c) => after[c] = 0 \/ after[c] \in log
  <2>1. wire[c] # <<>> => wire[c][Len(wire[c])] \in log
    <3> SUFFICES ASSUME wire[c] # <<>> PROVE wire[c][Len(wire[c])] \in log
      OBVIOUS
    <3>1. wire[c] \in Seq(log) /\ Len(wire[c]) \in Nat \ {0}
      BY ClientTypes, EmptySeq
    <3> QED
      BY <3>1, ElementOfSeq
  <2> QED
    BY <2>1, ClientTypes DEF InSync
<1>4. ASSUME NEW id \in log' \ late', id \notin log \ late
      PROVE  \A k \in log \cup {0} : ~(id <= k)
  <2>1. id = insert[w] /\ id # 0 /\ ~(\E k \in log : k > id) /\ id \notin log
    BY <1>4 DEF Commit
  <2> QED
    BY <1>2, <2>1
<1>5. LastEventID(c) \in log \cup {0}
  BY ClientTypes
<1> QED
  BY <1>1, <1>3, <1>4, <1>5 DEF InSync, Connected

\* Connecting sets the cursor to what the client has read.
LEMMA ConnectInSync ==
  ASSUME TypeOK, NEW c \in Clients, InSync(c), Connect(c) \/ Reopen(c)
  PROVE  InSync(c)'
<1>1. /\ wire[c] = <<>> /\ UNCHANGED <<wire, seen, log, late, LastEventID(c)>>
      /\ after'[c] = LastEventID(c) /\ conn'[c] = "open"
  BY DEF Connect, Reopen, InSync, Connected, TypeOK, logVars, LastEventID, Last
<1> QED
  BY <1>1 DEF InSync, Connected

\* What a poll sends goes on behind the cursor and leaves nothing out.
LEMMA PollInSync ==
  ASSUME TypeOK, NEW c \in Clients, InSync(c), Poll(c)
  PROVE  InSync(c)'
<1> DEFINE S == EventsAfter(after[c])
           q == ById(S)
           u == wire[c]
<1>1. /\ S \in SUBSET log /\ S \in SUBSET (1..drawn) /\ S # {} /\ drawn \in Nat
      /\ \A id \in S : after[c] < id
      /\ wire' = [wire EXCEPT ![c] = @ \o q] /\ after' = [after EXCEPT ![c] = Max(S)]
  BY Polled
<1>2. \A id \in log : id <= after[c] \/ id \in S
  BY ClientTypes DEF EventsAfter, TypeOK
<1>3. /\ Connected(c) /\ Connected(c)' /\ UNCHANGED <<seen, log, late, LastEventID(c)>>
  BY DEF Poll, Connected, TypeOK, logVars, LastEventID, Last
<1> HIDE DEF S
<1>4. /\ q \in Seq(S) /\ q # <<>>
      /\ \A i, k \in 1..Len(q) : i < k => q[i] < q[k]
      /\ \A x \in S : \E i \in 1..Len(q) : q[i] = x
      /\ Max(S) = q[Len(q)] /\ \A x \in S : x <= Max(S)
  BY <1>1, ByIdSorts
<1> HIDE DEF q
<1>5. /\ wire'[c] = u \o q /\ after'[c] = q[Len(q)]
  BY <1>1, <1>4 DEF TypeOK
<1>6. /\ u \in Seq(log) /\ q \in Seq(log) /\ Len(u) \in Nat /\ Len(q) \in Nat \ {0}
      /\ Len(u \o q) = Len(u) + Len(q)
      /\ \A i \in 1..(Len(u) + Len(q)) : (u \o q)[i] = IF i <= Len(u) THEN u[i] ELSE q[i - Len(u)]
  <2>1. u \in Seq(log) /\ q \in Seq(log)
    BY <1>1, <1>4, ClientTypes, SeqMonotonic
  <2> HIDE DEF u
  <2> QED
    BY <1>4, <2>1, ConcatProperties, EmptySeq, LenProperties
<1>7. /\ \A i \in 1..Len(seen[c]) : seen[c][i] \in Nat /\ seen[c][i] <= after[c]
      /\ \A i \in 1..Len(u) : u[i] \in Nat /\ u[i] <= after[c]
      /\ \A i \in 1..Len(q) : q[i] \in Nat /\ after[c] < q[i]
      /\ after[c] \in Nat
  <2>1. after[c] \in Nat
    BY DEF TypeOK
  <2>2. u \in Seq(log) /\ seen[c] \in Seq(log) /\ \A id \in log : id \in Nat
    BY ClientTypes
  <2>3. /\ \A i \in 1..Len(seen[c]) : seen[c][i] \in Nat
        /\ \A i \in 1..Len(u) : u[i] \in Nat
        /\ \A i \in 1..Len(q) : q[i] \in Nat /\ q[i] \in S
    BY <1>4, <1>6, <2>2, ElementOfSeq
  <2>4. ASSUME NEW i \in 1..Len(u) PROVE u[i] <= after[c]
    <3>1. Len(u) \in Nat \ {0} /\ u # <<>>
      BY <1>6
    <3>2. after[c] = u[Len(u)]
      BY <1>3, <3>1 DEF InSync
    <3>3. i < Len(u) => u[i] < u[Len(u)]
      BY <3>1 DEF InSync
    <3> QED
      BY <2>1, <2>3, <3>1, <3>2, <3>3
  <2>5. ASSUME NEW i \in 1..Len(seen[c]) PROVE seen[c][i] <= after[c]
    <3>1. CASE u # <<>>
      <4>1. Len(u) \in Nat \ {0} /\ after[c] = u[Len(u)]
        BY <1>3, <2>2, <3>1, EmptySeq DEF InSync
      <4>2. seen[c][i] < u[Len(u)]
        BY <4>1 DEF InSync
      <4> QED
        BY <2>1, <2>3, <4>1, <4>2
    <3>2. CASE u = <<>>
      <4>1. Len(seen[c]) \in Nat \ {0} /\ seen[c] # <<>>
        BY <2>2, LenProperties, EmptySeq
      <4>2. after[c] = seen[c][Len(seen[c])]
        BY <1>3, <3>2, <4>1 DEF InSync, LastEventID, Last
      <4>3. i < Len(seen[c]) => seen[c][i] < seen[c][Len(seen[c])]
        BY <4>1 DEF InSync
      <4> QED
        BY <2>1, <2>3, <4>1, <4>2, <4>3
    <3> QED
      BY <3>1, <3>2
  <2> QED
    BY <1>1, <2>1, <2>3, <2>4, <2>5
<1>8. \A i, k \in 1..Len(u \o q) : i < k => (u \o q)[i] < (u \o q)[k]
  <2> SUFFICES ASSUME NEW i \in 1..(Len(u) + Len(q)), NEW k \in 1..(Len(u) + Len(q)), i < k
               PROVE  (u \o q)[i] < (u \o q)[k]
    BY <1>6
  <2>1. CASE k <= Len(u)
    BY <1>6, <2>1 DEF InSync
  <2>2. CASE i <= Len(u) /\ ~(k <= Len(u))
    <3>1. k - Len(u) \in 1..Len(q) /\ i \in 1..Len(u)
      BY <1>6, <2>2
    <3>2. u[i] <= after[c] /\ after[c] < q[k - Len(u)] /\ u[i] \in Nat /\ q[k - Len(u)] \in Nat
      BY <1>7, <3>1
    <3> QED
      BY <1>6, <1>7, <2>2, <3>2
  <2>3. CASE ~(i <= Len(u))
    <3>1. k - Len(u) \in 1..Len(q) /\ i - Len(u) \in 1..Len(q) /\ i - Len(u) < k - Len(u)
          /\ ~(k <= Len(u))
      BY <1>6, <2>3
    <3>2. q[i - Len(u)] < q[k - Len(u)]
      BY <1>4, <3>1
    <3> QED
      BY <1>6, <2>3, <3>1, <3>2
  <2> QED
    BY <1>6, <2>1, <2>2, <2>3
<1>9. \A i \in 1..Len(seen[c]), k \in 1..Len(u \o q) : seen[c][i] < (u \o q)[k]
  <2> SUFFICES ASSUME NEW i \in 1..Len(seen[c]), NEW k \in 1..(Len(u) + Len(q))
               PROVE  seen[c][i] < (u \o q)[k]
    BY <1>6
  <2>1. CASE k <= Len(u)
    BY <1>6, <2>1 DEF InSync
  <2>2. CASE ~(k <= Len(u))
    <3>1. k - Len(u) \in 1..Len(q)
      BY <1>6, <2>2
    <3>2. /\ seen[c][i] <= after[c] /\ seen[c][i] \in Nat
          /\ after[c] < q[k - Len(u)] /\ q[k - Len(u)] \in Nat
      BY <1>7, <3>1
    <3> QED
      BY SMTT(40), <1>6, <1>7, <2>2, <3>2
  <2> QED
    BY <2>1, <2>2
<1>10. /\ u \o q # <<>>
       /\ (u \o q)[Len(u \o q)] = q[Len(q)]
  BY <1>6
<1>11. ASSUME NEW id \in log \ late, id <= after'[c]
       PROVE  \/ \E i \in 1..Len(u \o q) : (u \o q)[i] = id
              \/ \E i \in 1..Len(seen[c]) : seen[c][i] = id
  <2>1. CASE id <= after[c]
    <3>1. \/ \E i \in 1..Len(u) : u[i] = id
          \/ \E i \in 1..Len(seen[c]) : seen[c][i] = id
      BY <1>3, <1>11, <2>1 DEF InSync
    <3>2. ASSUME NEW i \in 1..Len(u), u[i] = id
          PROVE  i \in 1..Len(u \o q) /\ (u \o q)[i] = id
      BY <1>6, <3>2
    <3> QED
      BY <3>1, <3>2
  <2>2. CASE id \in S
    <3>1. PICK i \in 1..Len(q) : q[i] = id
      BY <1>4, <2>2
    <3>2. Len(u) + i \in 1..(Len(u) + Len(q)) /\ ~(Len(u) + i <= Len(u)) /\ Len(u) + i - Len(u) = i
      BY <1>6
    <3> QED
      BY <1>6, <3>1, <3>2
  <2> QED
    BY <1>2, <2>1, <2>2
<1>12. \A id \in log \ late : id <= LastEventID(c) => \E i \in 1..Len(seen[c]) : seen[c][i] = id
  BY DEF InSync
<1>13. \A i, k \in 1..Len(seen[c]) : i < k => seen[c][i] < seen[c][k]
  BY DEF InSync
<1> HIDE DEF u
<1>14. /\ wire'[c] # <<>> /\ after'[c] = wire'[c][Len(wire'[c])]
       /\ \A i, k \in 1..Len(wire'[c]) : i < k => wire'[c][i] < wire'[c][k]
       /\ \A i \in 1..Len(seen'[c]), k \in 1..Len(wire'[c]) : seen'[c][i] < wire'[c][k]
  BY <1>3, <1>5, <1>8, <1>9, <1>10
<1>15. \A id \in log' \ late' : id <= after'[c] =>
         \/ \E i \in 1..Len(wire'[c]) : wire'[c][i] = id
         \/ \E i \in 1..Len(seen'[c]) : seen'[c][i] = id
  BY <1>3, <1>5, <1>11
<1> QED
  BY <1>3, <1>12, <1>13, <1>14, <1>15 DEF InSync

\* What the client reads next follows what it has read.
LEMMA ReceiveInSync ==
  ASSUME TypeOK, NEW c \in Clients, InSync(c), Receive(c)
  PROVE  InSync(c)'
<1> DEFINE u == wire[c]
           v == seen[c]
           x == wire'[c]
           y == seen'[c]
<1>1. /\ u # <<>> /\ u \in Seq(log) /\ v \in Seq(log) /\ \A id \in log : id \in Nat
      /\ x = Tail(u) /\ y = Append(v, Head(u))
      /\ UNCHANGED <<conn, after, log, late>>
  BY ClientTypes DEF Receive, TypeOK, logVars
<1>2. /\ Len(u) \in Nat \ {0} /\ Len(v) \in Nat /\ Head(u) = u[1] /\ u[1] \in log
      /\ Len(x) = Len(u) - 1 /\ \A i \in 1..Len(x) : x[i] = u[i + 1]
      /\ Len(y) = Len(v) + 1 /\ y # <<>>
      /\ \A i \in 1..Len(v) : y[i] = v[i]
      /\ y[Len(v) + 1] = u[1]
  <2> HIDE DEF u, v, x, y
  <2>1. Len(u) \in Nat \ {0} /\ Len(v) \in Nat
    BY <1>1, EmptySeq, LenProperties
  <2>2. Head(u) = u[1] /\ u[1] \in log
    BY <1>1, <2>1, ElementOfSeq
  <2> QED
    BY <1>1, <2>1, <2>2, HeadTailProperties, AppendProperties
<1>3. /\ \A i, k \in 1..Len(u) : i < k => u[i] < u[k]
      /\ \A i, k \in 1..Len(v) : i < k => v[i] < v[k]
      /\ \A i \in 1..Len(v), k \in 1..Len(u) : v[i] < u[k]
      /\ Connected(c) /\ after[c] = u[Len(u)]
      /\ \A id \in log \ late : id <= after[c] =>
           (\E i \in 1..Len(u) : u[i] = id) \/ \E i \in 1..Len(v) : v[i] = id
  BY <1>1 DEF InSync
<1>4. \A i \in 1..Len(u) : u[i] \in Nat /\ u[1] <= u[i]
  <2>1. \A i \in 1..Len(u) : u[i] \in Nat
    BY <1>1, ElementOfSeq
  <2> HIDE DEF u
  <2> QED
    BY <1>2, <1>3, <2>1
<1>5. /\ LastEventID(c)' = y[Len(y)] /\ y[Len(y)] = u[1]
      /\ Connected(c)' /\ after'[c] = u[Len(u)] /\ UNCHANGED <<log, late>>
  <2>1. LastEventID(c)' = y[Len(y)]
    BY <1>2 DEF LastEventID, Last
  <2>2. Connected(c)' /\ after'[c] = u[Len(u)]
    BY <1>1, <1>3 DEF Connected
  <2> HIDE DEF u, v, x, y
  <2> QED
    BY <1>1, <1>2, <2>1, <2>2
<1> HIDE DEF u, v, x, y
<1>6. \A i, k \in 1..Len(y) : i < k => y[i] < y[k]
  <2> SUFFICES ASSUME NEW i \in 1..Len(y), NEW k \in 1..Len(y), i < k PROVE y[i] < y[k]
    OBVIOUS
  <2>l. Len(v) \in Nat /\ Len(y) = Len(v) + 1 /\ Len(u) \in Nat \ {0}
    BY <1>2
  <2>1. i \in 1..Len(v) /\ 1 \in 1..Len(u) /\ (k \in 1..Len(v) \/ k = Len(v) + 1)
    BY <2>l
  <2>2. CASE k \in 1..Len(v)
    BY <1>2, <1>3, <2>1, <2>2
  <2>3. CASE k = Len(v) + 1
    BY <1>2, <1>3, <2>1, <2>3
  <2> QED
    BY <2>1, <2>2, <2>3
<1>7. \A i, k \in 1..Len(x) : i < k => x[i] < x[k]
  <2> SUFFICES ASSUME NEW i \in 1..Len(x), NEW k \in 1..Len(x), i < k PROVE x[i] < x[k]
    OBVIOUS
  <2>1. i + 1 \in 1..Len(u) /\ k + 1 \in 1..Len(u) /\ i + 1 < k + 1
    BY <1>2
  <2> QED
    BY <1>2, <1>3, <2>1
<1>8. \A i \in 1..Len(y), k \in 1..Len(x) : y[i] < x[k]
  <2> SUFFICES ASSUME NEW i \in 1..Len(y), NEW k \in 1..Len(x) PROVE y[i] < x[k]
    OBVIOUS
  <2>l. /\ Len(v) \in Nat /\ Len(y) = Len(v) + 1
        /\ Len(u) \in Nat \ {0} /\ Len(x) = Len(u) - 1
    BY <1>2
  <2>1. /\ i \in 1..Len(v) \/ i = Len(v) + 1
        /\ k + 1 \in 1..Len(u) /\ 1 \in 1..Len(u) /\ 1 < k + 1
    BY <2>l
  <2>2. CASE i \in 1..Len(v)
    BY <1>2, <1>3, <2>1, <2>2
  <2>3. CASE i = Len(v) + 1
    BY <1>2, <1>3, <2>1, <2>3
  <2> QED
    BY <2>1, <2>2, <2>3
<1>9. after'[c] = IF x = <<>> THEN LastEventID(c)' ELSE x[Len(x)]
  <2>1. CASE x = <<>>
    <3>1. Len(u) = 1
      BY <1>2, <2>1
    <3> QED
      BY <1>5, <2>1, <3>1
  <2>2. CASE x # <<>>
    <3>1. x \in Seq(log)
      BY <1>1, HeadTailProperties
    <3>2. Len(x) \in 1..Len(x) /\ Len(x) + 1 = Len(u)
      BY <1>2, <2>2, <3>1, EmptySeq
    <3> QED
      BY <1>2, <1>5, <2>2, <3>2
  <2> QED
    BY <2>1, <2>2
<1>10. ASSUME NEW id \in log \ late, id <= after[c]
       PROVE  (\E i \in 1..Len(x) : x[i] = id) \/ \E i \in 1..Len(y) : y[i] = id
  <2>1. CASE \E i \in 1..Len(u) : u[i] = id
    <3>1. PICK i \in 1..Len(u) : u[i] = id
      BY <2>1
    <3>2. CASE i = 1
      <4>1. Len(v) + 1 \in 1..Len(y)
        BY <1>2
      <4> QED
        BY <1>2, <3>1, <3>2, <4>1
    <3>3. CASE i # 1
      <4>1. i - 1 \in 1..Len(x) /\ (i - 1) + 1 = i
        BY <1>2, <3>3
      <4> QED
        BY <1>2, <3>1, <4>1
    <3> QED
      BY <3>2, <3>3
  <2>2. CASE \E i \in 1..Len(v) : v[i] = id
    <3>1. PICK i \in 1..Len(v) : v[i] = id
      BY <2>2
    <3>2. i \in 1..Len(y)
      BY <1>2
    <3> QED
      BY <1>2, <3>1, <3>2
  <2> QED
    BY <1>3, <1>10, <2>1, <2>2
<1>11. ASSUME NEW id \in log \ late, id <= u[1]
       PROVE  \E i \in 1..Len(y) : y[i] = id
  <2>1. id \in Nat /\ u[1] <= after[c] /\ u[1] \in Nat /\ after[c] \in Nat
    BY <1>1, <1>2, <1>3, <1>4
  <2>2. id <= after[c]
    BY <1>11, <2>1
  <2>3. ASSUME NEW i \in 1..Len(x) PROVE x[i] # id
    <3>1. i + 1 \in 1..Len(u) /\ 1 \in 1..Len(u) /\ 1 < i + 1
      BY <1>2
    <3>2. u[1] < u[i + 1] /\ u[i + 1] \in Nat
      BY <1>3, <1>4, <3>1
    <3> QED
      BY <1>2, <1>11, <2>1, <3>2
  <2> QED
    BY <1>10, <2>2, <2>3
<1>12. \A id \in log' \ late' : id <= LastEventID(c)' => \E i \in 1..Len(y) : y[i] = id
  BY <1>5, <1>11
<1>13. \A id \in log' \ late' : id <= after'[c] =>
         (\E i \in 1..Len(x) : x[i] = id) \/ \E i \in 1..Len(y) : y[i] = id
  BY <1>1, <1>10
<1> USE DEF x, y
<1>14. \A i, k \in 1..Len(seen'[c]) : i < k => seen'[c][i] < seen'[c][k]
  BY <1>6
<1>15. \A i, k \in 1..Len(wire'[c]) : i < k => wire'[c][i] < wire'[c][k]
  BY <1>7
<1>16. \A i \in 1..Len(seen'[c]), k \in 1..Len(wire'[c]) : seen'[c][i] < wire'[c][k]
  BY <1>8
<1> QED
  BY <1>5, <1>9, <1>12, <1>13, <1>14, <1>15, <1>16 DEF InSync

\* An ending connection has delivered everything; a broken one loses only what
\* the client has not read.
LEMMA EndInSync ==
  ASSUME TypeOK, NEW c \in Clients, InSync(c), EndOfStream(c) \/ PollFails(c) \/ Break(c)
  PROVE  InSync(c)'
<1>1. UNCHANGED <<after, seen, log, late, LastEventID(c)>>
  BY DEF EndOfStream, PollFails, Break, logVars, LastEventID, Last
<1>2. CASE PollFails(c)
  <2>1. Connected(c) /\ Connected(c)' /\ UNCHANGED wire
    BY <1>2 DEF PollFails, Connected, TypeOK
  <2> QED
    BY <1>1, <2>1 DEF InSync
<1>3. CASE EndOfStream(c) \/ Break(c)
  <2>1. ~Connected(c)' /\ wire'[c] = <<>>
    BY <1>3 DEF EndOfStream, Break, Connected, TypeOK
  <2>2. Len(wire'[c]) = 0
    BY <2>1
  <2> QED
    BY <1>1, <2>1, <2>2 DEF InSync
<1> QED
  BY <1>2, <1>3

-----------------------------------------------------------------------------
(* All clients.                                                            *)

\* The same of the state after a step.
LEMMA StreamInvNext == TypeOK' => (StreamInv' <=> \A c \in Clients : InSync(c)')
<1>1. TypeOK => (StreamInv <=> \A c \in Clients : InSync(c))
  BY StreamInvByClient
<1>2. (TypeOK => (StreamInv <=> \A c \in Clients : InSync(c)))'
  BY <1>1, PTL
<1> QED
  BY <1>2

\* A step of the system leaves every client in sync.
LEMMA StreamInvStep ==
  ASSUME TypeOK, TypeOK', StreamInv, [Next]_streamVars
  PROVE  StreamInv'
<1>1. \A c \in Clients : InSync(c)
  BY StreamInvByClient
<1> SUFFICES ASSUME NEW c \in Clients PROVE InSync(c)'
  BY StreamInvNext
<1>2. InSync(c)
  BY <1>1
<1>3. ASSUME NEW w \in Writers, Commit(w)
      PROVE  InSync(c)'
  BY <1>2, <1>3, CommitInSync
<1>4. ASSUME \/ \E w \in Writers : Abort(w)
             \/ \E w \in Writers, type \in {"progress", "terminal"} : Begin(w, type)
             \/ UNCHANGED streamVars
      PROVE  InSync(c)'
  <2>1. UNCHANGED <<conn[c], after[c], wire[c], seen[c], log, late>>
    BY <1>4 DEF Abort, Begin, streamVars, logVars, clientVars
  <2> QED
    BY <1>2, <2>1, OthersInSync
<1>5. ASSUME NEW d \in Clients,
             Follow(d) \/ Reopen(d) \/ PollFails(d) \/ Break(d)
      PROVE  InSync(c)'
  <2>1. CASE c = d
    BY <1>2, <1>5, <2>1, ConnectInSync, PollInSync, ReceiveInSync, EndInSync DEF Follow
  <2>2. CASE c # d
    <3>1. UNCHANGED <<conn[c], after[c], wire[c], seen[c], log, late>>
      BY <1>5, <2>2 DEF Follow, Connect, Poll, Receive, EndOfStream, Reopen, PollFails, Break,
                        logVars, TypeOK
    <3> QED
      BY <1>2, <3>1, OthersInSync
  <2> QED
    BY <2>1, <2>2
<1> QED
  BY <1>3, <1>4, <1>5 DEF Next, PollNothing

\* The log and the clients start empty.
LEMMA StreamInit == Init => TypeOK /\ StreamInv
<1> SUFFICES ASSUME Init PROVE TypeOK /\ StreamInv
  OBVIOUS
<1>1. TypeOK
  BY EmptySeq DEF Init, TypeOK
<1>2. StreamInv
  BY DEF Init, StreamInv, InOrderOnce, WireGoesOn, CursorIsLast, NoHoles, LastEventID
<1> QED
  BY <1>1, <1>2

\* AppendEvent and eventsHandler keep the log, the cursors and what is sent
\* within their types: a client is sent only rows of the log.
THEOREM StreamTypes == Spec => []TypeOK
<1>1. Init => TypeOK
  BY StreamInit
<1>2. TypeOK /\ [Next]_streamVars => TypeOK'
  BY TypeStep
<1> QED
  BY <1>1, <1>2, PTL DEF Spec

\* However the inserts commit and the connections break, end and are opened
\* again, the cursor of eventsHandler, what is on its way and what the client has
\* read belong together.
THEOREM StreamInSync == Spec => []StreamInv
<1>1. Init => TypeOK /\ StreamInv
  BY StreamInit
<1>2. TypeOK /\ [Next]_streamVars => TypeOK'
  BY TypeStep
<1>3. TypeOK /\ StreamInv /\ [Next]_streamVars => StreamInv'
  BY <1>2, StreamInvStep
<1> QED
  BY <1>1, <1>2, <1>3, PTL DEF Spec

\* A client of eventsHandler that reconnects with Last-Event-ID reads every event
\* at most once and in the order of the IDs.
THEOREM EventsInOrderOnce == Spec => []InOrderOnce
<1>1. StreamInv => InOrderOnce
  BY DEF StreamInv
<1> QED
  BY <1>1, StreamInSync, PTL

\* Nothing that was committed in its turn is left out of what eventsHandler sends
\* and a client reads.
THEOREM StreamHasNoHoles == Spec => []NoHoles
<1>1. StreamInv => NoHoles
  BY DEF StreamInv
<1> QED
  BY <1>1, StreamInSync, PTL

=============================================================================
