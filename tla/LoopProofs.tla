------------------------------ MODULE LoopProofs ------------------------------
(***************************************************************************)
(* Proofs about ProfileLoops, for every profile, every number of GPUs and  *)
(* every list of names: the loops of the code compute what                 *)
(* ProfileValidation says they compute.                                    *)
(***************************************************************************)
EXTENDS ProfileLoops, ProfileProofs, WellFoundedInduction, SequenceTheorems

(***************************************************************************)
(* Induction, as a fact about sets of numbers: a set without a least       *)
(* counterexample has none.                                                *)
(***************************************************************************)
LEMMA Induction ==
  ASSUME NEW P, 0 \in P, \A k \in Nat : k \in P => k + 1 \in P
  PROVE  Nat \subseteq P
  <1> DEFINE Bad == Nat \ P
  <1> SUFFICES ASSUME Bad # {} PROVE FALSE
    OBVIOUS
  <1>1. PICK m \in Bad : \A k \in Bad : ~(<<k, m>> \in OpToRel(<, Nat))
    <2>1. Bad \subseteq Nat
      OBVIOUS
    <2> HIDE DEF Bad
    <2> QED
      BY <2>1, NatLessThanWellFounded, WFMin
  <1>2. m \in Nat /\ m # 0
    OBVIOUS
  <1>3. m - 1 \in Nat /\ m - 1 < m /\ (m - 1) + 1 = m
    BY <1>2
  <1>4. <<m - 1, m>> \in OpToRel(<, Nat)
    BY <1>2, <1>3 DEF OpToRel
  <1>5. m - 1 \in P
    BY <1>1, <1>3, <1>4
  <1> QED
    BY <1>3, <1>5

\* The same up to a bound.
LEMMA BoundedInduction ==
  ASSUME NEW n \in Nat, NEW P, 0 \in P, \A k \in 1..n : k - 1 \in P => k \in P
  PROVE  n \in P
  <1> DEFINE Q == {k \in Nat : k \in 0..n => k \in P}
  <1>1. 0 \in Q
    OBVIOUS
  <1>2. ASSUME NEW k \in Nat, k \in Q PROVE k + 1 \in Q
    <2>1. CASE k + 1 \in 0..n
      <3>1. k \in 0..n /\ k + 1 \in 1..n /\ (k + 1) - 1 = k
        BY <2>1
      <3> QED
        BY <1>2, <3>1
    <2> QED
      BY <2>1
  <1> HIDE DEF Q
  <1>3. n \in Q
    BY <1>1, <1>2, Induction
  <1> QED
    BY <1>3 DEF Q

-----------------------------------------------------------------------------
(***************************************************************************)
(* A fold over 1..n is defined by its equation.  step is the body of the   *)
(* loop: a function of what was accumulated and of the index.              *)
(***************************************************************************)
Unfolds(g, n, base, step) ==
  g = [s \in SUBSET (1..n) |-> IF s = {} THEN base ELSE step[g[s \ {Max(s)}], Max(s)]]

\* The greatest of a set of indices is one of them.
LEMMA MaxOfIndices ==
  ASSUME NEW n \in Nat, NEW s \in SUBSET (1..n), s # {}
  PROVE  Max(s) \in s /\ \A y \in s : Max(s) >= y
  <1> DEFINE Above == {m \in Nat : \A x \in s : x <= m}
  <1>1. n \in Above
    OBVIOUS
  <1>2. PICK m \in Above : \A k \in Above : ~(<<k, m>> \in OpToRel(<, Nat))
    <2>1. Above \subseteq Nat /\ Above # {}
      BY <1>1
    <2> HIDE DEF Above
    <2> QED
      BY <2>1, NatLessThanWellFounded, WFMin
  <1>3. m \in Nat /\ \A x \in s : x \in Nat /\ x <= m /\ x > 0
    OBVIOUS
  <1>4. m \in s
    <2> SUFFICES ASSUME m \notin s PROVE FALSE
      OBVIOUS
    <2>1. m > 0
      <3>1. PICK x \in s : TRUE
        OBVIOUS
      <3> QED
        BY <1>3, <3>1
    <2>2. \A x \in s : x <= m - 1
      BY <1>3
    <2>3. m - 1 \in Above /\ m - 1 < m
      BY <1>3, <2>1, <2>2
    <2> QED
      BY <1>2, <1>3, <2>3 DEF OpToRel
  <1>5. m \in s /\ \A y \in s : m >= y
    BY <1>3, <1>4
  <1> QED
    BY <1>5 DEF Max

\* The last of the first k indices is k.
LEMMA LastIndex ==
  ASSUME NEW n \in Nat, NEW k \in 1..n
  PROVE  /\ 1..k \in SUBSET (1..n) /\ 1..k # {}
         /\ Max(1..k) = k /\ (1..k) \ {k} = 1..(k - 1)
  <1>1. Max(1..k) \in 1..k /\ \A y \in 1..k : Max(1..k) >= y
    <2>1. k \in 1..k /\ \A y \in 1..k : k >= y
      OBVIOUS
    <2> QED
      BY <2>1 DEF Max
  <1>2. Max(1..k) = k
    BY <1>1
  <1> QED
    BY <1>2

\* A fold has an equation, and its values are of the type of the loop's result.
LEMMA FoldExists ==
  ASSUME NEW n \in Nat, NEW A, NEW base \in A, NEW step \in [A \X (1..n) -> A]
  PROVE  \E g \in [SUBSET (1..n) -> A] : Unfolds(g, n, base, step)
  <1> DEFINE P == {k \in 0..n : \E g \in [SUBSET (1..k) -> A] : Unfolds(g, k, base, step)}
  <1>1. 0 \in P
    <2> DEFINE g == [s \in SUBSET (1..0) |-> base]
    <2>1. SUBSET (1..0) = {{}}
      OBVIOUS
    <2>2. g \in [SUBSET (1..0) -> A] /\ Unfolds(g, 0, base, step)
      BY <2>1 DEF Unfolds
    <2> QED
      BY <2>2
  <1>2. ASSUME NEW k \in 1..n, k - 1 \in P PROVE k \in P
    <2>1. PICK g \in [SUBSET (1..(k - 1)) -> A] : Unfolds(g, k - 1, base, step)
      BY <1>2
    <2> DEFINE rest(s) == s \ {Max(s)}
               new == [s \in SUBSET (1..k) |->
                         IF s = {} THEN base ELSE step[g[rest(s)], Max(s)]]
    <2>2. k \in Nat /\ k - 1 \in Nat
      OBVIOUS
    <2>3. ASSUME NEW s \in SUBSET (1..k), s # {}
          PROVE  Max(s) \in 1..n /\ rest(s) \in SUBSET (1..(k - 1))
      <3> DEFINE m == Max(s)
      <3>1. m \in s /\ \A y \in s : m >= y
        BY <2>2, <2>3, MaxOfIndices
      <3> HIDE DEF m
      <3>2. k <= n /\ m \in 1..k
        BY <3>1
      <3>3. ASSUME NEW y \in s, y # m PROVE y \in 1..(k - 1)
        <4>1. y \in 1..k /\ m >= y
          BY <3>1
        <4> QED
          BY <3>2, <3>3, <4>1
      <3>4. m \in 1..n /\ s \ {m} \in SUBSET (1..(k - 1))
        BY <2>2, <3>2, <3>3
      <3> QED
        BY <3>4 DEF m
    <2>4. new \in [SUBSET (1..k) -> A]
      <3> SUFFICES ASSUME NEW s \in SUBSET (1..k), s # {}
                   PROVE  step[g[rest(s)], Max(s)] \in A
        OBVIOUS
      <3>1. Max(s) \in 1..n /\ rest(s) \in SUBSET (1..(k - 1))
        BY <2>3
      <3>2. g[rest(s)] \in A
        <4> HIDE DEF rest
        <4> QED
          BY <3>1
      <3> HIDE DEF rest
      <3> QED
        BY <3>1, <3>2
    <2>5. ASSUME NEW t \in SUBSET (1..(k - 1)) PROVE new[t] = g[t]
      <3>1. t \in SUBSET (1..k)
        BY <2>2
      <3>2. g[t] = IF t = {} THEN base ELSE step[g[t \ {Max(t)}], Max(t)]
        BY <2>1 DEF Unfolds
      <3> QED
        BY <3>1, <3>2
    <2>6. \A s \in SUBSET (1..k) : s # {} => new[rest(s)] = g[rest(s)]
      <3> HIDE DEF rest, new
      <3> QED
        BY <2>3, <2>5
    <2>7. Unfolds(new, k, base, step)
      BY <2>6 DEF Unfolds
    <2> HIDE DEF new
    <2> QED
      BY <2>4, <2>7
  <1> HIDE DEF P
  <1>3. n \in P
    BY <1>1, <1>2, BoundedInduction
  <1> QED
    BY <1>3 DEF P

-----------------------------------------------------------------------------
(***************************************************************************)
(* The sum of validateProfile.                                             *)
(***************************************************************************)

\* total_devices after each round of the loop.
LEMMA SumRounds ==
  ASSUME NEW entries \in Seq(EntryType)
  PROVE  \E total :
           /\ total_devicesLoop(entries) = total[Len(entries)]
           /\ total[0] = 0
           /\ \A a \in 1..Len(entries) :
                total[a] = total[a - 1] + entries[a].NumGPUsAssigned
  <1> DEFINE n == Len(entries)
             assigned(a) == entries[a].NumGPUsAssigned
             step == [x \in Nat \X (1..n) |-> x[1] + assigned(x[2])]
             Eq(g) == g = [s \in SUBSET (1..n) |->
                             IF s = {} THEN 0 ELSE g[s \ {Max(s)}] + assigned(Max(s))]
             f == CHOOSE g : Eq(g)
             total == [a \in 0..n |-> f[1..a]]
  <1>1. n \in Nat /\ DOMAIN entries = 1..n /\ \A a \in 1..n : assigned(a) \in Nat
    BY EntryTyped
  <1>2. total_devicesLoop(entries) = f[1..n]
    <2>1. total_devicesLoop(entries) = f[DOMAIN entries]
      BY <1>1, Zenon DEF total_devicesLoop, FoldLeft, MapThenFoldSet, Max
    <2> QED
      BY <1>1, <2>1
  <1>3. Eq(f)
    <2> HIDE DEF assigned
    <2>1. step \in [Nat \X (1..n) -> Nat]
      BY <1>1
    <2>2. PICK g \in [SUBSET (1..n) -> Nat] : Unfolds(g, n, 0, step)
      <3> HIDE DEF step
      <3> QED
        BY <1>1, <2>1, FoldExists
    <2>3. \A s \in SUBSET (1..n) : s # {} =>
            step[g[s \ {Max(s)}], Max(s)] = g[s \ {Max(s)}] + assigned(Max(s))
      <3> SUFFICES ASSUME NEW s \in SUBSET (1..n), s # {}
                   PROVE  step[g[s \ {Max(s)}], Max(s)] = g[s \ {Max(s)}] + assigned(Max(s))
        OBVIOUS
      <3>1. Max(s) \in 1..n
        BY <1>1, MaxOfIndices
      <3>2. g[s \ {Max(s)}] \in Nat
        OBVIOUS
      <3> QED
        BY <3>1, <3>2
    <2>4. Eq(g)
      <3> HIDE DEF step
      <3> QED
        BY <2>2, <2>3 DEF Unfolds
    <2> HIDE DEF Eq
    <2> QED
      BY <2>4
  <1> HIDE DEF f
  <1>4. f[{}] = 0 /\ 1..0 = {}
    BY <1>3
  <1>5. ASSUME NEW a \in 1..n PROVE f[1..a] = f[1..(a - 1)] + assigned(a)
    <2> HIDE DEF assigned
    <2>1. 1..a \in SUBSET (1..n) /\ 1..a # {} /\ Max(1..a) = a /\ (1..a) \ {a} = 1..(a - 1)
      BY <1>1, LastIndex
    <2> HIDE DEF n
    <2> QED
      BY <1>3, <2>1
  <1>6. /\ total[n] = f[1..n] /\ total[0] = 0
        /\ \A a \in 1..n : total[a] = total[a - 1] + assigned(a)
    BY <1>1, <1>4, <1>5
  <1> QED
    BY <1>2, <1>6

\* The sum of numGPUsAssigned is the number of rounds of amdSMIHelper's loops.
LEMMA SumIsRounds ==
  ASSUME NEW entries \in Seq(EntryType)
  PROVE  total_devicesLoop(entries) = total_devices(entries)
  <1> DEFINE n == Len(entries)
             assigned(a) == entries[a].NumGPUsAssigned
             Count(a, b) == Cardinality(Before(entries, a, b))
  <1>1. n \in Nat /\ \A a \in 1..n : assigned(a) \in Nat
    BY EntryTyped
  <1>2. \A a, b : Count(a, b) \in Nat
    BY BeforeFinite, SlotsFinite
  <1>3. ASSUME NEW a \in 1..n PROVE Count(a + 1, 1) = Count(a, 1) + assigned(a)
    <2> DEFINE m == assigned(a)
               P == {b \in 0..m : Count(a, b + 1) = Count(a, 1) + b}
    <2>0. m \in Nat
      BY <1>1
    <2>1. 0 \in P
      BY <1>2, <2>0
    <2>2. ASSUME NEW b \in 1..m, b - 1 \in P PROVE b \in P
      <3>1. Count(a, b) = Count(a, 1) + (b - 1)
        BY <2>2
      <3>2. Count(a, b + 1) = Count(a, b) + 1
        BY BeforeTheNext
      <3> QED
        BY <1>2, <2>0, <3>1, <3>2
    <2> HIDE DEF P
    <2>3. m \in P
      BY <2>0, <2>1, <2>2, BoundedInduction
    <2>4. Count(a, m + 1) = Count(a, 1) + m
      BY <2>3 DEF P
    <2>5. Before(entries, a + 1, 1) = Before(entries, a, m + 1)
      BY <2>0, BeforeTheNextEntry
    <2> QED
      BY <2>4, <2>5
  <1>4. PICK total :
          /\ total_devicesLoop(entries) = total[n]
          /\ total[0] = 0
          /\ \A a \in 1..n : total[a] = total[a - 1] + assigned(a)
    BY SumRounds
  <1> DEFINE P == {a \in 0..n : total[a] = Count(a + 1, 1)}
  <1>5. 0 \in P
    <2>1. Before(entries, 0 + 1, 1) = {}
      BY BeforeTheFirst
    <2>2. Count(0 + 1, 1) = 0
      BY <2>1, FS_EmptySet
    <2> QED
      BY <1>1, <1>4, <2>2
  <1>6. ASSUME NEW a \in 1..n, a - 1 \in P PROVE a \in P
    <2>1. total[a - 1] = Count(a, 1)
      BY <1>6
    <2> QED
      BY <1>1, <1>3, <1>4, <2>1
  <1> HIDE DEF P
  <1>7. n \in P
    BY <1>1, <1>5, <1>6, BoundedInduction
  <1>8. total[n] = Count(n + 1, 1)
    BY <1>7 DEF P
  <1>9. Before(entries, n + 1, 1) = Slots(entries)
    BY <1>1, BeforeTheEnd
  <1> QED
    BY <1>4, <1>8, <1>9 DEF total_devices

-----------------------------------------------------------------------------
(***************************************************************************)
(* The list of createGPUIDList.                                            *)
(***************************************************************************)

\* The list after each round of the outer loop.
LEMMA ListRounds ==
  ASSUME NEW ids \in Seq(Nat), NEW n \in Nat
  PROVE  \E list :
           /\ createGPUIDListLoop(ids, n) = list[n]
           /\ list[0] = <<>>
           /\ \A k \in 1..n :
                list[k] = IF Contains(ids, k - 1) THEN list[k - 1] ELSE Append(list[k - 1], k - 1)
  <1> DEFINE add(result, i) == IF Contains(ids, i) THEN result ELSE Append(result, i)
             step == [x \in Seq(Nat) \X (1..n) |-> add(x[1], Ids(n)[x[2]])]
             Eq(g) == g = [s \in SUBSET (1..n) |->
                             IF s = {} THEN <<>> ELSE add(g[s \ {Max(s)}], Ids(n)[Max(s)])]
             f == CHOOSE g : Eq(g)
             list == [k \in 0..n |-> f[1..k]]
  <1>1. DOMAIN Ids(n) = 1..n /\ \A k \in 1..n : Ids(n)[k] = k - 1 /\ k - 1 \in Nat
    BY DEF Ids
  <1>2. createGPUIDListLoop(ids, n) = f[1..n]
    <2>1. createGPUIDListLoop(ids, n) = f[DOMAIN Ids(n)]
      BY <1>1, Zenon DEF createGPUIDListLoop, FoldLeft, MapThenFoldSet, Max
    <2> QED
      BY <1>1, <2>1
  <1>3. \A result \in Seq(Nat), i \in Nat : add(result, i) \in Seq(Nat)
    OBVIOUS
  <1>4. Eq(f)
    <2> HIDE DEF add
    <2>1. step \in [Seq(Nat) \X (1..n) -> Seq(Nat)]
      BY <1>1, <1>3
    <2>2. PICK g \in [SUBSET (1..n) -> Seq(Nat)] : Unfolds(g, n, <<>>, step)
      <3>1. <<>> \in Seq(Nat)
        OBVIOUS
      <3> HIDE DEF step
      <3> QED
        BY <2>1, <3>1, FoldExists
    <2>3. \A s \in SUBSET (1..n) : s # {} =>
            step[g[s \ {Max(s)}], Max(s)] = add(g[s \ {Max(s)}], Ids(n)[Max(s)])
      <3> SUFFICES ASSUME NEW s \in SUBSET (1..n), s # {}
                   PROVE  step[g[s \ {Max(s)}], Max(s)] = add(g[s \ {Max(s)}], Ids(n)[Max(s)])
        OBVIOUS
      <3>1. Max(s) \in 1..n
        BY MaxOfIndices
      <3>2. g[s \ {Max(s)}] \in Seq(Nat)
        OBVIOUS
      <3> QED
        BY <3>1, <3>2
    <2>4. Eq(g)
      <3> HIDE DEF step
      <3> QED
        BY <2>2, <2>3 DEF Unfolds
    <2> HIDE DEF Eq
    <2> QED
      BY <2>4
  <1> HIDE DEF f
  <1>5. f[{}] = <<>> /\ 1..0 = {}
    BY <1>4
  <1>6. ASSUME NEW k \in 1..n PROVE f[1..k] = add(f[1..(k - 1)], k - 1)
    <2>1. 1..k \in SUBSET (1..n) /\ 1..k # {} /\ Max(1..k) = k /\ (1..k) \ {k} = 1..(k - 1)
      BY LastIndex
    <2> HIDE DEF add
    <2> QED
      BY <1>1, <1>4, <2>1
  <1>7. /\ list[n] = f[1..n] /\ list[0] = <<>>
        /\ \A k \in 1..n : list[k] = add(list[k - 1], k - 1)
    <2> HIDE DEF add
    <2> QED
      BY <1>5, <1>6
  <1> QED
    BY <1>2, <1>7

\* The k-th GPU of the list has k - 1 usable GPUs below it.
LEMMA ListRanks ==
  ASSUME NEW ids \in Seq(Nat), NEW n \in Nat
  PROVE  LET S == UsableGPUs(ids, n)
             list == createGPUIDList(ids, n)
         IN  /\ list \in [1..Cardinality(S) -> S]
             /\ \A k \in 1..Cardinality(S) : Cardinality(Below(S, list[k])) = k - 1
  <1> DEFINE S == UsableGPUs(ids, n)
             list == createGPUIDList(ids, n)
  <1>1. list = [k \in 1..Cardinality(S) |-> CHOOSE g \in S : Cardinality(Below(S, g)) = k - 1]
    BY DEF createGPUIDList, Below
  <1>2. IsFiniteSet(S) /\ S \in SUBSET Nat
    BY UsableCount
  <1> HIDE DEF S, list
  <1>3. \A k \in 1..Cardinality(S) : \E g \in S : Cardinality(Below(S, g)) = k - 1
    BY <1>2, RanksAreTaken
  <1> QED
    BY <1>1, <1>3 DEF S, list

\* With one more GPU the list is one longer, unless that GPU is skipped.
LEMMA ListGrows ==
  ASSUME NEW ids \in Seq(Nat), NEW k \in Nat
  PROVE  createGPUIDList(ids, k + 1) =
           IF Contains(ids, k) THEN createGPUIDList(ids, k)
           ELSE Append(createGPUIDList(ids, k), k)
  <1> DEFINE S == UsableGPUs(ids, k)
             T == UsableGPUs(ids, k + 1)
             c == Cardinality(S)
             short == createGPUIDList(ids, k)
             long == createGPUIDList(ids, k + 1)
  <1>1. Contains(ids, k) <=> k \in {ids[m] : m \in DOMAIN ids}
    BY DEF Contains
  <1>2. CASE Contains(ids, k)
    <2>1. T = S
      BY <1>1, <1>2 DEF UsableGPUs
    <2>2. long = short
      <3> HIDE DEF S, T
      <3>1. long = [m \in 1..Cardinality(T) |-> CHOOSE g \in T : Cardinality({h \in T : h < g}) = m - 1]
        BY DEF createGPUIDList, T
      <3>2. short = [m \in 1..Cardinality(S) |-> CHOOSE g \in S : Cardinality({h \in S : h < g}) = m - 1]
        BY DEF createGPUIDList, S
      <3> QED
        BY <2>1, <3>1, <3>2, Zenon
    <2> QED
      BY <1>2, <2>2
  <1>3. CASE ~Contains(ids, k)
    <2>1. T = S \union {k} /\ k \notin S /\ \A g \in S : g \in Nat /\ g < k
      BY <1>1, <1>3 DEF UsableGPUs
    <2>2. /\ IsFiniteSet(S) /\ c \in Nat
          /\ IsFiniteSet(T) /\ T \in SUBSET Nat
      <3>1. k + 1 \in Nat
        OBVIOUS
      <3> QED
        BY <3>1, UsableCount
    <2>3. Cardinality(T) = c + 1
      <3> HIDE DEF S, T
      <3> QED
        BY <2>1, <2>2, FS_AddElement
    <2>4. /\ short \in [1..c -> S]
          /\ \A m \in 1..c : Cardinality(Below(S, short[m])) = m - 1
      BY ListRanks
    <2>5. /\ long \in [1..(c + 1) -> T]
          /\ \A m \in 1..(c + 1) : Cardinality(Below(T, long[m])) = m - 1
      BY <2>3, ListRanks
    <2>6. \A g, h \in T : Cardinality(Below(T, g)) = Cardinality(Below(T, h)) => g = h
      BY <2>2, RanksAreTaken
    <2> HIDE DEF S, T, c, short, long
    <2>7. \A g \in S : Below(T, g) = Below(S, g)
      BY <2>1 DEF Below
    <2>8. Below(T, k) = S
      BY <2>1 DEF Below
    <2>9. ASSUME NEW m \in 1..c PROVE long[m] = short[m]
      <3>1. short[m] \in T /\ Cardinality(Below(T, short[m])) = m - 1
        BY <2>1, <2>4, <2>7
      <3>2. m \in 1..(c + 1)
        BY <2>2
      <3>3. long[m] \in T /\ Cardinality(Below(T, long[m])) = m - 1
        BY <2>5, <3>2
      <3> QED
        BY <2>6, <3>1, <3>3
    <2>10. long[c + 1] = k
      <3>1. k \in T /\ Cardinality(Below(T, k)) = c
        BY <2>1, <2>8 DEF c
      <3>2. c + 1 \in 1..(c + 1) /\ (c + 1) - 1 = c
        BY <2>2
      <3>3. long[c + 1] \in T /\ Cardinality(Below(T, long[c + 1])) = c
        BY <2>5, <3>2
      <3> QED
        BY <2>6, <3>1, <3>3
    <2>11. Len(short) = c
      BY <2>2, <2>4
    <2>12. long = Append(short, k)
      <3>0. short \in Seq(Nat) /\ k \in Nat /\ c \in Nat
        <4>1. \A g \in S : g \in Nat
          BY <2>1
        <4> QED
          BY <2>2, <2>4, <4>1
      <3>1. /\ Append(short, k) \in [1..(c + 1) -> Nat]
            /\ \A m \in 1..(c + 1) : Append(short, k)[m] = IF m = c + 1 THEN k ELSE short[m]
        <4> DEFINE new == Append(short, k)
        <4>1. /\ new \in Seq(Nat) /\ Len(new) = Len(short) + 1
              /\ \A m \in 1..Len(short) : new[m] = short[m]
              /\ new[Len(short) + 1] = k
          BY <3>0, AppendProperties
        <4>2. new \in [1..Len(new) -> Nat]
          BY <4>1, LenProperties
        <4> HIDE DEF new
        <4>3. new \in [1..(c + 1) -> Nat]
          BY <2>11, <4>1, <4>2
        <4>4. ASSUME NEW m \in 1..(c + 1) PROVE new[m] = IF m = c + 1 THEN k ELSE short[m]
          BY <2>11, <3>0, <4>1
        <4> QED
          BY <4>3, <4>4 DEF new
      <3> QED
        BY <2>2, <2>5, <2>9, <2>10, <3>1
    <2> QED
      BY <1>3, <2>12 DEF short, long
  <1> QED
    BY <1>2, <1>3

\* The loops of createGPUIDList list the usable GPUs in ascending order.
LEMMA ListIsUsableGPUs ==
  ASSUME NEW ids \in Seq(Nat), NEW n \in Nat
  PROVE  createGPUIDListLoop(ids, n) = createGPUIDList(ids, n)
  <1>1. PICK list :
          /\ createGPUIDListLoop(ids, n) = list[n]
          /\ list[0] = <<>>
          /\ \A k \in 1..n :
               list[k] = IF Contains(ids, k - 1) THEN list[k - 1] ELSE Append(list[k - 1], k - 1)
    BY ListRounds
  <1> DEFINE P == {k \in 0..n : list[k] = createGPUIDList(ids, k)}
  <1>2. 0 \in P
    <2>1. UsableGPUs(ids, 0) = {}
      BY DEF UsableGPUs
    <2>2. createGPUIDList(ids, 0) = <<>>
      <3>1. Cardinality(UsableGPUs(ids, 0)) = 0
        BY <2>1, FS_EmptySet
      <3> QED
        BY <3>1 DEF createGPUIDList
    <2> QED
      BY <1>1, <2>2
  <1>3. ASSUME NEW k \in 1..n, k - 1 \in P PROVE k \in P
    <2>1. k - 1 \in Nat /\ (k - 1) + 1 = k /\ k \in 0..n
      OBVIOUS
    <2>2. list[k - 1] = createGPUIDList(ids, k - 1)
      BY <1>3
    <2>3. createGPUIDList(ids, k) =
            IF Contains(ids, k - 1) THEN createGPUIDList(ids, k - 1)
            ELSE Append(createGPUIDList(ids, k - 1), k - 1)
      <3>1. createGPUIDList(ids, (k - 1) + 1) =
              IF Contains(ids, k - 1) THEN createGPUIDList(ids, k - 1)
              ELSE Append(createGPUIDList(ids, k - 1), k - 1)
        BY <2>1, ListGrows
      <3> QED
        BY <2>1, <3>1
    <2> QED
      BY <1>1, <2>1, <2>2, <2>3
  <1> HIDE DEF P
  <1>4. n \in P
    BY <1>2, <1>3, BoundedInduction
  <1> QED
    BY <1>1, <1>4 DEF P

-----------------------------------------------------------------------------
(***************************************************************************)
(* DetectDuplicateKeys.                                                    *)
(***************************************************************************)

NothingSeen == [seen |-> {}, duplicates |-> <<>>]

Seen(Keys) == [seen : SUBSET Keys, duplicates : Seq(Keys)]

\* How often a key is in a list.
Occurrences(list, key) == Cardinality({k \in DOMAIN list : list[k] = key})

\* A round of the loop keeps the types.
LEMMA SeenTyped ==
  ASSUME NEW Keys, NEW acc \in Seen(Keys), NEW key \in Keys
  PROVE  SeenKey(acc, key) \in Seen(Keys)
  <1>1. acc.seen \in SUBSET Keys /\ acc.duplicates \in Seq(Keys)
    BY DEF Seen
  <1>2. Append(acc.duplicates, key) \in Seq(Keys)
    BY <1>1
  <1> QED
    BY <1>1, <1>2 DEF Seen, SeenKey

\* What was seen and found after each round.
LEMMA SeenRounds ==
  ASSUME NEW Keys, NEW keys \in Seq(Keys)
  PROVE  \E acc :
           /\ DetectDuplicateKeys(keys) = acc[Len(keys)].duplicates
           /\ acc[0] = NothingSeen
           /\ \A k \in 1..Len(keys) : acc[k] = SeenKey(acc[k - 1], keys[k])
  <1> DEFINE n == Len(keys)
             step == [x \in Seen(Keys) \X (1..n) |-> SeenKey(x[1], keys[x[2]])]
             Eq(g) == g = [s \in SUBSET (1..n) |->
                             IF s = {} THEN NothingSeen
                             ELSE SeenKey(g[s \ {Max(s)}], keys[Max(s)])]
             f == CHOOSE g : Eq(g)
             acc == [k \in 0..n |-> f[1..k]]
  <1>1. n \in Nat /\ DOMAIN keys = 1..n /\ \A k \in 1..n : keys[k] \in Keys
    BY LenProperties
  <1>2. DetectDuplicateKeys(keys) = f[1..n].duplicates
    <2>1. DetectDuplicateKeys(keys) = f[DOMAIN keys].duplicates
      BY <1>1, Zenon DEF DetectDuplicateKeys, FoldLeft, MapThenFoldSet, Max, NothingSeen
    <2> QED
      BY <1>1, <2>1
  <1>3. Eq(f)
    <2>1. step \in [Seen(Keys) \X (1..n) -> Seen(Keys)]
      BY <1>1, SeenTyped
    <2>2. NothingSeen \in Seen(Keys)
      BY DEF NothingSeen, Seen
    <2>3. PICK g \in [SUBSET (1..n) -> Seen(Keys)] : Unfolds(g, n, NothingSeen, step)
      <3> HIDE DEF step
      <3> QED
        BY <1>1, <2>1, <2>2, FoldExists
    <2>4. \A s \in SUBSET (1..n) : s # {} =>
            step[g[s \ {Max(s)}], Max(s)] = SeenKey(g[s \ {Max(s)}], keys[Max(s)])
      <3> SUFFICES ASSUME NEW s \in SUBSET (1..n), s # {}
                   PROVE  step[g[s \ {Max(s)}], Max(s)] = SeenKey(g[s \ {Max(s)}], keys[Max(s)])
        OBVIOUS
      <3>1. Max(s) \in 1..n
        BY <1>1, MaxOfIndices
      <3>2. g[s \ {Max(s)}] \in Seen(Keys)
        OBVIOUS
      <3> QED
        BY <3>1, <3>2
    <2>5. Eq(g)
      <3> HIDE DEF step
      <3> QED
        BY <2>3, <2>4 DEF Unfolds
    <2> HIDE DEF Eq
    <2> QED
      BY <2>5
  <1> HIDE DEF f
  <1>4. f[{}] = NothingSeen /\ 1..0 = {}
    BY <1>3
  <1>5. ASSUME NEW k \in 1..n PROVE f[1..k] = SeenKey(f[1..(k - 1)], keys[k])
    <2>1. 1..k \in SUBSET (1..n) /\ 1..k # {} /\ Max(1..k) = k /\ (1..k) \ {k} = 1..(k - 1)
      BY <1>1, LastIndex
    <2> HIDE DEF n
    <2> QED
      BY <1>3, <2>1
  <1>6. /\ acc[n] = f[1..n] /\ acc[0] = NothingSeen
        /\ \A k \in 1..n : acc[k] = SeenKey(acc[k - 1], keys[k])
    BY <1>1, <1>4, <1>5
  <1> QED
    BY <1>2, <1>6

\* Appending a key counts it once more, and no other.
LEMMA AppendOccurs ==
  ASSUME NEW Keys, NEW list \in Seq(Keys), NEW e \in Keys, NEW key
  PROVE  /\ Occurrences(list, key) \in Nat
         /\ Occurrences(Append(list, e), key) =
              Occurrences(list, key) + IF e = key THEN 1 ELSE 0
  <1> DEFINE n == Len(list)
             new == Append(list, e)
             Old == {k \in DOMAIN list : list[k] = key}
             New == {k \in DOMAIN new : new[k] = key}
  <1>1. n \in Nat /\ DOMAIN list = 1..n
    BY LenProperties
  <1>2. /\ new \in Seq(Keys) /\ Len(new) = n + 1
        /\ \A k \in 1..n : new[k] = list[k]
        /\ new[n + 1] = e
    BY AppendProperties
  <1>3. DOMAIN new = 1..(n + 1)
    BY <1>2, LenProperties
  <1> HIDE DEF new
  <1>4. New = IF e = key THEN Old \union {n + 1} ELSE Old
    BY <1>1, <1>2, <1>3
  <1>5. n + 1 \notin Old
    BY <1>1
  <1>6. IsFiniteSet(Old)
    <2>1. IsFiniteSet(1..n)
      <3>1. 1 \in Int /\ n \in Int
        BY <1>1
      <3> QED
        BY <3>1, FS_Interval
    <2>2. Old \in SUBSET (1..n)
      BY <1>1
    <2> QED
      BY <2>1, <2>2, FS_Subset
  <1> HIDE DEF New, Old
  <1>7. /\ Cardinality(Old) \in Nat
        /\ Cardinality(Old \union {n + 1}) = Cardinality(Old) + 1
    BY <1>5, <1>6, FS_AddElement, FS_CardinalityType
  <1>8. Cardinality(New) = Cardinality(Old) + IF e = key THEN 1 ELSE 0
    BY <1>4, <1>7
  <1> QED
    BY <1>7, <1>8 DEF Old, New, new, Occurrences

\* Of the keys written so far, the ones seen are all of them, and each is found
\* as often as it was written again.
LEMMA DuplicatesCounted ==
  ASSUME NEW Keys, NEW keys \in Seq(Keys), NEW key
  PROVE  LET written == Occurrences(keys, key)
         IN  Occurrences(DetectDuplicateKeys(keys), key) = IF written > 1 THEN written - 1 ELSE 0
  <1> DEFINE n == Len(keys)
             W(k) == {m \in 1..k : keys[m] = key}
             w(k) == Cardinality(W(k))
             found(a) == Occurrences(a.duplicates, key)
  <1>1. n \in Nat /\ DOMAIN keys = 1..n /\ \A k \in 1..n : keys[k] \in Keys
    BY LenProperties
  <1>2. PICK acc :
          /\ DetectDuplicateKeys(keys) = acc[n].duplicates
          /\ acc[0] = NothingSeen
          /\ \A k \in 1..n : acc[k] = SeenKey(acc[k - 1], keys[k])
    BY SeenRounds
  <1>3. \A k \in 0..n : IsFiniteSet(W(k)) /\ w(k) \in Nat
    <2> SUFFICES ASSUME NEW k \in 0..n PROVE IsFiniteSet(W(k)) /\ w(k) \in Nat
      OBVIOUS
    <2>1. 1 \in Int /\ k \in Int
      BY <1>1
    <2>2. IsFiniteSet(1..k)
      BY <2>1, FS_Interval
    <2> QED
      BY <2>2, FS_Subset, FS_CardinalityType
  <1>4. W(0) = {} /\ w(0) = 0
    <2>1. W(0) = {}
      OBVIOUS
    <2> QED
      BY <2>1, FS_EmptySet
  <1>5. ASSUME NEW k \in 1..n
        PROVE  w(k) = w(k - 1) + IF keys[k] = key THEN 1 ELSE 0
    <2>1. k - 1 \in 0..n /\ k \notin W(k - 1)
      BY <1>1
    <2>2. W(k) = IF keys[k] = key THEN W(k - 1) \union {k} ELSE W(k - 1)
      BY <1>1
    <2>3. IsFiniteSet(W(k - 1)) /\ w(k - 1) \in Nat
      BY <1>3, <2>1
    <2> HIDE DEF W
    <2>4. Cardinality(W(k - 1) \union {k}) = w(k - 1) + 1
      BY <2>1, <2>3, FS_AddElement
    <2> QED
      BY <2>2, <2>3, <2>4
  <1>6. \A k \in 0..n : w(k) >= 1 <=> key \in {keys[m] : m \in 1..k}
    <2> SUFFICES ASSUME NEW k \in 0..n
                 PROVE  w(k) >= 1 <=> key \in {keys[m] : m \in 1..k}
      OBVIOUS
    <2>1. W(k) = {} <=> key \notin {keys[m] : m \in 1..k}
      OBVIOUS
    <2>2. IsFiniteSet(W(k)) /\ w(k) \in Nat
      BY <1>3
    <2> HIDE DEF W
    <2>3. w(k) = 0 <=> W(k) = {}
      BY <2>2, FS_EmptySet
    <2> QED
      BY <2>1, <2>2, <2>3
  <1> DEFINE again(k) == IF w(k) > 1 THEN w(k) - 1 ELSE 0
             P == {k \in 0..n : /\ acc[k] \in Seen(Keys)
                                /\ acc[k].seen = {keys[m] : m \in 1..k}
                                /\ found(acc[k]) = again(k)}
  <1>7. 0 \in P
    <2>1. NothingSeen \in Seen(Keys) /\ NothingSeen.seen = {keys[m] : m \in 1..0}
      BY DEF NothingSeen, Seen
    <2>2. {k \in DOMAIN <<>> : <<>>[k] = key} = {}
      OBVIOUS
    <2>3. found(NothingSeen) = 0
      <3>1. Occurrences(<<>>, key) = 0
        BY <2>2, FS_EmptySet DEF Occurrences
      <3> QED
        BY <3>1 DEF NothingSeen
    <2> HIDE DEF w, found
    <2> QED
      BY <1>1, <1>2, <1>4, <2>1, <2>3
  <1>8. ASSUME NEW k \in 1..n, k - 1 \in P PROVE k \in P
    <2> DEFINE old == acc[k - 1]
               e == keys[k]
    <2>1. /\ old \in Seen(Keys) /\ old.seen = {keys[m] : m \in 1..(k - 1)}
          /\ found(old) = again(k - 1)
      BY <1>8
    <2>2. acc[k] = SeenKey(old, e) /\ e \in Keys /\ k - 1 \in 0..n /\ k \in 0..n
      BY <1>1, <1>2
    <2>3. acc[k] \in Seen(Keys)
      BY <2>1, <2>2, SeenTyped
    <2>4. acc[k].seen = {keys[m] : m \in 1..k}
      BY <1>1, <2>1, <2>2 DEF SeenKey
    <2>5. old.duplicates \in Seq(Keys)
      BY <2>1 DEF Seen
    <2>6. Occurrences(Append(old.duplicates, e), key) = found(old) + IF e = key THEN 1 ELSE 0
      <3> HIDE DEF e, old
      <3> QED
        BY <2>2, <2>5, AppendOccurs
    <2>7. acc[k].duplicates = IF e \in old.seen THEN Append(old.duplicates, e) ELSE old.duplicates
      BY <2>2 DEF SeenKey
    <2>8. e = key => (e \in old.seen <=> w(k - 1) >= 1)
      BY <1>6, <2>1, <2>2
    <2>9. found(acc[k]) = found(old) + IF e = key /\ w(k - 1) >= 1 THEN 1 ELSE 0
      <3>1. found(old) \in Nat
        <4> HIDE DEF old
        <4> QED
          BY <2>2, <2>5, AppendOccurs
      <3> HIDE DEF w, e, old
      <3> QED
        BY <2>6, <2>7, <2>8, <3>1
    <2>10. found(acc[k]) = again(k)
      <3>1. w(k) = w(k - 1) + IF e = key THEN 1 ELSE 0
        BY <1>5
      <3>2. w(k - 1) \in Nat
        BY <1>3, <2>2
      <3> HIDE DEF w, e, old, found
      <3> QED
        BY <2>1, <2>9, <3>1, <3>2
    <2> QED
      BY <2>2, <2>3, <2>4, <2>10
  <1> HIDE DEF P
  <1>9. n \in P
    BY <1>1, <1>7, <1>8, BoundedInduction
  <1>10. found(acc[n]) = again(n)
    BY <1>9 DEF P
  <1>11. w(n) = Occurrences(keys, key)
    BY <1>1 DEF Occurrences
  <1> HIDE DEF w
  <1> QED
    BY <1>2, <1>10, <1>11

-----------------------------------------------------------------------------
(***************************************************************************)
(* The inputs of the runs are of the types the facts above are about.      *)
(***************************************************************************)
InputsTyped ==
  /\ profile.Profiles \in Seq(EntryType)
  /\ profile.Filters \in Seq(Nat)
  /\ totalGPUCount \in Nat
  /\ names \in Seq(Names)

\* A list of bounded length is a list.
LEMMA SeqsUpToAreSeqs ==
  ASSUME NEW S, NEW T, S \subseteq T, NEW n \in Nat
  PROVE  SeqsUpTo(S, n) \subseteq Seq(T)
  <1> SUFFICES ASSUME NEW k \in 0..n, NEW s \in [1..k -> S]
               PROVE  s \in Seq(T)
    BY DEF SeqsUpTo
  <1> QED
    OBVIOUS

\* Every input is typed, and stays what it is.
LEMMA InputsAreTyped == Spec => []InputsTyped
  <1>1. /\ MaxGPUs \in Nat /\ MaxSkipped \in Nat /\ MaxEntries \in Nat /\ MaxNames \in Nat
    BY LoopBoundsAssumption
  <1>2. Init => InputsTyped
    <2>1. Entries \subseteq EntryType
      <3>1. /\ {"CPX", "NPS1"} \subseteq PartitionText
            /\ {"NPS1", "NPS4"} \subseteq PartitionText
        BY DEF PartitionText, ValidComputePartitions, ValidMemoryPartitions
      <3>2. 0..MaxGPUs \subseteq Nat
        BY <1>1
      <3> QED
        BY <3>1, <3>2 DEF Entries, EntryType
    <2>2. /\ SeqsUpTo(Entries, MaxEntries) \subseteq Seq(EntryType)
          /\ SeqsUpTo(0..MaxGPUs, MaxSkipped) \subseteq Seq(Nat)
          /\ SeqsUpTo(Names, MaxNames) \subseteq Seq(Names)
      BY <1>1, <2>1, SeqsUpToAreSeqs
    <2>3. 0..MaxGPUs \subseteq Nat
      BY <1>1
    <2>4. \A S : <<>> \in Seq(S)
      OBVIOUS
    <2>5. CASE /\ profile \in [Profiles : SeqsUpTo(Entries, MaxEntries),
                               Filters : SeqsUpTo(0..MaxGPUs, MaxSkipped)]
               /\ totalGPUCount \in 0..MaxGPUs
               /\ names = <<>>
      <3>1. /\ profile.Profiles \in SeqsUpTo(Entries, MaxEntries)
            /\ profile.Filters \in SeqsUpTo(0..MaxGPUs, MaxSkipped)
        BY <2>5
      <3> QED
        BY <2>2, <2>3, <2>4, <2>5, <3>1 DEF InputsTyped
    <2>6. CASE /\ profile = [Profiles |-> <<>>, Filters |-> <<>>]
               /\ totalGPUCount = 0
               /\ names \in SeqsUpTo(Names, MaxNames)
      <3>1. profile.Profiles = <<>> /\ profile.Filters = <<>>
        BY <2>6
      <3> QED
        BY <2>2, <2>4, <2>6, <3>1 DEF InputsTyped
    <2> QED
      BY <2>5, <2>6 DEF Init
  <1>3. InputsTyped /\ [UNCHANGED inputVars]_inputVars => InputsTyped'
    BY DEF InputsTyped, inputVars
  <1> QED
    BY <1>2, <1>3, PTL DEF Spec

\* The loops of createGPUIDList and of validateProfile compute, on every input,
\* the list and the number of rounds PartitionGPU is proved with.
THEOREM LoopsAgreeAlways == Spec => []LoopsAgree
  <1>1. InputsTyped => LoopsAgree
    BY SumIsRounds, ListIsUsableGPUs DEF InputsTyped, LoopsAgree
  <1> QED
    BY <1>1, InputsAreTyped, PTL

\* What validateProfile accepts has one round for every GPU createGPUIDList
\* lists, but for the ids skippedGPUs repeats.
THEOREM RoundsMeetUsableGPUsAlways == Spec => []RoundsMeetUsableGPUs
  <1>1. ASSUME InputsTyped, validateProfile(profile, totalGPUCount) = "ok"
        PROVE  total_devicesLoop(profile.Profiles)
                 + (Len(profile.Filters) - Cardinality(ToSet(profile.Filters)))
                 = Len(createGPUIDListLoop(profile.Filters, totalGPUCount))
    <2>1. /\ profile.Profiles \in Seq(EntryType) /\ profile.Filters \in Seq(Nat)
          /\ totalGPUCount \in Nat
      BY <1>1 DEF InputsTyped
    <2>2. /\ total_devicesLoop(profile.Profiles) = total_devices(profile.Profiles)
          /\ createGPUIDListLoop(profile.Filters, totalGPUCount)
               = createGPUIDList(profile.Filters, totalGPUCount)
      BY <2>1, SumIsRounds, ListIsUsableGPUs
    <2>3. Len(createGPUIDList(profile.Filters, totalGPUCount))
            = Cardinality(UsableGPUs(profile.Filters, totalGPUCount))
      BY <2>1, GPUIDListIsTheUsableGPUs
    <2>4. total_devices(profile.Profiles)
            + (Len(profile.Filters) - Cardinality(IdsOf(profile.Filters)))
            = Cardinality(UsableGPUs(profile.Filters, totalGPUCount))
      BY <1>1, <2>1, ValidProfilesFit
    <2>5. ToSet(profile.Filters) = IdsOf(profile.Filters)
      BY DEF ToSet, IdsOf
    <2> QED
      BY <2>2, <2>3, <2>4, <2>5
  <1>2. InputsTyped => RoundsMeetUsableGPUs
    BY <1>1 DEF RoundsMeetUsableGPUs
  <1> QED
    BY <1>2, InputsAreTyped, PTL

\* DetectDuplicateKeys finds, in every list of names, each name that is written
\* more than once, as often as it is written again, and no other.
THEOREM DuplicatesAreAlwaysFound == Spec => []DuplicatesAreFound
  <1>1. InputsTyped => DuplicatesAreFound
    BY DuplicatesCounted DEF InputsTyped, DuplicatesAreFound, Occurrences
  <1> QED
    BY <1>1, InputsAreTyped, PTL
=============================================================================
