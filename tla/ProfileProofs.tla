---------------------------- MODULE ProfileProofs ----------------------------
(***************************************************************************)
(* Proofs about the pure functions of ProfileValidation, for every number  *)
(* of GPUs and every profile: what createGPUIDList returns, and how many   *)
(* rounds the loops of amdSMIHelper make on a profile validateProfile      *)
(* accepts.                                                                *)
(***************************************************************************)
EXTENDS ProfileValidation, FiniteSetTheorems, TLAPS

\* Any text: that the valid types are strings, which no prover knows of a
\* literal, is part of the definition.
PartitionText == STRING \union ValidComputePartitions \union ValidMemoryPartitions

EntryType ==
  [ComputePartition : PartitionText, MemoryPartition : PartitionText, NumGPUsAssigned : Nat]

Distinct(ids) == \A k, l \in DOMAIN ids : ids[k] = ids[l] => k = l

\* The ids a list holds.
IdsOf(ids) == {ids[k] : k \in DOMAIN ids}

\* The GPUs below g in a set of GPU ids.
Below(S, g) == {h \in S : h < g}

-----------------------------------------------------------------------------
\* The ids of a list are finitely many, and as many as the list is long only
\* when none is repeated.
LEMMA IdsCount ==
  ASSUME NEW ids \in Seq(Nat)
  PROVE  /\ IsFiniteSet(IdsOf(ids))
         /\ Cardinality(IdsOf(ids)) \in 0..Len(ids)
         /\ Distinct(ids) => Cardinality(IdsOf(ids)) = Len(ids)
  <1> DEFINE S == {ids[k] : k \in DOMAIN ids}
  <1>1. Len(ids) \in Nat /\ DOMAIN ids = 1..Len(ids)
    OBVIOUS
  <1>2. ids \in Surjection(1..Len(ids), S)
    BY <1>1 DEF Surjection
  <1>3. IsFiniteSet(1..Len(ids)) /\ Cardinality(1..Len(ids)) = Len(ids)
    <2> DEFINE k == Len(ids)
    <2>1. 1 \in Int /\ k \in Int /\ k \in Nat
      BY <1>1
    <2> HIDE DEF k, S
    <2>2. IsFiniteSet(1..k) /\ Cardinality(1..k) = IF 1 > k THEN 0 ELSE k - 1 + 1
      BY <2>1, FS_Interval
    <2>3. Cardinality(1..k) = k
      BY <2>1, <2>2
    <2> QED
      BY <2>2, <2>3 DEF k
  <1>4. /\ IsFiniteSet(S)
        /\ Cardinality(S) <= Len(ids)
        /\ Cardinality(S) = Len(ids) <=> ids \in Injection(1..Len(ids), S)
    <2> HIDE DEF S
    <2> QED
      BY <1>2, <1>3, FS_Surjection
  <1>5. Distinct(ids) => ids \in Injection(1..Len(ids), S)
    BY <1>1, <1>2 DEF Distinct, Injection, IsInjective, Surjection
  <1>6. Cardinality(S) \in Nat
    <2> HIDE DEF S
    <2> QED
      BY <1>4, FS_CardinalityType
  <1> HIDE DEF S
  <1>7. IsFiniteSet(S) /\ Cardinality(S) \in 0..Len(ids) /\ (Distinct(ids) => Cardinality(S) = Len(ids))
    BY <1>1, <1>4, <1>5, <1>6
  <1> QED
    BY <1>7 DEF S, IdsOf

\* Skipping removes at most one GPU for each id of the list, and exactly the
\* ids when they are GPUs of the node.
LEMMA UsableCount ==
  ASSUME NEW ids \in Seq(Nat), NEW n \in Nat
  PROVE  /\ IsFiniteSet(UsableGPUs(ids, n))
         /\ UsableGPUs(ids, n) \subseteq Nat
         /\ Cardinality(UsableGPUs(ids, n)) \in Nat
         /\ Cardinality(UsableGPUs(ids, n)) >= n - Len(ids)
         /\ IdsInRange(ids, n) => Cardinality(UsableGPUs(ids, n)) = n - Cardinality(IdsOf(ids))
  <1> DEFINE All == 0..(n - 1)
             Skipped == IdsOf(ids)
  <1>1. IsFiniteSet(All) /\ Cardinality(All) = n
    <2>1. 0 \in Int /\ n - 1 \in Int
      OBVIOUS
    <2> QED
      BY <2>1, FS_Interval
  <1>2. IsFiniteSet(Skipped) /\ Cardinality(Skipped) \in 0..Len(ids)
    BY IdsCount
  <1>3. IdsInRange(ids, n) => All \intersect Skipped = Skipped
    BY DEF IdsInRange, IdsOf
  <1>4. UsableGPUs(ids, n) = All \ Skipped /\ All \subseteq Nat /\ Len(ids) \in Nat
    BY DEF UsableGPUs, IdsOf
  <1> HIDE DEF All, Skipped
  <1>5. /\ IsFiniteSet(All \ Skipped)
        /\ Cardinality(All \ Skipped) = n - Cardinality(All \intersect Skipped)
    BY <1>1, FS_Difference
  <1>6. Cardinality(All \ Skipped) \in Nat
    BY <1>5, FS_CardinalityType
  <1>7. /\ Cardinality(All \intersect Skipped) \in Nat
        /\ Cardinality(All \intersect Skipped) <= Cardinality(Skipped)
    BY <1>1, <1>2, FS_Intersection, FS_CardinalityType
  <1>8. Cardinality(All \ Skipped) >= n - Len(ids)
    BY <1>2, <1>4, <1>5, <1>7
  <1>9. IdsInRange(ids, n) => Cardinality(All \ Skipped) = n - Cardinality(Skipped)
    BY <1>3, <1>5
  <1>10. All \ Skipped \subseteq Nat
    BY <1>4
  <1> QED
    BY <1>4, <1>5, <1>6, <1>8, <1>9, <1>10 DEF Skipped

\* In a finite set of numbers, for every k less than its size, exactly one
\* has k below it: what makes createGPUIDList's CHOOSE a choice of something.
LEMMA RanksAreTaken ==
  ASSUME NEW S \in SUBSET Nat, IsFiniteSet(S)
  PROVE  /\ \A k \in 1..Cardinality(S) : \E g \in S : Cardinality(Below(S, g)) = k - 1
         /\ \A g \in S : Cardinality(Below(S, g)) + 1 \in 1..Cardinality(S)
         /\ \A g, h \in S : Cardinality(Below(S, g)) = Cardinality(Below(S, h)) => g = h
  <1> DEFINE n == Cardinality(S)
             rank == [g \in S |-> Cardinality(Below(S, g)) + 1]
  <1>1. n \in Nat
    BY FS_CardinalityType
  <1>2. \A g \in S : IsFiniteSet(Below(S, g)) /\ Cardinality(Below(S, g)) \in Nat
    BY FS_Subset, FS_CardinalityType DEF Below
  <1>3. \A g, h \in S : g < h => Cardinality(Below(S, g)) < Cardinality(Below(S, h))
    <2> SUFFICES ASSUME NEW g \in S, NEW h \in S, g < h
                 PROVE  Cardinality(Below(S, g)) < Cardinality(Below(S, h))
      OBVIOUS
    <2>0. g \in Nat /\ h \in Nat /\ \A x \in S : x \in Nat
      OBVIOUS
    <2>1. Below(S, g) \in SUBSET Below(S, h) /\ g \in Below(S, h) /\ g \notin Below(S, g)
      <3>1. \A x \in S : x < g => x < h
        BY <2>0
      <3>2. ~(g < g)
        BY <2>0
      <3> QED
        BY <3>1, <3>2 DEF Below
    <2> QED
      BY <1>2, <2>1, FS_Subset
  <1>4. \A g, h \in S : Cardinality(Below(S, g)) = Cardinality(Below(S, h)) => g = h
    <2> SUFFICES ASSUME NEW g \in S, NEW h \in S, g # h
                 PROVE  Cardinality(Below(S, g)) # Cardinality(Below(S, h))
      OBVIOUS
    <2>1. g < h \/ h < g
      OBVIOUS
    <2> QED
      BY <1>2, <1>3, <2>1
  <1>5. \A g \in S : Cardinality(Below(S, g)) < n
    <2> SUFFICES ASSUME NEW g \in S PROVE Cardinality(Below(S, g)) < n
      OBVIOUS
    <2>1. Below(S, g) \in SUBSET S /\ Below(S, g) # S
      BY DEF Below
    <2>2. Cardinality(Below(S, g)) <= n /\ Cardinality(Below(S, g)) # n
      BY <2>1, FS_Subset
    <2> QED
      BY <1>1, <1>2, <2>2
  <1>6. rank \in Injection(S, 1..n)
    BY <1>1, <1>2, <1>4, <1>5 DEF Injection, IsInjective
  <1>7. IsFiniteSet(1..n) /\ Cardinality(1..n) = n
    BY <1>1, FS_Interval
  <1>8. rank \in Surjection(S, 1..n)
    <2> HIDE DEF rank
    <2> QED
      BY <1>6, <1>7, FS_Injection
  <1>9. \A k \in 1..n : \E g \in S : rank[g] = k
    BY <1>8 DEF Surjection
  <1>10. \A k \in 1..n : \E g \in S : Cardinality(Below(S, g)) = k - 1
    BY <1>1, <1>2, <1>9
  <1> QED
    BY <1>1, <1>2, <1>4, <1>5, <1>10

\* createGPUIDList returns every GPU that is not skipped, each once and in
\* ascending order, whatever the skipped ids are.
THEOREM GPUIDListIsTheUsableGPUs ==
  ASSUME NEW ids \in Seq(Nat), NEW n \in Nat
  PROVE  LET list == createGPUIDList(ids, n)
         IN  /\ list \in Seq(UsableGPUs(ids, n))
             /\ Len(list) = Cardinality(UsableGPUs(ids, n))
             /\ {list[k] : k \in 1..Len(list)} = UsableGPUs(ids, n)
             /\ \A k, l \in 1..Len(list) : k < l => list[k] < list[l]
  <1> DEFINE S == UsableGPUs(ids, n)
             N == Cardinality(S)
             list == createGPUIDList(ids, n)
  <1>1. IsFiniteSet(S) /\ S \subseteq Nat /\ N \in Nat
    BY UsableCount
  <1>2. list = [k \in 1..N |-> CHOOSE g \in S : Cardinality(Below(S, g)) = k - 1]
    BY DEF createGPUIDList, Below
  <1> HIDE DEF S, list
  <1>3. /\ \A k \in 1..N : \E g \in S : Cardinality(Below(S, g)) = k - 1
        /\ \A g \in S : Cardinality(Below(S, g)) + 1 \in 1..N
        /\ \A g, h \in S : Cardinality(Below(S, g)) = Cardinality(Below(S, h)) => g = h
    BY <1>1, RanksAreTaken
  <1>4. \A k \in 1..N : list[k] \in S /\ Cardinality(Below(S, list[k])) = k - 1
    BY <1>2, <1>3
  <1>5. list \in [1..N -> S] /\ list \in Seq(S) /\ Len(list) = N
    <2>1. list \in [1..N -> S]
      BY <1>2, <1>4
    <2> QED
      BY <1>1, <2>1
  <1>6. {list[k] : k \in 1..N} = S
    <2> SUFFICES ASSUME NEW g \in S PROVE \E k \in 1..N : list[k] = g
      BY <1>5
    <2> DEFINE k == Cardinality(Below(S, g)) + 1
    <2>1. k \in 1..N /\ k - 1 = Cardinality(Below(S, g))
      <3>1. IsFiniteSet(Below(S, g))
        BY <1>1, FS_Subset DEF Below
      <3> QED
        BY <1>3, <3>1, FS_CardinalityType
    <2> QED
      BY <1>3, <1>4, <2>1
  <1>7. \A k, l \in 1..N : k < l => list[k] < list[l]
    <2> SUFFICES ASSUME NEW k \in 1..N, NEW l \in 1..N, ~(list[k] < list[l])
                 PROVE  ~(k < l)
      OBVIOUS
    <2>1. list[k] \in Nat /\ list[l] \in Nat
      BY <1>1, <1>4
    <2>2. Below(S, list[l]) \in SUBSET Below(S, list[k])
      <3>1. \A x \in S : x \in Nat
        BY <1>1
      <3> QED
        BY <2>1, <3>1 DEF Below
    <2>3. IsFiniteSet(Below(S, list[k]))
      BY <1>1, FS_Subset DEF Below
    <2>4. Cardinality(Below(S, list[l])) <= Cardinality(Below(S, list[k]))
      BY <2>2, <2>3, FS_Subset
    <2> QED
      BY <1>1, <1>4, <2>4
  <1> QED
    BY <1>5, <1>6, <1>7 DEF S, list

-----------------------------------------------------------------------------
(***************************************************************************)
(* The rounds before round b of entry a, in the order the loops make them. *)
(***************************************************************************)
Before(entries, a, b) ==
  {s \in Slots(entries) : s[1] < a \/ (s[1] = a /\ s[2] < b)}

\* The entries of a profile are typed.
LEMMA EntryTyped ==
  ASSUME NEW entries \in Seq(EntryType)
  PROVE  /\ DOMAIN entries = 1..Len(entries) /\ Len(entries) \in Nat
         /\ \A a \in 1..Len(entries) :
              entries[a] \in EntryType /\ entries[a].NumGPUsAssigned \in Nat
  <1>1. \A a \in 1..Len(entries) : entries[a] \in EntryType
    OBVIOUS
  <1>2. \A e \in EntryType : e.NumGPUsAssigned \in Nat
    BY DEF EntryType
  <1> QED
    BY <1>1, <1>2

\* A round is a pair of an entry and a number up to its numGPUsAssigned.
LEMMA SlotsMembers ==
  ASSUME NEW entries \in Seq(EntryType)
  PROVE  \A s : s \in Slots(entries) <=>
                  \E a \in 1..Len(entries) :
                    \E b \in 1..entries[a].NumGPUsAssigned : s = <<a, b>>
  <1>1. DOMAIN entries = 1..Len(entries)
    OBVIOUS
  <1> QED
    BY <1>1 DEF Slots

\* A profile has finitely many rounds.
LEMMA SlotsFinite ==
  ASSUME NEW entries \in Seq(EntryType)
  PROVE  IsFiniteSet(Slots(entries)) /\ total_devices(entries) \in Nat
  <1> DEFINE Of(a) == {<<a, b>> : b \in 1..entries[a].NumGPUsAssigned}
             D == 1..Len(entries)
             Rows == {Of(a) : a \in D}
             row == [a \in D |-> Of(a)]
  <1>1. Len(entries) \in Nat /\ DOMAIN entries = D
    OBVIOUS
  <1>2. \A a \in D : entries[a].NumGPUsAssigned \in Nat
    BY EntryTyped
  <1>3. ASSUME NEW a \in D PROVE IsFiniteSet(Of(a))
    <2> DEFINE E == 1..entries[a].NumGPUsAssigned
               pairs == [b \in E |-> <<a, b>>]
    <2>1. IsFiniteSet(E)
      <3>1. 1 \in Int /\ entries[a].NumGPUsAssigned \in Int
        BY <1>2
      <3> QED
        BY <3>1, FS_Interval
    <2>2. pairs \in Surjection(E, Of(a))
      BY DEF Surjection
    <2> HIDE DEF E, pairs, Of
    <2> QED
      BY <2>1, <2>2, FS_Surjection
  <1>4. IsFiniteSet(Rows)
    <2>1. IsFiniteSet(D)
      BY <1>1, FS_Interval
    <2>2. row \in Surjection(D, Rows)
      <3> HIDE DEF Of
      <3> QED
        BY DEF Surjection
    <2> HIDE DEF D, row, Rows
    <2> QED
      BY <2>1, <2>2, FS_Surjection
  <1>5. \A T \in Rows : IsFiniteSet(T)
    <2> HIDE DEF Of
    <2> QED
      BY <1>3
  <1>6. Slots(entries) = UNION Rows
    BY <1>1 DEF Slots
  <1> HIDE DEF Rows
  <1> QED
    BY <1>4, <1>5, <1>6, FS_UNION, FS_CardinalityType DEF total_devices

\* The rounds before a given one are finitely many.
LEMMA BeforeFinite ==
  ASSUME NEW entries \in Seq(EntryType), NEW a, NEW b
  PROVE  /\ IsFiniteSet(Before(entries, a, b))
         /\ Cardinality(Before(entries, a, b)) \in 0..total_devices(entries)
  <1>1. Before(entries, a, b) \in SUBSET Slots(entries)
    BY DEF Before
  <1> QED
    BY <1>1, SlotsFinite, FS_Subset, FS_CardinalityType DEF total_devices

\* None is before the first.
LEMMA BeforeTheFirst ==
  ASSUME NEW entries \in Seq(EntryType)
  PROVE  Before(entries, 1, 1) = {}
  <1>1. \A s \in Slots(entries) : s[1] \in Nat /\ s[1] >= 1 /\ s[2] \in Nat /\ s[2] >= 1
    BY SlotsMembers, EntryTyped
  <1> QED
    BY <1>1 DEF Before

\* A round of the inner loop adds itself, and was not counted yet.
LEMMA BeforeTheNext ==
  ASSUME NEW entries \in Seq(EntryType), NEW a \in 1..Len(entries),
         NEW b \in 1..entries[a].NumGPUsAssigned
  PROVE  /\ <<a, b>> \in Slots(entries)
         /\ <<a, b>> \notin Before(entries, a, b)
         /\ Before(entries, a, b + 1) = Before(entries, a, b) \union {<<a, b>>}
         /\ Cardinality(Before(entries, a, b + 1)) = Cardinality(Before(entries, a, b)) + 1
         /\ Cardinality(Before(entries, a, b)) < total_devices(entries)
  <1>1. entries[a].NumGPUsAssigned \in Nat
    BY EntryTyped
  <1>2. <<a, b>> \in Slots(entries)
    BY SlotsMembers
  <1>3. <<a, b>> \notin Before(entries, a, b)
    BY <1>1 DEF Before
  <1>4. Before(entries, a, b + 1) = Before(entries, a, b) \union {<<a, b>>}
    <2>1. ASSUME NEW s \in Slots(entries)
          PROVE  s[1] < a \/ (s[1] = a /\ s[2] < b + 1)
                   <=> s[1] < a \/ (s[1] = a /\ s[2] < b) \/ s = <<a, b>>
      <3>0. PICK c \in 1..Len(entries) :
              \E d \in 1..entries[c].NumGPUsAssigned : s = <<c, d>>
        BY SlotsMembers
      <3>1. PICK d \in 1..entries[c].NumGPUsAssigned : s = <<c, d>>
        BY <3>0
      <3>2. entries[c].NumGPUsAssigned \in Nat
        BY EntryTyped
      <3>3. s[1] = c /\ s[2] = d /\ (s = <<a, b>> <=> c = a /\ d = b)
        BY <3>1
      <3>4. c < a \/ (c = a /\ d < b + 1) <=> c < a \/ (c = a /\ d < b) \/ (c = a /\ d = b)
        BY <1>1, <3>2
      <3> QED
        BY <3>3, <3>4
    <2> QED
      BY <1>2, <2>1 DEF Before
  <1>5. Cardinality(Before(entries, a, b + 1)) = Cardinality(Before(entries, a, b)) + 1
    BY <1>3, <1>4, BeforeFinite, FS_AddElement
  <1> QED
    BY <1>2, <1>3, <1>4, <1>5, BeforeFinite, SlotsFinite

\* The first round of the next entry has the same rounds before it as the
\* end of this one.
LEMMA BeforeTheNextEntry ==
  ASSUME NEW entries \in Seq(EntryType), NEW a \in 1..Len(entries),
         NEW b \in Nat, b > entries[a].NumGPUsAssigned
  PROVE  Before(entries, a + 1, 1) = Before(entries, a, b)
  <1>1. ASSUME NEW s \in Slots(entries)
        PROVE  s[1] < a + 1 \/ (s[1] = a + 1 /\ s[2] < 1)
                 <=> s[1] < a \/ (s[1] = a /\ s[2] < b)
    <2>0. PICK c \in 1..Len(entries) :
            \E d \in 1..entries[c].NumGPUsAssigned : s = <<c, d>>
      BY SlotsMembers
    <2>1. PICK d \in 1..entries[c].NumGPUsAssigned : s = <<c, d>>
      BY <2>0
    <2>2. entries[c].NumGPUsAssigned \in Nat
      BY EntryTyped
    <2>3. s[1] = c /\ s[2] = d
      BY <2>1
    <2>4. c = a => d < b
      BY <2>2
    <2>5. c < a + 1 \/ (c = a + 1 /\ d < 1) <=> c < a \/ (c = a /\ d < b)
      BY <2>2, <2>4
    <2> QED
      BY <2>3, <2>5
  <1> QED
    BY <1>1 DEF Before

\* When the loops are over, every round is behind them.
LEMMA BeforeTheEnd ==
  ASSUME NEW entries \in Seq(EntryType), NEW a \in Nat, NEW b, a > Len(entries)
  PROVE  Before(entries, a, b) = Slots(entries)
  <1>1. \A s \in Slots(entries) : s[1] < a
    BY SlotsMembers
  <1> QED
    BY <1>1 DEF Before

\* The rounds are made one after the other: counting those before it numbers
\* each round, from 1 to their total, and no two alike.
LEMMA RoundsAreNumbered ==
  ASSUME NEW entries \in Seq(EntryType)
  PROVE  [s \in Slots(entries) |-> Cardinality(Before(entries, s[1], s[2])) + 1]
           \in Bijection(Slots(entries), 1..total_devices(entries))
  <1> DEFINE S == Slots(entries)
             n == total_devices(entries)
             B(s) == Before(entries, s[1], s[2])
             number == [s \in S |-> Cardinality(B(s)) + 1]
  <1>1. IsFiniteSet(S) /\ n \in Nat /\ n = Cardinality(S)
    BY SlotsFinite DEF total_devices
  <1>2. \A s \in S : IsFiniteSet(B(s)) /\ Cardinality(B(s)) \in Nat
    BY BeforeFinite, FS_CardinalityType
  <1>3. \A s \in S : s = <<s[1], s[2]>> /\ s[1] \in Nat /\ s[2] \in Nat
    BY SlotsMembers, EntryTyped
  <1>4. ASSUME NEW s \in S PROVE Cardinality(B(s)) < n
    <2>1. PICK a \in 1..Len(entries) : \E b \in 1..entries[a].NumGPUsAssigned : s = <<a, b>>
      BY SlotsMembers
    <2>2. PICK b \in 1..entries[a].NumGPUsAssigned : s = <<a, b>>
      BY <2>1
    <2> QED
      BY <2>2, BeforeTheNext
  <1>5. ASSUME NEW s \in S, NEW t \in S, s[1] < t[1] \/ (s[1] = t[1] /\ s[2] < t[2])
        PROVE  Cardinality(B(s)) < Cardinality(B(t))
    <2>1. \A r \in S : r[1] < s[1] \/ (r[1] = s[1] /\ r[2] < s[2])
                         => r[1] < t[1] \/ (r[1] = t[1] /\ r[2] < t[2])
      BY <1>3, <1>5
    <2>2. B(s) \in SUBSET B(t)
      BY <2>1 DEF Before
    <2>3. s \in B(t)
      BY <1>5 DEF Before
    <2>4. s \notin B(s)
      BY <1>3 DEF Before
    <2> HIDE DEF B
    <2> QED
      BY <1>2, <2>2, <2>3, <2>4, FS_Subset
  <1>6. ASSUME NEW s \in S, NEW t \in S, s # t
        PROVE  Cardinality(B(s)) # Cardinality(B(t))
    <2>1. \/ s[1] < t[1] \/ (s[1] = t[1] /\ s[2] < t[2])
          \/ t[1] < s[1] \/ (s[1] = t[1] /\ t[2] < s[2])
      BY <1>3, <1>6
    <2> HIDE DEF B
    <2> QED
      BY <1>2, <1>5, <2>1
  <1> HIDE DEF B, S, n
  <1>7. number \in Injection(S, 1..n)
    BY <1>1, <1>2, <1>4, <1>6 DEF Injection, IsInjective
  <1>8. IsFiniteSet(1..n) /\ Cardinality(1..n) = n
    BY <1>1, FS_Interval
  <1>9. number \in Surjection(S, 1..n)
    <2> HIDE DEF number
    <2> QED
      BY <1>1, <1>7, <1>8, FS_Injection
  <1> QED
    BY <1>7, <1>9 DEF Bijection, B, S, n

\* In what validateProfile accepts there is a round of the loops for every
\* usable GPU, but for one GPU for each id that skippedGPUs repeats: never
\* more rounds than usable GPUs, and as many when no id is repeated.
THEOREM ValidProfilesFit ==
  ASSUME NEW profile, profile.Profiles \in Seq(EntryType), profile.Filters \in Seq(Nat),
         NEW n \in Nat, validateProfile(profile, n) = "ok"
  PROVE  LET rounds == total_devices(profile.Profiles)
             usable == Cardinality(UsableGPUs(profile.Filters, n))
             repeated == Len(profile.Filters) - Cardinality(IdsOf(profile.Filters))
         IN  /\ rounds + repeated = usable
             /\ rounds <= usable
             /\ Distinct(profile.Filters) => rounds = usable
  <1>1. /\ CountsAddUp(profile.Profiles, profile.Filters, n)
        /\ IdsInRange(profile.Filters, n)
    BY DEF validateProfile
  <1>2. total_devices(profile.Profiles) \in Nat /\ Len(profile.Filters) \in Nat
    BY SlotsFinite
  <1>3. total_devices(profile.Profiles) + Len(profile.Filters) = n
    BY <1>1 DEF CountsAddUp
  <1>4. Cardinality(UsableGPUs(profile.Filters, n)) = n - Cardinality(IdsOf(profile.Filters))
    BY <1>1, UsableCount
  <1>5. /\ Cardinality(IdsOf(profile.Filters)) \in 0..Len(profile.Filters)
        /\ Distinct(profile.Filters) => Cardinality(IdsOf(profile.Filters)) = Len(profile.Filters)
    BY IdsCount
  <1> QED
    BY <1>2, <1>3, <1>4, <1>5

=============================================================================
