------------------------ MODULE ServiceRuntimeProofs ------------------------
(***************************************************************************)
(* The admission of queries conserves its permits and the page cache its   *)
(* bytes, for any number of queries, slots, readers and pages.             *)
(***************************************************************************)
EXTENDS ServiceRuntime, SequencesExt, FiniteSetsExt, FiniteSetTheorems, SequenceTheorems,
        WellFoundedInduction, TLAPS

-----------------------------------------------------------------------------
\* The operators of the library are the same wherever a component uses them.

LEMMA AdmissionOperators ==
    /\ \A S : Admission!IsFiniteSet(S) <=> IsFiniteSet(S)
    /\ \A S : Admission!Cardinality(S) = Cardinality(S)
    /\ \A f : Admission!IsInjective(f) <=> IsInjective(f)
    /\ \A s, k : Admission!RemoveAt(s, k) = RemoveAt(s, k)
<1>1. \A S : Admission!IsFiniteSet(S) <=> IsFiniteSet(S)
  BY DEF IsFiniteSet, Admission!IsFiniteSet
<1>2. \A S : Admission!Cardinality(S) = Cardinality(S)
  BY DEF Cardinality, Admission!Cardinality
<1>3. \A f : Admission!IsInjective(f) <=> IsInjective(f)
  BY DEF IsInjective, Admission!IsInjective
<1>4. \A s, k : Admission!RemoveAt(s, k) = RemoveAt(s, k)
  BY DEF RemoveAt, Admission!RemoveAt
<1>5. QED
  BY <1>1, <1>2, <1>3, <1>4

LEMMA CacheOperators ==
    /\ \A S : Cache!IsFiniteSet(S) <=> IsFiniteSet(S)
    /\ \A S : Cache!Cardinality(S) = Cardinality(S)
    /\ \A S : Cache!Min(S) = Min(S)
    /\ \A f : Cache!IsInjective(f) <=> IsInjective(f)
    /\ \A s, k : Cache!RemoveAt(s, k) = RemoveAt(s, k)
<1>1. \A S : Cache!IsFiniteSet(S) <=> IsFiniteSet(S)
  BY DEF IsFiniteSet, Cache!IsFiniteSet
<1>2. \A S : Cache!Cardinality(S) = Cardinality(S)
  BY DEF Cardinality, Cache!Cardinality
<1>3. \A S : Cache!Min(S) = Min(S)
  BY DEF Min, Cache!Min
<1>4. \A f : Cache!IsInjective(f) <=> IsInjective(f)
  BY DEF IsInjective, Cache!IsInjective
<1>5. \A s, k : Cache!RemoveAt(s, k) = RemoveAt(s, k)
  BY DEF RemoveAt, Cache!RemoveAt
<1>6. QED
  BY <1>1, <1>2, <1>3, <1>4, <1>5

-----------------------------------------------------------------------------
\* Lists without repetition: the semaphore's queue and the entries of the cache.
Listed(s) == {s[k] : k \in DOMAIN s}

LEMMA ListAppend ==
    ASSUME NEW S, NEW s \in Seq(S), IsInjective(s), NEW x \in S, x \notin Listed(s)
    PROVE  /\ Append(s, x) \in Seq(S) /\ IsInjective(Append(s, x))
           /\ Listed(Append(s, x)) = Listed(s) \cup {x}
<1> DEFINE t == Append(s, x)
<1>1. /\ t \in Seq(S) /\ Len(t) = Len(s) + 1 /\ Len(s) \in Nat
      /\ DOMAIN t = 1..(Len(s) + 1) /\ DOMAIN s = 1..Len(s)
      /\ \A i \in 1..Len(s) : t[i] = s[i]
      /\ t[Len(s) + 1] = x
  BY AppendProperties, LenProperties
<1> HIDE DEF t
<1>2. IsInjective(t)
  BY <1>1 DEF IsInjective, Listed
<1>3. Listed(t) = Listed(s) \cup {x}
  BY <1>1 DEF Listed
<1>4. QED
  BY <1>1, <1>2, <1>3 DEF t

LEMMA ListTail ==
    ASSUME NEW S, NEW s \in Seq(S), IsInjective(s), s # <<>>
    PROVE  /\ Head(s) \in Listed(s) /\ Tail(s) \in Seq(S) /\ IsInjective(Tail(s))
           /\ Listed(Tail(s)) = Listed(s) \ {Head(s)}
<1> DEFINE t == Tail(s)
<1>1. /\ t \in Seq(S) /\ Len(t) = Len(s) - 1 /\ Len(s) \in Nat \ {0}
      /\ DOMAIN t = 1..(Len(s) - 1) /\ DOMAIN s = 1..Len(s)
      /\ \A i \in 1..(Len(s) - 1) : t[i] = s[i + 1]
      /\ Head(s) = s[1]
  BY HeadTailProperties, LenProperties, EmptySeq
<1> HIDE DEF t
<1>2. IsInjective(t)
  <2> SUFFICES ASSUME NEW i \in 1..(Len(s) - 1), NEW j \in 1..(Len(s) - 1), t[i] = t[j] PROVE i = j
    BY <1>1 DEF IsInjective
  <2>1. s[i + 1] = s[j + 1] /\ i + 1 \in 1..Len(s) /\ j + 1 \in 1..Len(s)
    BY <1>1
  <2>2. i + 1 = j + 1
    BY <1>1, <2>1 DEF IsInjective
  <2>3. QED
    BY <1>1, <2>2
<1>3. Head(s) \in Listed(s)
  BY <1>1 DEF Listed
<1>4. ASSUME NEW y \in Listed(s), y # Head(s) PROVE y \in Listed(t)
  <2>1. PICK k \in 1..Len(s) : y = s[k]
    BY <1>1, <1>4 DEF Listed
  <2>2. k # 1 /\ k - 1 \in 1..(Len(s) - 1)
    BY <1>1, <1>4, <2>1
  <2>3. t[k - 1] = y
    BY <1>1, <2>1, <2>2
  <2>4. QED
    BY <1>1, <2>2, <2>3 DEF Listed
<1>5. ASSUME NEW y \in Listed(t) PROVE y \in Listed(s) /\ y # Head(s)
  <2>1. PICK k \in 1..(Len(s) - 1) : y = t[k]
    BY <1>1, <1>5 DEF Listed
  <2>2. y = s[k + 1] /\ k + 1 \in 1..Len(s) /\ k + 1 # 1
    BY <1>1, <2>1
  <2>3. QED
    BY <1>1, <2>2 DEF Listed, IsInjective
<1>6. QED
  BY <1>1, <1>2, <1>3, <1>4, <1>5 DEF t

LEMMA ListRemove ==
    ASSUME NEW S, NEW s \in Seq(S), IsInjective(s), NEW k \in DOMAIN s
    PROVE  /\ RemoveAt(s, k) \in Seq(S) /\ IsInjective(RemoveAt(s, k))
           /\ Listed(RemoveAt(s, k)) = Listed(s) \ {s[k]}
<1> DEFINE t == RemoveAt(s, k)
           a == SubSeq(s, 1, k - 1)
           b == SubSeq(s, k + 1, Len(s))
<1>1. Len(s) \in Nat /\ DOMAIN s = 1..Len(s) /\ k \in 1..Len(s) /\ \A i \in 1..Len(s) : s[i] \in S
  BY LenProperties
<1>2. /\ a \in Seq(S) /\ Len(a) = k - 1
      /\ \A i \in 1..(k - 1) : a[i] = s[i]
  BY <1>1, SubSeqProperties
<1>3. /\ b \in Seq(S) /\ Len(b) = Len(s) - k
      /\ \A i \in 1..(Len(s) - k) : b[i] = s[k + i]
  BY <1>1, SubSeqProperties
<1>4. t = a \o b
  BY DEF RemoveAt
<1> HIDE DEF t, a, b
<1>5. /\ t \in Seq(S) /\ Len(t) = Len(s) - 1
      /\ \A i \in 1..(Len(s) - 1) : t[i] = IF i <= k - 1 THEN a[i] ELSE b[i - (k - 1)]
  <2>1. /\ a \o b \in Seq(S) /\ Len(a \o b) = Len(a) + Len(b)
        /\ \A i \in 1..(Len(a) + Len(b)) : (a \o b)[i] = IF i <= Len(a) THEN a[i] ELSE b[i - Len(a)]
    BY <1>2, <1>3, ConcatProperties
  <2>2. Len(a) + Len(b) = Len(s) - 1
    BY <1>1, <1>2, <1>3
  <2>3. QED
    BY <1>2, <1>4, <2>1, <2>2
<1>6. \A i \in 1..(Len(s) - 1) : t[i] = IF i < k THEN s[i] ELSE s[i + 1]
  <2> TAKE i \in 1..(Len(s) - 1)
  <2>1. CASE i < k
    BY <1>1, <1>2, <1>5, <2>1
  <2>2. CASE ~(i < k)
    <3>1. i - (k - 1) \in 1..(Len(s) - k) /\ k + (i - (k - 1)) = i + 1
      BY <1>1, <2>2
    <3>2. t[i] = b[i - (k - 1)]
      BY <1>1, <1>5, <2>2
    <3>3. QED
      BY <1>3, <2>2, <3>1, <3>2
  <2>3. QED
    BY <2>1, <2>2
<1>7. DOMAIN t = 1..(Len(s) - 1)
  BY <1>5, LenProperties
<1>8. IsInjective(t)
  BY <1>1, <1>6, <1>7 DEF IsInjective
<1>9. ASSUME NEW y \in Listed(s), y # s[k] PROVE y \in Listed(t)
  <2>1. PICK j \in 1..Len(s) : y = s[j]
    BY <1>1, <1>9 DEF Listed
  <2>2. CASE j < k
    BY <1>1, <1>6, <1>7, <2>1, <2>2 DEF Listed
  <2>3. CASE j > k
    <3>1. j - 1 \in 1..(Len(s) - 1) /\ ~(j - 1 < k) /\ (j - 1) + 1 = j
      BY <1>1, <2>3
    <3>2. t[j - 1] = y
      BY <1>6, <2>1, <3>1
    <3>3. QED
      BY <1>7, <3>1, <3>2 DEF Listed
  <2>4. QED
    BY <1>1, <1>9, <2>1, <2>2, <2>3
<1>10. ASSUME NEW y \in Listed(t) PROVE y \in Listed(s) /\ y # s[k]
  <2>1. PICK i \in 1..(Len(s) - 1) : y = t[i]
    BY <1>7, <1>10 DEF Listed
  <2>2. PICK j \in 1..Len(s) : y = s[j] /\ j # k
    BY <1>1, <1>6, <2>1
  <2>3. QED
    BY <1>1, <2>2 DEF Listed, IsInjective
<1>11. QED
  BY <1>5, <1>8, <1>9, <1>10 DEF t
-----------------------------------------------------------------------------
\* How a step moves queries between places.

LEMMA RotatedIndex ==
    ASSUME NEW n \in Nat, NEW k \in 1..n, NEW i \in 1..(n - 1), ~(i <= n - k)
    PROVE  i - (n - k) \in 1..(k - 1) /\ i - (n - k) \in (1..n) \ {k}
  OBVIOUS

LEMMA RotatedBack ==
    ASSUME NEW n \in Nat, NEW k \in 1..n, NEW j \in 1..n, j # k
    PROVE  \E i \in 1..(n - 1) : j = IF i <= n - k THEN k + i ELSE i - (n - k)
<1>1. CASE j > k
  <2>1. j - k \in 1..(n - 1) /\ j - k <= n - k /\ j = k + (j - k)
    BY <1>1
  <2>2. QED
    BY <2>1
<1>2. CASE j < k
  <2>1. j + (n - k) \in 1..(n - 1) /\ ~(j + (n - k) <= n - k) /\ j = (j + (n - k)) - (n - k)
    BY <1>2
  <2>2. QED
    BY <2>1
<1>3. QED
  BY <1>1, <1>2

\* What follows and what precedes a place of a list.
LEMMA ListRest ==
    ASSUME NEW S, NEW s \in Seq(S), NEW k \in DOMAIN s
    PROVE  /\ SubSeq(s, k + 1, Len(s)) \in Seq(S) /\ Len(SubSeq(s, k + 1, Len(s))) = Len(s) - k
           /\ \A i \in 1..(Len(s) - k) : SubSeq(s, k + 1, Len(s))[i] = s[k + i]
<1> DEFINE a == SubSeq(s, k + 1, Len(s))
<1>1. Len(s) \in Nat /\ k \in 1..Len(s) /\ \A i \in 1..Len(s) : s[i] \in S
  BY LenProperties
<1>2. /\ k + 1 \in Int /\ Len(s) \in Int /\ \A i \in (k + 1)..Len(s) : s[i] \in S
  BY <1>1
<1>3. /\ a \in Seq(S) /\ Len(a) = IF k + 1 <= Len(s) THEN Len(s) - (k + 1) + 1 ELSE 0
      /\ \A i \in 1..(Len(s) - (k + 1) + 1) : a[i] = s[(k + 1) + i - 1]
  BY <1>2, SubSeqProperties
<1> HIDE DEF a
<1>4. Len(s) - (k + 1) + 1 = Len(s) - k /\ ~(k + 1 <= Len(s)) => Len(s) - k = 0
  BY <1>1
<1>5. \A i \in 1..(Len(s) - k) : (k + 1) + i - 1 = k + i
  BY <1>1
<1>6. ASSUME NEW i \in 1..(Len(s) - k) PROVE a[i] = s[k + i]
  <2>1. i \in 1..(Len(s) - (k + 1) + 1)
    BY <1>4
  <2>2. a[i] = s[(k + 1) + i - 1]
    BY <1>3, <2>1
  <2>3. (k + 1) + i - 1 = k + i
    BY <1>5
  <2>4. QED
    BY <2>2, <2>3, Zenon
<1>7. Len(a) = Len(s) - k
  BY <1>1, <1>3
<1>8. QED
  BY <1>3, <1>6, <1>7 DEF a

LEMMA ListFront ==
    ASSUME NEW S, NEW s \in Seq(S), NEW k \in DOMAIN s
    PROVE  /\ SubSeq(s, 1, k - 1) \in Seq(S) /\ Len(SubSeq(s, 1, k - 1)) = k - 1
           /\ \A i \in 1..(k - 1) : SubSeq(s, 1, k - 1)[i] = s[i]
<1> DEFINE b == SubSeq(s, 1, k - 1)
<1>1. Len(s) \in Nat /\ k \in 1..Len(s) /\ \A i \in 1..Len(s) : s[i] \in S
  BY LenProperties
<1>2. 1 \in Int /\ k - 1 \in Int /\ \A i \in 1..(k - 1) : s[i] \in S
  BY <1>1
<1>3. /\ b \in Seq(S) /\ Len(b) = IF 1 <= k - 1 THEN (k - 1) - 1 + 1 ELSE 0
      /\ \A i \in 1..((k - 1) - 1 + 1) : b[i] = s[1 + i - 1]
  BY <1>2, SubSeqProperties
<1> HIDE DEF b
<1>4. (k - 1) - 1 + 1 = k - 1 /\ \A i \in 1..(k - 1) : 1 + i - 1 = i
  BY <1>1
<1>5. \A i \in 1..(k - 1) : b[i] = s[i]
  BY <1>3, <1>4
<1>6. Len(b) = k - 1
  BY <1>1, <1>3
<1>7. QED
  BY <1>3, <1>5, <1>6 DEF b

LEMMA ListRotate ==
    ASSUME NEW S, NEW s \in Seq(S), IsInjective(s), NEW k \in DOMAIN s, NEW t,
           t = SubSeq(s, k + 1, Len(s)) \o SubSeq(s, 1, k - 1)
    PROVE  t \in Seq(S) /\ IsInjective(t) /\ Listed(t) = Listed(s) \ {s[k]}
<1> DEFINE a == SubSeq(s, k + 1, Len(s))
           b == SubSeq(s, 1, k - 1)
           at(i) == IF i <= Len(s) - k THEN k + i ELSE i - (Len(s) - k)
<1>1. Len(s) \in Nat /\ DOMAIN s = 1..Len(s) /\ k \in 1..Len(s) /\ \A i \in 1..Len(s) : s[i] \in S
  BY LenProperties
<1>2. /\ a \in Seq(S) /\ Len(a) = Len(s) - k
      /\ \A i \in 1..(Len(s) - k) : a[i] = s[k + i]
  BY ListRest, Zenon
<1>3. /\ b \in Seq(S) /\ Len(b) = k - 1
      /\ \A i \in 1..(k - 1) : b[i] = s[i]
  BY ListFront
<1> HIDE DEF a, b
<1>4. /\ t \in Seq(S) /\ Len(t) = Len(s) - 1
      /\ \A i \in 1..(Len(s) - 1) : t[i] = IF i <= Len(s) - k THEN a[i] ELSE b[i - (Len(s) - k)]
  <2>1. /\ a \o b \in Seq(S) /\ Len(a \o b) = Len(a) + Len(b)
        /\ \A i \in 1..(Len(a) + Len(b)) : (a \o b)[i] = IF i <= Len(a) THEN a[i] ELSE b[i - Len(a)]
    BY <1>2, <1>3, ConcatProperties
  <2>2. Len(a) + Len(b) = Len(s) - 1
    BY <1>1, <1>2, <1>3
  <2>3. t = a \o b
    BY DEF a, b
  <2>4. QED
    BY <1>2, <2>1, <2>2, <2>3
<1>5. DOMAIN t = 1..(Len(s) - 1)
  BY <1>4, LenProperties
<1>6. \A i \in 1..(Len(s) - 1) : at(i) \in (1..Len(s)) \ {k} /\ t[i] = s[at(i)]
  <2> SUFFICES ASSUME NEW i \in 1..(Len(s) - 1)
               PROVE  at(i) \in (1..Len(s)) \ {k} /\ t[i] = s[at(i)]
    OBVIOUS
  <2>1. CASE i <= Len(s) - k
    <3>1. i \in 1..(Len(s) - k) /\ k + i \in (1..Len(s)) \ {k} /\ at(i) = k + i
      BY <1>1, <2>1
    <3>2. QED
      BY <1>2, <1>4, <2>1, <3>1
  <2>2. CASE ~(i <= Len(s) - k)
    <3> DEFINE m == Len(s) - k
    <3>1. i - m \in 1..(k - 1) /\ i - m \in (1..Len(s)) \ {k}
      BY <1>1, <2>2, RotatedIndex
    <3>2. t[i] = b[i - m] /\ at(i) = i - m
      BY <1>4, <2>2
    <3> HIDE DEF m, at
    <3>3. QED
      BY <1>3, <3>1, <3>2
  <2>3. QED
    BY <1>1, <2>1, <2>2
<1>7. IsInjective(t)
  <2> SUFFICES ASSUME NEW i \in 1..(Len(s) - 1), NEW j \in 1..(Len(s) - 1), t[i] = t[j] PROVE i = j
    BY <1>5 DEF IsInjective
  <2>1. at(i) = at(j)
    <3>1. s[at(i)] = s[at(j)] /\ at(i) \in DOMAIN s /\ at(j) \in DOMAIN s
      BY <1>1, <1>6
    <3> HIDE DEF at
    <3>2. QED
      BY <3>1 DEF IsInjective
  <2>2. QED
    BY <1>1, <2>1
<1>8. ASSUME NEW y \in Listed(t) PROVE y \in Listed(s) /\ y # s[k]
  <2>1. PICK i \in 1..(Len(s) - 1) : y = t[i]
    BY <1>5, <1>8 DEF Listed
  <2>2. at(i) \in DOMAIN s /\ at(i) # k /\ y = s[at(i)]
    BY <1>1, <1>6, <2>1
  <2> HIDE DEF at
  <2>3. QED
    BY <2>2 DEF Listed, IsInjective
<1>9. ASSUME NEW y \in Listed(s), y # s[k] PROVE y \in Listed(t)
  <2>1. PICK j \in 1..Len(s) : y = s[j]
    BY <1>1, <1>9 DEF Listed
  <2>2. j # k
    BY <1>9, <2>1
  <2>3. PICK i \in 1..(Len(s) - 1) : j = IF i <= Len(s) - k THEN k + i ELSE i - (Len(s) - k)
    BY <1>1, <2>2, RotatedBack
  <2>4. t[i] = y
    BY <1>6, <2>1, <2>3
  <2> HIDE DEF at
  <2>5. QED
    BY <1>5, <2>3, <2>4 DEF Listed
<1>10. QED
  BY <1>4, <1>7, <1>8, <1>9

\* An entry that is used moves to the back.
LEMMA ListToBack ==
    ASSUME NEW S, NEW s \in Seq(S), IsInjective(s), NEW k \in DOMAIN s, NEW t,
           t = Append(RemoveAt(s, k), s[k])
    PROVE  t \in Seq(S) /\ IsInjective(t) /\ Listed(t) = Listed(s)
<1>1. s[k] \in S /\ s[k] \in Listed(s)
  BY LenProperties DEF Listed
<1>2. /\ RemoveAt(s, k) \in Seq(S) /\ IsInjective(RemoveAt(s, k))
      /\ Listed(RemoveAt(s, k)) = Listed(s) \ {s[k]}
  BY ListRemove
<1> DEFINE u == RemoveAt(s, k)
<1>3. u \in Seq(S) /\ IsInjective(u) /\ Listed(u) = Listed(s) \ {s[k]} /\ t = Append(u, s[k])
  BY <1>2
<1> HIDE DEF u
<1>4. s[k] \notin Listed(u)
  BY <1>3
<1>5. t \in Seq(S) /\ IsInjective(t) /\ Listed(t) = Listed(u) \cup {s[k]}
  BY <1>1, <1>3, <1>4, ListAppend
<1>6. QED
  BY <1>1, <1>3, <1>5

-----------------------------------------------------------------------------
\* Admission of queries.
\* The type invariant gives who waits, the counts tie the counter and the semaphore,
\* which change at different times, to where the queries are.
AdmissionInv == Admission!BoundsAssumption /\ Admission!TypeOK /\ Admission!SlotsCounted

\* Counting.

LEMMA CountUp ==
    ASSUME NEW S, IsFiniteSet(S), NEW x, x \notin S
    PROVE  IsFiniteSet(S \cup {x}) /\ Cardinality(S \cup {x}) = Cardinality(S) + 1
  BY FS_AddElement

LEMMA CountDown ==
    ASSUME NEW S, IsFiniteSet(S), NEW x \in S
    PROVE  /\ IsFiniteSet(S \ {x})
           /\ Cardinality(S \ {x}) = Cardinality(S) - 1
           /\ Cardinality(S) \in Nat /\ Cardinality(S) > 0
  BY FS_RemoveElement, FS_CardinalityType, FS_EmptySet

LEMMA PlacesFinite ==
    ASSUME Admission!BoundsAssumption, NEW S \in SUBSET Queries
    PROVE  IsFiniteSet(S) /\ Cardinality(S) \in Nat
  BY AdmissionOperators, FS_Subset, FS_CardinalityType DEF Admission!BoundsAssumption

Moved(q, place) ==
    /\ pc' \in [Queries -> Admission!Places]
    /\ pc'[q] = place /\ \A p \in Queries \ {q} : pc'[p] = pc[p]

LEMMA Moves ==
    ASSUME AdmissionInv, NEW q \in Queries, NEW place \in Admission!Places, Admission!Go(q, place)
    PROVE  Moved(q, place)
  BY DEF AdmissionInv, Admission!TypeOK, Admission!Go, Moved

\* The invariant of the next state, from the counts.
LEMMA Conclude ==
    ASSUME AdmissionInv, pc' \in [Queries -> Admission!Places], seen' \in [Queries -> 0..MaxQueued],
           queued' \in 0..MaxQueued, available' \in Nat,
           waiters' \in Seq(Queries), IsInjective(waiters'), Listed(waiters') = Admission!At("waiting")',
           available' + Cardinality(Admission!Permitted') = MaxActive,
           queued' = Cardinality(Admission!Guarded'),
           available' > 0 => waiters' = <<>>
    PROVE  AdmissionInv'
<1>1. Cardinality(Admission!Permitted') \in Nat
  BY PlacesFinite DEF Admission!Permitted, AdmissionInv
<1>2. available' \in 0..MaxActive
  BY <1>1 DEF AdmissionInv, Admission!BoundsAssumption
<1>3. Admission!TypeOK'
  BY <1>2, AdmissionOperators DEF Admission!TypeOK, Listed
<1>4. Admission!SlotsCounted'
  BY AdmissionOperators
  DEF Admission!SlotsCounted, Admission!PermitsConserved, Admission!QueueCounted, Admission!NoIdleSlot
<1>5. QED
  BY <1>3, <1>4 DEF AdmissionInv, Admission!BoundsAssumption

\* Release by a query that leaves the place from for to: the permit goes to the head of the
\* queue or becomes available.
LEMMA ReleaseStep ==
    ASSUME AdmissionInv, NEW q \in Queries, q \in Admission!Permitted,
           NEW to \in Admission!Places \ {"waiting", "granted", "taken", "active"},
           q \in Admission!Guarded <=> to \in {"entered", "leaving"},
           Admission!Release([pc EXCEPT ![q] = to]), UNCHANGED <<seen, queued>>
    PROVE  AdmissionInv' /\ Admission!InTurn
<1> DEFINE then == [pc EXCEPT ![q] = to]
<1>1. /\ pc \in [Queries -> Admission!Places] /\ seen \in [Queries -> 0..MaxQueued]
      /\ queued \in 0..MaxQueued /\ available \in 0..MaxActive /\ waiters \in Seq(Queries)
      /\ IsInjective(waiters) /\ Listed(waiters) = Admission!At("waiting")
      /\ available + Cardinality(Admission!Permitted) = MaxActive /\ queued = Cardinality(Admission!Guarded)
      /\ available > 0 => waiters = <<>>
      /\ MaxActive \in Nat
  BY AdmissionOperators
  DEF AdmissionInv, Admission!TypeOK, Admission!SlotsCounted, Admission!PermitsConserved,
      Admission!QueueCounted, Admission!NoIdleSlot, Admission!BoundsAssumption, Listed
<1>2. IsFiniteSet(Admission!Permitted) /\ Cardinality(Admission!Permitted) \in Nat
  BY PlacesFinite DEF AdmissionInv, Admission!Permitted
<1>3. /\ IsFiniteSet(Admission!Permitted \ {q})
      /\ Cardinality(Admission!Permitted \ {q}) = Cardinality(Admission!Permitted) - 1
  BY <1>2, CountDown
<1>4. /\ then \in [Queries -> Admission!Places] /\ then[q] = to
      /\ \A p \in Queries \ {q} : then[p] = pc[p]
  BY <1>1
<1> HIDE DEF then
<1>5. pc[q] \in {"granted", "taken", "active"}
  BY DEF Admission!Permitted
<1>6. CASE waiters = <<>>
  <2>1. available' = available + 1 /\ pc' = then /\ waiters' = waiters
    BY <1>6 DEF Admission!Release, then
  <2>2. /\ Admission!Permitted' = Admission!Permitted \ {q} /\ Admission!Guarded' = Admission!Guarded
        /\ Admission!At("waiting")' = Admission!At("waiting")
    BY <1>4, <1>5, <2>1 DEF Admission!Permitted, Admission!Guarded, Admission!At
  <2>3. available' + Cardinality(Admission!Permitted') = MaxActive
    BY <1>1, <1>2, <1>3, <2>1, <2>2
  <2>4. AdmissionInv'
    BY <1>1, <1>4, <1>6, <2>1, <2>2, <2>3, Conclude
  <2>5. Admission!InTurn
    BY <1>4, <2>1, <1>6 DEF Admission!InTurn, Admission!Permitted
  <2>6. QED
    BY <2>4, <2>5
<1>7. CASE waiters # <<>>
  <2> DEFINE h == Head(waiters)
  <2>1. /\ h \in Admission!At("waiting") /\ waiters' = Tail(waiters)
        /\ waiters' \in Seq(Queries) /\ IsInjective(waiters')
        /\ Listed(waiters') = Admission!At("waiting") \ {h}
    BY <1>1, <1>7, ListTail DEF Admission!Release
  <2>2. pc' = [then EXCEPT ![h] = "granted"] /\ available' = available
    BY <1>7 DEF Admission!Release, then
  <2> HIDE DEF h
  <2>3. h \in Queries /\ pc[h] = "waiting" /\ h # q
    BY <1>5, <2>1 DEF Admission!At
  <2>4. /\ pc' \in [Queries -> Admission!Places] /\ pc'[h] = "granted" /\ pc'[q] = to
        /\ \A p \in Queries \ {q, h} : pc'[p] = pc[p]
    BY <1>4, <2>2, <2>3 DEF Admission!Places
  <2>5. /\ Admission!Permitted' = (Admission!Permitted \ {q}) \cup {h} /\ h \notin Admission!Permitted \ {q}
        /\ Admission!Guarded' = Admission!Guarded
        /\ Admission!At("waiting")' = Admission!At("waiting") \ {h}
    BY <1>5, <2>3, <2>4 DEF Admission!Permitted, Admission!Guarded, Admission!At
  <2>6. available' + Cardinality(Admission!Permitted') = MaxActive
    <3>1. Cardinality(Admission!Permitted') = Cardinality(Admission!Permitted \ {q}) + 1
      BY <1>3, <2>5, CountUp
    <3>2. QED
      BY <1>1, <1>2, <1>3, <2>2, <3>1
  <2>7. available' = 0
    BY <1>1, <1>7, <2>2
  <2>8. AdmissionInv'
    <3>1. Listed(waiters') = Admission!At("waiting")'
      BY <2>1, <2>5
    <3>2. seen' \in [Queries -> 0..MaxQueued] /\ queued' \in 0..MaxQueued
      BY <1>1
    <3>3. queued' = Cardinality(Admission!Guarded')
      BY <1>1, <2>5
    <3>4. available' \in Nat /\ (available' > 0 => waiters' = <<>>)
      BY <2>7
    <3>5. QED
      BY <2>1, <2>4, <2>6, <3>1, <3>2, <3>3, <3>4, Conclude
  <2>9. Admission!InTurn
    BY <1>5, <2>3, <2>4 DEF Admission!InTurn, Admission!Permitted, h
  <2>10. QED
    BY <2>8, <2>9
<1>8. QED
  BY <1>6, <1>7

\* A step that moves one query and gives no permit back.
LEMMA MoveStep ==
    ASSUME AdmissionInv, NEW q \in Queries,
           \/ Admission!TryAcquire(q) \/ Admission!Load(q) \/ Admission!EnterQueue(q)
           \/ Admission!AcquireOwned(q) \/ Admission!Wake(q) \/ Admission!DropGuard(q)
           \/ Admission!GiveUp(q)
    PROVE  AdmissionInv' /\ Admission!InTurn
<1>1. /\ pc \in [Queries -> Admission!Places] /\ seen \in [Queries -> 0..MaxQueued]
      /\ queued \in 0..MaxQueued /\ available \in 0..MaxActive /\ waiters \in Seq(Queries)
      /\ IsInjective(waiters) /\ Listed(waiters) = Admission!At("waiting")
      /\ available + Cardinality(Admission!Permitted) = MaxActive /\ queued = Cardinality(Admission!Guarded)
      /\ available > 0 => waiters = <<>>
      /\ MaxActive \in Nat /\ MaxQueued \in Nat
  BY AdmissionOperators
  DEF AdmissionInv, Admission!TypeOK, Admission!SlotsCounted, Admission!PermitsConserved,
      Admission!QueueCounted, Admission!NoIdleSlot, Admission!BoundsAssumption, Listed
<1>2. /\ IsFiniteSet(Admission!Permitted) /\ Cardinality(Admission!Permitted) \in Nat
      /\ IsFiniteSet(Admission!Guarded) /\ Cardinality(Admission!Guarded) \in Nat
  BY PlacesFinite DEF AdmissionInv, Admission!Permitted, Admission!Guarded
<1> USE DEF Moved
<1>4. CASE Admission!TryAcquire(q) /\ available > 0
  <2>1. /\ pc[q] = "out" /\ Admission!Go(q, "active") /\ available' = available - 1
        /\ UNCHANGED <<seen, queued, waiters>>
    BY <1>1, <1>4 DEF Admission!TryAcquire
  <2>2. Moved(q, "active")
    BY <2>1, Moves DEF Admission!Places
  <2>3. /\ Admission!Permitted' = Admission!Permitted \cup {q} /\ q \notin Admission!Permitted
        /\ Admission!Guarded' = Admission!Guarded /\ Admission!At("waiting")' = Admission!At("waiting")
    BY <2>1, <2>2 DEF Admission!Permitted, Admission!Guarded, Admission!At
  <2>4. available' + Cardinality(Admission!Permitted') = MaxActive /\ available' \in Nat
    <3>1. Cardinality(Admission!Permitted') = Cardinality(Admission!Permitted) + 1
      BY <1>2, <2>3, CountUp
    <3>2. QED
      BY <1>1, <1>2, <1>4, <2>1, <3>1
  <2>5. AdmissionInv'
    BY <1>1, <1>4, <2>1, <2>2, <2>3, <2>4, Conclude
  <2>6. Admission!InTurn
    BY <1>1, <1>4, <2>1, <2>2 DEF Admission!InTurn
  <2>7. QED
    BY <2>5, <2>6
<1>5. CASE (Admission!TryAcquire(q) /\ ~(available > 0)) \/ Admission!Load(q)
  <2>1. PICK place \in {"loading", "swapping"} : Admission!Go(q, place)
    BY <1>5 DEF Admission!TryAcquire, Admission!Load
  <2>2. /\ pc[q] \in {"out", "loading"} /\ UNCHANGED <<queued, available, waiters>>
        /\ seen' \in [Queries -> 0..MaxQueued]
    BY <1>1, <1>5 DEF Admission!TryAcquire, Admission!Load
  <2>3. Moved(q, place)
    BY <2>1, Moves DEF Admission!Places
  <2>4. /\ Admission!Permitted' = Admission!Permitted /\ Admission!Guarded' = Admission!Guarded
        /\ Admission!At("waiting")' = Admission!At("waiting")
    BY <2>2, <2>3 DEF Admission!Permitted, Admission!Guarded, Admission!At
  <2>5. AdmissionInv'
    BY <1>1, <2>2, <2>3, <2>4, Conclude
  <2>6. Admission!InTurn
    BY <2>2, <2>3, <2>4 DEF Admission!InTurn
  <2>7. QED
    BY <2>5, <2>6
<1>6. CASE Admission!EnterQueue(q)
  <2>1. pc[q] = "swapping" /\ UNCHANGED <<available, waiters>>
    BY <1>6 DEF Admission!EnterQueue
  <2>2. CASE Admission!Go(q, "out") /\ UNCHANGED <<seen, queued>>
    <3>1. Moved(q, "out")
      BY <2>2, Moves DEF Admission!Places
    <3>2. /\ Admission!Permitted' = Admission!Permitted /\ Admission!Guarded' = Admission!Guarded
          /\ Admission!At("waiting")' = Admission!At("waiting")
      BY <2>1, <3>1 DEF Admission!Permitted, Admission!Guarded, Admission!At
    <3>3. QED
      BY <1>1, <2>1, <2>2, <3>1, <3>2, Conclude DEF Admission!InTurn
  <2>3. CASE /\ seen[q] < MaxQueued /\ seen[q] = queued /\ queued' = queued + 1
             /\ Admission!Go(q, "entered") /\ UNCHANGED seen
    <3>1. Moved(q, "entered")
      BY <2>3, Moves DEF Admission!Places
    <3>2. /\ Admission!Permitted' = Admission!Permitted /\ Admission!At("waiting")' = Admission!At("waiting")
          /\ Admission!Guarded' = Admission!Guarded \cup {q} /\ q \notin Admission!Guarded
      BY <2>1, <3>1 DEF Admission!Permitted, Admission!Guarded, Admission!At
    <3>3. queued' = Cardinality(Admission!Guarded') /\ queued' \in 0..MaxQueued
      BY <1>1, <1>2, <2>3, <3>2, CountUp
    <3>4. AdmissionInv'
      BY <1>1, <2>1, <2>3, <3>1, <3>2, <3>3, Conclude
    <3>5. Admission!InTurn
      BY <2>1, <3>1, <3>2 DEF Admission!InTurn
    <3>6. QED
      BY <3>4, <3>5
  <2>4. CASE seen' = [seen EXCEPT ![q] = queued] /\ UNCHANGED <<pc, queued>>
    <3>1. /\ Admission!Permitted' = Admission!Permitted /\ Admission!Guarded' = Admission!Guarded
          /\ Admission!At("waiting")' = Admission!At("waiting")
      BY <2>4 DEF Admission!Permitted, Admission!Guarded, Admission!At
    <3>2. seen' \in [Queries -> 0..MaxQueued]
      BY <1>1, <2>4
    <3>3. QED
      BY <1>1, <2>1, <2>4, <3>1, <3>2, Conclude DEF Admission!InTurn
  <2>5. QED
    BY <1>6, <2>2, <2>3, <2>4 DEF Admission!EnterQueue
<1>7. CASE Admission!AcquireOwned(q) /\ available > 0
  <2>1. /\ pc[q] = "entered" /\ Admission!Go(q, "taken") /\ available' = available - 1
        /\ UNCHANGED <<seen, queued, waiters>>
    BY <1>1, <1>7 DEF Admission!AcquireOwned
  <2>2. Moved(q, "taken")
    BY <2>1, Moves DEF Admission!Places
  <2>3. /\ Admission!Permitted' = Admission!Permitted \cup {q} /\ q \notin Admission!Permitted
        /\ Admission!Guarded' = Admission!Guarded /\ Admission!At("waiting")' = Admission!At("waiting")
    BY <2>1, <2>2 DEF Admission!Permitted, Admission!Guarded, Admission!At
  <2>4. available' + Cardinality(Admission!Permitted') = MaxActive /\ available' \in Nat
    <3>1. Cardinality(Admission!Permitted') = Cardinality(Admission!Permitted) + 1
      BY <1>2, <2>3, CountUp
    <3>2. QED
      BY <1>1, <1>2, <1>7, <2>1, <3>1
  <2>5. AdmissionInv'
    BY <1>1, <1>7, <2>1, <2>2, <2>3, <2>4, Conclude
  <2>6. Admission!InTurn
    BY <1>1, <1>7, <2>1, <2>2 DEF Admission!InTurn
  <2>7. QED
    BY <2>5, <2>6
<1>8. CASE Admission!AcquireOwned(q) /\ ~(available > 0)
  <2>1. /\ pc[q] = "entered" /\ Admission!Go(q, "waiting") /\ waiters' = Append(waiters, q) /\ available = 0
        /\ UNCHANGED <<seen, queued, available>>
    BY <1>1, <1>8 DEF Admission!AcquireOwned
  <2>2. Moved(q, "waiting")
    BY <2>1, Moves DEF Admission!Places
  <2>3. /\ Admission!Permitted' = Admission!Permitted /\ Admission!Guarded' = Admission!Guarded
        /\ Admission!At("waiting")' = Admission!At("waiting") \cup {q} /\ q \notin Admission!At("waiting")
    BY <2>1, <2>2 DEF Admission!Permitted, Admission!Guarded, Admission!At
  <2>4. /\ waiters' \in Seq(Queries) /\ IsInjective(waiters')
        /\ Listed(waiters') = Admission!At("waiting") \cup {q}
    BY <1>1, <2>1, <2>3, ListAppend
  <2>5. QED
    BY <1>1, <2>1, <2>2, <2>3, <2>4, Conclude DEF Admission!InTurn
<1>9. CASE Admission!Wake(q)
  <2>1. pc[q] = "granted" /\ Admission!Go(q, "taken") /\ UNCHANGED <<seen, queued, available, waiters>>
    BY <1>9 DEF Admission!Wake
  <2>2. Moved(q, "taken")
    BY <2>1, Moves DEF Admission!Places
  <2>3. /\ Admission!Permitted' = Admission!Permitted /\ Admission!Guarded' = Admission!Guarded
        /\ Admission!At("waiting")' = Admission!At("waiting")
    BY <2>1, <2>2 DEF Admission!Permitted, Admission!Guarded, Admission!At
  <2>4. QED
    BY <1>1, <2>1, <2>2, <2>3, Conclude DEF Admission!InTurn
<1>10. CASE Admission!DropGuard(q)
  <2>1. PICK place \in {"active", "out"} : Admission!Go(q, place) /\ (place = "active" <=> pc[q] = "taken")
    BY <1>10 DEF Admission!DropGuard
  <2>2. pc[q] \in {"taken", "leaving"} /\ queued' = queued - 1 /\ UNCHANGED <<seen, available, waiters>>
    BY <1>10 DEF Admission!DropGuard
  <2>3. Moved(q, place)
    BY <2>1, Moves DEF Admission!Places
  <2>4. /\ Admission!Permitted' = Admission!Permitted /\ Admission!At("waiting")' = Admission!At("waiting")
        /\ Admission!Guarded' = Admission!Guarded \ {q} /\ q \in Admission!Guarded
    BY <2>1, <2>2, <2>3 DEF Admission!Permitted, Admission!Guarded, Admission!At
  <2>5. queued' = Cardinality(Admission!Guarded') /\ queued' \in 0..MaxQueued
    <3>1. Cardinality(Admission!Guarded') = Cardinality(Admission!Guarded) - 1 /\ Cardinality(Admission!Guarded) > 0
      BY <1>2, <2>4, CountDown
    <3>2. QED
      BY <1>1, <1>2, <2>2, <3>1
  <2>6. AdmissionInv'
    BY <1>1, <2>2, <2>3, <2>4, <2>5, Conclude
  <2>7. Admission!InTurn
    BY <2>2, <2>3, <2>4 DEF Admission!InTurn
  <2>8. QED
    BY <2>6, <2>7
<1>11. CASE Admission!GiveUp(q)
  <2>1. pc[q] = "waiting" /\ Admission!Go(q, "leaving") /\ UNCHANGED <<seen, queued, available>>
    BY <1>11 DEF Admission!GiveUp
  <2>2. PICK k \in DOMAIN waiters : waiters[k] = q /\ waiters' = RemoveAt(waiters, k)
    BY <1>11, AdmissionOperators DEF Admission!GiveUp
  <2>3. Moved(q, "leaving")
    BY <2>1, Moves DEF Admission!Places
  <2>4. /\ Admission!Permitted' = Admission!Permitted /\ Admission!Guarded' = Admission!Guarded
        /\ Admission!At("waiting")' = Admission!At("waiting") \ {q}
    BY <2>1, <2>3 DEF Admission!Permitted, Admission!Guarded, Admission!At
  <2>5. /\ waiters' \in Seq(Queries) /\ IsInjective(waiters')
        /\ Listed(waiters') = Admission!At("waiting") \ {q}
    BY <1>1, <2>2, ListRemove
  <2>6. waiters # <<>>
    BY <2>2
  <2>7. available' > 0 => waiters' = <<>>
    BY <1>1, <2>1, <2>6
  <2>8. Listed(waiters') = Admission!At("waiting")' /\ seen' \in [Queries -> 0..MaxQueued]
    BY <1>1, <2>1, <2>4, <2>5
  <2>9. AdmissionInv'
    BY <1>1, <2>1, <2>3, <2>4, <2>5, <2>7, <2>8, Conclude
  <2>10. Admission!InTurn
    BY <2>1, <2>3, <2>4 DEF Admission!InTurn
  <2>11. QED
    BY <2>9, <2>10
<1>12. QED
  BY <1>4, <1>5, <1>6, <1>7, <1>8, <1>9, <1>10, <1>11

LEMMA AdmissionInitInv == Admission!BoundsAssumption /\ Admission!Init => AdmissionInv
<1> SUFFICES ASSUME Admission!BoundsAssumption, Admission!Init PROVE AdmissionInv
  OBVIOUS
<1>1. Admission!Permitted = {} /\ Admission!Guarded = {} /\ Admission!At("waiting") = {}
  BY DEF Admission!Init, Admission!Permitted, Admission!Guarded, Admission!At
<1>2. Admission!TypeOK
  <2>1. waiters \in Seq(Queries) /\ DOMAIN waiters = {}
    BY EmptySeq DEF Admission!Init
  <2>2. QED
    BY <1>1, <2>1, AdmissionOperators
    DEF Admission!Init, Admission!TypeOK, Admission!BoundsAssumption, Admission!Places, IsInjective
<1>3. Admission!SlotsCounted
  BY <1>1, FS_EmptySet, AdmissionOperators
  DEF Admission!Init, Admission!SlotsCounted, Admission!PermitsConserved, Admission!QueueCounted, Admission!NoIdleSlot,
     Admission!BoundsAssumption
<1>4. QED
  BY <1>2, <1>3 DEF AdmissionInv
LEMMA AdmissionSteps ==
    ASSUME AdmissionInv, Admission!Next
    PROVE  AdmissionInv' /\ Admission!InTurn
<1>1. ASSUME NEW q \in Queries, Admission!Dropped(q) PROVE AdmissionInv' /\ Admission!InTurn
  BY <1>1, ReleaseStep
  DEF Admission!Dropped, Admission!Permitted, Admission!Guarded, Admission!Places
<1>2. ASSUME NEW q \in Queries, Admission!Finish(q) PROVE AdmissionInv' /\ Admission!InTurn
  BY <1>2, ReleaseStep
  DEF Admission!Finish, Admission!Permitted, Admission!Guarded, Admission!Places
<1>3. QED
  BY <1>1, <1>2, MoveStep DEF Admission!Next, Admission!Step

LEMMA AdmissionStutter ==
    ASSUME AdmissionInv, UNCHANGED admission
    PROVE  AdmissionInv'
  BY DEF admission, AdmissionInv, Admission!TypeOK, Admission!SlotsCounted, Admission!PermitsConserved,
         Admission!QueueCounted, Admission!NoIdleSlot, Admission!Permitted, Admission!Guarded,
         Admission!At, Admission!BoundsAssumption

-----------------------------------------------------------------------------
\* Sums over the buffers, by induction on their number.
LEMMA SetInduction ==
    ASSUME NEW S, 0 \in S, \A n \in Nat : n \in S => n + 1 \in S
    PROVE  Nat \subseteq S
<1> DEFINE T == Nat \ S
           R == OpToRel(<, Nat)
<1>1. SUFFICES ASSUME T # {} PROVE FALSE
  OBVIOUS
<1>2. IsWellFoundedOn(R, Nat)
  BY NatLessThanWellFounded
<1>3. T \subseteq Nat
  OBVIOUS
<1>4. PICK x \in T : \A y \in T : ~ (<<y, x>> \in R)
  <2> HIDE DEF T, R
  <2> QED BY <1>1, <1>2, <1>3, WFMin
<1>5. x \in Nat /\ x # 0 /\ x - 1 \in Nat /\ x - 1 < x
  OBVIOUS
<1>6. <<x - 1, x>> \in R
  BY <1>5 DEF OpToRel
<1>7. x - 1 \notin T
  <2> HIDE DEF T, R
  <2> QED BY <1>4, <1>6
<1> HIDE DEF R
<1> QED BY <1>5, <1>7

\* f is the sequence of the partial sums of w.
IsSums(w, f) == /\ f \in [0..MaxBuffers -> Nat] /\ f[0] = 0
                /\ \A k \in Cache!Buffers : f[k] = f[k - 1] + w[k]
Weights == [Cache!Buffers -> Nat]

LEMMA SumsExist ==
    ASSUME MaxBuffers \in Nat, NEW w \in Weights
    PROVE  \E f : IsSums(w, f)
<1> DEFINE Upto(n) == \E f \in [0..n -> Nat] : f[0] = 0 /\ \A k \in 1..n : f[k] = f[k - 1] + w[k]
           Good == {n \in Nat : n <= MaxBuffers => Upto(n)}
<1>1. Upto(0)
  <2> DEFINE z == [k \in 0..0 |-> 0]
  <2>1. z \in [0..0 -> Nat] /\ z[0] = 0 /\ \A k \in 1..0 : FALSE
    OBVIOUS
  <2> HIDE DEF z
  <2>2. QED
    BY <2>1
<1>2. ASSUME NEW n \in Nat, n + 1 <= MaxBuffers, Upto(n) PROVE Upto(n + 1)
  <2>1. PICK f \in [0..n -> Nat] : f[0] = 0 /\ \A k \in 1..n : f[k] = f[k - 1] + w[k]
    BY <1>2
  <2> DEFINE g == [k \in 0..(n + 1) |-> IF k = n + 1 THEN f[n] + w[n + 1] ELSE f[k]]
  <2>2. w[n + 1] \in Nat /\ f[n] \in Nat
    BY <1>2 DEF Weights, Cache!Buffers
  <2>3. g \in [0..(n + 1) -> Nat]
    BY <2>2
  <2>4. g[0] = 0 /\ \A k \in 1..(n + 1) : g[k] = g[k - 1] + w[k]
    BY <2>1, <2>2
  <2> HIDE DEF g
  <2>5. QED
    BY <2>3, <2>4
<1> HIDE DEF Upto
<1>3. 0 \in Good
  BY <1>1
<1>4. \A n \in Nat : n \in Good => n + 1 \in Good
  BY <1>2
<1> HIDE DEF Good
<1>5. Nat \subseteq Good
  BY <1>3, <1>4, SetInduction
<1>6. Upto(MaxBuffers)
  BY <1>5 DEF Good
<1>7. QED
  BY <1>6 DEF Upto, IsSums, Cache!Buffers

\* Two sequences that start and go on together are one.
LEMMA SumsAgree ==
    ASSUME MaxBuffers \in Nat, NEW f, NEW g, f[0] = g[0],
           \A k \in Cache!Buffers : f[k - 1] = g[k - 1] => f[k] = g[k]
    PROVE  \A n \in 0..MaxBuffers : f[n] = g[n]
<1> DEFINE Good == {n \in Nat : n <= MaxBuffers => f[n] = g[n]}
<1>1. 0 \in Good
  OBVIOUS
<1>2. ASSUME NEW n \in Nat, n \in Good, n + 1 <= MaxBuffers PROVE f[n + 1] = g[n + 1]
  <2>1. n + 1 \in Cache!Buffers /\ (n + 1) - 1 = n /\ f[n] = g[n]
    BY <1>2 DEF Cache!Buffers
  <2>2. QED
    BY <2>1
<1>3. \A n \in Nat : n \in Good => n + 1 \in Good
  BY <1>2
<1> HIDE DEF Good
<1>4. Nat \subseteq Good
  BY <1>1, <1>3, SetInduction
<1>5. QED
  BY <1>4 DEF Good

LEMMA TotalIs ==
    ASSUME MaxBuffers \in Nat, NEW w \in Weights, NEW f, IsSums(w, f)
    PROVE  Cache!Total(w) = f[MaxBuffers]
<1> DEFINE Eq(g) == g = [n \in 0..MaxBuffers |-> IF n = 0 THEN 0 ELSE g[n - 1] + w[n]]
           h == CHOOSE g : Eq(g)
<1>1. Eq(f)
  <2>1. f = [n \in 0..MaxBuffers |-> f[n]]
    BY DEF IsSums
  <2>2. ASSUME NEW n \in 0..MaxBuffers PROVE f[n] = IF n = 0 THEN 0 ELSE f[n - 1] + w[n]
    <3>1. n = 0 \/ n \in Cache!Buffers
      BY DEF Cache!Buffers
    <3>2. n \in Cache!Buffers => n # 0
      BY DEF Cache!Buffers
    <3>3. QED
      BY <3>1, <3>2 DEF IsSums
  <2>3. QED
    BY <2>1, <2>2
<1>2. Cache!Total(w) = h[MaxBuffers]
  BY DEF Cache!Total
<1> HIDE DEF Eq
<1>3. Eq(h)
  BY <1>1
<1> HIDE DEF h
<1>4. \A n \in 0..MaxBuffers : h[n] = IF n = 0 THEN 0 ELSE h[n - 1] + w[n]
  BY <1>3 DEF Eq
<1>5. h[0] = f[0] /\ \A k \in Cache!Buffers : h[k - 1] = f[k - 1] => h[k] = f[k]
  BY <1>4 DEF IsSums, Cache!Buffers
<1>6. \A n \in 0..MaxBuffers : h[n] = f[n]
  BY <1>5, SumsAgree
<1>7. QED
  BY <1>2, <1>6

LEMMA TotalType ==
    ASSUME MaxBuffers \in Nat, NEW w \in Weights
    PROVE  Cache!Total(w) \in Nat
  BY SumsExist, TotalIs DEF IsSums

\* The sum of a sum of weights.
LEMMA TotalAdd ==
    ASSUME MaxBuffers \in Nat, NEW u \in Weights, NEW v \in Weights, NEW w \in Weights,
           \A n \in Cache!Buffers : w[n] = u[n] + v[n]
    PROVE  Cache!Total(w) = Cache!Total(u) + Cache!Total(v)
<1>1. PICK f : IsSums(u, f)
  BY SumsExist
<1>2. PICK g : IsSums(v, g)
  BY SumsExist
<1> DEFINE h == [n \in 0..MaxBuffers |-> f[n] + g[n]]
<1>3. IsSums(w, h)
  <2>1. h \in [0..MaxBuffers -> Nat] /\ h[0] = 0
    BY <1>1, <1>2 DEF IsSums
  <2>2. ASSUME NEW k \in Cache!Buffers PROVE h[k] = h[k - 1] + w[k]
    <3>1. k \in 0..MaxBuffers /\ k - 1 \in 0..MaxBuffers
      BY DEF Cache!Buffers
    <3>2. /\ f[k] = f[k - 1] + u[k] /\ g[k] = g[k - 1] + v[k] /\ w[k] = u[k] + v[k]
          /\ f[k - 1] \in Nat /\ g[k - 1] \in Nat /\ u[k] \in Nat /\ v[k] \in Nat
      BY <1>1, <1>2, <3>1 DEF IsSums, Weights
    <3>3. QED
      BY <3>1, <3>2
  <2> HIDE DEF h
  <2>3. QED
    BY <2>1, <2>2 DEF IsSums
<1>4. Cache!Total(u) = f[MaxBuffers] /\ Cache!Total(v) = g[MaxBuffers] /\ Cache!Total(w) = h[MaxBuffers]
  <2> HIDE DEF h
  <2> QED BY <1>1, <1>2, <1>3, TotalIs
<1>5. QED
  BY <1>4

\* The sum when one buffer has a weight.
LEMMA TotalPoint ==
    ASSUME MaxBuffers \in Nat, NEW i \in Cache!Buffers, NEW c \in Nat
    PROVE  Cache!Total([n \in Cache!Buffers |-> IF n = i THEN c ELSE 0]) = c
<1> DEFINE w == [n \in Cache!Buffers |-> IF n = i THEN c ELSE 0]
           f == [n \in 0..MaxBuffers |-> IF n >= i THEN c ELSE 0]
<1>1. w \in Weights
  BY DEF Weights
<1>2. IsSums(w, f)
  BY DEF IsSums, Cache!Buffers
<1>3. f[MaxBuffers] = c
  BY DEF Cache!Buffers
<1> HIDE DEF w, f
<1>4. QED
  BY <1>1, <1>2, <1>3, TotalIs DEF w

\* What the buffers of ids are charged for when they hold the pages of key.
Charges(ids, key) == [id \in Cache!Buffers |-> IF id \in ids THEN Charge[key[id]] ELSE 0]
BytesOf(ids, key) == Cache!Total(Charges(ids, key))
Charged(ids, key) == ids \subseteq Cache!Buffers /\ \A id \in ids : key[id] \in Keys

LEMMA ChargesType ==
    ASSUME Cache!ChargeAssumption, NEW ids, NEW key, Charged(ids, key)
    PROVE  Charges(ids, key) \in Weights /\ BytesOf(ids, key) \in Nat
<1>1. Charges(ids, key) \in Weights
  BY DEF Charges, Charged, Weights, Cache!ChargeAssumption
<1>2. QED
  BY <1>1, TotalType DEF BytesOf, Cache!ChargeAssumption

LEMMA BytesSame ==
    ASSUME NEW ids, NEW key, NEW other, \A id \in ids : other[id] = key[id]
    PROVE  BytesOf(ids, other) = BytesOf(ids, key)
<1>1. Charges(ids, other) = Charges(ids, key)
  BY DEF Charges
<1>2. QED
  BY <1>1 DEF BytesOf

LEMMA BytesSplit ==
    ASSUME Cache!ChargeAssumption, NEW key, NEW ids, NEW part, part \subseteq ids, Charged(ids, key)
    PROVE  /\ BytesOf(ids, key) = BytesOf(part, key) + BytesOf(ids \ part, key)
           /\ BytesOf(part, key) \in Nat /\ BytesOf(ids \ part, key) \in Nat
<1>1. Charged(part, key) /\ Charged(ids \ part, key)
  BY DEF Charged
<1>2. /\ Charges(ids, key) \in Weights /\ Charges(part, key) \in Weights
      /\ Charges(ids \ part, key) \in Weights
      /\ BytesOf(part, key) \in Nat /\ BytesOf(ids \ part, key) \in Nat
  BY <1>1, ChargesType
<1>3. ASSUME NEW id \in Cache!Buffers
      PROVE  Charges(ids, key)[id] = Charges(part, key)[id] + Charges(ids \ part, key)[id]
  <2>1. id \in ids => Charge[key[id]] \in Nat
    BY DEF Charged, Cache!ChargeAssumption
  <2>2. QED
    BY <2>1 DEF Charges
<1>4. QED
  BY <1>2, <1>3, TotalAdd DEF BytesOf, Cache!ChargeAssumption

LEMMA BytesOne ==
    ASSUME Cache!ChargeAssumption, NEW key, NEW i \in Cache!Buffers, key[i] \in Keys
    PROVE  BytesOf({i}, key) = Charge[key[i]] /\ Charge[key[i]] \in Nat /\ Charge[key[i]] > 0
<1> DEFINE c == Charge[key[i]]
<1>1. c \in Nat /\ c > 0
  BY DEF Cache!ChargeAssumption
<1>2. Charges({i}, key) = [n \in Cache!Buffers |-> IF n = i THEN c ELSE 0]
  BY DEF Charges
<1> HIDE DEF c
<1>3. BytesOf({i}, key) = c
  BY <1>1, <1>2, TotalPoint DEF BytesOf, Cache!ChargeAssumption
<1>4. QED
  BY <1>1, <1>3 DEF c

LEMMA BytesNone ==
    ASSUME Cache!ChargeAssumption, NEW key
    PROVE  BytesOf({}, key) = 0
<1>1. Charged({}, key) /\ {} \ {} = {} /\ {} \subseteq {}
  BY DEF Charged
<1>2. /\ BytesOf({}, key) = BytesOf({}, key) + BytesOf({} \ {}, key)
      /\ BytesOf({}, key) \in Nat
  BY <1>1, BytesSplit
<1>3. BytesOf({} \ {}, key) = BytesOf({}, key)
  BY <1>1, Zenon
<1> DEFINE b == BytesOf({}, key)
<1>4. b = b + b /\ b \in Nat
  BY <1>2, <1>3
<1> HIDE DEF b
<1>5. b = 0
  BY <1>4
<1>6. QED
  BY <1>5 DEF b

LEMMA LeastExists ==
    ASSUME NEW S, S \subseteq Nat, S # {}
    PROVE  Min(S) \in S
<1> DEFINE R == OpToRel(<, Nat)
<1>1. IsWellFoundedOn(R, Nat)
  BY NatLessThanWellFounded
<1>2. PICK x \in S : \A y \in S : ~ (<<y, x>> \in R)
  <2> HIDE DEF R
  <2> QED
    BY <1>1, WFMin
<1>3. ASSUME NEW y \in S PROVE x <= y
  <2>1. <<y, x>> \notin R
    <3> HIDE DEF R
    <3> QED
      BY <1>2
  <2>2. ~(y < x)
    BY <2>1 DEF OpToRel
  <2> HIDE DEF R
  <2>3. QED
    BY <2>2
<1> HIDE DEF R
<1>4. QED
  BY <1>3 DEF Min

-----------------------------------------------------------------------------
\* The page cache.
\* The strengthening of what is checked.  What a reader has is what its buffer holds; the
\* reader that inserts under the mutex has a page to insert, and nobody inserts its key
\* before it; a page belongs to a buffer as long as it is in the map or a reader has it.
Used(key) == {id \in Cache!Buffers : key[id] # "free"}
Keeps(r, id) == hold[r].how \in {"page", "slice"} /\ hold[r].id = id
CacheTypes ==
    /\ entries \in Seq(Cache!Buffers) /\ IsInjective(entries)
    /\ keyOf \in [Cache!Buffers -> Keys \cup {"free"}]
    /\ hold \in [Readers -> [how : {"none", "page", "slice", "own", "reading"},
                             id : Cache!Buffers \cup {0}, key : Keys \cup {"free"}]]
    /\ capacity \in Capacities /\ lock \in Readers \cup {"free", "resize"}
Holdings ==
    \A r \in Readers :
        /\ hold[r].how \in {"page", "slice"} => hold[r].id \in Cache!Buffers /\ keyOf[hold[r].id] = hold[r].key
        /\ hold[r].how \in {"page", "slice", "reading"} => hold[r].key \in Keys
Inserting ==
    lock \in Readers => /\ hold[lock].how = "reading"
                        /\ \A id \in Listed(entries) : keyOf[id] # hold[lock].key
References ==
    \A id \in Cache!Buffers : keyOf[id] # "free" <=> (id \in Listed(entries) \/ \E r \in Readers : Keeps(r, id))
OnePlace == \A i, j \in Listed(entries) : keyOf[i] = keyOf[j] => i = j
Sums == live = BytesOf(Used(keyOf), keyOf) /\ resident = BytesOf(Listed(entries), keyOf)
CacheInv == /\ Cache!ChargeAssumption /\ CacheTypes /\ Holdings /\ Inserting
            /\ References /\ OnePlace /\ Sums

LEMMA ListedIn ==
    ASSUME NEW S, NEW s \in Seq(S)
    PROVE  Listed(s) \subseteq S /\ \A n \in DOMAIN s : s[n] \in Listed(s)
  BY LenProperties DEF Listed

LEMMA CacheCharged ==
    ASSUME CacheInv
    PROVE  /\ Listed(entries) \subseteq Used(keyOf) /\ Charged(Used(keyOf), keyOf)
           /\ live \in Nat /\ resident \in Nat
<1>1. Listed(entries) \subseteq Cache!Buffers
  BY ListedIn DEF CacheInv, CacheTypes
<1>2. Listed(entries) \subseteq Used(keyOf)
  BY <1>1 DEF CacheInv, References, Used
<1>3. Charged(Used(keyOf), keyOf)
  BY DEF CacheInv, CacheTypes, Used, Charged
<1>4. Charged(Listed(entries), keyOf)
  BY <1>2, <1>3 DEF Charged
<1>5. QED
  BY <1>2, <1>3, <1>4, ChargesType DEF CacheInv, Sums

LEMMA CacheInvGives ==
    ASSUME CacheInv
    PROVE  Cache!TypeOK /\ Cache!Accounted /\ Cache!CanonicalPage
<1>1. live \in Nat /\ resident \in Nat
  BY CacheCharged
<1>2. \A id : Cache!Resident(id) <=> id \in Listed(entries)
  BY DEF Cache!Resident, Listed
<1>3. Cache!TypeOK
  BY <1>1, CacheOperators DEF CacheInv, CacheTypes, Inserting, Cache!TypeOK
<1>4. Listed(entries) \subseteq Cache!Buffers
  BY ListedIn DEF CacheInv, CacheTypes
<1>5. /\ {id \in Cache!Buffers : Cache!Resident(id)} = Listed(entries)
      /\ {id \in Cache!Buffers : keyOf[id] # "free"} = Used(keyOf)
  BY <1>2, <1>4 DEF Used
<1>6. ASSUME NEW ids PROVE Cache!Bytes(ids) = BytesOf(ids, keyOf)
  BY DEF Cache!Bytes, BytesOf, Charges
<1>7. /\ live = Cache!Bytes({id \in Cache!Buffers : keyOf[id] # "free"})
      /\ resident = Cache!Bytes({id \in Cache!Buffers : Cache!Resident(id)})
  BY <1>5, <1>6 DEF CacheInv, Sums
<1>8. \A id \in Cache!Buffers : (keyOf[id] # "free") <=> (Cache!Resident(id) \/ Cache!HeldBy(id, hold) # {})
  BY <1>2 DEF CacheInv, References, Keeps, Cache!HeldBy
<1>9. Cache!CanonicalPage
  <2> SUFFICES ASSUME NEW m \in DOMAIN entries, NEW n \in DOMAIN entries,
                      keyOf[entries[m]] = keyOf[entries[n]]
               PROVE  m = n
    BY DEF Cache!CanonicalPage
  <2>1. entries[m] = entries[n]
    BY DEF CacheInv, OnePlace, Listed
  <2>2. QED
    BY <2>1 DEF CacheInv, CacheTypes, IsInjective
<1>10. QED
  BY <1>3, <1>7, <1>8, <1>9 DEF Cache!Accounted

LEMMA CacheInitInv == Cache!ChargeAssumption /\ Cache!Init => CacheInv
<1> SUFFICES ASSUME Cache!ChargeAssumption, Cache!Init PROVE CacheInv
  OBVIOUS
<1>1. entries \in Seq(Cache!Buffers) /\ DOMAIN entries = {}
  BY EmptySeq DEF Cache!Init
<1>2. IsInjective(entries) /\ Listed(entries) = {}
  BY <1>1 DEF IsInjective, Listed
<1>3. CacheTypes
  BY <1>1, <1>2 DEF Cache!Init, CacheTypes, Cache!None
<1>4. Used(keyOf) = {}
  BY DEF Cache!Init, Used
<1>5. Sums
  BY <1>2, <1>4, BytesNone DEF Cache!Init, Sums
<1>6. "free" \notin Readers
  BY DEF Cache!ChargeAssumption
<1>7. Holdings /\ Inserting /\ References /\ OnePlace
  BY <1>2, <1>6 DEF Cache!Init, Cache!None, Holdings, Inserting, References, OnePlace, Keeps
<1>8. QED
  BY <1>3, <1>5, <1>7 DEF CacheInv

-----------------------------------------------------------------------------
\* The steps of the page cache.

Fair == Cache!AdmitsWithinCapacity /\ Cache!PinnedStay

LEMMA NothingLeaves ==
    ASSUME CacheInv, Listed(entries) \subseteq Listed(entries'), live' = live
    PROVE  Fair
<1>1. Cache!AdmitsWithinCapacity
  BY CacheCharged DEF Cache!AdmitsWithinCapacity
<1>2. \A id : (Cache!Resident(id) => id \in Listed(entries)) /\ (id \in Listed(entries') => Cache!Resident(id)')
  BY DEF Cache!Resident, Listed
<1>3. Cache!PinnedStay
  BY <1>2 DEF Cache!PinnedStay
<1>4. QED
  BY <1>1, <1>3 DEF Fair

\* What a reader has changes, and nothing else.
LEMMA HoldStep ==
    ASSUME CacheInv, NEW r \in Readers, NEW how \in {"none", "page", "slice", "own", "reading"},
           NEW id \in Cache!Buffers \cup {0}, NEW k \in Keys \cup {"free"},
           hold' = [hold EXCEPT ![r] = [how |-> how, id |-> id, key |-> k]],
           entries' \in Seq(Cache!Buffers), IsInjective(entries'), Listed(entries') = Listed(entries),
           UNCHANGED <<keyOf, live, resident>>, capacity' \in Capacities,
           lock' \in {"free", "resize"} \/ (lock' = lock /\ lock # r),
           how \in {"page", "slice"} => id \in Used(keyOf) /\ keyOf[id] = k,
           how \in {"page", "slice", "reading"} => k \in Keys,
           \A b \in Cache!Buffers : Keeps(r, b) => b \in Listed(entries) \/ (how \in {"page", "slice"} /\ id = b)
    PROVE  CacheInv'
<1>1. /\ hold' \in [Readers -> [how : {"none", "page", "slice", "own", "reading"},
                                id : Cache!Buffers \cup {0}, key : Keys \cup {"free"}]]
      /\ hold'[r] = [how |-> how, id |-> id, key |-> k]
      /\ \A q \in Readers \ {r} : hold'[q] = hold[q]
  BY DEF CacheInv, CacheTypes
<1>2. CacheTypes'
  BY <1>1 DEF CacheInv, CacheTypes
<1>3. Holdings'
  BY <1>1 DEF CacheInv, Holdings, Used
<1>4. Inserting'
  BY <1>1 DEF CacheInv, Cache!ChargeAssumption, Inserting
<1>5. ASSUME NEW b \in Cache!Buffers
      PROVE  (keyOf[b] # "free")' <=> (b \in Listed(entries') \/ \E q \in Readers : Keeps(q, b)')
  <2>1. \A q \in Readers \ {r} : Keeps(q, b)' <=> Keeps(q, b)
    BY <1>1 DEF Keeps
  <2>2. Keeps(r, b)' <=> how \in {"page", "slice"} /\ id = b
    BY <1>1 DEF Keeps
  <2>3. keyOf[b] # "free" <=> (b \in Listed(entries) \/ \E q \in Readers : Keeps(q, b))
    BY DEF CacheInv, References
  <2>4. Keeps(r, b)' => keyOf[b] # "free"
    BY <2>2 DEF Used
  <2>5. QED
    BY <2>1, <2>2, <2>3, <2>4
<1>6. References'
  BY <1>5 DEF References
<1>7. OnePlace' /\ Sums'
  BY DEF CacheInv, OnePlace, Sums, Used
<1>8. QED
  BY <1>2, <1>3, <1>4, <1>6, <1>7 DEF CacheInv, Cache!ChargeAssumption

LEMMA HitStep ==
    ASSUME CacheInv, NEW r \in Readers, NEW k \in Keys, NEW n \in Cache!Entry(k), lock = "free",
           hold[r].how \in {"none", "reading"}, Cache!ToBack(n), Cache!Holds(r, "page", entries[n], k),
           UNCHANGED <<keyOf, live, resident, capacity, lock>>
    PROVE  CacheInv' /\ Fair
<1>1. /\ n \in DOMAIN entries /\ keyOf[entries[n]] = k /\ entries \in Seq(Cache!Buffers)
      /\ IsInjective(entries) /\ entries' = Append(RemoveAt(entries, n), entries[n])
      /\ hold' = [hold EXCEPT ![r] = [how |-> "page", id |-> entries[n], key |-> k]]
      /\ capacity' \in Capacities /\ k # "free"
  BY CacheOperators
  DEF CacheInv, CacheTypes, Cache!ChargeAssumption, Cache!Entry, Cache!ToBack, Cache!Holds
<1>2. entries' \in Seq(Cache!Buffers) /\ IsInjective(entries') /\ Listed(entries') = Listed(entries)
  BY <1>1, ListToBack
<1>3. entries[n] \in Listed(entries) /\ entries[n] \in Used(keyOf) /\ entries[n] \in Cache!Buffers
  BY <1>1, ListedIn, CacheCharged DEF Used
<1>4. \A b \in Cache!Buffers : ~Keeps(r, b)
  BY DEF Keeps
<1>5. lock # r
  BY DEF CacheInv, Cache!ChargeAssumption
<1>6. CacheInv'
  BY <1>1, <1>2, <1>3, <1>4, <1>5, HoldStep
<1>7. QED
  BY <1>2, <1>6, NothingLeaves

\* A miss, or a page that is not admitted: the reader keeps a copy of its own.
LEMMA MissStep ==
    ASSUME CacheInv, NEW r \in Readers, NEW k \in Keys, NEW how \in {"own", "reading"},
           hold[r].how \in {"none", "reading"}, Cache!Holds(r, how, 0, k), lock' = "free",
           UNCHANGED <<entries, keyOf, live, resident, capacity>>
    PROVE  CacheInv' /\ Fair
<1>1. /\ entries' \in Seq(Cache!Buffers) /\ IsInjective(entries') /\ Listed(entries') = Listed(entries)
      /\ capacity' \in Capacities
      /\ hold' = [hold EXCEPT ![r] = [how |-> how, id |-> 0, key |-> k]]
  BY DEF CacheInv, CacheTypes, Cache!Holds
<1>2. \A b \in Cache!Buffers : ~Keeps(r, b)
  BY DEF Keeps
<1>3. CacheInv'
  BY <1>1, <1>2, HoldStep
<1>4. QED
  BY <1>1, <1>3, NothingLeaves

LEMMA SliceStep ==
    ASSUME CacheInv, NEW r \in Readers, Cache!Slice(r)
    PROVE  CacheInv' /\ Fair
<1>1. /\ hold[r].how = "page" /\ hold[r].id \in Cache!Buffers /\ hold[r].key \in Keys
      /\ keyOf[hold[r].id] = hold[r].key /\ hold[r].key # "free"
  BY DEF CacheInv, Cache!ChargeAssumption, Holdings, Cache!Slice
<1>2. /\ entries' \in Seq(Cache!Buffers) /\ IsInjective(entries') /\ Listed(entries') = Listed(entries)
      /\ capacity' \in Capacities /\ UNCHANGED <<keyOf, live, resident, lock>>
      /\ hold' = [hold EXCEPT ![r] = [how |-> "slice", id |-> hold[r].id, key |-> hold[r].key]]
  BY DEF CacheInv, CacheTypes, Cache!Holds, Cache!Slice
<1>3. \A b \in Cache!Buffers : Keeps(r, b) => hold[r].id = b
  BY DEF Keeps
<1>4. hold[r].id \in Used(keyOf)
  BY <1>1 DEF Used
<1>5. lock' \in {"free", "resize"} \/ (lock' = lock /\ lock # r)
  BY <1>1, <1>2 DEF CacheInv, Inserting
<1>6. CacheInv'
  BY <1>1, <1>2, <1>3, <1>4, <1>5, HoldStep
<1>7. QED
  BY <1>2, <1>6, NothingLeaves

\* The mutex is taken or given back, and the capacity may change.
LEMMA LockStep ==
    ASSUME CacheInv, UNCHANGED <<entries, keyOf, hold, live, resident>>, capacity' \in Capacities,
           \/ lock' \in {"free", "resize"}
           \/ /\ lock' \in Readers /\ hold[lock'].how = "reading"
              /\ Cache!Entry(hold[lock'].key) = {}
    PROVE  CacheInv' /\ Fair
<1>1. CacheTypes'
  BY DEF CacheInv, CacheTypes
<1>2. Inserting'
  BY DEF CacheInv, Cache!ChargeAssumption, Inserting, Cache!Entry, Listed
<1>3. CacheInv'
  BY <1>1, <1>2 DEF CacheInv, Cache!ChargeAssumption, Holdings, References, Keeps, OnePlace, Sums
<1>4. QED
  BY <1>3, NothingLeaves

\* Freeing buffers takes exactly their charge from live_bytes.
LEMMA FreedFacts ==
    ASSUME CacheInv, NEW dropped, dropped \subseteq Used(keyOf), Cache!Freed(dropped)
    PROVE  /\ keyOf' \in [Cache!Buffers -> Keys \cup {"free"}]
           /\ \A id \in Cache!Buffers \ dropped : keyOf'[id] = keyOf[id]
           /\ \A id \in dropped : keyOf'[id] = "free"
           /\ live' = BytesOf(Used(keyOf'), keyOf') /\ live' \in Nat /\ live' <= live
           /\ \A ids : ids \subseteq Cache!Buffers \ dropped => BytesOf(ids, keyOf') = BytesOf(ids, keyOf)
<1>1. /\ keyOf' = [id \in Cache!Buffers |-> IF id \in dropped THEN "free" ELSE keyOf[id]]
      /\ live' = live - BytesOf(dropped, keyOf)
      /\ keyOf \in [Cache!Buffers -> Keys \cup {"free"}] /\ dropped \subseteq Cache!Buffers
      /\ live = BytesOf(Used(keyOf), keyOf)
  BY DEF CacheInv, CacheTypes, Sums, Used, Cache!Freed, Cache!Bytes, BytesOf, Charges
<1>2. Used(keyOf') = Used(keyOf) \ dropped
  BY <1>1 DEF Used
<1>3. \A ids : ids \subseteq Cache!Buffers \ dropped => BytesOf(ids, keyOf') = BytesOf(ids, keyOf)
  <2> SUFFICES ASSUME NEW ids, ids \subseteq Cache!Buffers \ dropped
               PROVE  BytesOf(ids, keyOf') = BytesOf(ids, keyOf)
    OBVIOUS
  <2>1. \A id \in ids : keyOf'[id] = keyOf[id]
    BY <1>1
  <2>2. QED
    BY <2>1, BytesSame
<1>4. /\ live = BytesOf(dropped, keyOf) + BytesOf(Used(keyOf) \ dropped, keyOf)
      /\ BytesOf(dropped, keyOf) \in Nat /\ BytesOf(Used(keyOf) \ dropped, keyOf) \in Nat
  BY <1>1, CacheCharged, BytesSplit DEF CacheInv
<1>5. BytesOf(Used(keyOf'), keyOf') = BytesOf(Used(keyOf) \ dropped, keyOf)
  BY <1>2, <1>3 DEF Used
<1>6. live' = BytesOf(Used(keyOf) \ dropped, keyOf) /\ live' \in Nat /\ live' <= live
  <2> DEFINE a == BytesOf(dropped, keyOf)
             b == BytesOf(Used(keyOf) \ dropped, keyOf)
  <2>1. live = a + b /\ live' = live - a /\ a \in Nat /\ b \in Nat
    BY <1>1, <1>4
  <2> HIDE DEF a, b
  <2>2. live' = b /\ live' \in Nat /\ live' <= live
    BY <2>1
  <2>3. QED
    BY <2>2 DEF b
<1>7. QED
  BY <1>1, <1>3, <1>5, <1>6

\* Entries leave the map, and the buffers that nothing refers to any more are freed.
LEMMA LeaveStep ==
    ASSUME CacheInv, NEW gone, gone \subseteq Listed(entries),
           entries' \in Seq(Cache!Buffers), IsInjective(entries'), Listed(entries') = Listed(entries) \ gone,
           Cache!Freed({id \in gone : Cache!HeldBy(id, hold) = {}}),
           resident' = resident - BytesOf(gone, keyOf),
           hold' = hold, capacity' \in Capacities,
           lock' \in {"free", "resize"} \/ lock' = lock
    PROVE  CacheInv' /\ live' \in Nat /\ live' <= live
<1> DEFINE dropped == {id \in gone : Cache!HeldBy(id, hold) = {}}
<1>1. \A id \in dropped : \A r \in Readers : ~Keeps(r, id)
  BY DEF Cache!HeldBy, Keeps
<1>2. \A id \in gone \ dropped : \E r \in Readers : Keeps(r, id)
  BY DEF Cache!HeldBy, Keeps
<1>3. dropped \subseteq Used(keyOf) /\ dropped \subseteq gone /\ Cache!Freed(dropped)
      /\ Listed(entries) \subseteq Used(keyOf)
  BY CacheCharged
<1> HIDE DEF dropped
<1>4. /\ keyOf' \in [Cache!Buffers -> Keys \cup {"free"}]
      /\ \A id \in Cache!Buffers \ dropped : keyOf'[id] = keyOf[id]
      /\ \A id \in dropped : keyOf'[id] = "free"
      /\ live' = BytesOf(Used(keyOf'), keyOf') /\ live' \in Nat /\ live' <= live
      /\ \A ids : ids \subseteq Cache!Buffers \ dropped => BytesOf(ids, keyOf') = BytesOf(ids, keyOf)
  BY <1>3, FreedFacts
<1>5. Listed(entries') \subseteq Cache!Buffers \ dropped
  BY <1>3 DEF Used
<1>6. CacheTypes'
  BY <1>4 DEF CacheInv, CacheTypes
<1>7. Holdings'
  <2>1. ASSUME NEW r \in Readers, hold[r].how \in {"page", "slice"}
        PROVE  hold[r].id \in Cache!Buffers /\ keyOf'[hold[r].id] = hold[r].key
    <3>1. hold[r].id \in Cache!Buffers /\ keyOf[hold[r].id] = hold[r].key /\ Keeps(r, hold[r].id)
      BY <2>1 DEF CacheInv, Holdings, Keeps
    <3>2. hold[r].id \notin dropped
      BY <1>1, <3>1
    <3>3. QED
      BY <1>4, <3>1, <3>2
  <2>2. QED
    BY <2>1 DEF CacheInv, Holdings
<1>8. Inserting'
  BY <1>4, <1>5 DEF CacheInv, Cache!ChargeAssumption, Inserting
<1>9. ASSUME NEW b \in Cache!Buffers
      PROVE  (keyOf[b] # "free")' <=> (b \in Listed(entries') \/ \E r \in Readers : Keeps(r, b)')
  <2>1. \A r \in Readers : Keeps(r, b)' <=> Keeps(r, b)
    BY DEF Keeps
  <2>2. keyOf[b] # "free" <=> (b \in Listed(entries) \/ \E r \in Readers : Keeps(r, b))
    BY DEF CacheInv, References
  <2>3. CASE b \in dropped
    BY <1>1, <1>3, <1>4, <2>1, <2>3
  <2>4. CASE b \notin dropped
    BY <1>2, <1>4, <2>1, <2>2, <2>4
  <2>5. QED
    BY <2>3, <2>4
<1>10. References'
  BY <1>9 DEF References
<1>11. OnePlace'
  BY <1>4, <1>5 DEF CacheInv, OnePlace
<1>12. resident' = BytesOf(Listed(entries'), keyOf')
  <2>1. Charged(Listed(entries), keyOf)
    BY <1>3, CacheCharged DEF Charged
  <2>2. /\ resident = BytesOf(gone, keyOf) + BytesOf(Listed(entries) \ gone, keyOf)
        /\ BytesOf(gone, keyOf) \in Nat /\ BytesOf(Listed(entries) \ gone, keyOf) \in Nat
    BY <2>1, BytesSplit DEF CacheInv, Sums
  <2>3. BytesOf(Listed(entries'), keyOf') = BytesOf(Listed(entries) \ gone, keyOf)
    BY <1>4, <1>5
  <2> DEFINE a == BytesOf(gone, keyOf)
             b == BytesOf(Listed(entries) \ gone, keyOf)
  <2>4. resident = a + b /\ resident' = resident - a /\ a \in Nat /\ b \in Nat
    BY <2>2
  <2> HIDE DEF a, b
  <2>5. resident' = b
    BY <2>4
  <2>6. QED
    BY <2>3, <2>5 DEF b
<1>13. QED
  BY <1>4, <1>6, <1>7, <1>8, <1>10, <1>11, <1>12 DEF CacheInv, Cache!ChargeAssumption, Sums

\* The scan takes an entry that no reader has as a page.
LEMMA EvictStep ==
    ASSUME CacheInv, Cache!Unpinned # {}, Cache!EvictOneUnpinned, UNCHANGED <<hold, lock, capacity>>
    PROVE  CacheInv' /\ Fair
<1> DEFINE n == Min(Cache!Unpinned)
           gone == {entries[n]}
<1>1. /\ entries \in Seq(Cache!Buffers) /\ IsInjective(entries) /\ Cache!Unpinned \subseteq Nat
      /\ DOMAIN entries = 1..Len(entries) /\ Len(entries) \in Nat
  BY LenProperties DEF CacheInv, CacheTypes, Cache!Unpinned
<1>2. n \in Cache!Unpinned
  BY <1>1, LeastExists
<1>3. /\ entries' = SubSeq(entries, n + 1, Len(entries)) \o SubSeq(entries, 1, n - 1)
      /\ resident' = resident - Charge[keyOf[entries[n]]]
      /\ Cache!Freed(IF Cache!HeldBy(entries[n], hold) = {} THEN {entries[n]} ELSE {})
  BY CacheOperators DEF Cache!EvictOneUnpinned
<1>4. n \in DOMAIN entries /\ ~Cache!Pinned(entries[n])
  BY <1>2 DEF Cache!Unpinned
<1> HIDE DEF n
<1>5. entries' \in Seq(Cache!Buffers) /\ IsInjective(entries') /\ Listed(entries') = Listed(entries) \ gone
  BY <1>1, <1>3, <1>4, ListRotate
<1>6. entries[n] \in Listed(entries) /\ entries[n] \in Used(keyOf)
  BY <1>1, <1>4, ListedIn, CacheCharged
<1>7. resident' = resident - BytesOf(gone, keyOf)
  BY <1>3, <1>6, CacheCharged, BytesOne DEF CacheInv, Charged
<1>8. {id \in gone : Cache!HeldBy(id, hold) = {}} = IF Cache!HeldBy(entries[n], hold) = {} THEN {entries[n]} ELSE {}
  OBVIOUS
<1>9. Cache!Freed({id \in gone : Cache!HeldBy(id, hold) = {}})
  BY <1>3, <1>8
<1>10. CacheInv' /\ live' \in Nat /\ live' <= live
  <2>1. capacity' \in Capacities /\ gone \subseteq Listed(entries)
    BY <1>6 DEF CacheInv, CacheTypes
  <2> HIDE DEF gone
  <2>2. QED
    BY <1>5, <1>7, <1>9, <2>1, LeaveStep
<1>11. Cache!AdmitsWithinCapacity
  <2>1. live \in Nat
    BY CacheCharged
  <2>2. QED
    BY <1>10, <2>1 DEF Cache!AdmitsWithinCapacity
<1>12. Cache!PinnedStay
  <2>1. \A id : (Cache!Resident(id) => id \in Listed(entries)) /\ (id \in Listed(entries') => Cache!Resident(id)')
    BY DEF Cache!Resident, Listed
  <2>2. \A r \in Readers : hold[r].how = "page" => hold[r].id # entries[n]
    BY <1>4 DEF Cache!Pinned
  <2>3. QED
    BY <1>5, <2>1, <2>2 DEF Cache!PinnedStay
<1>13. QED
  BY <1>10, <1>11, <1>12 DEF Fair

LEMMA RetireStep ==
    ASSUME CacheInv, lock = "free", Cache!RetireAll, UNCHANGED <<hold, lock>>, capacity' \in Capacities
    PROVE  CacheInv' /\ Fair
<1> DEFINE gone == Listed(entries)
<1>1. /\ entries' = <<>> /\ resident' = 0
      /\ Cache!Freed({id \in Cache!Buffers : Cache!Resident(id) /\ Cache!HeldBy(id, hold) = {}})
  BY DEF Cache!RetireAll
<1>2. entries' \in Seq(Cache!Buffers) /\ DOMAIN entries' = {}
  BY <1>1, EmptySeq
<1>3. IsInjective(entries') /\ Listed(entries') = {}
  BY <1>2 DEF IsInjective, Listed
<1>4. gone \subseteq Cache!Buffers
  BY ListedIn DEF CacheInv, CacheTypes
<1>5. {id \in Cache!Buffers : Cache!Resident(id) /\ Cache!HeldBy(id, hold) = {}}
        = {id \in gone : Cache!HeldBy(id, hold) = {}}
  BY <1>4 DEF Cache!Resident, Listed
<1>6. resident = BytesOf(gone, keyOf) /\ resident \in Nat
  BY CacheCharged DEF CacheInv, Sums
<1>7. resident' = resident - BytesOf(gone, keyOf)
  BY <1>1, <1>6
<1>8. Cache!Freed({id \in gone : Cache!HeldBy(id, hold) = {}})
  BY <1>1, <1>5
<1>9. CacheInv' /\ live' \in Nat /\ live' <= live
  <2>1. Listed(entries') = Listed(entries) \ gone /\ gone \subseteq Listed(entries)
    BY <1>3
  <2> HIDE DEF gone
  <2>2. QED
    BY <1>2, <1>3, <1>7, <1>8, <2>1, LeaveStep
<1>10. live \in Nat
  BY CacheCharged
<1>11. Fair
  BY <1>1, <1>9, <1>10 DEF Fair, Cache!AdmitsWithinCapacity, Cache!PinnedStay
<1>12. QED
  BY <1>9, <1>11

LEMMA DropStep ==
    ASSUME CacheInv, NEW r \in Readers, Cache!Drop(r)
    PROVE  CacheInv' /\ Fair
<1>1. /\ hold[r].how \in {"page", "slice", "own"} /\ hold' = [hold EXCEPT ![r] = Cache!None]
      /\ UNCHANGED <<entries, resident, capacity, lock>>
  BY DEF Cache!Drop
<1>2. lock # r
  BY <1>1 DEF CacheInv, Inserting
<1>3. /\ hold' \in [Readers -> [how : {"none", "page", "slice", "own", "reading"},
                                id : Cache!Buffers \cup {0}, key : Keys \cup {"free"}]]
      /\ hold'[r] = Cache!None
      /\ \A q \in Readers \ {r} : hold'[q] = hold[q]
  BY <1>1 DEF CacheInv, CacheTypes, Cache!None
<1>0. PICK id : id = hold[r].id
  OBVIOUS
<1> DEFINE last == hold[r].how # "own" /\ ~Cache!Resident(id) /\ Cache!HeldBy(id, hold') = {}
<1>4. CASE ~last
  <2>1. UNCHANGED <<keyOf, live>>
    BY <1>0, <1>4 DEF Cache!Drop
  <2>2. ASSUME NEW b \in Cache!Buffers, Keeps(r, b)
        PROVE  b \in Listed(entries) \/ \E q \in Readers : Keeps(q, b)'
    <3>1. hold[r].how # "own" /\ id = b
      BY <1>0, <2>2 DEF Keeps
    <3>2. Cache!Resident(b) => b \in Listed(entries)
      BY DEF Cache!Resident, Listed
    <3>3. Cache!HeldBy(b, hold') # {} => \E q \in Readers : Keeps(q, b)'
      BY DEF Cache!HeldBy, Keeps
    <3>4. QED
      BY <1>4, <3>1, <3>2, <3>3
  <2>3. ASSUME NEW b \in Cache!Buffers
        PROVE  (keyOf[b] # "free")' <=> (b \in Listed(entries') \/ \E q \in Readers : Keeps(q, b)')
    <3>1. \A q \in Readers \ {r} : Keeps(q, b)' <=> Keeps(q, b)
      BY <1>3 DEF Keeps
    <3>2. ~Keeps(r, b)'
      BY <1>3 DEF Keeps, Cache!None
    <3>3. keyOf[b] # "free" <=> (b \in Listed(entries) \/ \E q \in Readers : Keeps(q, b))
      BY DEF CacheInv, References
    <3>4. QED
      BY <1>1, <2>1, <2>2, <3>1, <3>2, <3>3
  <2>4. CacheTypes' /\ Holdings' /\ Inserting'
    BY <1>1, <1>2, <1>3, <2>1 DEF CacheInv, CacheTypes, Holdings, Inserting, Cache!None
  <2>5. OnePlace' /\ Sums'
    BY <1>1, <2>1 DEF CacheInv, OnePlace, Sums
  <2>6. CacheInv'
    BY <2>3, <2>4, <2>5 DEF CacheInv, Cache!ChargeAssumption, References
  <2>7. QED
    BY <1>1, <2>1, <2>6, NothingLeaves
<1>5. CASE last
  <2>1. hold[r].how \in {"page", "slice"} /\ id \in Cache!Buffers /\ keyOf[id] \in Keys /\ keyOf[id] # "free"
    BY <1>0, <1>1, <1>5 DEF CacheInv, Cache!ChargeAssumption, Holdings
  <2>2. Cache!Freed({id}) /\ {id} \subseteq Used(keyOf)
    BY <1>0, <1>5, <2>1 DEF Cache!Drop, Used
  <2>3. id \notin Listed(entries)
    BY <1>5 DEF Cache!Resident, Listed
  <2>4. \A q \in Readers : ~Keeps(q, id)'
    BY <1>5 DEF Cache!HeldBy, Keeps
  <2>5. /\ keyOf' \in [Cache!Buffers -> Keys \cup {"free"}]
        /\ \A b \in Cache!Buffers \ {id} : keyOf'[b] = keyOf[b]
        /\ keyOf'[id] = "free"
        /\ live' = BytesOf(Used(keyOf'), keyOf') /\ live' \in Nat /\ live' <= live
        /\ \A ids : ids \subseteq Cache!Buffers \ {id} => BytesOf(ids, keyOf') = BytesOf(ids, keyOf)
    BY <2>2, FreedFacts
  <2>6. Listed(entries) \subseteq Cache!Buffers \ {id}
    BY <2>3, ListedIn DEF CacheInv, CacheTypes
  <2>7. Holdings'
    <3>1. ASSUME NEW q \in Readers \ {r}, hold[q].how \in {"page", "slice"} PROVE hold[q].id # id
      BY <1>3, <2>4, <3>1 DEF Keeps
    <3>2. QED
      BY <1>3, <2>5, <3>1 DEF CacheInv, Holdings, Cache!None
  <2> HIDE DEF last
  <2>8. ASSUME NEW b \in Cache!Buffers
        PROVE  (keyOf[b] # "free")' <=> (b \in Listed(entries') \/ \E q \in Readers : Keeps(q, b)')
    <3>1. CASE b = id
      BY <1>1, <2>3, <2>4, <2>5, <3>1
    <3>2. CASE b # id
      <4>1. \A q \in Readers \ {r} : Keeps(q, b)' <=> Keeps(q, b)
        BY <1>3 DEF Keeps
      <4>2. ~Keeps(r, b)' /\ ~Keeps(r, b)
        BY <1>0, <1>3, <3>2 DEF Keeps, Cache!None
      <4>3. keyOf[b] # "free" <=> (b \in Listed(entries) \/ \E q \in Readers : Keeps(q, b))
        BY DEF CacheInv, References
      <4>4. QED
        BY <1>1, <2>5, <3>2, <4>1, <4>2, <4>3
    <3>3. QED
      BY <3>1, <3>2
  <2>9. CacheTypes' /\ Inserting' /\ OnePlace'
    BY <1>1, <1>2, <1>3, <2>5, <2>6 DEF CacheInv, CacheTypes, Inserting, OnePlace
  <2>10. Sums'
    BY <1>1, <2>5, <2>6 DEF CacheInv, Sums
  <2>11. CacheInv'
    BY <2>7, <2>8, <2>9, <2>10 DEF CacheInv, Cache!ChargeAssumption, References
  <2>12. Cache!AdmitsWithinCapacity
    BY <2>5, CacheCharged DEF Cache!AdmitsWithinCapacity
  <2>13. Cache!PinnedStay
    BY <1>1 DEF Cache!PinnedStay, Cache!Resident
  <2>14. QED
    BY <2>11, <2>12, <2>13 DEF Fair
<1>6. QED
  BY <1>4, <1>5

\* While a reader inserts there is a buffer that nothing refers to: the pages in the map
\* have different keys, none of them the one inserted, and the other readers have at most
\* one page each.
LEMMA BufferLeft ==
    ASSUME CacheInv, NEW r \in Readers, lock = r
    PROVE  {i \in Cache!Buffers : keyOf[i] = "free"} # {}
<1> SUFFICES ASSUME \A i \in Cache!Buffers : keyOf[i] # "free" PROVE FALSE
  OBVIOUS
<1>1. /\ IsFiniteSet(Keys) /\ IsFiniteSet(Readers) /\ MaxBuffers \in Nat
      /\ MaxBuffers >= Cardinality(Keys) + Cardinality(Readers)
      /\ Cardinality(Keys) \in Nat /\ Cardinality(Readers) \in Nat
  BY FS_CardinalityType, CacheOperators DEF CacheInv, Cache!ChargeAssumption
<1> DEFINE res == Listed(entries)
           others == Readers \ {r}
           kept == {hold[q].id : q \in others}
<1>2. IsFiniteSet(res) /\ Cardinality(res) <= Cardinality(Keys)
  <2> DEFINE f == [id \in res |-> keyOf[id]]
  <2>1. res \subseteq Used(keyOf) /\ \A id \in res : keyOf[id] \in Keys
    BY CacheCharged DEF Charged
  <2>2. f \in Injection(res, Keys)
    BY <2>1 DEF Injection, IsInjective, CacheInv, OnePlace
  <2> HIDE DEF f, res
  <2>3. QED
    BY <1>1, <2>2, FS_Injection
<1>3. IsFiniteSet(others) /\ Cardinality(others) = Cardinality(Readers) - 1
  BY <1>1, FS_RemoveElement
<1>4. IsFiniteSet(kept) /\ Cardinality(kept) <= Cardinality(others)
  <2> DEFINE g == [q \in others |-> hold[q].id]
  <2>1. g \in Surjection(others, kept)
    BY DEF Surjection
  <2> HIDE DEF g, others, kept
  <2>2. QED
    BY <1>3, <2>1, FS_Surjection
<1>5. Cache!Buffers \subseteq res \cup kept
  <2> SUFFICES ASSUME NEW b \in Cache!Buffers, b \notin res PROVE b \in kept
    OBVIOUS
  <2>1. PICK q \in Readers : Keeps(q, b)
    BY DEF CacheInv, References
  <2>2. q # r
    BY <2>1 DEF CacheInv, Inserting, Keeps
  <2>3. QED
    BY <2>1, <2>2 DEF Keeps
<1> HIDE DEF res, kept, others
<1>6. /\ IsFiniteSet(res \cup kept) /\ Cardinality(res \cup kept) \in Nat
      /\ Cardinality(res \cup kept) <= Cardinality(res) + Cardinality(kept)
      /\ Cardinality(res) \in Nat /\ Cardinality(kept) \in Nat
  <2>1. /\ IsFiniteSet(res \cup kept)
        /\ Cardinality(res \cup kept) = Cardinality(res) + Cardinality(kept) - Cardinality(res \cap kept)
    BY <1>2, <1>4, FS_Union
  <2>2. IsFiniteSet(res \cap kept)
    BY <1>2, FS_Subset
  <2>3. /\ Cardinality(res) \in Nat /\ Cardinality(kept) \in Nat /\ Cardinality(res \cap kept) \in Nat
        /\ Cardinality(res \cup kept) \in Nat
    BY <1>2, <1>4, <2>1, <2>2, FS_CardinalityType
  <2>4. QED
    BY <2>1, <2>3
<1>7. Cardinality(Cache!Buffers) = MaxBuffers
  BY <1>1, FS_Interval DEF Cache!Buffers
<1>8. Cardinality(Cache!Buffers) <= Cardinality(res \cup kept)
  BY <1>5, <1>6, FS_Subset
<1>9. QED
  BY <1>1, <1>2, <1>3, <1>4, <1>6, <1>7, <1>8

\* A page is admitted.
Admits(r, id, k) ==
    /\ keyOf' = [keyOf EXCEPT ![id] = k] /\ entries' = Append(entries, id) /\ Cache!Holds(r, "page", id, k)
    /\ live' = live + Charge[k] /\ resident' = resident + Charge[k] /\ lock' = "free"

LEMMA AdmitStep ==
    ASSUME CacheInv, NEW r \in Readers, lock = r, NEW k, hold[r].key = k, Cache!Fits(k),
           NEW id \in Cache!Buffers, keyOf[id] = "free", Admits(r, id, k), capacity' = capacity
    PROVE  CacheInv' /\ Fair
<1>1. /\ keyOf' = [keyOf EXCEPT ![id] = k] /\ entries' = Append(entries, id)
      /\ hold' = [hold EXCEPT ![r] = [how |-> "page", id |-> id, key |-> k]]
      /\ live' = live + Charge[k] /\ resident' = resident + Charge[k] /\ lock' = "free"
  BY DEF Admits, Cache!Holds
<1>2. /\ hold[r].how = "reading" /\ k \in Keys /\ k # "free"
      /\ \A b \in Listed(entries) : keyOf[b] # k
      /\ entries \in Seq(Cache!Buffers) /\ IsInjective(entries)
  BY DEF CacheInv, Cache!ChargeAssumption, CacheTypes, Inserting, Holdings
<1>3. id \notin Listed(entries) /\ \A q \in Readers : ~Keeps(q, id)
  BY DEF CacheInv, References
<1>4. entries' \in Seq(Cache!Buffers) /\ IsInjective(entries') /\ Listed(entries') = Listed(entries) \cup {id}
  BY <1>1, <1>2, <1>3, ListAppend
<1>5. /\ keyOf' \in [Cache!Buffers -> Keys \cup {"free"}] /\ keyOf'[id] = k
      /\ \A b \in Cache!Buffers \ {id} : keyOf'[b] = keyOf[b]
  BY <1>1, <1>2 DEF CacheInv, CacheTypes
<1>6. /\ hold' \in [Readers -> [how : {"none", "page", "slice", "own", "reading"},
                                id : Cache!Buffers \cup {0}, key : Keys \cup {"free"}]]
      /\ hold'[r] = [how |-> "page", id |-> id, key |-> k]
      /\ \A q \in Readers \ {r} : hold'[q] = hold[q]
  BY <1>1, <1>2 DEF CacheInv, CacheTypes
<1>7. CacheTypes'
  BY <1>1, <1>4, <1>5, <1>6 DEF CacheInv, CacheTypes
<1>8. Holdings'
  <2>1. ASSUME NEW q \in Readers \ {r}, hold[q].how \in {"page", "slice"} PROVE hold[q].id # id
    BY <1>3, <2>1 DEF Keeps
  <2>2. QED
    BY <1>2, <1>5, <1>6, <2>1 DEF CacheInv, Holdings
<1>9. Inserting'
  BY <1>1 DEF CacheInv, Cache!ChargeAssumption, Inserting
<1>10. ASSUME NEW b \in Cache!Buffers
       PROVE  (keyOf[b] # "free")' <=> (b \in Listed(entries') \/ \E q \in Readers : Keeps(q, b)')
  <2>1. CASE b = id
    BY <1>2, <1>4, <1>5, <2>1
  <2>2. CASE b # id
    <3>1. \A q \in Readers \ {r} : Keeps(q, b)' <=> Keeps(q, b)
      BY <1>6 DEF Keeps
    <3>2. ~Keeps(r, b)' /\ ~Keeps(r, b)
      BY <1>2, <1>6, <2>2 DEF Keeps
    <3>3. keyOf[b] # "free" <=> (b \in Listed(entries) \/ \E q \in Readers : Keeps(q, b))
      BY DEF CacheInv, References
    <3>4. QED
      BY <1>4, <1>5, <2>2, <3>1, <3>2, <3>3
  <2>3. QED
    BY <2>1, <2>2
<1>11. OnePlace'
  <2>1. Listed(entries) \subseteq Cache!Buffers \ {id}
    BY <1>2, <1>3, ListedIn
  <2>2. QED
    BY <1>2, <1>4, <1>5, <2>1 DEF CacheInv, OnePlace
<1>12. ASSUME NEW ids, ids \subseteq Used(keyOf)
       PROVE  /\ BytesOf(ids \cup {id}, keyOf') = BytesOf(ids, keyOf) + Charge[k]
              /\ BytesOf(ids, keyOf) \in Nat
  <2>1. id \notin ids /\ ids \subseteq Cache!Buffers /\ \A b \in ids : keyOf[b] \in Keys /\ keyOf'[b] = keyOf[b]
    BY <1>5, <1>12, CacheCharged DEF Used, Charged
  <2>2. Charged(ids, keyOf) /\ Charged(ids \cup {id}, keyOf')
    BY <1>2, <1>5, <2>1 DEF Charged
  <2>3. (ids \cup {id}) \ ids = {id}
    BY <2>1
  <2>4. BytesOf(ids \cup {id}, keyOf') = BytesOf(ids, keyOf') + BytesOf({id}, keyOf')
    <3>1. ids \subseteq ids \cup {id}
      OBVIOUS
    <3>2. BytesOf(ids \cup {id}, keyOf') = BytesOf(ids, keyOf') + BytesOf((ids \cup {id}) \ ids, keyOf')
      BY <2>2, <3>1, BytesSplit DEF CacheInv
    <3>3. QED
      BY <2>3, <3>2
  <2>5. BytesOf(ids, keyOf') = BytesOf(ids, keyOf)
    BY <2>1, BytesSame
  <2>6. BytesOf({id}, keyOf') = Charge[k]
    <3>1. Cache!ChargeAssumption /\ keyOf'[id] \in Keys /\ keyOf'[id] = k
      BY <1>2, <1>5 DEF CacheInv
    <3>2. BytesOf({id}, keyOf') = Charge[keyOf'[id]]
      BY <3>1, BytesOne
    <3>3. QED
      BY <3>1, <3>2
  <2>7. QED
    BY <2>2, <2>4, <2>5, <2>6, ChargesType DEF CacheInv
<1>13. Sums'
  <2>1. Used(keyOf') = Used(keyOf) \cup {id}
    BY <1>2, <1>5 DEF Used
  <2>2. Listed(entries) \subseteq Used(keyOf)
    BY CacheCharged
  <2>3. /\ BytesOf(Used(keyOf'), keyOf') = BytesOf(Used(keyOf), keyOf) + Charge[k]
        /\ BytesOf(Listed(entries'), keyOf') = BytesOf(Listed(entries), keyOf) + Charge[k]
    BY <1>4, <1>12, <2>1, <2>2
  <2>4. QED
    BY <1>1, <2>3 DEF CacheInv, Sums
<1>14. CacheInv'
  BY <1>7, <1>8, <1>9, <1>10, <1>11, <1>13 DEF CacheInv, Cache!ChargeAssumption, References
<1>15. Cache!AdmitsWithinCapacity
  BY <1>1 DEF Cache!Fits, Cache!AdmitsWithinCapacity
<1>16. Cache!PinnedStay
  <2>1. \A b : (Cache!Resident(b) => b \in Listed(entries)) /\ (b \in Listed(entries') => Cache!Resident(b)')
    BY DEF Cache!Resident, Listed
  <2>2. QED
    BY <1>4, <2>1 DEF Cache!PinnedStay
<1>17. QED
  BY <1>14, <1>15, <1>16 DEF Fair

LEMMA CacheSteps ==
    ASSUME CacheInv, Cache!Next
    PROVE  CacheInv' /\ Fair
<1>1. capacity \in Capacities
  BY DEF CacheInv, CacheTypes
<1>2. ASSUME NEW r \in Readers, NEW k \in Keys, Cache!Get(r, k) PROVE CacheInv' /\ Fair
  <2>1. CASE \E n \in Cache!Entry(k) : Cache!ToBack(n) /\ Cache!Holds(r, "page", entries[n], k)
    BY <1>2, <2>1, HitStep DEF Cache!Get
  <2>2. CASE Cache!Holds(r, "reading", 0, k) /\ UNCHANGED entries
    BY <1>2, <2>2, MissStep DEF Cache!Get
  <2>3. QED
    BY <1>2, <2>1, <2>2 DEF Cache!Get
<1>3. ASSUME NEW r \in Readers, Cache!Insert(r) PROVE CacheInv' /\ Fair
  <2> DEFINE k == hold[r].key
  <2>0. k \in Keys /\ lock = "free" /\ hold[r].how = "reading" /\ UNCHANGED <<keyOf, live, resident, capacity>>
    BY <1>3 DEF Cache!Insert, CacheInv, Holdings
  <2>1. CASE \E n \in Cache!Entry(k) : Cache!ToBack(n) /\ Cache!Holds(r, "page", entries[n], k) /\ UNCHANGED lock
    BY <2>0, <2>1, HitStep
  <2>2. CASE Cache!Holds(r, "own", 0, k) /\ UNCHANGED <<entries, lock>>
    BY <2>0, <2>2, MissStep
  <2>3. CASE Cache!Entry(k) = {} /\ lock' = r /\ UNCHANGED <<entries, hold>>
    BY <1>1, <2>0, <2>3, LockStep
  <2>4. QED
    BY <1>3, <2>1, <2>2, <2>3 DEF Cache!Insert
<1>4. ASSUME NEW r \in Readers, Cache!InsertStep(r) PROVE CacheInv' /\ Fair
  <2> DEFINE k == hold[r].key
  <2>0. lock = r /\ k \in Keys /\ hold[r].how = "reading" /\ UNCHANGED capacity
    BY <1>4 DEF Cache!InsertStep, CacheInv, Inserting, Holdings
  <2>1. CASE Cache!Unpinned # {} /\ Cache!EvictOneUnpinned /\ UNCHANGED <<hold, lock>>
    BY <2>0, <2>1, EvictStep
  <2>2. CASE Cache!Holds(r, "own", 0, k) /\ lock' = "free" /\ UNCHANGED <<entries, keyOf, live, resident>>
    BY <2>0, <2>2, MissStep
  <2>3. CASE Cache!Fits(k) /\ Admits(r, Min({i \in Cache!Buffers : keyOf[i] = "free"}), k)
    <3>1. PICK id : id = Min({i \in Cache!Buffers : keyOf[i] = "free"})
      OBVIOUS
    <3>2. id \in Cache!Buffers /\ keyOf[id] = "free"
      <4> DEFINE S == {i \in Cache!Buffers : keyOf[i] = "free"}
      <4>1. S \subseteq Nat /\ S # {}
        BY <2>0, BufferLeft DEF Cache!Buffers
      <4> HIDE DEF S
      <4>2. Min(S) \in S
        BY <4>1, LeastExists
      <4>3. QED
        BY <3>1, <4>2 DEF S
    <3>3. Cache!Fits(k) /\ Admits(r, id, k)
      BY <2>3, <3>1
    <3>4. QED
      BY <2>0, <3>2, <3>3, AdmitStep
  <2>4. QED
    BY <1>4, <2>1, <2>2, <2>3, CacheOperators DEF Cache!InsertStep, Admits
<1>5. ASSUME NEW c \in Capacities, Cache!SetCapacity(c) PROVE CacheInv' /\ Fair
  <2>1. CASE c = 0
    BY <1>5, <2>1, RetireStep DEF Cache!SetCapacity
  <2>2. CASE c # 0
    BY <1>5, <2>2, LockStep DEF Cache!SetCapacity
  <2>3. QED
    BY <2>1, <2>2
<1>6. ASSUME Cache!ResizeStep PROVE CacheInv' /\ Fair
  <2>1. CASE live > capacity /\ Cache!Unpinned # {}
    BY <1>6, <2>1, EvictStep DEF Cache!ResizeStep
  <2>2. CASE ~(live > capacity /\ Cache!Unpinned # {})
    BY <1>1, <1>6, <2>2, LockStep DEF Cache!ResizeStep
  <2>3. QED
    BY <2>1, <2>2
<1>7. ASSUME Cache!Clear PROVE CacheInv' /\ Fair
  BY <1>1, <1>7, RetireStep DEF Cache!Clear
<1>8. QED
  BY <1>2, <1>3, <1>4, <1>5, <1>6, <1>7, SliceStep, DropStep DEF Cache!Next

LEMMA CacheStutter ==
    ASSUME CacheInv, UNCHANGED cache
    PROVE  CacheInv'
  BY DEF cache, CacheInv, Cache!ChargeAssumption, CacheTypes, Holdings, Inserting, References, Keeps,
         OnePlace, Sums, Used

-----------------------------------------------------------------------------
\* The composition: a step is of the component that runs.

RuntimeInv == /\ component = "admission" => AdmissionInv
              /\ component = "cache" => CacheInv
Pressure == /\ component = "admission" => Admission!InTurn
            /\ component = "cache" => Cache!AdmitsWithinCapacity /\ Cache!PinnedStay

LEMMA RuntimeInit == Init => RuntimeInv
  BY RuntimeAssumption, AdmissionInitInv, CacheInitInv DEF Init, RuntimeInv, RuntimeAssumption

LEMMA RuntimeSteps == RuntimeInv /\ [Next]_vars => RuntimeInv' /\ [Pressure]_vars
<1> SUFFICES ASSUME RuntimeInv, [Next]_vars PROVE RuntimeInv' /\ [Pressure]_vars
  OBVIOUS
<1>1. CASE AdmissionNext
  <2>1. component = "admission" /\ component' = component /\ Admission!Next /\ AdmissionInv
    BY <1>1 DEF AdmissionNext, AdmissionRest, RuntimeInv
  <2>2. AdmissionInv' /\ Admission!InTurn
    BY <2>1, AdmissionSteps
  <2>3. QED
    BY <2>1, <2>2 DEF RuntimeInv, Pressure
<1>2. CASE CacheNext
  <2>1. component = "cache" /\ component' = component /\ Cache!Next /\ CacheInv
    BY <1>2 DEF CacheNext, CacheRest, RuntimeInv
  <2>2. CacheInv' /\ Fair
    BY <2>1, CacheSteps
  <2>3. QED
    BY <2>1, <2>2 DEF RuntimeInv, Pressure, Fair
<1>3. CASE WorkersNext \/ ContractNext \/ RoutesNext
  BY <1>3 DEF WorkersNext, ContractNext, RoutesNext, WorkersRest, ContractRest, RoutesRest,
              RuntimeInv, Pressure
<1>4. CASE UNCHANGED vars
  <2>1. UNCHANGED <<component, admission, cache>>
    BY <1>4 DEF vars
  <2>2. AdmissionInv => AdmissionInv'
    BY <2>1, AdmissionStutter
  <2>3. CacheInv => CacheInv'
    BY <2>1, CacheStutter
  <2>4. QED
    BY <1>4, <2>1, <2>2, <2>3 DEF RuntimeInv
<1>5. QED
  BY <1>1, <1>2, <1>3, <1>4 DEF Next

\* The inductive invariant holds in every state.
THEOREM Invariance == Spec => []RuntimeInv
  BY RuntimeInit, RuntimeSteps, PTL DEF Spec

\* No permit is lost or made up, the counter is the number of queries in the queue, and no
\* slot is free while queries wait (SlotsCounted), though a waiting query may time out or
\* be dropped between any two steps of acquire, also with a permit already assigned.
THEOREM SlotsAreCounted == Spec => []SlotsCounted
<1>1. RuntimeInv => SlotsCounted
  BY DEF RuntimeInv, AdmissionInv, SlotsCounted
<1>2. QED
  BY <1>1, Invariance, PTL

\* live_bytes is the sum of the charges of the buffers that something refers to and
\* resident_bytes of those in the map, and a key has one page there (PagesAccounted), for
\* any number of pages, sizes and readers that get, miss, insert, slice and drop them
\* while insertions evict and the capacity changes (page_cache.rs).
THEOREM PagesAreAccounted == Spec => []PagesAccounted
<1>1. RuntimeInv => PagesAccounted
  BY CacheInvGives DEF RuntimeInv, PagesAccounted
<1>2. QED
  BY <1>1, Invariance, PTL

\* Waiting queries are admitted from the head of the queue, and try_acquire_owned never
\* takes a permit past them; a page is admitted only if all that is alive fits with it,
\* and eviction never takes a page that a reader has (PressureIsFair).
THEOREM PressureStaysFair == Spec => PressureIsFair
<1>1. Spec => [][Pressure]_vars
  BY Invariance, RuntimeSteps, PTL DEF Spec
<1>2. QED
  BY <1>1, PTL DEF PressureIsFair, Pressure

\* The queue's counter never underflows and nobody is queued twice (Admission!TypeOK); the
\* byte counters of the cache never underflow and no page is twice in its map, for any
\* number of buffers in use (Cache!TypeOK).
THEOREM AdmissionAndCacheTyped ==
    Spec => []((component = "admission" => Admission!TypeOK) /\ (component = "cache" => Cache!TypeOK))
<1>1. RuntimeInv => (component = "admission" => Admission!TypeOK) /\ (component = "cache" => Cache!TypeOK)
  BY CacheInvGives DEF RuntimeInv, AdmissionInv
<1>2. QED
  BY <1>1, Invariance, PTL
=============================================================================
