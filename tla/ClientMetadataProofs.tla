------------------------ MODULE ClientMetadataProofs ------------------------
(***************************************************************************)
(* Proofs about ClientMetadata, for every set of client_ids, documents,    *)
(* callers and Cache-Control values, every cache size and all durations.   *)
(***************************************************************************)
EXTENDS ClientMetadata, TLAPS, SequenceTheorems, FiniteSetTheorems

----------------------------------------------------------------------------
(* The LRU lists                                                           *)

Unique(lru) == \A i, j \in 1 .. Len(lru) : lru[i].id = lru[j].id => i = j

(* Every element of the one is an element of the other. *)
Within(new, old) == \A i \in 1 .. Len(new) : \E j \in 1 .. Len(old) : new[i] = old[j]

LEMMA RemoveAtFacts ==
  ASSUME NEW S, NEW s \in Seq(S), NEW k \in 1 .. Len(s)
  PROVE  /\ RemoveAt(s, k) \in Seq(S) /\ Len(RemoveAt(s, k)) = Len(s) - 1
         /\ \A i \in 1 .. Len(s) - 1 : RemoveAt(s, k)[i] = IF i < k THEN s[i] ELSE s[i + 1]
<1> DEFINE a == SubSeq(s, 1, k - 1)
           b == SubSeq(s, k + 1, Len(s))
<1>0. Len(s) \in Nat /\ k \in Nat /\ k <= Len(s) /\ 1 <= k /\ \A i \in 1 .. Len(s) : s[i] \in S
  BY LenProperties, ElementOfSeq
<1>1. /\ a \in Seq(S) /\ Len(a) = k - 1
      /\ \A i \in 1 .. k - 1 : a[i] = s[i]
  <2>1. \A i \in 1 .. k - 1 : s[i] \in S
    BY <1>0
  <2>2. /\ a \in Seq(S) /\ Len(a) = IF 1 <= k - 1 THEN (k - 1) - 1 + 1 ELSE 0
        /\ \A i \in 1 .. (k - 1) - 1 + 1 : a[i] = s[1 + i - 1]
    BY <1>0, <2>1, SubSeqProperties
  <2> QED BY <1>0, <2>2
<1>2. /\ b \in Seq(S) /\ Len(b) = Len(s) - k
      /\ \A i \in 1 .. Len(s) - k : b[i] = s[k + i]
  <2>1. \A i \in k + 1 .. Len(s) : s[i] \in S
    BY <1>0
  <2>2. /\ b \in Seq(S) /\ Len(b) = IF k + 1 <= Len(s) THEN Len(s) - (k + 1) + 1 ELSE 0
        /\ \A i \in 1 .. Len(s) - (k + 1) + 1 : b[i] = s[(k + 1) + i - 1]
    BY <1>0, <2>1, SubSeqProperties
  <2> QED BY <1>0, <2>2
<1>3. RemoveAt(s, k) = a \o b
  BY DEF RemoveAt
<1> HIDE DEF a, b
<1>4. /\ a \o b \in Seq(S) /\ Len(a \o b) = Len(s) - 1
      /\ \A i \in 1 .. Len(s) - 1 : (a \o b)[i] = IF i <= k - 1 THEN a[i] ELSE b[i - (k - 1)]
  BY <1>0, <1>1, <1>2, ConcatProperties
<1>5. ASSUME NEW i \in 1 .. Len(s) - 1 PROVE (a \o b)[i] = IF i < k THEN s[i] ELSE s[i + 1]
  <2>1. CASE i < k
    BY <1>0, <1>1, <1>4, <2>1
  <2>2. CASE ~(i < k)
    <3>1. i - (k - 1) \in 1 .. Len(s) - k /\ k + (i - (k - 1)) = i + 1
      BY <1>0, <2>2
    <3> QED BY <1>0, <1>2, <1>4, <2>2, <3>1
  <2> QED BY <2>1, <2>2
<1> QED BY <1>3, <1>4, <1>5

LEMMA PositionFacts ==
  ASSUME NEW lru, NEW id, Has(lru, id)
  PROVE  Position(lru, id) \in 1 .. Len(lru) /\ lru[Position(lru, id)].id = id
BY DEF Has, Position

LEMMA WithoutFacts ==
  ASSUME NEW S, NEW lru \in Seq(S), NEW id
  PROVE  /\ Without(lru, id) \in Seq(S) /\ Len(Without(lru, id)) <= Len(lru)
         /\ Within(Without(lru, id), lru)
         /\ Has(lru, id) => Len(Without(lru, id)) = Len(lru) - 1
         /\ Unique(lru) => Unique(Without(lru, id)) /\ ~Has(Without(lru, id), id)
<1>0. Len(lru) \in Nat
  BY LenProperties
<1>1. CASE ~Has(lru, id)
  BY <1>0, <1>1 DEF Without, Within
<1>2. CASE Has(lru, id)
  <2>1. PICK k \in 1 .. Len(lru) : k = Position(lru, id) /\ lru[k].id = id
    BY <1>2, PositionFacts
  <2>2. Without(lru, id) = RemoveAt(lru, k)
    BY <1>2, <2>1 DEF Without
  <2> DEFINE w == RemoveAt(lru, k)
  <2>3. /\ w \in Seq(S) /\ Len(w) = Len(lru) - 1
        /\ \A i \in 1 .. Len(lru) - 1 : w[i] = IF i < k THEN lru[i] ELSE lru[i + 1]
    BY RemoveAtFacts
  <2> HIDE DEF w
  <2>4. Within(w, lru)
    <3> SUFFICES ASSUME NEW i \in 1 .. Len(w) PROVE \E j \in 1 .. Len(lru) : w[i] = lru[j]
      BY DEF Within
    <3>1. i \in 1 .. Len(lru) - 1 /\ i \in 1 .. Len(lru) /\ i + 1 \in 1 .. Len(lru)
      BY <1>0, <2>3
    <3> QED BY <2>3, <3>1
  <2>5. ASSUME Unique(lru) PROVE Unique(w) /\ ~Has(w, id)
    <3>0. \A i \in 1 .. Len(w) : /\ i \in 1 .. Len(lru) /\ i + 1 \in 1 .. Len(lru)
                                 /\ w[i] = IF i < k THEN lru[i] ELSE lru[i + 1]
      BY <1>0, <2>3
    <3>1. ASSUME NEW i \in 1 .. Len(w), NEW j \in 1 .. Len(w), w[i].id = w[j].id PROVE i = j
      <4> DEFINE a == IF i < k THEN i ELSE i + 1
                 b == IF j < k THEN j ELSE j + 1
      <4>1. a \in 1 .. Len(lru) /\ b \in 1 .. Len(lru) /\ w[i] = lru[a] /\ w[j] = lru[b]
        BY <3>0
      <4>2. a = b
        BY <2>5, <3>1, <4>1 DEF Unique
      <4> QED BY <1>0, <2>3, <4>2
    <3>2. ASSUME NEW i \in 1 .. Len(w), w[i].id = id PROVE FALSE
      <4> DEFINE a == IF i < k THEN i ELSE i + 1
      <4>1. a \in 1 .. Len(lru) /\ w[i] = lru[a]
        BY <3>0
      <4>2. a = k
        BY <2>1, <2>5, <3>2, <4>1 DEF Unique
      <4> QED BY <1>0, <2>3, <4>2
    <3> QED BY <3>1, <3>2 DEF Unique, Has
  <2> QED BY <1>0, <1>2, <2>2, <2>3, <2>4, <2>5 DEF w
<1> QED BY <1>1, <1>2

(* The new entry is first; what follows was there, under other ids. *)
LEMMA AddFacts ==
  ASSUME NEW S, NEW lru \in Seq(S), NEW e \in S, Len(lru) <= CacheMax
  PROVE  /\ Add(lru, e) \in Seq(S) /\ Len(Add(lru, e)) \in 1 .. CacheMax /\ Add(lru, e)[1] = e
         /\ \A i \in 2 .. Len(Add(lru, e)) : \E j \in 1 .. Len(lru) : Add(lru, e)[i] = lru[j]
         /\ Unique(lru) => Unique(Add(lru, e))
<1> DEFINE w == Without(lru, e.id)
           all == <<e>> \o w
<1>0. CacheMax \in Nat \ {0}
  BY MetadataConstants
<1>1. /\ w \in Seq(S) /\ Len(w) \in Nat /\ Len(w) <= Len(lru) /\ Within(w, lru)
      /\ Unique(lru) => Unique(w) /\ ~Has(w, e.id)
  BY WithoutFacts, LenProperties
<1> HIDE DEF w
<1>2. <<e>> \in Seq(S) /\ Len(<<e>>) = 1 /\ <<e>>[1] = e
  OBVIOUS
<1>3. /\ all \in Seq(S) /\ Len(all) = Len(w) + 1
      /\ \A i \in 1 .. Len(w) + 1 : all[i] = IF i <= 1 THEN e ELSE w[i - 1]
  <2>1. /\ all \in Seq(S) /\ Len(all) = 1 + Len(w)
        /\ \A i \in 1 .. 1 + Len(w) : all[i] = IF i <= 1 THEN <<e>>[i] ELSE w[i - 1]
    BY <1>1, <1>2, ConcatProperties
  <2> QED BY <1>1, <1>2, <2>1
<1> HIDE DEF all
<1> DEFINE n == IF Len(all) > CacheMax THEN CacheMax ELSE Len(all)
<1>4. n \in 1 .. CacheMax /\ n <= Len(w) + 1
  BY <1>0, <1>1, <1>3
<1>5. /\ Add(lru, e) \in Seq(S) /\ Len(Add(lru, e)) = n
      /\ \A i \in 1 .. n : Add(lru, e)[i] = all[i]
  <2>1. Add(lru, e) = IF Len(all) > CacheMax THEN SubSeq(all, 1, CacheMax) ELSE all
    BY DEF Add, all, w
  <2>2. CASE Len(all) > CacheMax
    <3>1. \A i \in 1 .. CacheMax : all[i] \in S
      BY <1>0, <1>1, <1>3, <2>2, ElementOfSeq
    <3>2. /\ SubSeq(all, 1, CacheMax) \in Seq(S)
          /\ Len(SubSeq(all, 1, CacheMax)) = IF 1 <= CacheMax THEN CacheMax - 1 + 1 ELSE 0
          /\ \A i \in 1 .. CacheMax - 1 + 1 : SubSeq(all, 1, CacheMax)[i] = all[1 + i - 1]
      BY <1>0, <3>1, SubSeqProperties
    <3> QED BY <1>0, <2>1, <2>2, <3>2
  <2>3. CASE ~(Len(all) > CacheMax)
    BY <1>3, <2>1, <2>3
  <2> QED BY <2>2, <2>3
<1> HIDE DEF n
<1>6. \A i \in 1 .. n : Add(lru, e)[i] = IF i = 1 THEN e ELSE w[i - 1]
  BY <1>0, <1>1, <1>3, <1>4, <1>5
<1>7. ASSUME NEW i \in 2 .. n PROVE \E j \in 1 .. Len(lru) : Add(lru, e)[i] = lru[j]
  <2>1. i - 1 \in 1 .. Len(w) /\ i \in 1 .. n /\ i # 1
    BY <1>0, <1>1, <1>4
  <2> QED BY <1>1, <1>6, <2>1 DEF Within
<1>8. ASSUME Unique(lru) PROVE Unique(Add(lru, e))
  <2>1. Unique(w) /\ ~Has(w, e.id)
    BY <1>1, <1>8
  <2>2. \A i \in 1 .. n : i # 1 => i - 1 \in 1 .. Len(w)
    BY <1>0, <1>1, <1>4
  <2>3. ASSUME NEW i \in 1 .. n, NEW j \in 1 .. n, Add(lru, e)[i].id = Add(lru, e)[j].id
        PROVE  i = j
    <3>1. CASE i = 1 /\ j = 1
      BY <3>1
    <3>2. CASE i = 1 /\ j # 1
      BY <1>6, <2>1, <2>2, <2>3, <3>2 DEF Has
    <3>3. CASE i # 1 /\ j = 1
      BY <1>6, <2>1, <2>2, <2>3, <3>3 DEF Has
    <3>4. CASE i # 1 /\ j # 1
      <4>1. i - 1 \in 1 .. Len(w) /\ j - 1 \in 1 .. Len(w) /\ w[i - 1].id = w[j - 1].id
        BY <1>6, <2>2, <2>3, <3>4
      <4>2. i - 1 = j - 1
        BY <2>1, <4>1 DEF Unique
      <4> QED BY <4>2
    <3> QED BY <3>1, <3>2, <3>3, <3>4
  <2> QED BY <1>5, <2>3 DEF Unique
<1> QED BY <1>0, <1>4, <1>5, <1>6, <1>7, <1>8

(* An entry that replaces another evicts none. *)
LEMMA AddKeeps ==
  ASSUME NEW S, NEW lru \in Seq(S), NEW e \in S, Len(lru) <= CacheMax, Has(lru, e.id),
         NEW j \in 1 .. Len(lru), lru[j].id # e.id
  PROVE  \E i \in 1 .. Len(Add(lru, e)) : Add(lru, e)[i] = lru[j]
<1>0. CacheMax \in Nat /\ Len(lru) \in Nat
  BY MetadataConstants, LenProperties
<1>1. PICK k \in 1 .. Len(lru) : k = Position(lru, e.id) /\ lru[k].id = e.id
  BY PositionFacts
<1> DEFINE w == RemoveAt(lru, k)
           all == <<e>> \o w
<1>2. /\ w \in Seq(S) /\ Len(w) = Len(lru) - 1
      /\ \A i \in 1 .. Len(lru) - 1 : w[i] = IF i < k THEN lru[i] ELSE lru[i + 1]
  BY RemoveAtFacts
<1>3. Without(lru, e.id) = w
  BY <1>1 DEF Without
<1> HIDE DEF w
<1>4. /\ Len(all) = Len(lru)
      /\ \A i \in 2 .. Len(lru) : all[i] = w[i - 1]
  <2>1. <<e>> \in Seq(S) /\ Len(<<e>>) = 1
    OBVIOUS
  <2>2. /\ Len(all) = 1 + Len(w)
        /\ \A i \in 1 .. 1 + Len(w) : all[i] = IF i <= 1 THEN <<e>>[i] ELSE w[i - 1]
    BY <1>2, <2>1, ConcatProperties
  <2> QED BY <1>0, <1>2, <2>2
<1>5. Add(lru, e) = all
  <2>1. Add(lru, e) = IF Len(all) > CacheMax THEN SubSeq(all, 1, CacheMax) ELSE all
    BY <1>3 DEF Add
  <2> HIDE DEF all
  <2> QED BY <1>0, <1>4, <2>1
<1> HIDE DEF all
<1>6. j # k /\ j \in Nat /\ k \in Nat
  BY <1>0, <1>1
<1>7. CASE j < k
  <2>1. j + 1 \in 1 .. Len(lru) /\ j + 1 \in 2 .. Len(lru) /\ (j + 1) - 1 = j /\ j \in 1 .. Len(lru) - 1
    BY <1>0, <1>6, <1>7
  <2>2. all[j + 1] = w[j] /\ w[j] = lru[j]
    BY <1>2, <1>4, <1>7, <2>1
  <2> QED BY <1>4, <1>5, <2>1, <2>2
<1>8. CASE ~(j < k)
  <2>1. /\ j \in 2 .. Len(lru) /\ j - 1 \in 1 .. Len(lru) - 1 /\ ~(j - 1 < k)
        /\ (j - 1) + 1 = j
    BY <1>0, <1>6, <1>8
  <2>2. all[j] = w[j - 1] /\ w[j - 1] = lru[j]
    BY <1>2, <1>4, <2>1
  <2> QED BY <1>4, <1>5, <2>2
<1> QED BY <1>7, <1>8

LEMMA TouchFacts ==
  ASSUME NEW S, NEW lru \in Seq(S), NEW id
  PROVE  /\ Touch(lru, id) \in Seq(S) /\ Len(Touch(lru, id)) <= Len(lru) /\ Within(Touch(lru, id), lru)
         /\ Unique(lru) => Unique(Touch(lru, id))
<1>0. Len(lru) \in Nat
  BY LenProperties
<1>1. CASE ~Has(lru, id)
  BY <1>0, <1>1 DEF Touch, Within
<1>2. CASE Has(lru, id)
  <2>1. PICK k \in 1 .. Len(lru) : k = Position(lru, id) /\ lru[k].id = id
    BY <1>2, PositionFacts
  <2>2. PICK e \in S : e = lru[k]
    BY ElementOfSeq
  <2> DEFINE w == Without(lru, id)
             all == <<e>> \o w
  <2>3. Touch(lru, id) = all
    BY <1>2, <2>1, <2>2 DEF Touch, Get
  <2>4. /\ w \in Seq(S) /\ Len(w) = Len(lru) - 1 /\ Within(w, lru)
        /\ Unique(lru) => Unique(w) /\ ~Has(w, id)
    BY <1>2, WithoutFacts
  <2> HIDE DEF w
  <2>5. <<e>> \in Seq(S) /\ Len(<<e>>) = 1 /\ <<e>>[1] = e
    OBVIOUS
  <2>6. /\ all \in Seq(S) /\ Len(all) = Len(lru)
        /\ \A i \in 1 .. Len(lru) : all[i] = IF i = 1 THEN e ELSE w[i - 1]
    <3>1. /\ all \in Seq(S) /\ Len(all) = 1 + Len(w)
          /\ \A i \in 1 .. 1 + Len(w) : all[i] = IF i <= 1 THEN <<e>>[i] ELSE w[i - 1]
      BY <2>4, <2>5, ConcatProperties
    <3> QED BY <1>0, <2>4, <2>5, <3>1
  <2> HIDE DEF all
  <2>7. \A i \in 1 .. Len(lru) : i # 1 => i - 1 \in 1 .. Len(w)
    BY <1>0, <2>4
  <2>8. Within(all, lru)
    <3> SUFFICES ASSUME NEW i \in 1 .. Len(lru) PROVE \E j \in 1 .. Len(lru) : all[i] = lru[j]
      BY <2>6 DEF Within
    <3>1. CASE i = 1
      BY <2>2, <2>6, <3>1
    <3>2. CASE i # 1
      BY <2>4, <2>6, <2>7, <3>2 DEF Within
    <3> QED BY <3>1, <3>2
  <2>9. ASSUME Unique(lru) PROVE Unique(all)
    <3> SUFFICES ASSUME NEW i \in 1 .. Len(lru), NEW j \in 1 .. Len(lru), all[i].id = all[j].id
                 PROVE  i = j
      BY <2>6 DEF Unique
    <3>1. Unique(w) /\ ~Has(w, id) /\ e.id = id
      BY <2>1, <2>2, <2>4, <2>9
    <3>2. CASE i = 1 /\ j = 1
      BY <3>2
    <3>3. CASE i = 1 /\ j # 1
      BY <2>6, <2>7, <3>1, <3>3 DEF Has
    <3>4. CASE i # 1 /\ j = 1
      BY <2>6, <2>7, <3>1, <3>4 DEF Has
    <3>5. CASE i # 1 /\ j # 1
      <4>1. i - 1 \in 1 .. Len(w) /\ j - 1 \in 1 .. Len(w) /\ w[i - 1].id = w[j - 1].id
        BY <2>6, <2>7, <3>5
      <4>2. i - 1 = j - 1
        BY <3>1, <4>1 DEF Unique
      <4> QED BY <4>2
    <3> QED BY <3>2, <3>3, <3>4, <3>5
  <2> QED BY <1>0, <2>3, <2>6, <2>8, <2>9
<1> QED BY <1>1, <1>2


----------------------------------------------------------------------------
(* Ages and quota                                                          *)

Ages == Seq(0 .. FailureWindow)

Old(ages) == {i \in 1 .. Len(ages) : ages[i] >= FailureWindow}

(* The oldest failure first. *)
Ordered(ages) == \A i, j \in 1 .. Len(ages) : i <= j => ages[i] >= ages[j]

(* b is the end of a. *)
EndOf(b, a) ==
  Len(b) <= Len(a) /\ \A j \in Nat : j < Len(b) => b[Len(b) - j] = a[Len(a) - j]

LEMMA UpTo ==
  ASSUME NEW n \in Nat
  PROVE  IsFiniteSet(1 .. n) /\ Cardinality(1 .. n) = n
<1>1. n \in Int /\ 1 \in Int
  OBVIOUS
<1>2. IsFiniteSet(1 .. n) /\ Cardinality(1 .. n) = IF 1 > n THEN 0 ELSE n - 1 + 1
  BY ONLY <1>1, FS_Interval
<1> QED BY <1>2

LEMMA OldFacts ==
  ASSUME NEW ages \in Ages
  PROVE  IsFiniteSet(Old(ages)) /\ Cardinality(Old(ages)) \in 0 .. Len(ages)
<1>1. Len(ages) \in Nat
  BY LenProperties DEF Ages
<1>2. IsFiniteSet(1 .. Len(ages)) /\ Cardinality(1 .. Len(ages)) = Len(ages)
  BY <1>1, UpTo
<1>3. Old(ages) \subseteq 1 .. Len(ages)
  BY DEF Old
<1>4. IsFiniteSet(Old(ages)) /\ Cardinality(Old(ages)) <= Len(ages)
  BY <1>2, <1>3, FS_Subset
<1> QED BY <1>1, <1>4, FS_CardinalityType

LEMMA PruneFacts ==
  ASSUME NEW ages \in Ages
  PROVE  /\ Prune(ages) \in Ages
         /\ Len(Prune(ages)) = Len(ages) - Cardinality(Old(ages))
         /\ Len(Prune(ages)) \in 0 .. Len(ages)
         /\ \A i \in 1 .. Len(Prune(ages)) :
              /\ i + Cardinality(Old(ages)) \in 1 .. Len(ages)
              /\ Prune(ages)[i] = ages[i + Cardinality(Old(ages))]
         /\ Ordered(ages) => Ordered(Prune(ages))
<1> DEFINE k == Cardinality(Old(ages))
           n == Len(ages)
<1>1. n \in Nat /\ k \in 0 .. n
  BY OldFacts, LenProperties DEF Ages
<1>2. Prune(ages) = SubSeq(ages, k + 1, n)
  BY DEF Prune, InWindow, Old
<1>3. \A i \in k + 1 .. n : ages[i] \in 0 .. FailureWindow
  <2>1. \A i \in 1 .. n : ages[i] \in 0 .. FailureWindow
    BY ElementOfSeq DEF Ages
  <2> HIDE DEF k, n
  <2> QED BY <1>1, <2>1
<1> HIDE DEF k, n
<1>4. /\ SubSeq(ages, k + 1, n) \in Ages
      /\ Len(SubSeq(ages, k + 1, n)) = IF k + 1 <= n THEN n - (k + 1) + 1 ELSE 0
      /\ \A i \in 1 .. n - (k + 1) + 1 : SubSeq(ages, k + 1, n)[i] = ages[(k + 1) + i - 1]
  <2>1. k + 1 \in 1 .. n + 1 /\ n \in Nat
    BY <1>1
  <2> QED BY <1>3, <2>1, SubSeqProperties DEF Ages
<1>5. /\ Prune(ages) \in Ages /\ Len(Prune(ages)) = n - k
      /\ \A i \in 1 .. n - k : i + k \in 1 .. n /\ Prune(ages)[i] = ages[i + k]
  <2>1. \A i \in 1 .. n - k : (k + 1) + i - 1 = i + k /\ i \in 1 .. n - (k + 1) + 1
    BY <1>1
  <2> QED BY <1>1, <1>2, <1>4, <2>1
<1>6. ASSUME Ordered(ages) PROVE Ordered(Prune(ages))
  <2>1. \A i, j \in 1 .. n - k : i <= j => i + k <= j + k
    BY <1>1
  <2> QED BY <1>5, <1>6, <2>1 DEF Ordered, n
<1> QED BY <1>1, <1>5, <1>6 DEF k, n

(* On times in the order of the failures, Prune keeps those within the     *)
(* window and no other: it is the filter that pruneOldTimestamps is.       *)
LEMMA PruneIsFilter ==
  ASSUME NEW ages \in Ages, Ordered(ages)
  PROVE  /\ Old(ages) = 1 .. Cardinality(Old(ages))
         /\ \A i \in 1 .. Len(Prune(ages)) : Prune(ages)[i] < FailureWindow
<1> DEFINE k == Cardinality(Old(ages))
<1>1. Len(ages) \in Nat /\ k \in 0 .. Len(ages) /\ IsFiniteSet(Old(ages)) /\ FailureWindow \in Nat
  BY OldFacts, LenProperties, MetadataConstants DEF Ages
<1>2. \A i \in 1 .. Len(ages) : ages[i] \in 0 .. FailureWindow
  BY ElementOfSeq DEF Ages
<1>3. ASSUME NEW i \in Old(ages) PROVE i <= k
  <2>1. 1 .. i \subseteq Old(ages)
    <3> SUFFICES ASSUME NEW j \in 1 .. i PROVE j \in Old(ages)
      OBVIOUS
    <3>1. i \in 1 .. Len(ages) /\ ages[i] >= FailureWindow
      BY DEF Old
    <3>2. j \in 1 .. Len(ages) /\ j <= i
      BY <1>1, <3>1
    <3>3. ages[j] >= ages[i]
      BY <3>1, <3>2 DEF Ordered
    <3>4. ages[j] >= FailureWindow
      BY <1>1, <1>2, <3>1, <3>2, <3>3
    <3> QED BY <3>2, <3>4 DEF Old
  <2>2. i \in Nat
    BY <1>1 DEF Old
  <2>3. Cardinality(1 .. i) = i
    BY <2>2, UpTo
  <2> QED BY <1>1, <2>1, <2>3, FS_Subset
<1>4. ASSUME NEW i \in 1 .. Len(ages), i \notin Old(ages) PROVE k < i
  <2>1. Old(ages) \subseteq 1 .. i - 1
    <3> SUFFICES ASSUME NEW j \in Old(ages) PROVE j \in 1 .. i - 1
      OBVIOUS
    <3>1. j \in 1 .. Len(ages) /\ ages[j] >= FailureWindow /\ ~(ages[i] >= FailureWindow)
      BY <1>4 DEF Old
    <3>2. ~(i <= j)
      BY <1>1, <1>2, <3>1 DEF Ordered
    <3> QED BY <1>1, <3>1, <3>2
  <2>2. i - 1 \in Nat
    BY <1>1
  <2>3. IsFiniteSet(1 .. i - 1) /\ Cardinality(1 .. i - 1) = i - 1
    BY <2>2, UpTo
  <2>4. k <= i - 1
    BY <2>1, <2>3, FS_Subset
  <2> QED BY <1>1, <2>4
<1>5. Old(ages) = 1 .. k
  <2>1. \A i \in Old(ages) : i \in 1 .. Len(ages)
    BY DEF Old
  <2>2. ASSUME NEW i \in 1 .. k PROVE i \in Old(ages)
    <3>1. i \in 1 .. Len(ages) /\ ~(k < i)
      BY <1>1
    <3> QED BY <1>4, <3>1
  <2> HIDE DEF k
  <2>3. \A i \in Old(ages) : i \in 1 .. k
    BY <1>1, <1>3, <2>1
  <2> QED BY <2>2, <2>3
<1>6. ASSUME NEW i \in 1 .. Len(Prune(ages)) PROVE Prune(ages)[i] < FailureWindow
  <2>1. i + k \in 1 .. Len(ages) /\ Prune(ages)[i] = ages[i + k]
    BY PruneFacts
  <2>2. i + k \notin 1 .. k
    <3>1. i \in Nat /\ i >= 1
      BY <1>1, PruneFacts
    <3> HIDE DEF k
    <3> QED BY <1>1, <3>1
  <2>3. ~(ages[i + k] >= FailureWindow)
    BY <1>5, <2>1, <2>2 DEF Old
  <2> QED BY <1>1, <1>2, <2>1, <2>3
<1> QED BY <1>5, <1>6


(* What the tracker counts for id in the list lru. *)
CountIn(lru, id) == IF Has(lru, id) THEN Len(Prune(Get(lru, id).ages)) ELSE 0

LEMMA GetFacts ==
  ASSUME NEW lru, Unique(lru), NEW i \in 1 .. Len(lru)
  PROVE  Has(lru, lru[i].id) /\ Get(lru, lru[i].id) = lru[i]
<1>1. Has(lru, lru[i].id)
  BY DEF Has
<1>2. Position(lru, lru[i].id) \in 1 .. Len(lru) /\ lru[Position(lru, lru[i].id)].id = lru[i].id
  BY <1>1, PositionFacts
<1>3. Position(lru, lru[i].id) = i
  BY <1>2 DEF Unique
<1> QED BY <1>1, <1>3 DEF Get

LEMMA CountType ==
  ASSUME NEW lru \in Seq(FailureRecord), NEW id
  PROVE  CountIn(lru, id) \in Nat
<1>1. CASE ~Has(lru, id)
  BY <1>1 DEF CountIn
<1>2. CASE Has(lru, id)
  <2>1. PICK k \in 1 .. Len(lru) : k = Position(lru, id)
    BY <1>2, PositionFacts
  <2>2. lru[k] \in FailureRecord
    BY ElementOfSeq
  <2>3. lru[k].ages \in Ages
    BY <2>2 DEF FailureRecord, Ages
  <2>4. Len(lru[k].ages) \in Nat
    BY <2>3, LenProperties DEF Ages
  <2>5. Len(Prune(lru[k].ages)) \in Nat
    BY <2>3, <2>4, PruneFacts
  <2> QED BY <1>2, <2>1, <2>5 DEF CountIn, Get
<1> QED BY <1>1, <1>2

(* After Add, the count of the id added is that of its new record, and no  *)
(* other count has grown.                                                  *)
LEMMA CountAfterAdd ==
  ASSUME NEW lru \in Seq(FailureRecord), NEW e \in FailureRecord, Len(lru) <= CacheMax, Unique(lru)
  PROVE  /\ CountIn(Add(lru, e), e.id) = Len(Prune(e.ages))
         /\ \A id : id # e.id => CountIn(Add(lru, e), id) <= CountIn(lru, id)
<1> DEFINE new == Add(lru, e)
<1>1. /\ new \in Seq(FailureRecord) /\ Len(new) \in 1 .. CacheMax /\ new[1] = e /\ Unique(new)
      /\ \A i \in 2 .. Len(new) : \E j \in 1 .. Len(lru) : new[i] = lru[j]
  BY AddFacts
<1>2. CacheMax \in Nat
  BY MetadataConstants
<1> HIDE DEF new
<1>3. 1 \in 1 .. Len(new)
  BY <1>1, <1>2
<1>4. CountIn(new, e.id) = Len(Prune(e.ages))
  BY <1>1, <1>3, GetFacts DEF CountIn
<1>5. ASSUME NEW id, id # e.id PROVE CountIn(new, id) <= CountIn(lru, id)
  <2>1. CASE ~Has(new, id)
    <3>1. CountIn(new, id) = 0 /\ CountIn(lru, id) \in Nat
      BY <2>1, CountType DEF CountIn
    <3> QED BY <3>1
  <2>2. CASE Has(new, id)
    <3>1. PICK i \in 1 .. Len(new) : new[i].id = id
      BY <2>2 DEF Has
    <3>2. i \in 2 .. Len(new)
      <4>1. i # 1
        BY <1>1, <1>5, <3>1
      <4> QED BY <1>1, <1>2, <4>1
    <3>3. PICK j \in 1 .. Len(lru) : new[i] = lru[j]
      BY <1>1, <3>2
    <3>4. /\ Has(new, id) /\ Get(new, id) = new[i]
          /\ Has(lru, id) /\ Get(lru, id) = new[i]
      BY <1>1, <3>1, <3>3, GetFacts
    <3>5. CountIn(new, id) = CountIn(lru, id) /\ CountIn(lru, id) \in Nat
      BY <3>4, CountType DEF CountIn
    <3> QED BY <3>5
  <2> QED BY <2>1, <2>2
<1> QED BY <1>4, <1>5 DEF new

(* The step of the clock, for one record and for the list. *)
AgedRecord(r) == [r EXCEPT !.ages = AllOlder(@)]

Aged(lru) == [i \in DOMAIN lru |-> AgedRecord(lru[i])]

LEMMA FunctionIsSeq ==
  ASSUME NEW S, NEW n \in Nat, NEW f \in [1 .. n -> S]
  PROVE  f \in Seq(S) /\ Len(f) = n
OBVIOUS

LEMMA AllOlderFacts ==
  ASSUME NEW s \in Ages
  PROVE  /\ AllOlder(s) \in Ages /\ Len(AllOlder(s)) = Len(s)
         /\ \A i \in 1 .. Len(s) : AllOlder(s)[i] = Older(s[i], FailureWindow)
         /\ Ordered(s) => Ordered(AllOlder(s))
         /\ Len(Prune(AllOlder(s))) <= Len(Prune(s))
<1>0. FailureWindow \in Nat
  BY MetadataConstants
<1> DEFINE a == AllOlder(s)
<1>2. Len(s) \in Nat /\ DOMAIN s = 1 .. Len(s) /\ \A i \in 1 .. Len(s) : s[i] \in 0 .. FailureWindow
  BY LenProperties, ElementOfSeq DEF Ages
<1>4. a \in [1 .. Len(s) -> 0 .. FailureWindow]
  BY <1>0, <1>2 DEF AllOlder, Older
<1>6. \A i \in 1 .. Len(s) : a[i] = IF s[i] < FailureWindow THEN s[i] + 1 ELSE FailureWindow
  BY <1>2 DEF AllOlder, Older
<1> HIDE DEF a
<1>5. a \in Ages /\ Len(a) = Len(s)
  <2>1. PICK n \in Nat : n = Len(s)
    BY <1>2
  <2>2. a \in [1 .. n -> 0 .. FailureWindow]
    BY <1>4, <2>1
  <2>3. a \in Seq(0 .. FailureWindow) /\ Len(a) = n
    BY ONLY <2>2, n \in Nat, FunctionIsSeq
  <2> QED BY <2>1, <2>3 DEF Ages
<1>8. ASSUME Ordered(s) PROVE Ordered(a)
  <2> SUFFICES ASSUME NEW i \in 1 .. Len(s), NEW j \in 1 .. Len(s), i <= j PROVE a[i] >= a[j]
    BY <1>5 DEF Ordered
  <2>1. s[i] >= s[j] /\ s[i] \in 0 .. FailureWindow /\ s[j] \in 0 .. FailureWindow
    BY <1>2, <1>8 DEF Ordered
  <2> QED BY <1>0, <1>6, <2>1
<1>9. Old(s) \subseteq Old(a)
  BY <1>0, <1>2, <1>5, <1>6 DEF Old
<1>10. Cardinality(Old(s)) <= Cardinality(Old(a))
  BY <1>5, <1>9, OldFacts, FS_Subset
<1>11. /\ Cardinality(Old(s)) \in Nat /\ Cardinality(Old(a)) \in Nat
       /\ Len(Prune(s)) = Len(s) - Cardinality(Old(s)) /\ Len(Prune(a)) = Len(s) - Cardinality(Old(a))
  BY <1>2, <1>5, OldFacts, PruneFacts
<1>12. Len(Prune(a)) <= Len(Prune(s))
  BY <1>2, <1>10, <1>11
<1> QED BY <1>5, <1>6, <1>8, <1>12 DEF a, Older

LEMMA AgedRecordFacts ==
  ASSUME NEW r \in FailureRecord
  PROVE  /\ AgedRecord(r) \in FailureRecord /\ AgedRecord(r).id = r.id
         /\ AgedRecord(r).ages = AllOlder(r.ages)
         /\ Len(AgedRecord(r).ages) = Len(r.ages)
         /\ Ordered(r.ages) => Ordered(AgedRecord(r).ages)
         /\ Len(Prune(AgedRecord(r).ages)) <= Len(Prune(r.ages))
<1>1. PICK s \in Ages : s = r.ages
  BY DEF FailureRecord, Ages
<1>2. AllOlder(s) \in Ages
  BY AllOlderFacts
<1>3. AgedRecord(r) \in FailureRecord /\ AgedRecord(r).id = r.id /\ AgedRecord(r).ages = AllOlder(s)
  BY <1>1, <1>2 DEF AgedRecord, FailureRecord, Ages
<1> QED BY <1>1, <1>3, AllOlderFacts

LEMMA AgedFacts ==
  ASSUME NEW lru \in Seq(FailureRecord)
  PROVE  /\ Aged(lru) \in Seq(FailureRecord) /\ Len(Aged(lru)) = Len(lru)
         /\ \A i \in 1 .. Len(lru) : Aged(lru)[i] = AgedRecord(lru[i])
         /\ Unique(lru) => Unique(Aged(lru)) /\ \A id : CountIn(Aged(lru), id) <= CountIn(lru, id)
<1>1. Len(lru) \in Nat /\ DOMAIN lru = 1 .. Len(lru) /\ \A i \in 1 .. Len(lru) : lru[i] \in FailureRecord
  BY LenProperties, ElementOfSeq
<1> DEFINE new == Aged(lru)
<1>2. \A i \in 1 .. Len(lru) : new[i] = AgedRecord(lru[i])
  BY <1>1 DEF Aged
<1>3. new \in [1 .. Len(lru) -> FailureRecord]
  BY <1>1, AgedRecordFacts DEF Aged
<1> HIDE DEF new
<1>4. new \in Seq(FailureRecord) /\ Len(new) = Len(lru)
  BY <1>1, <1>3
<1>5. \A i \in 1 .. Len(lru) : new[i].id = lru[i].id
  BY <1>1, <1>2, AgedRecordFacts
<1>6. ASSUME Unique(lru) PROVE Unique(new)
  BY <1>4, <1>5, <1>6 DEF Unique
<1>7. ASSUME Unique(lru), NEW id PROVE CountIn(new, id) <= CountIn(lru, id)
  <2>1. CASE ~Has(new, id)
    <3>1. CountIn(new, id) = 0 /\ CountIn(lru, id) \in Nat
      BY <2>1, CountType DEF CountIn
    <3> QED BY <3>1
  <2>2. CASE Has(new, id)
    <3>1. PICK i \in 1 .. Len(lru) : new[i].id = id
      BY <1>4, <2>2 DEF Has
    <3>2. Has(new, id) /\ Get(new, id) = new[i]
      BY <1>4, <1>6, <1>7, <3>1, GetFacts
    <3>3. Has(lru, id) /\ Get(lru, id) = lru[i]
      BY <1>5, <1>7, <3>1, GetFacts
    <3>4. Len(Prune(new[i].ages)) <= Len(Prune(lru[i].ages))
      BY <1>1, <1>2, AgedRecordFacts
    <3> QED BY <3>2, <3>3, <3>4 DEF CountIn
  <2> QED BY <2>1, <2>2
<1> QED BY <1>2, <1>4, <1>6, <1>7 DEF new


----------------------------------------------------------------------------
(* Types                                                                   *)

AgedEntry(e) == [e EXCEPT !.left = IF @ > 0 THEN @ - 1 ELSE 0]

AgedCache(lru) == [i \in DOMAIN lru |-> AgedEntry(lru[i])]

LEMMA AgedCacheFacts ==
  ASSUME NEW lru \in Seq(Entry)
  PROVE  /\ AgedCache(lru) \in Seq(Entry) /\ Len(AgedCache(lru)) = Len(lru)
         /\ \A i \in 1 .. Len(lru) :
              /\ AgedCache(lru)[i].id = lru[i].id /\ AgedCache(lru)[i].doc = lru[i].doc
              /\ AgedCache(lru)[i].left = IF lru[i].left > 0 THEN lru[i].left - 1 ELSE 0
<1>1. Len(lru) \in Nat /\ DOMAIN lru = 1 .. Len(lru) /\ \A i \in 1 .. Len(lru) : lru[i] \in Entry
  BY LenProperties, ElementOfSeq
<1>2. ASSUME NEW e \in Entry
      PROVE  /\ AgedEntry(e) \in Entry /\ AgedEntry(e).id = e.id /\ AgedEntry(e).doc = e.doc
             /\ AgedEntry(e).left = IF e.left > 0 THEN e.left - 1 ELSE 0
  BY DEF AgedEntry, Entry
<1> DEFINE new == AgedCache(lru)
<1>3. \A i \in 1 .. Len(lru) : new[i] = AgedEntry(lru[i])
  BY <1>1 DEF AgedCache
<1>4. new \in [1 .. Len(lru) -> Entry]
  BY <1>1, <1>2 DEF AgedCache
<1> HIDE DEF new
<1>5. new \in Seq(Entry) /\ Len(new) = Len(lru)
  BY <1>1, <1>4
<1> QED BY <1>1, <1>2, <1>3, <1>5 DEF new

(* Every Cache-Control value, overflowing ones included, gives a lifetime   *)
(* between the floor and the ceiling.                                       *)
LEMMA CacheTTLBounded ==
  ASSUME NEW header \in Headers
  PROVE  CacheTTL(header) \in FloorTTL .. CeilTTL
<1>1. FloorTTL \in Nat /\ CeilTTL \in Nat /\ DefaultTTL \in Nat /\ FloorTTL <= CeilTTL
  BY MetadataConstants
<1>2. ParseCacheControlTTL(header) \in Int
  <2>1. CASE header = <<"absent">>
    BY <1>1, <2>1 DEF ParseCacheControlTTL
  <2>2. CASE header # <<"absent">> /\ header = <<"no-store">>
    BY <2>2 DEF ParseCacheControlTTL
  <2>3. CASE header # <<"absent">> /\ header # <<"no-store">>
    <3>1. header \in {"max-age"} \X Int
      BY <2>3, MetadataConstants
    <3>2. PICK n \in Int : n = header[2]
      BY <3>1
    <3>3. AsDuration(n) \in Int
      <4>1. DurationSpan \in Nat \ {0}
        BY MetadataConstants
      <4>2. DurationSpan \div 2 \in Int
        BY <4>1
      <4>3. (n + (DurationSpan \div 2)) % DurationSpan \in Int
        BY <4>1, <4>2
      <4> QED BY <4>2, <4>3 DEF AsDuration
    <3> QED BY <2>3, <3>2, <3>3 DEF ParseCacheControlTTL
  <2> QED BY <2>1, <2>2, <2>3
<1> QED BY <1>1, <1>2 DEF CacheTTL

(* A caller inside FetchClient asks for an id that FetchClient lets pass. *)
Admitted ==
  \A p \in Procs : req[p].pc # "idle" => req[p].id \in ClientIds /\ Fetchable(req[p].id)

Typed == TypeOK /\ Admitted

LEMMA TypedHolds == Init => Typed
<1> SUFFICES ASSUME Init PROVE Typed
  OBVIOUS
<1>0. /\ MaxChanges \in Nat /\ MaxFaults \in Nat /\ FetchTimeout \in Nat /\ CacheMax \in Nat
      /\ Forgotten \in Nat
  BY MetadataConstants DEF Forgotten, MaxStaleness
<1>1. docs \in [Urls -> Documents]
  BY DEF Init
<1>2. gone \in [Urls -> [Documents -> 0 .. Forgotten]]
  BY <1>0 DEF Init
<1>3. changes \in 0 .. MaxChanges /\ faults \in 0 .. MaxFaults
  BY <1>0 DEF Init
<1>4. /\ cache \in Seq(Entry) /\ Len(cache) <= CacheMax
      /\ failures \in Seq(FailureRecord) /\ Len(failures) <= CacheMax
  BY <1>0, EmptySeq DEF Init
<1>5. flights \in [ClientIds -> Flight]
  BY <1>0 DEF Init, NoFlight, Flight
<1>6. req \in [Procs -> Request] /\ Admitted
  BY DEF Init, Idle, Request, Admitted
<1>7. asked \in Seq(0 .. FailureWindow) /\ lost \in 0 .. FailureWindow
  BY MetadataConstants, EmptySeq DEF Init
<1> QED BY <1>1, <1>2, <1>3, <1>4, <1>5, <1>6, <1>7 DEF Typed, TypeOK

(* The record of a failure, and the count that follows from it. *)
Failed(id) ==
  [id |-> id, ages |-> (IF Has(failures, id) THEN Prune(Get(failures, id).ages) ELSE <<>>) \o <<0>>]

LEMMA RecordFacts ==
  ASSUME TypeOK, NEW id \in ClientIds
  PROVE  /\ Has(failures, id) => /\ Get(failures, id) \in FailureRecord
                                 /\ Get(failures, id).ages \in Ages
                                 /\ Get(failures, id).id = id
                                 /\ \E i \in 1 .. Len(failures) : Get(failures, id) = failures[i]
                                 /\ Pruned(id) \in FailureRecord /\ Pruned(id).id = id
                                 /\ Len(Prune(Pruned(id).ages)) <= Counted(id)
         /\ Failed(id) \in FailureRecord /\ Failed(id).id = id
         /\ Len(Prune(Failed(id).ages)) <= Counted(id) + 1
<1>1. ASSUME Has(failures, id)
      PROVE  /\ Get(failures, id) \in FailureRecord
             /\ Get(failures, id).ages \in Ages
             /\ Get(failures, id).id = id
             /\ \E i \in 1 .. Len(failures) : Get(failures, id) = failures[i]
  <2>1. PICK k \in 1 .. Len(failures) : k = Position(failures, id) /\ failures[k].id = id
    BY <1>1, PositionFacts
  <2>2. failures[k] \in FailureRecord
    BY ElementOfSeq DEF TypeOK
  <2> QED BY <2>1, <2>2 DEF Get, FailureRecord, Ages
<1>2. ASSUME Has(failures, id)
      PROVE  /\ Pruned(id) \in FailureRecord /\ Pruned(id).id = id
             /\ Len(Prune(Pruned(id).ages)) <= Counted(id)
  <2>1. PICK s \in Ages : s = Get(failures, id).ages
    BY <1>1, <1>2
  <2>2. Prune(s) \in Ages /\ Prune(Prune(s)) \in Ages /\ Len(Prune(Prune(s))) \in 0 .. Len(Prune(s))
    BY PruneFacts
  <2>3. Pruned(id) = [id |-> id, ages |-> Prune(s)] /\ Counted(id) = Len(Prune(s))
    BY <1>2, <2>1 DEF Pruned, Counted
  <2>4. Len(Prune(s)) \in Nat
    BY <2>2, LenProperties DEF Ages
  <2> QED BY <2>2, <2>3, <2>4 DEF FailureRecord, Ages
<1>3. /\ Failed(id) \in FailureRecord /\ Failed(id).id = id
      /\ Len(Prune(Failed(id).ages)) <= Counted(id) + 1
  <2> DEFINE base == IF Has(failures, id) THEN Prune(Get(failures, id).ages) ELSE <<>>
  <2>1. base \in Ages /\ Len(base) = Counted(id) /\ Len(base) \in Nat
    <3>1. CASE Has(failures, id)
      <4>1. base \in Ages
        BY <1>1, <3>1, PruneFacts
      <4> QED BY <3>1, <4>1, LenProperties DEF Counted, Ages
    <3>2. CASE ~Has(failures, id)
      BY <3>2, EmptySeq DEF Counted, Ages
    <3> QED BY <3>1, <3>2
  <2> HIDE DEF base
  <2>2. <<0>> \in Ages /\ Len(<<0>>) = 1
    BY MetadataConstants DEF Ages
  <2>3. base \o <<0>> \in Ages /\ Len(base \o <<0>>) = Len(base) + 1
    BY <2>1, <2>2, ConcatProperties DEF Ages
  <2>4. Failed(id) = [id |-> id, ages |-> base \o <<0>>]
    BY DEF Failed, base
  <2>5. Len(Prune(base \o <<0>>)) \in 0 .. Len(base \o <<0>>)
    BY <2>3, PruneFacts
  <2> QED BY <2>1, <2>3, <2>4, <2>5 DEF FailureRecord, Ages
<1> QED BY <1>1, <1>2, <1>3


(* What a caller's own steps and the end of a fetch do to the requests. *)
LEMMA MovesOn ==
  ASSUME Typed, NEW p \in Procs, NEW pc \in {"remove", "limit", "do", "wait"}, req[p].pc # "idle",
         req' = [req EXCEPT ![p].pc = pc]
  PROVE  /\ req' \in [Procs -> Request] /\ Admitted'
         /\ req'[p].pc = pc /\ req'[p].id = req[p].id
         /\ \A q \in Procs \ {p} : req'[q] = req[q]
BY DEF Typed, TypeOK, Admitted, Request

LEMMA IsAnswered ==
  ASSUME Typed, NEW p \in Procs, NEW d \in Documents \cup {Nil}, Answer(p, d)
  PROVE  /\ req' \in [Procs -> Request] /\ Admitted'
         /\ req'[p].pc = "idle" /\ req'[p].answer = d
         /\ \A q \in Procs \ {p} : req'[q] = req[q]
BY DEF Typed, TypeOK, Admitted, Request, Answer

LEMMA AreWoken ==
  ASSUME Typed, NEW id \in ClientIds, NEW d \in Documents \cup {Nil}, Wake(id, d)
  PROVE  /\ req' \in [Procs -> Request] /\ Admitted' /\ flights' \in [ClientIds -> Flight]
         /\ flights'[id] = NoFlight /\ \A x \in ClientIds \ {id} : flights'[x] = flights[x]
         /\ \A q \in Procs : \/ req[q].pc = "wait" /\ req[q].id = id
                                /\ req'[q].pc = "idle" /\ req'[q].answer = d
                             \/ req'[q] = req[q] /\ ~(req[q].pc = "wait" /\ req[q].id = id)
<1>0. NoFlight \in Flight
  BY MetadataConstants DEF NoFlight, Flight
<1>1. ASSUME NEW q \in Procs, req[q].pc = "wait", req[q].id = id
      PROVE  /\ [req[q] EXCEPT !.pc = "idle", !.answer = d] \in Request
             /\ req'[q] = [req[q] EXCEPT !.pc = "idle", !.answer = d]
             /\ req'[q].pc = "idle" /\ req'[q].answer = d
  BY <1>1 DEF Typed, TypeOK, Wake, Request
<1>2. ASSUME NEW q \in Procs, ~(req[q].pc = "wait" /\ req[q].id = id)
      PROVE  req'[q] = req[q] /\ req[q] \in Request
  BY <1>2 DEF Typed, TypeOK, Wake
<1>3. req' \in [Procs -> Request]
  <2>1. \A q \in Procs : req'[q] \in Request
    BY <1>1, <1>2
  <2>2. req' = [q \in Procs |-> req'[q]]
    BY DEF Wake
  <2> QED BY <2>1, <2>2
<1>4. Admitted'
  BY <1>1, <1>2 DEF Typed, Admitted
<1>5. /\ flights' \in [ClientIds -> Flight]
      /\ flights'[id] = NoFlight /\ \A x \in ClientIds \ {id} : flights'[x] = flights[x]
  BY <1>0 DEF Wake, Typed, TypeOK
<1> QED BY <1>1, <1>2, <1>3, <1>4, <1>5

(* The history of failures, with the last one added and the first one      *)
(* dropped when it is longer than it needs to be.                          *)
LEMMA NewestFacts ==
  ASSUME NEW a \in Ages
  PROVE  /\ Append(a, 0) \in Ages /\ Len(Append(a, 0)) = Len(a) + 1
         /\ \A i \in 1 .. Len(a) : Append(a, 0)[i] = a[i]
         /\ Append(a, 0)[Len(a) + 1] = 0
         /\ Newest(Append(a, 0)) \in Ages
         /\ EndOf(Newest(Append(a, 0)), Append(a, 0))
<1>0. FailureWindow \in Nat /\ Len(a) \in Nat
  BY MetadataConstants, LenProperties DEF Ages
<1> DEFINE b == Append(a, 0)
<1>1. /\ b \in Ages /\ Len(b) = Len(a) + 1
      /\ \A i \in 1 .. Len(a) : b[i] = a[i]
      /\ b[Len(a) + 1] = 0
  BY <1>0, AppendProperties DEF Ages
<1> HIDE DEF b
<1>2. Newest(b) \in Ages /\ EndOf(Newest(b), b)
  <2>1. CASE Newest(b) = b
    <3>1. Len(b) <= Len(b)
      BY <1>0, <1>1
    <3> QED BY <1>1, <2>1, <3>1 DEF EndOf
  <2>2. CASE Newest(b) = Tail(b)
    <3>1. b # <<>>
      BY <1>0, <1>1, EmptySeq
    <3>2. PICK c \in Ages : c = Tail(b) /\ Len(c) = Len(b) - 1 /\ \A i \in 1 .. Len(b) - 1 : c[i] = b[i + 1]
      <4>1. b \in Seq(0 .. FailureWindow)
        BY <1>1 DEF Ages
      <4>2. /\ Tail(b) \in Seq(0 .. FailureWindow) /\ Len(Tail(b)) = Len(b) - 1
            /\ \A i \in 1 .. Len(Tail(b)) : Tail(b)[i] = b[i + 1]
        BY ONLY <3>1, <4>1, HeadTailProperties
      <4> QED BY <4>2 DEF Ages
    <3>3. ASSUME NEW j \in Nat, j < Len(c) PROVE c[Len(c) - j] = b[Len(b) - j]
      <4>1. Len(c) - j \in 1 .. Len(b) - 1 /\ (Len(c) - j) + 1 = Len(b) - j
        BY <1>0, <1>1, <3>2, <3>3
      <4> QED BY <3>2, <4>1
    <3>4. Len(c) <= Len(b)
      BY <1>0, <1>1, <3>2
    <3> QED BY <2>2, <3>2, <3>3, <3>4 DEF EndOf
  <2> QED BY <2>1, <2>2 DEF Newest
<1> QED BY <1>1, <1>2 DEF b

LEMMA TypedStep == Typed /\ [Next]_vars => Typed'
<1> SUFFICES ASSUME Typed, [Next]_vars PROVE Typed'
  OBVIOUS
<1>0. /\ FetchTimeout \in Nat /\ CacheMax \in Nat /\ CeilTTL \in Nat /\ FloorTTL \in Nat
      /\ NegativeTTL \in Nat /\ MaxChanges \in Nat /\ MaxFaults \in Nat /\ Forgotten \in Nat
  BY MetadataConstants DEF Forgotten, MaxStaleness
<1>t. TypeOK /\ Admitted
  BY DEF Typed
<1>1. CASE Tick
  <2>1. gone' \in [Urls -> [Documents -> 0 .. Forgotten]]
    <3>1. \A u \in Urls : \A d \in Documents : gone[u][d] \in 0 .. Forgotten
      BY <1>t DEF TypeOK
    <3> QED BY <1>0, <1>1, <3>1 DEF Tick, Older
  <2>2. cache' \in Seq(Entry) /\ Len(cache') <= CacheMax
    <3>1. cache' = AgedCache(cache)
      BY <1>1 DEF Tick, AgedCache, AgedEntry
    <3> QED BY <1>t, <3>1, AgedCacheFacts DEF TypeOK
  <2>3. failures' \in Seq(FailureRecord) /\ Len(failures') <= CacheMax
    <3>1. failures' = Aged(failures)
      BY <1>1 DEF Tick, Aged, AgedRecord
    <3> QED BY <1>t, <3>1, AgedFacts DEF TypeOK
  <2>4. flights' \in [ClientIds -> Flight]
    <3>1. ASSUME NEW id \in ClientIds, flights[id].phase # "none"
          PROVE  [flights[id] EXCEPT !.age = @ + 1] \in Flight
      <4>1. flights[id] \in Flight /\ flights[id].age < FetchTimeout
        BY <1>1, <1>t, <3>1 DEF TypeOK, Tick
      <4>2. flights[id].age + 1 \in 0 .. FetchTimeout
        BY <1>0, <4>1 DEF Flight
      <4> QED BY <4>1, <4>2 DEF Flight
    <3>2. NoFlight \in Flight
      BY <1>0 DEF NoFlight, Flight
    <3> QED BY <1>1, <3>1, <3>2 DEF Tick
  <2>5. asked' \in Seq(0 .. FailureWindow) /\ lost' \in 0 .. FailureWindow
    <3>1. asked \in Ages /\ lost \in 0 .. FailureWindow /\ FailureWindow \in Nat
      BY <1>t, MetadataConstants DEF TypeOK, Ages
    <3>2. Prune(AllOlder(asked)) \in Ages
      BY <3>1, AllOlderFacts, PruneFacts
    <3>3. asked' \in Ages
      BY <1>1, <3>2 DEF Tick, Prune
    <3>4. lost' \in 0 .. FailureWindow
      BY <1>1, <3>1 DEF Tick, Older
    <3> QED BY <3>3, <3>4 DEF Ages
  <2> QED BY <1>1, <1>t, <2>1, <2>2, <2>3, <2>4, <2>5 DEF Tick, Typed, TypeOK, Admitted
<1>2. ASSUME NEW u \in Urls, NEW d \in Documents, Publish(u, d) PROVE Typed'
  <2>1. gone' \in [Urls -> [Documents -> 0 .. Forgotten]]
    BY <1>0, <1>2, <1>t DEF TypeOK, Publish
  <2>2. changes' \in 0 .. MaxChanges
    BY <1>0, <1>2, <1>t DEF TypeOK, Publish
  <2>3. docs' \in [Urls -> Documents]
    BY <1>2, <1>t DEF TypeOK, Publish
  <2> QED BY <1>2, <1>t, <2>1, <2>2, <2>3 DEF Publish, history, Typed, TypeOK, Admitted
<1>3. ASSUME NEW id \in ClientIds, Fetch(id) PROVE Typed'
  <2>1. ASSUME NEW header \in Headers, Responds(id, header) PROVE Typed'
    <3> DEFINE yes == [flights[id] EXCEPT !.phase = "positive", !.doc = docs[DocOf[id]],
                                          !.ttl = CacheTTL(header)]
               no == [flights[id] EXCEPT !.phase = "record"]
    <3>1. flights[id] \in Flight /\ docs[DocOf[id]] \in Documents
      BY <1>t DEF TypeOK, Urls
    <3>2. CacheTTL(header) \in Nat
      BY <1>0, CacheTTLBounded
    <3>3. yes \in Flight /\ no \in Flight
      BY <3>1, <3>2 DEF Flight
    <3>4. \E f \in {yes, no} : flights' = [flights EXCEPT ![id] = f]
      BY <2>1 DEF Responds
    <3> HIDE DEF yes, no
    <3>5. flights' \in [ClientIds -> Flight]
      BY <1>t, <3>3, <3>4 DEF TypeOK
    <3> QED BY <1>t, <2>1, <3>5 DEF Responds, history, Typed, TypeOK, Admitted
  <2>2. CASE BreaksOff(id)
    <3>1. flights' \in [ClientIds -> Flight]
      BY <1>t, <2>2 DEF BreaksOff, TypeOK, Flight
    <3>2. faults' \in 0 .. MaxFaults
      BY <1>0, <1>t, <2>2 DEF BreaksOff, TypeOK
    <3> QED BY <1>t, <2>2, <3>1, <3>2 DEF BreaksOff, history, Typed, TypeOK, Admitted
  <2>3. CASE Record(id)
    <3>1. failures' = Add(failures, Failed(id)) /\ Failed(id) \in FailureRecord
      BY <1>t, <2>3, RecordFacts DEF Record, Failed
    <3>2. failures' \in Seq(FailureRecord) /\ Len(failures') <= CacheMax
      BY <1>0, <1>t, <3>1, AddFacts DEF TypeOK
    <3>3. flights' \in [ClientIds -> Flight]
      BY <1>t, <2>3 DEF Record, TypeOK, Flight
    <3>4. asked' \in Seq(0 .. FailureWindow) /\ lost' \in 0 .. FailureWindow
      <4>1. asked \in Ages /\ lost \in 0 .. FailureWindow /\ FailureWindow \in Nat
        BY <1>t, MetadataConstants DEF TypeOK, Ages
      <4>2. Newest(Append(asked, 0)) \in Ages
        BY <4>1, NewestFacts
      <4>3. asked' \in Ages
        BY <2>3, <4>1, <4>2 DEF Record
      <4>4. lost' \in 0 .. FailureWindow
        BY <2>3, <4>1 DEF Record
      <4> QED BY <4>3, <4>4 DEF Ages
    <3> QED BY <1>t, <2>3, <3>2, <3>3, <3>4 DEF Record, Typed, TypeOK, Admitted
  <2>4. CASE PutNegative(id)
    <3> DEFINE e == [id |-> id, doc |-> Nil, left |-> NegativeTTL]
    <3>1. e \in Entry /\ cache' = Add(cache, e)
      BY <1>0, <2>4 DEF Entry, PutNegative
    <3>2. cache' \in Seq(Entry) /\ Len(cache') <= CacheMax
      <4> HIDE DEF e
      <4> QED BY <1>0, <1>t, <3>1, AddFacts DEF TypeOK
    <3>3. req' \in [Procs -> Request] /\ Admitted' /\ flights' \in [ClientIds -> Flight]
      BY <2>4, AreWoken DEF PutNegative
    <3> QED BY <1>t, <2>4, <3>2, <3>3 DEF PutNegative, history, Typed, TypeOK
  <2>5. CASE PutPositive(id)
    <3> DEFINE e == [id |-> id, doc |-> flights[id].doc, left |-> flights[id].ttl]
    <3>0. flights[id].doc \in Documents \cup {Nil} /\ flights[id].ttl \in Nat
      BY <1>t DEF TypeOK, Flight
    <3>1. e \in Entry /\ (cache' = Add(cache, e) \/ cache' = cache)
      BY <2>5, <3>0 DEF Entry, PutPositive
    <3>2. cache' \in Seq(Entry) /\ Len(cache') <= CacheMax
      <4> HIDE DEF e
      <4>1. CASE cache' = Add(cache, e)
        BY <1>0, <1>t, <3>1, <4>1, AddFacts DEF TypeOK
      <4>2. CASE cache' = cache
        BY <1>t, <4>2 DEF TypeOK
      <4> QED BY <3>1, <4>1, <4>2
    <3>3. req' \in [Procs -> Request] /\ Admitted' /\ flights' \in [ClientIds -> Flight]
      BY <2>5, <3>0, AreWoken DEF PutPositive
    <3> QED BY <1>t, <2>5, <3>2, <3>3 DEF PutPositive, history, Typed, TypeOK
  <2> QED BY <1>3, <2>1, <2>2, <2>3, <2>4, <2>5 DEF Fetch
<1>4. ASSUME NEW p \in Procs, FetchClient(p) PROVE Typed'
  <2>1. ASSUME NEW id \in Asks[p], Begin(p, id) PROVE Typed'
    <3>1. id \in ClientIds /\ Fetchable(id)
      BY <2>1, MetadataConstants DEF Begin
    <3>2. req' \in [Procs -> Request] /\ Admitted'
      BY <1>t, <2>1, <3>1 DEF Begin, TypeOK, Request, Admitted
    <3> QED BY <1>t, <2>1, <3>2 DEF Begin, history, Typed, TypeOK
  <2>2. CASE Lookup(p)
    <3>1. cache' \in Seq(Entry) /\ Len(cache') <= CacheMax
      <4>1. Len(cache) \in Nat /\ Touch(cache, req[p].id) \in Seq(Entry)
        BY <1>t, TouchFacts, LenProperties DEF TypeOK
      <4>2. Len(Touch(cache, req[p].id)) \in Nat /\ Len(Touch(cache, req[p].id)) <= Len(cache)
        BY <1>t, <4>1, TouchFacts, LenProperties DEF TypeOK
      <4> QED BY <1>0, <1>t, <2>2, <4>1, <4>2 DEF Lookup, TypeOK
    <3>2. req' \in [Procs -> Request] /\ Admitted'
      <4>1. CASE Has(cache, req[p].id) /\ Get(cache, req[p].id).left > 0
        <5>1. Get(cache, req[p].id) \in Entry
          BY <1>t, <4>1, PositionFacts, ElementOfSeq DEF Get, TypeOK
        <5>2. Get(cache, req[p].id).doc \in Documents \cup {Nil}
          BY <5>1 DEF Entry
        <5> QED BY <2>2, <4>1, <5>2, IsAnswered DEF Lookup
      <4>2. CASE ~(Has(cache, req[p].id) /\ Get(cache, req[p].id).left > 0)
        <5>1. PICK pc \in {"remove", "limit"} : req' = [req EXCEPT ![p].pc = pc]
          BY <2>2, <4>2 DEF Lookup
        <5> QED BY <2>2, <5>1, MovesOn DEF Lookup
      <4> QED BY <4>1, <4>2
    <3> QED BY <1>t, <2>2, <3>1, <3>2 DEF Lookup, history, Typed, TypeOK
  <2>3. CASE RemoveExpired(p)
    <3>1. cache' \in Seq(Entry) /\ Len(cache') <= CacheMax
      <4>1. Len(cache) \in Nat /\ Without(cache, req[p].id) \in Seq(Entry)
        BY <1>t, WithoutFacts, LenProperties DEF TypeOK
      <4>2. Len(Without(cache, req[p].id)) \in Nat /\ Len(Without(cache, req[p].id)) <= Len(cache)
        BY <1>t, <4>1, WithoutFacts, LenProperties DEF TypeOK
      <4> QED BY <1>0, <1>t, <2>3, <4>1, <4>2 DEF RemoveExpired, TypeOK
    <3>2. req' \in [Procs -> Request] /\ Admitted'
      BY <2>3, MovesOn DEF RemoveExpired
    <3> QED BY <1>t, <2>3, <3>1, <3>2 DEF RemoveExpired, history, Typed, TypeOK
  <2>4. CASE IsRateLimited(p)
    <3>1. PICK id \in ClientIds : id = req[p].id
      BY <1>t, <2>4 DEF Admitted, IsRateLimited
    <3>2. failures' \in Seq(FailureRecord) /\ Len(failures') <= CacheMax
      <4>1. CASE Has(failures, id)
        <5>1. failures' = Add(failures, Pruned(id)) /\ Pruned(id) \in FailureRecord
          BY <1>t, <2>4, <3>1, <4>1, RecordFacts DEF IsRateLimited
        <5> QED BY <1>0, <1>t, <5>1, AddFacts DEF TypeOK
      <4>2. CASE ~Has(failures, id)
        BY <1>t, <2>4, <3>1, <4>2 DEF IsRateLimited, TypeOK
      <4> QED BY <4>1, <4>2
    <3>3. req' \in [Procs -> Request] /\ Admitted'
      <4>1. Answer(p, Nil) \/ req' = [req EXCEPT ![p].pc = "do"]
        BY <2>4 DEF IsRateLimited
      <4> QED BY <2>4, <4>1, IsAnswered, MovesOn DEF IsRateLimited
    <3> QED BY <1>t, <2>4, <3>2, <3>3 DEF IsRateLimited, history, Typed, TypeOK
  <2>5. CASE Do(p)
    <3>1. PICK id \in ClientIds : id = req[p].id
      BY <1>t, <2>5 DEF Admitted, Do
    <3>2. flights' \in [ClientIds -> Flight]
      BY <1>t, <2>5, <3>1 DEF Do, TypeOK, Flight
    <3>3. req' \in [Procs -> Request] /\ Admitted'
      BY <2>5, MovesOn DEF Do
    <3> QED BY <1>t, <2>5, <3>2, <3>3 DEF Do, history, Typed, TypeOK
  <2> QED BY <1>4, <2>1, <2>2, <2>3, <2>4, <2>5 DEF FetchClient
<1>5. CASE UNCHANGED vars
  BY <1>5, <1>t DEF vars, history, Typed, TypeOK, Admitted
<1> QED BY <1>1, <1>2, <1>3, <1>4, <1>5 DEF Next


----------------------------------------------------------------------------
(* The inductive invariant                                                 *)

(* What a URL serves is not gone. *)
ServedIsCurrent == \A u \in Urls : gone[u][docs[u]] = 0

(* Under the ages g of documents: an entry of the cache is its client's    *)
(* own valid document, and what is left of its lifetime fits what is left  *)
(* of MaxStaleness.                                                        *)
EntrySound(g, e) ==
  e.doc # Nil =>
    /\ Valid(e.doc, e.id)
    /\ e.left > 0 => g[DocOf[e.id]][e.doc] + e.left <= MaxStaleness

(* A document fetched and not yet cached was served when the fetch began,  *)
(* or later.                                                               *)
FlightSound(g, f, id) ==
  f.phase = "positive" =>
    /\ f.doc \in Documents
    /\ Valid(f.doc, id)
    /\ g[DocOf[id]][f.doc] <= f.age
    /\ f.ttl <= CeilTTL

Served ==
  /\ ServedIsCurrent
  /\ \A i \in 1 .. Len(cache) : EntrySound(gone, cache[i])
  /\ \A id \in ClientIds : FlightSound(gone, flights[id], id)

(* Failures are kept under canonical ids, one record for each, the oldest  *)
(* failure first.                                                          *)
TrackerSound ==
  /\ Unique(failures)
  /\ \A i \in 1 .. Len(failures) : Canonical(failures[i].id) /\ Ordered(failures[i].ages)

(* A fetch is out for a caller that waits, of an id that may be fetched. *)
FlightIsAwaited(id) ==
  flights[id].phase # "none" =>
    Fetchable(id) /\ \E p \in Procs : req[p].pc = "wait" /\ req[p].id = id

(* The callers that IsRateLimited let pass and that have not reached sf.Do. *)
Passed(id) == {p \in Procs : req[p].pc = "do" /\ req[p].id = id}

Failing(id) == IF flights[id].phase \in {"fetch", "record"} THEN 1 ELSE 0

(* What is counted, what is out and what may still start fit the quota. *)
WithinQuota(id) == CountIn(failures, id) + Cardinality(Passed(id)) + Failing(id) <= Allowance

Quota ==
  /\ TrackerSound
  /\ \A id \in ClientIds : FlightIsAwaited(id) /\ WithinQuota(id)

(* Of the failures of Watched in the order of time, the tracker has those  *)
(* that came after it last dropped the record: the history and the record  *)
(* end alike.                                                              *)
Remembers(r, a, l) ==
  \A j \in Nat : j < Len(a) /\ a[Len(a) - j] < l =>
                  j < Len(r) /\ r[Len(r) - j] = a[Len(a) - j]

RecordIn(lru) == IF Has(lru, Watched) THEN Get(lru, Watched).ages ELSE <<>>

Kept == Remembers(RecordIn(failures), asked, lost)

Inv == Typed /\ Served /\ Quota /\ Kept


----------------------------------------------------------------------------
(* Served                                                                  *)

LEMMA ServedStep == Typed /\ Served /\ [Next]_vars => Served'
<1> SUFFICES ASSUME Typed, Served, [Next]_vars PROVE Served'
  OBVIOUS
<1>0. FetchTimeout \in Nat /\ CacheMax \in Nat /\ CeilTTL \in Nat /\ MaxStaleness = CeilTTL + FetchTimeout
  BY MetadataConstants DEF MaxStaleness
<1>t. /\ cache \in Seq(Entry) /\ Len(cache) <= CacheMax
      /\ docs \in [Urls -> Documents] /\ flights \in [ClientIds -> Flight]
      /\ gone \in [Urls -> [Documents -> 0 .. Forgotten]]
      /\ \A u \in Urls : \A d \in Documents : gone[u][d] \in Nat
      /\ \A i \in 1 .. Len(cache) : cache[i] \in Entry
      /\ \A id \in ClientIds : DocOf[id] \in Urls
  <2>1. Forgotten \in Nat
    BY <1>0 DEF Forgotten
  <2>2. \A i \in 1 .. Len(cache) : cache[i] \in Entry
    BY ElementOfSeq DEF Typed, TypeOK
  <2> QED BY <2>1, <2>2 DEF Typed, TypeOK, Urls
<1>s. /\ ServedIsCurrent
      /\ \A i \in 1 .. Len(cache) : EntrySound(gone, cache[i])
      /\ \A id \in ClientIds : FlightSound(gone, flights[id], id)
  BY DEF Served
<1>g. ASSUME UNCHANGED <<docs, gone>> PROVE ServedIsCurrent'
  BY <1>g, <1>s DEF ServedIsCurrent
<1>1. CASE Tick
  <2>1. ServedIsCurrent'
    <3>1. \A u \in Urls : docs[u] \in Documents /\ gone'[u][docs[u]] = 0
      BY <1>1, <1>t DEF Tick
    <3> QED BY <1>1, <3>1 DEF Tick, ServedIsCurrent
  <2>2. \A u \in Urls : \A d \in Documents : gone'[u][d] \in Nat /\ gone'[u][d] <= gone[u][d] + 1
    <3>1. ASSUME NEW u \in Urls, NEW d \in Documents
          PROVE  gone'[u][d] \in Nat /\ gone'[u][d] <= gone[u][d] + 1
      <4>1. gone'[u][d] = IF d = docs[u] THEN 0 ELSE Older(gone[u][d], Forgotten)
        BY <1>1 DEF Tick
      <4>2. gone[u][d] \in 0 .. Forgotten /\ Forgotten \in Nat
        BY <1>0, <1>t DEF Forgotten
      <4> QED BY <4>1, <4>2 DEF Older
    <3> QED BY <3>1
  <2>3. \A i \in 1 .. Len(cache') : EntrySound(gone', cache'[i])
    <3>1. cache' = AgedCache(cache)
      BY <1>1 DEF Tick, AgedCache, AgedEntry
    <3>2. /\ Len(cache') = Len(cache)
          /\ \A i \in 1 .. Len(cache) :
              /\ cache'[i].id = cache[i].id /\ cache'[i].doc = cache[i].doc
              /\ cache'[i].left = IF cache[i].left > 0 THEN cache[i].left - 1 ELSE 0
      BY <1>t, <3>1, AgedCacheFacts
    <3> SUFFICES ASSUME NEW i \in 1 .. Len(cache), cache[i].doc # Nil
                 PROVE  /\ Valid(cache[i].doc, cache[i].id)
                        /\ cache'[i].left > 0 =>
                             gone'[DocOf[cache[i].id]][cache[i].doc] + cache'[i].left <= MaxStaleness
      BY <3>2 DEF EntrySound
    <3>3. PICK e \in Entry : e = cache[i]
      BY <1>t
    <3>4. /\ e.id \in ClientIds /\ e.doc \in Documents /\ e.left \in Nat /\ DocOf[e.id] \in Urls
          /\ Valid(e.doc, e.id)
          /\ e.left > 0 => gone[DocOf[e.id]][e.doc] + e.left <= MaxStaleness
      <4>1. EntrySound(gone, e)
        BY <1>s, <3>3
      <4> QED BY <1>t, <3>3, <4>1 DEF Entry, EntrySound
    <3>5. /\ gone[DocOf[e.id]][e.doc] \in Nat /\ gone'[DocOf[e.id]][e.doc] \in Nat
          /\ gone'[DocOf[e.id]][e.doc] <= gone[DocOf[e.id]][e.doc] + 1
      BY <1>t, <2>2, <3>4
    <3>6. cache'[i].left = IF e.left > 0 THEN e.left - 1 ELSE 0
      BY <3>2, <3>3
    <3>7. cache'[i].left > 0 => gone'[DocOf[e.id]][e.doc] + cache'[i].left <= MaxStaleness
      BY <1>0, <3>4, <3>5, <3>6
    <3> QED BY <3>3, <3>4, <3>7
  <2>4. ASSUME NEW id \in ClientIds PROVE FlightSound(gone', flights'[id], id)
    <3>1. flights'[id] = IF flights[id].phase = "none" THEN NoFlight
                         ELSE [flights[id] EXCEPT !.age = @ + 1]
      BY <1>1 DEF Tick
    <3>2. PICK f \in Flight : f = flights[id]
      BY <1>t
    <3>3. FlightSound(gone, f, id)
      BY <1>s, <3>2
    <3>4. CASE f.phase = "none"
      BY <3>1, <3>2, <3>4 DEF NoFlight, FlightSound
    <3>5. CASE f.phase # "none"
      <4>1. /\ flights'[id].phase = f.phase /\ flights'[id].doc = f.doc /\ flights'[id].ttl = f.ttl
            /\ flights'[id].age = f.age + 1 /\ f.age \in Nat
        BY <1>0, <3>1, <3>2, <3>5 DEF Flight
      <4>2. f.phase = "positive" => gone'[DocOf[id]][f.doc] <= f.age + 1
        BY <1>t, <2>2, <3>3, <4>1 DEF FlightSound
      <4> QED BY <3>3, <4>1, <4>2 DEF FlightSound
    <3> QED BY <3>4, <3>5
  <2> QED BY <2>1, <2>3, <2>4 DEF Served
<1>2. ASSUME NEW u \in Urls, NEW d \in Documents, Publish(u, d) PROVE Served'
  <2>1. \A v \in Urls : \A x \in Documents :
          gone'[v][x] = IF v = u /\ x \in {d, docs[u]} THEN 0 ELSE gone[v][x]
    BY <1>2, <1>t DEF Publish
  <2>2. \A v \in Urls : \A x \in Documents : gone'[v][x] \in Nat /\ gone'[v][x] <= gone[v][x]
    BY <1>t, <2>1
  <2>3. ServedIsCurrent'
    <3> SUFFICES ASSUME NEW v \in Urls PROVE gone'[v][docs'[v]] = 0
      BY DEF ServedIsCurrent
    <3>1. docs'[v] \in Documents /\ docs'[v] = IF v = u THEN d ELSE docs[v]
      BY <1>2, <1>t DEF Publish
    <3> QED BY <1>s, <2>1, <3>1 DEF ServedIsCurrent
  <2>4. ASSUME NEW i \in 1 .. Len(cache) PROVE EntrySound(gone', cache[i])
    <3>1. PICK e \in Entry : e = cache[i]
      BY <1>t
    <3>2. EntrySound(gone, e) /\ e.id \in ClientIds /\ e.left \in Nat /\ (e.doc # Nil => e.doc \in Documents)
      BY <1>s, <3>1 DEF Entry
    <3>3. CASE e.doc = Nil
      BY <3>1, <3>3 DEF EntrySound
    <3>4. CASE e.doc # Nil
      <4> DEFINE now == gone[DocOf[e.id]][e.doc]
                 then == gone'[DocOf[e.id]][e.doc]
      <4>1. now \in Nat /\ then \in Nat /\ then <= now
        BY <1>t, <2>2, <3>2, <3>4
      <4>2. Valid(e.doc, e.id) /\ (e.left > 0 => now + e.left <= MaxStaleness)
        BY <3>2, <3>4 DEF EntrySound
      <4> HIDE DEF now, then
      <4>3. e.left > 0 => then + e.left <= MaxStaleness
        BY <1>0, <3>2, <4>1, <4>2
      <4> QED BY <3>1, <4>2, <4>3 DEF EntrySound, then
    <3> QED BY <3>3, <3>4
  <2>5. ASSUME NEW id \in ClientIds PROVE FlightSound(gone', flights[id], id)
    <3>1. PICK f \in Flight : f = flights[id]
      BY <1>t
    <3>2. FlightSound(gone, f, id) /\ f.age \in Nat
      BY <1>0, <1>s, <3>1 DEF Flight
    <3>3. f.phase = "positive" => gone'[DocOf[id]][f.doc] <= f.age
      BY <1>t, <2>2, <3>2 DEF FlightSound
    <3> QED BY <3>1, <3>2, <3>3 DEF FlightSound
  <2> QED BY <1>2, <2>3, <2>4, <2>5 DEF Served, Publish
<1>3. ASSUME NEW id \in ClientIds, Fetch(id) PROVE Served'
  <2>0. PICK f \in Flight : f = flights[id]
    BY <1>t
  <2>1. ASSUME NEW header \in Headers, Responds(id, header) PROVE Served'
    <3> DEFINE u == DocOf[id]
               yes == [f EXCEPT !.phase = "positive", !.doc = docs[u], !.ttl = CacheTTL(header)]
               no == [f EXCEPT !.phase = "record"]
    <3>1. flights' = [flights EXCEPT ![id] =
                        IF Reachable(id) /\ Valid(docs[u], id) THEN yes ELSE no]
      BY <2>0, <2>1 DEF Responds
    <3>2. /\ yes.phase = "positive" /\ yes.doc = docs[u] /\ yes.ttl = CacheTTL(header) /\ yes.age = f.age
          /\ no.phase = "record"
      BY DEF Flight
    <3> HIDE DEF yes, no
    <3>3. FlightSound(gone, no, id)
      BY <3>2 DEF FlightSound
    <3>4. ASSUME Valid(docs[u], id) PROVE FlightSound(gone, yes, id)
      <4>1. docs[u] \in Documents /\ gone[u][docs[u]] = 0 /\ f.age \in Nat /\ f.age >= 0
        BY <1>0, <1>s, <1>t DEF ServedIsCurrent, Flight
      <4>2. CacheTTL(header) <= CeilTTL
        BY <1>0, MetadataConstants, CacheTTLBounded
      <4> QED BY <3>2, <3>4, <4>1, <4>2 DEF FlightSound
    <3>5. FlightSound(gone, flights'[id], id)
      BY <1>t, <3>1, <3>3, <3>4
    <3>6. \A x \in ClientIds \ {id} : flights'[x] = flights[x]
      BY <1>t, <3>1
    <3> QED BY <1>g, <1>s, <2>1, <3>5, <3>6 DEF Served, Responds
  <2>2. CASE BreaksOff(id) \/ Record(id)
    <3>1. PICK ph \in {"record", "negative"} : flights' = [flights EXCEPT ![id].phase = ph]
      BY <2>2 DEF BreaksOff, Record
    <3>2. flights'[id].phase = ph /\ \A x \in ClientIds \ {id} : flights'[x] = flights[x]
      BY <1>t, <3>1 DEF Flight
    <3>3. UNCHANGED <<docs, gone, cache>>
      BY <2>2 DEF BreaksOff, Record
    <3>4. \A x \in ClientIds : FlightSound(gone', flights'[x], x)
      BY <1>s, <3>2, <3>3 DEF FlightSound
    <3> QED BY <1>g, <1>s, <3>3, <3>4 DEF Served
  <2>3. CASE PutNegative(id) \/ PutPositive(id)
    <3>1. UNCHANGED <<docs, gone>>
      BY <2>3 DEF PutNegative, PutPositive
    <3>2. \A x \in ClientIds : FlightSound(gone', flights'[x], x)
      <4>0. f.doc \in Documents \cup {Nil}
        BY DEF Flight
      <4>1. \E d \in Documents \cup {Nil} : Wake(id, d)
        BY <2>0, <2>3, <4>0 DEF PutNegative, PutPositive
      <4>2. flights'[id] = NoFlight /\ \A x \in ClientIds \ {id} : flights'[x] = flights[x]
        BY <4>1, AreWoken
      <4> QED BY <1>s, <3>1, <4>2 DEF FlightSound, NoFlight
    <3>3. cache' = cache \/ \E e \in Entry : EntrySound(gone, e) /\ cache' = Add(cache, e)
      <4>1. CASE PutNegative(id)
        <5> DEFINE e == [id |-> id, doc |-> Nil, left |-> NegativeTTL]
        <5>1. e \in Entry /\ e.doc = Nil
          BY MetadataConstants DEF Entry
        <5>2. cache' = Add(cache, e)
          BY <4>1 DEF PutNegative
        <5> QED BY <5>1, <5>2 DEF EntrySound
      <4>2. CASE PutPositive(id)
        <5> DEFINE e == [id |-> id, doc |-> f.doc, left |-> f.ttl]
        <5>1. e \in Entry /\ e.id = id /\ e.doc = f.doc /\ e.left = f.ttl
          BY DEF Entry, Flight
        <5>2. cache' = cache \/ cache' = Add(cache, e)
          BY <2>0, <4>2 DEF PutPositive
        <5> HIDE DEF e
        <5>3. /\ f.doc \in Documents /\ Valid(f.doc, id)
              /\ gone[DocOf[id]][f.doc] <= f.age /\ f.ttl <= CeilTTL
          BY <1>s, <2>0, <4>2 DEF FlightSound, PutPositive
        <5>4. gone[DocOf[id]][f.doc] \in Nat /\ f.age \in 0 .. FetchTimeout /\ f.ttl \in Nat
          BY <1>t, <5>3 DEF Flight
        <5>5. gone[DocOf[id]][f.doc] + f.ttl <= MaxStaleness
          BY <1>0, <5>3, <5>4
        <5>6. EntrySound(gone, e)
          BY <5>1, <5>3, <5>5 DEF EntrySound
        <5> QED BY <5>1, <5>2, <5>6
      <4> QED BY <2>3, <4>1, <4>2
    <3>4. \A i \in 1 .. Len(cache') : EntrySound(gone, cache'[i])
      <4>1. CASE cache' = cache
        BY <1>s, <4>1
      <4>2. ASSUME NEW e \in Entry, EntrySound(gone, e), cache' = Add(cache, e)
            PROVE  \A i \in 1 .. Len(cache') : EntrySound(gone, cache'[i])
        <5>1. /\ Len(cache') \in Nat /\ cache'[1] = e
              /\ \A i \in 2 .. Len(cache') : \E j \in 1 .. Len(cache) : cache'[i] = cache[j]
          <6>1. /\ Len(cache') \in 1 .. CacheMax /\ cache'[1] = e
                /\ \A i \in 2 .. Len(cache') : \E j \in 1 .. Len(cache) : cache'[i] = cache[j]
            <7>1. /\ Len(Add(cache, e)) \in 1 .. CacheMax /\ Add(cache, e)[1] = e
                  /\ \A i \in 2 .. Len(Add(cache, e)) :
                       \E j \in 1 .. Len(cache) : Add(cache, e)[i] = cache[j]
              BY <1>t, AddFacts
            <7> QED BY <4>2, <7>1
          <6> QED BY <1>0, <6>1
        <5>2. ASSUME NEW i \in 1 .. Len(cache') PROVE EntrySound(gone, cache'[i])
          <6>1. CASE i = 1
            BY <4>2, <5>1, <6>1
          <6>2. CASE i # 1
            <7>1. i \in 2 .. Len(cache')
              BY <5>1, <6>2
            <7> QED BY <1>s, <5>1, <7>1
          <6> QED BY <6>1, <6>2
        <5> QED BY <5>2
      <4> QED BY <3>3, <4>1, <4>2
    <3> QED BY <1>g, <3>1, <3>2, <3>4 DEF Served
  <2> QED BY <1>3, <2>1, <2>2, <2>3 DEF Fetch
<1>4. ASSUME NEW p \in Procs, FetchClient(p) PROVE Served'
  <2>1. UNCHANGED <<docs, gone>>
    BY <1>4 DEF FetchClient, Begin, Lookup, RemoveExpired, IsRateLimited, Do
  <2>2. Within(cache', cache)
    <3>1. CASE Lookup(p)
      BY <1>t, <3>1, TouchFacts DEF Lookup
    <3>2. CASE RemoveExpired(p)
      BY <1>t, <3>2, WithoutFacts DEF RemoveExpired
    <3>3. CASE cache' = cache
      BY <3>3 DEF Within
    <3> QED BY <1>4, <3>1, <3>2, <3>3 DEF FetchClient, Begin, IsRateLimited, Do
  <2>3. \A i \in 1 .. Len(cache') : EntrySound(gone, cache'[i])
    BY <1>s, <2>2 DEF Within
  <2>4. \A x \in ClientIds : FlightSound(gone, flights'[x], x)
    <3>1. CASE Do(p)
      <4>1. PICK id \in ClientIds : id = req[p].id
        BY <3>1 DEF Typed, Admitted, Do
      <4>2. flights' = flights \/ flights' = [flights EXCEPT ![id].phase = "fetch"]
        BY <3>1, <4>1 DEF Do
      <4>3. CASE flights' = flights
        BY <1>s, <4>3
      <4>4. CASE flights' = [flights EXCEPT ![id].phase = "fetch"]
        <5>1. flights'[id].phase = "fetch" /\ \A x \in ClientIds \ {id} : flights'[x] = flights[x]
          BY <1>t, <4>4 DEF Flight
        <5> QED BY <1>s, <5>1 DEF FlightSound
      <4> QED BY <4>2, <4>3, <4>4
    <3>2. CASE flights' = flights
      BY <1>s, <3>2
    <3> QED BY <1>4, <3>1, <3>2 DEF FetchClient, Begin, Lookup, RemoveExpired, IsRateLimited
  <2> QED BY <1>g, <2>1, <2>3, <2>4 DEF Served
<1>5. CASE UNCHANGED vars
  BY <1>5, <1>g, <1>s DEF vars, Served
<1> QED BY <1>1, <1>2, <1>3, <1>4, <1>5 DEF Next


----------------------------------------------------------------------------
(* Quota                                                                   *)

LEMMA PassedFacts ==
  ASSUME NEW id
  PROVE  IsFiniteSet(Passed(id)) /\ Cardinality(Passed(id)) \in Nat
<1>1. IsFiniteSet(Procs) /\ Passed(id) \subseteq Procs
  BY MetadataConstants DEF Passed
<1> QED BY <1>1, FS_Subset, FS_CardinalityType

LEMMA TrackerAfterAdd ==
  ASSUME Typed, TrackerSound, NEW e \in FailureRecord, Canonical(e.id), Ordered(e.ages),
         failures' = Add(failures, e)
  PROVE  TrackerSound'
<1>1. failures \in Seq(FailureRecord) /\ Len(failures) <= CacheMax /\ CacheMax \in Nat
  BY MetadataConstants DEF Typed, TypeOK
<1>2. /\ Len(Add(failures, e)) \in 1 .. CacheMax /\ Add(failures, e)[1] = e
      /\ \A i \in 2 .. Len(Add(failures, e)) :
           \E j \in 1 .. Len(failures) : Add(failures, e)[i] = failures[j]
      /\ Unique(Add(failures, e))
  <2>1. Unique(failures)
    BY DEF TrackerSound
  <2>2. /\ Len(Add(failures, e)) \in 1 .. CacheMax /\ Add(failures, e)[1] = e
        /\ \A i \in 2 .. Len(Add(failures, e)) :
             \E j \in 1 .. Len(failures) : Add(failures, e)[i] = failures[j]
    <3>1. failures \in Seq(FailureRecord) /\ Len(failures) <= CacheMax /\ e \in FailureRecord
      BY <1>1
    <3> QED BY ONLY <3>1, AddFacts
  <2>3. Unique(failures) => Unique(Add(failures, e))
    BY <1>1, AddFacts
  <2> QED BY <2>1, <2>2, <2>3
<1>3. ASSUME NEW i \in 1 .. Len(failures')
      PROVE  Canonical(failures'[i].id) /\ Ordered(failures'[i].ages)
  <2>1. CASE i = 1
    BY <1>2, <2>1
  <2>2. CASE i # 1
    <3>1. i \in 2 .. Len(failures')
      BY <1>1, <1>2, <2>2
    <3>2. PICK j \in 1 .. Len(failures) : failures'[i] = failures[j]
      BY <1>2, <3>1
    <3> QED BY <3>2 DEF TrackerSound
  <2> QED BY <2>1, <2>2
<1> QED BY <1>2, <1>3 DEF TrackerSound

(* The records that IsRateLimited and Record write are in order. *)
LEMMA NewRecordsOrdered ==
  ASSUME Typed, TrackerSound, NEW id \in ClientIds
  PROVE  /\ Has(failures, id) => Ordered(Pruned(id).ages)
         /\ Ordered(Failed(id).ages)
<1>0. TypeOK /\ FailureWindow \in Nat
  BY MetadataConstants DEF Typed
<1>1. ASSUME Has(failures, id) PROVE Prune(Get(failures, id).ages) \in Ages /\ Ordered(Prune(Get(failures, id).ages))
  <2>1. PICK i \in 1 .. Len(failures) : Get(failures, id) = failures[i]
    BY <1>0, <1>1, RecordFacts
  <2>2. Get(failures, id).ages \in Ages
    BY <1>0, <1>1, RecordFacts
  <2>3. Ordered(Get(failures, id).ages)
    BY <2>1 DEF TrackerSound
  <2> QED BY <2>2, <2>3, PruneFacts
<1> DEFINE base == IF Has(failures, id) THEN Prune(Get(failures, id).ages) ELSE <<>>
<1>2. base \in Ages /\ Ordered(base)
  <2>1. CASE Has(failures, id)
    BY <1>1, <2>1
  <2>2. CASE ~Has(failures, id)
    <3>1. <<>> \in Ages /\ Len(<<>>) = 0
      BY EmptySeq DEF Ages
    <3>2. Ordered(<<>>)
      BY <3>1 DEF Ordered
    <3> QED BY <2>2, <3>1, <3>2
  <2> QED BY <2>1, <2>2
<1>3. Failed(id).ages = base \o <<0>>
  BY DEF Failed
<1> HIDE DEF base
<1>4. /\ Len(base) \in Nat /\ Len(base \o <<0>>) = Len(base) + 1
      /\ \A i \in 1 .. Len(base) : base[i] \in 0 .. FailureWindow
      /\ \A i \in 1 .. Len(base) + 1 : (base \o <<0>>)[i] = IF i <= Len(base) THEN base[i] ELSE 0
  <2>1. <<0>> \in Ages /\ Len(<<0>>) = 1 /\ <<0>>[1] = 0
    BY <1>0 DEF Ages
  <2>2. Len(base) \in Nat /\ \A i \in 1 .. Len(base) : base[i] \in 0 .. FailureWindow
    BY <1>2, LenProperties, ElementOfSeq DEF Ages
  <2>3. /\ Len(base \o <<0>>) = Len(base) + Len(<<0>>)
        /\ \A i \in 1 .. Len(base) + Len(<<0>>) :
             (base \o <<0>>)[i] = IF i <= Len(base) THEN base[i] ELSE <<0>>[i - Len(base)]
    BY <1>2, <2>1, ConcatProperties DEF Ages
  <2> QED BY <2>1, <2>2, <2>3
<1>5. Ordered(base \o <<0>>)
  <2> SUFFICES ASSUME NEW i \in 1 .. Len(base) + 1, NEW j \in 1 .. Len(base) + 1, i <= j
               PROVE  (base \o <<0>>)[i] >= (base \o <<0>>)[j]
    BY <1>4 DEF Ordered
  <2>1. CASE j <= Len(base)
    <3>1. i \in 1 .. Len(base) /\ j \in 1 .. Len(base)
      BY <1>4, <2>1
    <3>2. base[i] >= base[j]
      BY <1>2, <3>1 DEF Ordered
    <3> QED BY <1>4, <2>1, <3>1, <3>2
  <2>2. CASE ~(j <= Len(base)) /\ i <= Len(base)
    <3>1. (base \o <<0>>)[j] = 0 /\ (base \o <<0>>)[i] = base[i] /\ base[i] \in 0 .. FailureWindow
      BY <1>4, <2>2
    <3> QED BY <1>0, <3>1
  <2>3. CASE ~(j <= Len(base)) /\ ~(i <= Len(base))
    BY <1>4, <2>3
  <2> QED BY <2>1, <2>2, <2>3
<1> QED BY <1>1, <1>3, <1>5 DEF Pruned


LEMMA QuotaStep == Typed /\ Quota /\ [Next]_vars => Quota'
<1> SUFFICES ASSUME Typed, Quota, [Next]_vars PROVE Quota'
  OBVIOUS
<1>0. /\ FailureLimit \in Nat \ {0} /\ IsFiniteSet(Procs) /\ Cardinality(Procs) \in Nat
      /\ Allowance \in Int /\ Allowance = FailureLimit + Cardinality(Procs) - 1
  <2>1. FailureLimit \in Nat \ {0} /\ IsFiniteSet(Procs) /\ Cardinality(Procs) \in Nat
    BY MetadataConstants, FS_CardinalityType
  <2> QED BY <2>1 DEF Allowance
<1>t. /\ TypeOK /\ Admitted /\ Typed'
      /\ flights \in [ClientIds -> Flight] /\ req \in [Procs -> Request]
      /\ failures \in Seq(FailureRecord) /\ Len(failures) <= CacheMax
      /\ failures' \in Seq(FailureRecord)
  <2>1. Typed'
    BY TypedStep
  <2> QED BY <2>1 DEF Typed, TypeOK
<1>k. /\ TrackerSound /\ Unique(failures)
      /\ \A id \in ClientIds : FlightIsAwaited(id) /\ WithinQuota(id)
  BY DEF Quota, TrackerSound
<1>n. ASSUME NEW id \in ClientIds
      PROVE  /\ CountIn(failures, id) \in Nat /\ CountIn(failures', id) \in Nat
             /\ Cardinality(Passed(id)) \in Nat
             /\ Failing(id) \in {0, 1} /\ Failing(id)' \in {0, 1}
             /\ CountIn(failures, id) + Cardinality(Passed(id)) + Failing(id) <= Allowance
  BY <1>k, <1>t, CountType, PassedFacts DEF Failing, WithinQuota
\* A step that lets nobody pass, starts no fetch and records no failure.
<1>q. ASSUME NEW id \in ClientIds, Passed(id)' = Passed(id), Failing(id)' <= Failing(id),
             CountIn(failures', id) <= CountIn(failures, id)
      PROVE  WithinQuota(id)'
  <2> DEFINE c == CountIn(failures, id)
             d == CountIn(failures', id)
             n == Cardinality(Passed(id))
             f == Failing(id)
             g == Failing(id)'
  <2>1. c \in Nat /\ d \in Nat /\ n \in Nat /\ f \in {0, 1} /\ g \in {0, 1}
        /\ c + n + f <= Allowance /\ d <= c /\ g <= f
    BY <1>n, <1>q
  <2> HIDE DEF c, d, n, f, g
  <2>2. d + n + g <= Allowance
    BY <1>0, <2>1
  <2> QED BY <1>q, <2>2 DEF WithinQuota, d, n, g, Allowance
\* A step that leaves id's fetch alone, and those who wait for it.
<1>w. ASSUME NEW id \in ClientIds, flights'[id].phase = flights[id].phase,
             \A p \in Procs : req[p].pc = "wait" /\ req[p].id = id => req'[p] = req[p]
      PROVE  FlightIsAwaited(id)'
  BY <1>k, <1>w DEF FlightIsAwaited
<1>s. ASSUME UNCHANGED failures PROVE TrackerSound' /\ \A id : CountIn(failures', id) <= CountIn(failures, id)
  <2>1. \A id : CountIn(failures, id) \in Nat
    BY <1>t, CountType
  <2> QED BY <1>k, <1>s, <2>1 DEF TrackerSound
<1>p. ASSUME UNCHANGED req PROVE \A id : Passed(id)' = Passed(id)
  BY <1>p DEF Passed
<1>1. CASE Tick
  <2>1. failures' = Aged(failures)
    BY <1>1 DEF Tick, Aged, AgedRecord
  <2>2. /\ Len(failures') = Len(failures) /\ Unique(failures')
        /\ \A i \in 1 .. Len(failures) : failures'[i] = AgedRecord(failures[i])
        /\ \A id : CountIn(failures', id) <= CountIn(failures, id)
    BY <1>k, <1>t, <2>1, AgedFacts
  <2>3. TrackerSound'
    <3>1. ASSUME NEW i \in 1 .. Len(failures)
          PROVE  Canonical(failures'[i].id) /\ Ordered(failures'[i].ages)
      <4>1. PICK r \in FailureRecord : r = failures[i]
        BY <1>t, ElementOfSeq
      <4>2. Canonical(r.id) /\ Ordered(r.ages)
        BY <1>k, <4>1 DEF TrackerSound
      <4> QED BY <2>2, <4>1, <4>2, AgedRecordFacts
    <3> QED BY <2>2, <3>1 DEF TrackerSound
  <2>4. \A id \in ClientIds : flights'[id].phase = flights[id].phase
    <3>1. ASSUME NEW id \in ClientIds PROVE flights'[id].phase = flights[id].phase
      <4>1. flights'[id] = IF flights[id].phase = "none" THEN NoFlight
                           ELSE [flights[id] EXCEPT !.age = @ + 1]
        BY <1>1 DEF Tick
      <4> QED BY <1>t, <4>1 DEF NoFlight, Flight
    <3> QED BY <3>1
  <2>5. UNCHANGED req
    BY <1>1 DEF Tick
  <2>6. \A id \in ClientIds : Failing(id)' <= Failing(id)
    BY <2>4 DEF Failing
  <2> QED BY <1>p, <1>q, <1>w, <2>2, <2>3, <2>4, <2>5, <2>6 DEF Quota
<1>2. ASSUME NEW u \in Urls, NEW d \in Documents, Publish(u, d) PROVE Quota'
  <2>1. UNCHANGED <<failures, flights, req>>
    BY <1>2 DEF Publish
  <2>2. \A id \in ClientIds : Failing(id)' <= Failing(id)
    BY <2>1 DEF Failing
  <2> QED BY <1>p, <1>q, <1>s, <1>w, <2>1, <2>2 DEF Quota
<1>3. ASSUME NEW id \in ClientIds, Fetch(id) PROVE Quota'
  <2>1. ASSUME UNCHANGED <<failures, req>>, flights[id].phase = "fetch",
               flights'[id].phase \in {"positive", "record"},
               \A x \in ClientIds \ {id} : flights'[x] = flights[x]
        PROVE  Quota'
    <3>1. \A x \in ClientIds : Failing(x)' <= Failing(x)
      BY <2>1 DEF Failing
    <3>2. FlightIsAwaited(id)'
      BY <1>k, <2>1 DEF FlightIsAwaited
    <3>3. \A x \in ClientIds \ {id} : FlightIsAwaited(x)'
      BY <1>w, <2>1
    <3> QED BY <1>p, <1>q, <1>s, <2>1, <3>1, <3>2, <3>3 DEF Quota
  <2>2. ASSUME NEW header \in Headers, Responds(id, header) PROVE Quota'
    <3>1. /\ flights'[id].phase \in {"positive", "record"}
          /\ \A x \in ClientIds \ {id} : flights'[x] = flights[x]
      BY <1>t, <2>2 DEF Responds, Flight
    <3> QED BY <2>1, <2>2, <3>1 DEF Responds
  <2>3. CASE BreaksOff(id)
    <3>1. flights'[id].phase = "record" /\ \A x \in ClientIds \ {id} : flights'[x] = flights[x]
      BY <1>t, <2>3 DEF BreaksOff, Flight
    <3> QED BY <2>1, <2>3, <3>1 DEF BreaksOff
  <2>4. CASE Record(id)
    <3>1. /\ flights[id].phase = "record" /\ flights'[id].phase = "negative" /\ UNCHANGED req
          /\ \A x \in ClientIds \ {id} : flights'[x] = flights[x]
      BY <1>t, <2>4 DEF Record, Flight
    <3>2. /\ failures' = Add(failures, Failed(id))
          /\ Failed(id) \in FailureRecord /\ Failed(id).id = id
          /\ Len(Prune(Failed(id).ages)) <= Counted(id) + 1
      BY <1>t, <2>4, RecordFacts DEF Record, Failed
    <3>3. TrackerSound'
      <4>1. Canonical(id)
        BY <1>k, <3>1 DEF FlightIsAwaited, Fetchable
      <4>2. Ordered(Failed(id).ages)
        BY <1>k, NewRecordsOrdered
      <4> QED BY <1>k, <3>2, <4>1, <4>2, TrackerAfterAdd
    <3>4. /\ CountIn(failures', id) <= CountIn(failures, id) + 1
          /\ \A x : x # id => CountIn(failures', x) <= CountIn(failures, x)
      <4>1. /\ CountIn(Add(failures, Failed(id)), Failed(id).id) = Len(Prune(Failed(id).ages))
            /\ \A x : x # Failed(id).id => CountIn(Add(failures, Failed(id)), x) <= CountIn(failures, x)
        BY <1>k, <1>t, <3>2, CountAfterAdd
      <4> QED BY <3>2, <4>1 DEF Counted, CountIn
    <3>5. WithinQuota(id)'
      <4> DEFINE c == CountIn(failures, id)
                 d == CountIn(failures', id)
                 n == Cardinality(Passed(id))
      <4>1. /\ c \in Nat /\ d \in Nat /\ n \in Nat /\ d <= c + 1 /\ c + n + Failing(id) <= Allowance
            /\ Failing(id) = 1 /\ Failing(id)' = 0
        BY <1>n, <3>1, <3>4 DEF Failing
      <4> HIDE DEF c, d, n
      <4>2. d + n + Failing(id)' <= Allowance
        BY <1>0, <4>1
      <4> QED BY <1>p, <3>1, <4>2 DEF WithinQuota, d, n, Allowance
    <3>6. \A x \in ClientIds \ {id} : WithinQuota(x)'
      <4>1. \A x \in ClientIds \ {id} : Failing(x)' <= Failing(x)
        BY <3>1 DEF Failing
      <4> QED BY <1>p, <1>q, <3>1, <3>4, <4>1
    <3>7. \A x \in ClientIds : FlightIsAwaited(x)'
      BY <1>k, <1>w, <3>1 DEF FlightIsAwaited
    <3> QED BY <3>3, <3>5, <3>6, <3>7 DEF Quota
  <2>5. CASE PutNegative(id) \/ PutPositive(id)
    <3>0. flights[id].doc \in Documents \cup {Nil}
      BY <1>t DEF Flight
    <3>1. (\E d \in Documents \cup {Nil} : Wake(id, d)) /\ UNCHANGED failures
      BY <2>5, <3>0 DEF PutNegative, PutPositive
    <3>2. /\ flights'[id] = NoFlight /\ \A x \in ClientIds \ {id} : flights'[x] = flights[x]
          /\ \A q \in Procs :
               \/ req[q].pc = "wait" /\ req[q].id = id /\ req'[q].pc = "idle"
               \/ req'[q] = req[q]
      BY <3>1, AreWoken
    <3>3. \A x : Passed(x)' = Passed(x)
      BY <3>2 DEF Passed
    <3>4. \A x \in ClientIds : Failing(x)' <= Failing(x)
      BY <3>2 DEF Failing, NoFlight
    <3>5. FlightIsAwaited(id)'
      BY <3>2 DEF FlightIsAwaited, NoFlight
    <3>6. \A x \in ClientIds \ {id} : FlightIsAwaited(x)'
      BY <1>w, <3>2
    <3> QED BY <1>q, <1>s, <3>1, <3>3, <3>4, <3>5, <3>6 DEF Quota
  <2> QED BY <1>3, <2>2, <2>3, <2>4, <2>5 DEF Fetch
<1>4. ASSUME NEW p \in Procs, FetchClient(p) PROVE Quota'
  \* A step of p that is not its passing, and before sf.Do.
  <2>1. ASSUME UNCHANGED flights, req[p].pc \notin {"do", "wait"}, req'[p].pc # "do",
               \A q \in Procs \ {p} : req'[q] = req[q],
               TrackerSound', \A x \in ClientIds : CountIn(failures', x) <= CountIn(failures, x)
        PROVE  Quota'
    <3>1. \A x : Passed(x)' = Passed(x)
      BY <2>1 DEF Passed
    <3>2. \A x \in ClientIds : Failing(x)' <= Failing(x)
      BY <2>1 DEF Failing
    <3>3. \A x \in ClientIds : FlightIsAwaited(x)'
      BY <1>w, <2>1
    <3> QED BY <1>q, <2>1, <3>1, <3>2, <3>3 DEF Quota
  <2>2. ASSUME NEW id \in Asks[p], Begin(p, id) PROVE Quota'
    <3>1. /\ req[p].pc = "idle" /\ req'[p].pc = "lookup" /\ \A q \in Procs \ {p} : req'[q] = req[q]
          /\ UNCHANGED <<failures, flights>>
      BY <1>t, <2>2 DEF Begin
    <3> QED BY <1>s, <2>1, <3>1
  <2>3. CASE Lookup(p)
    <3>1. req[p].pc = "lookup" /\ UNCHANGED <<failures, flights>>
      BY <2>3 DEF Lookup
    <3>2. req'[p].pc # "do" /\ \A q \in Procs \ {p} : req'[q] = req[q]
      BY <1>t, <2>3 DEF Lookup, Answer, Request
    <3> QED BY <1>s, <2>1, <3>1, <3>2
  <2>4. CASE RemoveExpired(p)
    <3>1. req[p].pc = "remove" /\ UNCHANGED <<failures, flights>>
      BY <2>4 DEF RemoveExpired
    <3>2. req'[p].pc # "do" /\ \A q \in Procs \ {p} : req'[q] = req[q]
      BY <1>t, <2>4 DEF RemoveExpired, Request
    <3> QED BY <1>s, <2>1, <3>1, <3>2
  <2>5. CASE IsRateLimited(p)
    <3>1. PICK id \in ClientIds : id = req[p].id /\ Fetchable(id)
      BY <1>t, <2>5 DEF Admitted, IsRateLimited
    <3>2. req[p].pc = "limit" /\ UNCHANGED flights
      BY <2>5 DEF IsRateLimited
    <3>3. TrackerSound' /\ \A x \in ClientIds : CountIn(failures', x) <= CountIn(failures, x)
      <4>1. CASE ~Has(failures, id)
        BY <1>s, <2>5, <3>1, <4>1 DEF IsRateLimited
      <4>2. CASE Has(failures, id)
        <5>1. /\ failures' = Add(failures, Pruned(id))
              /\ Pruned(id) \in FailureRecord /\ Pruned(id).id = id
              /\ Len(Prune(Pruned(id).ages)) <= Counted(id)
          BY <1>t, <2>5, <3>1, <4>2, RecordFacts DEF IsRateLimited
        <5>2. /\ CountIn(Add(failures, Pruned(id)), Pruned(id).id) = Len(Prune(Pruned(id).ages))
              /\ \A x : x # Pruned(id).id =>
                   CountIn(Add(failures, Pruned(id)), x) <= CountIn(failures, x)
          BY <1>k, <1>t, <5>1, CountAfterAdd
        <5>3. Ordered(Pruned(id).ages) /\ Canonical(Pruned(id).id)
          BY <1>k, <3>1, <4>2, <5>1, NewRecordsOrdered DEF Fetchable
        <5>4. TrackerSound'
          BY <1>k, <5>1, <5>3, TrackerAfterAdd
        <5> QED BY <5>1, <5>2, <5>4 DEF Counted, CountIn
      <4> QED BY <4>1, <4>2
    <3>4. CASE Answer(p, Nil)
      <4>1. req'[p].pc # "do" /\ \A q \in Procs \ {p} : req'[q] = req[q]
        BY <3>4, IsAnswered
      <4> QED BY <2>1, <3>2, <3>3, <4>1
    <3>5. CASE Counted(id) < FailureLimit /\ req' = [req EXCEPT ![p].pc = "do"]
      <4>1. /\ req'[p].pc = "do" /\ req'[p].id = id /\ req[p].pc # "idle"
            /\ \A q \in Procs \ {p} : req'[q] = req[q]
        BY <3>1, <3>2, <3>5, MovesOn
      <4>2. \A x \in ClientIds : FlightIsAwaited(x)'
        BY <1>w, <3>2, <4>1
      <4>3. \A x \in ClientIds : Failing(x)' = Failing(x)
        BY <3>2 DEF Failing
      <4>4. \A x \in ClientIds \ {id} : WithinQuota(x)'
        <5>1. ASSUME NEW x \in ClientIds \ {id} PROVE Passed(x)' = Passed(x)
          BY <3>2, <4>1 DEF Passed
        <5>2. \A x \in ClientIds : Failing(x)' <= Failing(x)
          BY <1>n, <4>3
        <5> QED BY <1>q, <3>3, <5>1, <5>2
      <4>5. WithinQuota(id)'
        <5> DEFINE pass == {q \in Procs : req'[q].pc = "do" /\ req'[q].id = id}
        <5>1. pass \subseteq Procs /\ Passed(id)' = pass
          BY DEF Passed
        <5>2. Cardinality(pass) \in Nat /\ Cardinality(pass) + Failing(id) <= Cardinality(Procs)
          <6>1. CASE Failing(id) = 0
            <7>1. IsFiniteSet(pass) /\ Cardinality(pass) <= Cardinality(Procs)
              BY <1>0, <5>1, FS_Subset
            <7>2. Cardinality(pass) \in Nat
              BY <7>1, FS_CardinalityType
            <7> QED BY <1>0, <6>1, <7>1, <7>2
          <6>2. CASE Failing(id) = 1
            <7>1. PICK q \in Procs : req[q].pc = "wait" /\ req[q].id = id
              BY <1>k, <6>2 DEF Failing, FlightIsAwaited
            <7>2. pass \subseteq Procs \ {q}
              BY <3>2, <4>1, <7>1
            <7>3. IsFiniteSet(Procs \ {q}) /\ Cardinality(Procs \ {q}) = Cardinality(Procs) - 1
              BY <1>0, FS_RemoveElement
            <7>4. IsFiniteSet(pass) /\ Cardinality(pass) <= Cardinality(Procs) - 1
              BY <7>2, <7>3, FS_Subset
            <7>5. Cardinality(pass) \in Nat
              BY <7>4, FS_CardinalityType
            <7> QED BY <1>0, <6>2, <7>4, <7>5
          <6> QED BY <1>n, <6>1, <6>2
        <5> HIDE DEF pass
        <5>3. CountIn(failures', id) \in Nat /\ CountIn(failures', id) <= FailureLimit - 1
          <6>1. CountIn(failures, id) = Counted(id)
            BY DEF Counted, CountIn
          <6>2. CountIn(failures', id) \in Nat /\ CountIn(failures, id) \in Nat
                /\ CountIn(failures', id) <= CountIn(failures, id)
            BY <1>n, <3>3
          <6> QED BY <1>0, <3>5, <6>1, <6>2
        <5>4. CountIn(failures', id) + Cardinality(pass) + Failing(id) <= Allowance
          BY <1>0, <1>n, <5>2, <5>3
        <5> QED BY <4>3, <5>1, <5>4 DEF WithinQuota, Allowance
      <4> QED BY <3>3, <4>2, <4>4, <4>5 DEF Quota
    <3> QED BY <1>0, <1>n, <2>5, <3>1, <3>4, <3>5 DEF IsRateLimited, Counted, CountIn
  <2>6. CASE Do(p)
    <3>1. PICK id \in ClientIds : id = req[p].id /\ Fetchable(id)
      BY <1>t, <2>6 DEF Admitted, Do
    <3>2. /\ req[p].pc = "do" /\ req'[p].pc = "wait" /\ req'[p].id = id
          /\ \A q \in Procs \ {p} : req'[q] = req[q]
          /\ UNCHANGED failures
      BY <2>6, <3>1, MovesOn DEF Do
    <3>3. /\ \A x \in ClientIds \ {id} : flights'[x] = flights[x]
          /\ flights'[id].phase = IF flights[id].phase = "none" THEN "fetch" ELSE flights[id].phase
      BY <1>t, <2>6, <3>1 DEF Do, Flight
    <3>4. \A x \in ClientIds \ {id} : WithinQuota(x)' /\ FlightIsAwaited(x)'
      <4>1. ASSUME NEW x \in ClientIds \ {id} PROVE Passed(x)' = Passed(x)
        BY <3>1, <3>2 DEF Passed
      <4>2. \A x \in ClientIds \ {id} : Failing(x)' <= Failing(x)
        BY <3>3 DEF Failing
      <4>3. \A x \in ClientIds \ {id} : WithinQuota(x)'
        BY <1>q, <1>s, <3>2, <4>1, <4>2
      <4>4. \A x \in ClientIds \ {id} : FlightIsAwaited(x)'
        BY <1>w, <3>2, <3>3
      <4> QED BY <4>3, <4>4
    <3>5. FlightIsAwaited(id)'
      BY <3>1, <3>2 DEF FlightIsAwaited
    <3>6. WithinQuota(id)'
      <4>1. Passed(id)' = Passed(id) \ {p} /\ p \in Passed(id)
        BY <3>1, <3>2 DEF Passed
      <4>2. Cardinality(Passed(id) \ {p}) = Cardinality(Passed(id)) - 1
        BY <4>1, PassedFacts, FS_RemoveElement
      <4>3. Failing(id)' <= Failing(id) + 1
        BY <1>n
      <4>4. CountIn(failures', id) = CountIn(failures, id)
        BY <3>2
      <4>5. CountIn(failures', id) + Cardinality(Passed(id) \ {p}) + Failing(id)' <= Allowance
        BY <1>0, <1>n, <4>2, <4>3, <4>4
      <4> QED BY <4>1, <4>5 DEF WithinQuota, Allowance
    <3> QED BY <1>s, <3>2, <3>4, <3>5, <3>6 DEF Quota
  <2> QED BY <1>4, <2>2, <2>3, <2>4, <2>5, <2>6 DEF FetchClient
<1>5. CASE UNCHANGED vars
  <2>1. UNCHANGED <<failures, flights, req>>
    BY <1>5 DEF vars
  <2>2. \A id \in ClientIds : Failing(id)' <= Failing(id)
    BY <2>1 DEF Failing
  <2> QED BY <1>p, <1>q, <1>s, <1>w, <2>1, <2>2 DEF Quota
<1> QED BY <1>1, <1>2, <1>3, <1>4, <1>5 DEF Next


----------------------------------------------------------------------------
(* Kept                                                                    *)

LEMMA RememberedOlder ==
  ASSUME NEW r \in Ages, NEW a \in Ages, NEW l \in 0 .. FailureWindow, Remembers(r, a, l)
  PROVE  Remembers(AllOlder(r), AllOlder(a), Older(l, FailureWindow))
<1>0. /\ FailureWindow \in Nat /\ Len(a) \in Nat /\ Len(r) \in Nat
      /\ \A i \in 1 .. Len(a) : a[i] \in 0 .. FailureWindow
  BY MetadataConstants, LenProperties, ElementOfSeq DEF Ages
<1>1. /\ Len(AllOlder(a)) = Len(a) /\ Len(AllOlder(r)) = Len(r)
      /\ \A i \in 1 .. Len(a) : AllOlder(a)[i] = Older(a[i], FailureWindow)
      /\ \A i \in 1 .. Len(r) : AllOlder(r)[i] = Older(r[i], FailureWindow)
  BY AllOlderFacts
<1> SUFFICES ASSUME NEW j \in Nat, j < Len(a), AllOlder(a)[Len(a) - j] < Older(l, FailureWindow)
             PROVE  j < Len(r) /\ AllOlder(r)[Len(r) - j] = AllOlder(a)[Len(a) - j]
  BY <1>1 DEF Remembers
<1>2. Len(a) - j \in 1 .. Len(a)
  BY <1>0
<1>3. PICK n \in 0 .. FailureWindow : n = a[Len(a) - j]
  BY <1>0, <1>2
<1>4. Older(n, FailureWindow) < Older(l, FailureWindow)
  BY <1>1, <1>2, <1>3
<1>5. n < l
  BY <1>0, <1>4 DEF Older
<1>6. j < Len(r) /\ r[Len(r) - j] = n
  BY <1>3, <1>5 DEF Remembers
<1>7. Len(r) - j \in 1 .. Len(r)
  BY <1>0, <1>6
<1> QED BY <1>1, <1>2, <1>3, <1>6, <1>7

(* The history may lose failures at its start, and the record those that   *)
(* have aged out.                                                          *)
LEMMA RememberedEnd ==
  ASSUME NEW r \in Ages, NEW a \in Ages, NEW b \in Ages, EndOf(b, a), NEW l, Remembers(r, a, l)
  PROVE  Remembers(r, b, l)
<1>0. Len(a) \in Nat /\ Len(b) \in Nat
  BY LenProperties DEF Ages
<1> SUFFICES ASSUME NEW j \in Nat, j < Len(b), b[Len(b) - j] < l
             PROVE  j < Len(r) /\ r[Len(r) - j] = b[Len(b) - j]
  BY DEF Remembers
<1>1. j < Len(a) /\ b[Len(b) - j] = a[Len(a) - j]
  BY <1>0 DEF EndOf
<1> QED BY <1>1 DEF Remembers

LEMMA PruneIsEnd ==
  ASSUME NEW a \in Ages
  PROVE  Prune(a) \in Ages /\ EndOf(Prune(a), a)
<1> DEFINE k == Cardinality(Old(a))
           b == Prune(a)
<1>1. /\ b \in Ages /\ Len(b) = Len(a) - k /\ Len(b) \in 0 .. Len(a)
      /\ \A i \in 1 .. Len(b) : b[i] = a[i + k]
  BY PruneFacts
<1>2. Len(a) \in Nat /\ k \in 0 .. Len(a)
  BY OldFacts, LenProperties DEF Ages
<1> HIDE DEF k, b
<1>3. ASSUME NEW j \in Nat, j < Len(b) PROVE b[Len(b) - j] = a[Len(a) - j]
  <2>1. Len(b) - j \in 1 .. Len(b) /\ (Len(b) - j) + k = Len(a) - j
    BY <1>1, <1>2, <1>3
  <2> QED BY <1>1, <2>1
<1>4. EndOf(b, a)
  BY <1>1, <1>2, <1>3 DEF EndOf
<1> QED BY <1>1, <1>4 DEF b

LEMMA RememberedPruned ==
  ASSUME NEW r \in Ages, Ordered(r), NEW a \in Ages, NEW l \in 0 .. FailureWindow, Remembers(r, a, l)
  PROVE  Remembers(Prune(r), a, l)
<1> DEFINE k == Cardinality(Old(r))
<1>0. /\ FailureWindow \in Nat /\ Len(a) \in Nat /\ Len(r) \in Nat /\ k \in 0 .. Len(r)
      /\ \A i \in 1 .. Len(a) : a[i] \in 0 .. FailureWindow
  BY MetadataConstants, OldFacts, LenProperties, ElementOfSeq DEF Ages
<1>1. Old(r) = 1 .. k /\ Len(Prune(r)) = Len(r) - k
  BY PruneIsFilter, PruneFacts
<1>2. EndOf(Prune(r), r)
  BY PruneIsEnd
<1> HIDE DEF k
<1> SUFFICES ASSUME NEW j \in Nat, j < Len(a), a[Len(a) - j] < l
             PROVE  j < Len(Prune(r)) /\ Prune(r)[Len(Prune(r)) - j] = a[Len(a) - j]
  BY DEF Remembers
<1>3. j < Len(r) /\ r[Len(r) - j] = a[Len(a) - j]
  BY DEF Remembers
<1>4. Len(a) - j \in 1 .. Len(a) /\ Len(r) - j \in 1 .. Len(r)
  BY <1>0, <1>3
<1>5. ~(r[Len(r) - j] >= FailureWindow)
  BY <1>0, <1>3, <1>4
<1>6. Len(r) - j \notin 1 .. k
  BY <1>1, <1>4, <1>5 DEF Old
<1>7. j < Len(Prune(r))
  BY <1>0, <1>1, <1>4, <1>6
<1> QED BY <1>2, <1>3, <1>7 DEF EndOf

LEMMA RememberedFailure ==
  ASSUME NEW r \in Ages, NEW a \in Ages, NEW l, Remembers(r, a, l)
  PROVE  Remembers(r \o <<0>>, Append(a, 0), l)
<1>0. Len(a) \in Nat /\ Len(r) \in Nat /\ <<0>> \in Ages /\ Len(<<0>>) = 1
  BY MetadataConstants, LenProperties DEF Ages
<1> DEFINE b == Append(a, 0)
           c == r \o <<0>>
<1>1. /\ Len(b) = Len(a) + 1 /\ b[Len(a) + 1] = 0
      /\ \A i \in 1 .. Len(a) : b[i] = a[i]
  BY NewestFacts
<1>2. /\ Len(c) = Len(r) + 1 /\ c[Len(r) + 1] = 0
      /\ \A i \in 1 .. Len(r) : c[i] = r[i]
  <2>1. /\ Len(c) = Len(r) + 1
        /\ \A i \in 1 .. Len(r) + 1 : c[i] = IF i <= Len(r) THEN r[i] ELSE <<0>>[i - Len(r)]
    BY <1>0, ConcatProperties DEF Ages
  <2>2. (Len(r) + 1) - Len(r) = 1 /\ <<0>>[1] = 0
    BY <1>0
  <2>3. Len(r) + 1 \in 1 .. Len(r) + 1 /\ ~(Len(r) + 1 <= Len(r))
    BY <1>0
  <2>4. \A i \in 1 .. Len(r) : i \in 1 .. Len(r) + 1 /\ i <= Len(r)
    BY <1>0
  <2> HIDE DEF c
  <2> QED BY <2>1, <2>2, <2>3, <2>4
<1> HIDE DEF b, c
<1>3. Remembers(c, b, l)
  <2> SUFFICES ASSUME NEW j \in Nat, j < Len(b), b[Len(b) - j] < l
               PROVE  j < Len(c) /\ c[Len(c) - j] = b[Len(b) - j]
    BY DEF Remembers
  <2>1. CASE j = 0
    <3>1. Len(b) - j = Len(a) + 1 /\ Len(c) - j = Len(r) + 1 /\ j < Len(c)
      BY <1>0, <1>1, <1>2, <2>1
    <3> QED BY <1>1, <1>2, <3>1
  <2>2. CASE j # 0
    <3>1. /\ j - 1 \in Nat /\ j - 1 < Len(a) /\ Len(b) - j = Len(a) - (j - 1)
          /\ Len(a) - (j - 1) \in 1 .. Len(a)
      BY <1>0, <1>1, <2>2
    <3>2. j - 1 < Len(r) /\ r[Len(r) - (j - 1)] = a[Len(a) - (j - 1)]
      BY <1>1, <3>1 DEF Remembers
    <3>3. j < Len(c) /\ Len(c) - j = Len(r) - (j - 1) /\ Len(r) - (j - 1) \in 1 .. Len(r)
      BY <1>0, <1>2, <2>2, <3>1, <3>2
    <3> QED BY <1>1, <1>2, <3>1, <3>2, <3>3
  <2> QED BY <2>1, <2>2
<1> QED BY <1>3 DEF b, c

LEMMA RememberedCount ==
  ASSUME NEW r \in Ages, Ordered(r), NEW a \in Ages, NEW l \in 0 .. FailureWindow, Remembers(r, a, l)
  PROVE  /\ Cardinality({i \in 1 .. Len(a) : a[i] < l}) \in Nat
         /\ Cardinality({i \in 1 .. Len(a) : a[i] < l}) <= Len(Prune(r))
<1> DEFINE recent == {i \in 1 .. Len(a) : a[i] < l}
           n == Len(Prune(r))
<1>0. Len(a) \in Nat /\ n \in Nat
  BY PruneIsEnd, LenProperties DEF Ages
<1>1. Remembers(Prune(r), a, l)
  BY RememberedPruned
<1> DEFINE f == [i \in recent |-> Len(a) - i + 1]
<1> HIDE DEF n
<1>2. ASSUME NEW i \in recent PROVE f[i] \in 1 .. n
  <2>1. i \in 1 .. Len(a) /\ a[i] < l
    OBVIOUS
  <2>2. Len(a) - i \in Nat /\ Len(a) - i < Len(a) /\ Len(a) - (Len(a) - i) = i
    BY <1>0, <2>1
  <2>3. Len(a) - i < n
    BY <1>1, <2>1, <2>2 DEF Remembers, n
  <2> QED BY <1>0, <2>2, <2>3
<1>3. \A i \in recent : i \in Nat
  BY <1>0
<1>4. f \in Injection(recent, 1 .. n)
  <2>1. f \in [recent -> 1 .. n]
    BY <1>2
  <2>2. ASSUME NEW i \in recent, NEW j \in recent, f[i] = f[j] PROVE i = j
    <3>1. Len(a) - i + 1 = Len(a) - j + 1
      BY <2>2
    <3> QED BY <1>0, <1>3, <3>1
  <2> QED BY <2>1, <2>2 DEF Injection, IsInjective
<1>5. IsFiniteSet(1 .. n) /\ Cardinality(1 .. n) = n
  BY <1>0, UpTo
<1>6. IsFiniteSet(recent) /\ Cardinality(recent) <= n
  BY <1>4, <1>5, FS_Injection
<1> QED BY <1>6, FS_CardinalityType DEF n

LEMMA RecordInFacts ==
  ASSUME Typed, TrackerSound
  PROVE  /\ RecordIn(failures) \in Ages /\ Ordered(RecordIn(failures))
         /\ Len(Prune(RecordIn(failures))) = CountIn(failures, Watched)
<1>1. CASE Has(failures, Watched)
  <2>1. /\ Get(failures, Watched).ages \in Ages
        /\ \E i \in 1 .. Len(failures) : Get(failures, Watched) = failures[i]
    BY <1>1, RecordFacts, MetadataConstants DEF Typed
  <2>2. Ordered(Get(failures, Watched).ages)
    BY <2>1 DEF TrackerSound
  <2> QED BY <1>1, <2>1, <2>2 DEF RecordIn, CountIn
<1>2. CASE ~Has(failures, Watched)
  <2>1. <<>> \in Ages /\ Len(<<>>) = 0
    BY EmptySeq DEF Ages
  <2>2. Len(Prune(<<>>)) \in 0 .. 0
    BY <2>1, PruneFacts
  <2>3. Ordered(<<>>)
    BY <2>1 DEF Ordered
  <2> QED BY <1>2, <2>1, <2>2, <2>3 DEF RecordIn, CountIn
<1> QED BY <1>1, <1>2

(* Add of another id leaves the record of Watched as it is, or drops it. *)
LEMMA RecordAfterAdd ==
  ASSUME Typed, TrackerSound, NEW e \in FailureRecord
  PROVE  /\ e.id = Watched => Has(Add(failures, e), Watched) /\ RecordIn(Add(failures, e)) = e.ages
         /\ e.id # Watched =>
              \/ ~Has(Add(failures, e), Watched)
              \/ Has(failures, Watched) /\ RecordIn(Add(failures, e)) = RecordIn(failures)
         /\ Has(failures, e.id) /\ Has(failures, Watched) => Has(Add(failures, e), Watched)
<1>0. /\ failures \in Seq(FailureRecord) /\ Len(failures) <= CacheMax /\ CacheMax \in Nat
      /\ Unique(failures)
  BY MetadataConstants DEF Typed, TypeOK, TrackerSound
<1> DEFINE new == Add(failures, e)
<1>1. /\ Len(new) \in 1 .. CacheMax /\ new[1] = e /\ Unique(new)
      /\ \A i \in 2 .. Len(new) : \E j \in 1 .. Len(failures) : new[i] = failures[j]
  BY <1>0, AddFacts
<1>2. ASSUME Has(failures, e.id), Has(failures, Watched), e.id # Watched PROVE Has(new, Watched)
  <2>1. PICK j \in 1 .. Len(failures) : failures[j].id = Watched
    BY <1>2 DEF Has
  <2>2. \E i \in 1 .. Len(new) : new[i] = failures[j]
    BY <1>0, <1>2, <2>1, AddKeeps
  <2> QED BY <2>1, <2>2 DEF Has
<1> HIDE DEF new
<1>3. 1 \in 1 .. Len(new)
  BY <1>0, <1>1
<1>4. ASSUME e.id = Watched PROVE Has(new, Watched) /\ RecordIn(new) = e.ages
  <2>1. Has(new, new[1].id) /\ Get(new, new[1].id) = new[1]
    BY <1>1, <1>3, GetFacts
  <2> QED BY <1>1, <1>4, <2>1 DEF RecordIn
<1>5. ASSUME e.id # Watched, Has(new, Watched)
      PROVE  Has(failures, Watched) /\ RecordIn(new) = RecordIn(failures)
  <2>1. PICK i \in 1 .. Len(new) : new[i].id = Watched
    BY <1>5 DEF Has
  <2>2. i # 1
    BY <1>1, <1>5, <2>1
  <2>3. i \in 2 .. Len(new)
    BY <1>0, <1>1, <2>2
  <2>4. PICK j \in 1 .. Len(failures) : new[i] = failures[j]
    BY <1>1, <2>3
  <2>5. /\ Get(new, Watched) = new[i]
        /\ Has(failures, Watched) /\ Get(failures, Watched) = new[i]
    BY <1>0, <1>1, <2>1, <2>4, GetFacts
  <2> QED BY <1>5, <2>5 DEF RecordIn
<1> QED BY <1>2, <1>4, <1>5 DEF new

LEMMA KeptStep == Typed /\ Quota /\ Kept /\ [Next]_vars => Kept'
<1> SUFFICES ASSUME Typed, Quota, Kept, [Next]_vars PROVE Kept'
  OBVIOUS
<1> DEFINE r == RecordIn(failures)
<1>0. FailureWindow \in Nat /\ Watched \in ClientIds /\ KeyOf[Watched] = Watched
  BY MetadataConstants
<1>1. /\ TypeOK /\ asked \in Ages /\ lost \in 0 .. FailureWindow
      /\ failures \in Seq(FailureRecord) /\ Len(failures) <= CacheMax
  BY DEF Typed, TypeOK, Ages
<1>2. TrackerSound /\ Unique(failures) /\ r \in Ages /\ Ordered(r)
  BY RecordInFacts DEF Quota, TrackerSound
<1>3. Remembers(r, asked, lost)
  BY DEF Kept
<1>4. CASE Tick
  <2>1. failures' = Aged(failures) /\ asked' = Prune(AllOlder(asked)) /\ lost' = Older(lost, FailureWindow)
    BY <1>4 DEF Tick, Aged, AgedRecord, Prune
  <2>2. RecordIn(failures') = AllOlder(r)
    <3>1. /\ Len(failures') = Len(failures) /\ Unique(failures')
          /\ \A i \in 1 .. Len(failures) : failures'[i] = AgedRecord(failures[i])
      BY <1>1, <1>2, <2>1, AgedFacts
    <3>2. \A i \in 1 .. Len(failures) : /\ failures'[i].id = failures[i].id
                                         /\ failures'[i].ages = AllOlder(failures[i].ages)
      BY <1>1, <3>1, AgedRecordFacts, ElementOfSeq
    <3>3. CASE Has(failures, Watched)
      <4>1. PICK i \in 1 .. Len(failures) : failures[i].id = Watched
        BY <3>3 DEF Has
      <4>2. Has(failures', Watched) /\ Get(failures', Watched) = failures'[i] /\ Get(failures, Watched) = failures[i]
        BY <1>2, <3>1, <3>2, <4>1, GetFacts
      <4> QED BY <3>2, <3>3, <4>2 DEF RecordIn
    <3>4. CASE ~Has(failures, Watched)
      <4>1. ~Has(failures', Watched)
        BY <3>1, <3>2, <3>4 DEF Has
      <4>2. <<>> \in Ages /\ Len(<<>>) = 0
        BY EmptySeq DEF Ages
      <4>3. AllOlder(<<>>) \in Ages /\ Len(AllOlder(<<>>)) = 0
        BY <4>2, AllOlderFacts
      <4>4. AllOlder(<<>>) = <<>>
        BY <4>3, EmptySeq DEF Ages
      <4> QED BY <3>4, <4>1, <4>4 DEF RecordIn
    <3> QED BY <3>3, <3>4
  <2>3. AllOlder(r) \in Ages /\ AllOlder(asked) \in Ages
    BY <1>1, <1>2, AllOlderFacts
  <2>4. Remembers(AllOlder(r), AllOlder(asked), lost')
    BY <1>1, <1>2, <1>3, <2>1, RememberedOlder
  <2>5. Remembers(AllOlder(r), asked', lost')
    BY <2>1, <2>3, <2>4, PruneIsEnd, RememberedEnd
  <2> QED BY <2>2, <2>5 DEF Kept
<1>5. ASSUME NEW id \in ClientIds, Record(id) PROVE Kept'
  <2>1. /\ failures' = Add(failures, Failed(id))
        /\ Failed(id) \in FailureRecord /\ Failed(id).id = id
    BY <1>1, <1>5, RecordFacts DEF Record, Failed
  <2>2. CASE id = Watched
    <3> DEFINE base == IF Has(failures, Watched) THEN Prune(Get(failures, Watched).ages) ELSE <<>>
    <3>1. base \in Ages /\ Remembers(base, asked, lost)
      <4>1. CASE Has(failures, Watched)
        <5>1. base = Prune(r)
          BY <4>1 DEF RecordIn
        <5> QED BY <1>1, <1>2, <1>3, <5>1, PruneIsEnd, RememberedPruned
      <4>2. CASE ~Has(failures, Watched)
        <5>1. base = r
          BY <4>2 DEF RecordIn
        <5> QED BY <1>2, <1>3, <5>1
      <4> QED BY <4>1, <4>2
    <3>2. Failed(id).ages = base \o <<0>>
      BY <2>2 DEF Failed
    <3> HIDE DEF base
    <3>3. Has(failures', Watched) /\ RecordIn(failures') = base \o <<0>>
      BY <1>2, <2>1, <2>2, <3>2, RecordAfterAdd
    <3>4. asked' = Newest(Append(asked, 0)) /\ lost' = lost
      BY <1>0, <1>5, <2>2, <3>3 DEF Record
    <3>5. Remembers(base \o <<0>>, Append(asked, 0), lost)
      BY <1>1, <3>1, RememberedFailure
    <3>6. base \o <<0>> \in Ages
      <4>1. <<0>> \in Ages
        BY <1>0 DEF Ages
      <4> QED BY <3>1, <4>1, ConcatProperties DEF Ages
    <3>7. Remembers(base \o <<0>>, asked', lost)
      BY <1>1, <3>4, <3>5, <3>6, NewestFacts, RememberedEnd
    <3> QED BY <3>3, <3>4, <3>7 DEF Kept
  <2>3. CASE id # Watched
    <3>1. KeyOf[id] = id
      BY <1>5 DEF Record, Quota, FlightIsAwaited, Fetchable, Canonical
    <3>2. asked' = asked /\ lost' = IF Has(failures, Watched) /\ ~Has(failures', Watched) THEN 0 ELSE lost
      BY <1>5, <2>3, <3>1 DEF Record
    <3>3. CASE Has(failures', Watched)
      <4>1. RecordIn(failures') = r
        BY <1>2, <2>1, <2>3, <3>3, RecordAfterAdd
      <4> QED BY <1>3, <3>2, <3>3, <4>1 DEF Kept
    <3>4. CASE ~Has(failures', Watched) /\ ~Has(failures, Watched)
      <4>1. RecordIn(failures') = r
        BY <3>4 DEF RecordIn
      <4> QED BY <1>3, <3>2, <3>4, <4>1 DEF Kept
    <3>5. CASE ~Has(failures', Watched) /\ Has(failures, Watched)
      <4>1. lost' = 0
        BY <3>2, <3>5
      <4>2. Len(asked) \in Nat /\ \A i \in 1 .. Len(asked) : asked[i] \in 0 .. FailureWindow
        BY <1>1, LenProperties, ElementOfSeq DEF Ages
      <4>3. ASSUME NEW j \in Nat, j < Len(asked) PROVE ~(asked[Len(asked) - j] < 0)
        <5>1. Len(asked) - j \in 1 .. Len(asked)
          BY <4>2, <4>3
        <5>2. asked[Len(asked) - j] \in 0 .. FailureWindow
          BY <4>2, <5>1
        <5> QED BY <1>0, <5>2
      <4> QED BY <3>2, <4>1, <4>3 DEF Kept, Remembers
    <3> QED BY <3>3, <3>4, <3>5
  <2> QED BY <2>2, <2>3
<1>6. ASSUME NEW p \in Procs, IsRateLimited(p) PROVE Kept'
  <2>1. PICK id \in ClientIds : id = req[p].id
    BY <1>6 DEF Typed, Admitted, IsRateLimited
  <2>2. asked' = asked /\ lost' = lost
    BY <1>6 DEF IsRateLimited, history
  <2>3. CASE ~Has(failures, id)
    <3>1. failures' = failures
      BY <1>6, <2>1, <2>3 DEF IsRateLimited
    <3> QED BY <1>3, <2>2, <3>1 DEF Kept
  <2>4. CASE Has(failures, id)
    <3>1. /\ failures' = Add(failures, Pruned(id))
          /\ Pruned(id) \in FailureRecord /\ Pruned(id).id = id
      BY <1>1, <1>6, <2>1, <2>4, RecordFacts DEF IsRateLimited
    <3>2. CASE id = Watched
      <4>1. Pruned(id).ages = Prune(r)
        BY <2>4, <3>2 DEF Pruned, RecordIn
      <4>2. RecordIn(failures') = Prune(r)
        BY <1>2, <3>1, <3>2, <4>1, RecordAfterAdd
      <4>3. Remembers(Prune(r), asked, lost)
        BY <1>1, <1>2, <1>3, RememberedPruned
      <4> QED BY <2>2, <4>2, <4>3 DEF Kept
    <3>3. CASE id # Watched
      <4>1. RecordIn(failures') = r
        <5>1. CASE Has(failures', Watched)
          BY <1>2, <3>1, <3>3, <5>1, RecordAfterAdd
        <5>2. CASE ~Has(failures', Watched)
          <6>1. ~Has(failures, Watched)
            BY <1>2, <2>4, <3>1, <5>2, RecordAfterAdd
          <6> QED BY <5>2, <6>1 DEF RecordIn
        <5> QED BY <5>1, <5>2
      <4> QED BY <1>3, <2>2, <4>1 DEF Kept
    <3> QED BY <3>2, <3>3
  <2> QED BY <2>3, <2>4
<1>7. CASE UNCHANGED <<failures, asked, lost>>
  BY <1>3, <1>7 DEF Kept
<1>8. ASSUME NEW id \in ClientIds, Fetch(id) PROVE Kept'
  <2>1. Record(id) \/ UNCHANGED <<failures, asked, lost>>
    BY <1>8 DEF Fetch, Responds, BreaksOff, PutNegative, PutPositive, history
  <2> QED BY <1>5, <1>7, <2>1
<1>9. ASSUME NEW p \in Procs, FetchClient(p) PROVE Kept'
  <2>1. IsRateLimited(p) \/ UNCHANGED <<failures, asked, lost>>
    BY <1>9 DEF FetchClient, Begin, Lookup, RemoveExpired, Do, history
  <2> QED BY <1>6, <1>7, <2>1
<1>10. ASSUME NEW u \in Urls, NEW d \in Documents, Publish(u, d) PROVE Kept'
  BY <1>7, <1>10 DEF Publish, history
<1>11. CASE UNCHANGED vars
  BY <1>7, <1>11 DEF vars
<1> QED BY <1>4, <1>8, <1>9, <1>10, <1>11 DEF Next


----------------------------------------------------------------------------
(* Theorems                                                                *)

LEMMA InvInit == Init => Inv
<1> SUFFICES ASSUME Init PROVE Inv
  OBVIOUS
<1>1. Typed
  BY TypedHolds
<1>2. Len(cache) = 0 /\ Len(failures) = 0 /\ cache = <<>> /\ failures = <<>>
  BY EmptySeq DEF Init
<1>3. \A id \in ClientIds : flights[id] = NoFlight
  BY DEF Init
<1>4. Served
  <2>1. ServedIsCurrent
    <3>1. \A u \in Urls : docs[u] \in Documents
      BY DEF Init
    <3> QED BY <3>1 DEF Init, ServedIsCurrent
  <2> QED BY <1>2, <1>3, <2>1 DEF Served, FlightSound, NoFlight
<1>5. TrackerSound
  BY <1>2 DEF TrackerSound, Unique
<1>6. ASSUME NEW id \in ClientIds PROVE FlightIsAwaited(id) /\ WithinQuota(id)
  <2>1. CountIn(failures, id) = 0
    BY <1>2 DEF CountIn, Has
  <2>2. Passed(id) = {} /\ Failing(id) = 0
    BY <1>3 DEF Init, Idle, Passed, Failing, NoFlight
  <2>3. Cardinality(Passed(id)) = 0
    BY <2>2, FS_EmptySet
  <2>4. FailureLimit \in Nat \ {0} /\ Cardinality(Procs) \in Nat
    BY MetadataConstants, FS_CardinalityType
  <2>5. 0 <= Allowance
    BY <2>4 DEF Allowance
  <2> QED BY <1>3, <2>1, <2>2, <2>3, <2>5 DEF FlightIsAwaited, WithinQuota, NoFlight
<1>7. Kept
  <2>1. asked = <<>> /\ Len(asked) = 0
    BY EmptySeq DEF Init
  <2> QED BY <2>1 DEF Kept, Remembers
<1> QED BY <1>1, <1>4, <1>5, <1>6, <1>7 DEF Inv, Quota

LEMMA InvHolds == Spec => []Inv
<1>1. Inv /\ [Next]_vars => Inv'
  BY TypedStep, ServedStep, QuotaStep, KeptStep DEF Inv
<1> QED BY <1>1, InvInit, PTL DEF Spec

(* The state keeps its types: both LRU lists stay within CacheMax entries   *)
(* and every lifetime stays a natural number, whatever a publisher sends    *)
(* as Cache-Control.                                                        *)
THEOREM TypeCorrect == Spec => []TypeOK
<1>1. Inv => TypeOK
  BY DEF Inv, Typed
<1> QED BY <1>1, InvHolds, PTL

(* Of any record of the tracker, the failures that Prune drops are exactly  *)
(* those that have aged out (pruneOldTimestamps).                           *)
AgedOutFirst ==
  \A i \in 1 .. Len(failures) :
    Old(failures[i].ages) = 1 .. Len(failures[i].ages) - Len(Prune(failures[i].ages))

(* The failures within the window, and no others, count against a document: *)
(* the tracker's times stay in the order of the failures, through refusals, *)
(* evictions and new failures (IsRateLimited, Record).                      *)
THEOREM OnlyRecentFailuresCount == Spec => []AgedOutFirst
<1>1. ASSUME Inv PROVE AgedOutFirst
  <2> SUFFICES ASSUME NEW i \in 1 .. Len(failures)
               PROVE  Old(failures[i].ages) = 1 .. Len(failures[i].ages) - Len(Prune(failures[i].ages))
    BY DEF AgedOutFirst
  <2>1. failures[i] \in FailureRecord /\ Ordered(failures[i].ages)
    BY <1>1, ElementOfSeq DEF Inv, Typed, TypeOK, Quota, TrackerSound
  <2>2. PICK s \in Ages : s = failures[i].ages
    BY <2>1 DEF FailureRecord, Ages
  <2>3. Len(s) \in Nat /\ Cardinality(Old(s)) \in 0 .. Len(s)
    BY OldFacts, LenProperties DEF Ages
  <2>4. Len(Prune(s)) = Len(s) - Cardinality(Old(s))
    BY PruneFacts
  <2>5. Old(s) = 1 .. Cardinality(Old(s))
    BY <2>1, <2>2, PruneIsFilter
  <2>6. Len(s) - Len(Prune(s)) = Cardinality(Old(s))
    BY <2>3, <2>4
  <2> QED BY <2>2, <2>5, <2>6
<1> QED BY <1>1, InvHolds, PTL

LEMMA QuotaFollows == Inv => QuotaHolds
<1> SUFFICES ASSUME Inv
             PROVE  Cardinality({i \in 1 .. Len(asked) : asked[i] < lost}) <= Allowance
  BY DEF QuotaHolds
<1>1. Watched \in ClientIds /\ FailureLimit \in Nat /\ Cardinality(Procs) \in Nat
  BY MetadataConstants, FS_CardinalityType
<1>2. Allowance \in Int
  BY <1>1 DEF Allowance
<1>3. PICK r \in Ages : r = RecordIn(failures) /\ Ordered(r) /\ Len(Prune(r)) = CountIn(failures, Watched)
  BY RecordInFacts DEF Inv, Quota
<1>4. asked \in Ages /\ lost \in 0 .. FailureWindow /\ Remembers(r, asked, lost)
  BY <1>3 DEF Inv, Typed, TypeOK, Kept, Ages
<1>5. /\ Cardinality({i \in 1 .. Len(asked) : asked[i] < lost}) \in Nat
      /\ Cardinality({i \in 1 .. Len(asked) : asked[i] < lost}) <= Len(Prune(r))
  BY <1>3, <1>4, RememberedCount
<1>6. CountIn(failures, Watched) + Cardinality(Passed(Watched)) + Failing(Watched) <= Allowance
  BY <1>1 DEF Inv, Quota, WithinQuota
<1>7. CountIn(failures, Watched) \in Nat /\ Cardinality(Passed(Watched)) \in Nat /\ Failing(Watched) \in {0, 1}
  BY CountType, PassedFacts DEF Inv, Typed, TypeOK, Failing
<1> QED BY <1>2, <1>3, <1>5, <1>6, <1>7

(* The failure quota, for any number of callers: of the fetches of a URL    *)
(* that failed within a window, and since the tracker last dropped the      *)
(* URL's record, there are at most FailureLimit and one for every other     *)
(* caller that had passed IsRateLimited (FetchClient, Record).              *)
THEOREM QuotaIsKept == Spec => []QuotaHolds
BY QuotaFollows, InvHolds, PTL

LEMMA NoStaleStep == Inv /\ [Next]_vars => NoStaleAnswer
<1> SUFFICES ASSUME Inv, [Next]_vars, NEW p \in Procs, Answers(p)
             PROVE  /\ Valid(req'[p].answer, req[p].id)
                    /\ gone[DocOf[req[p].id]][req'[p].answer] <= MaxStaleness
  BY DEF NoStaleAnswer
<1>t. Typed /\ Served /\ TypeOK /\ MaxStaleness = CeilTTL + FetchTimeout /\ FetchTimeout \in Nat /\ CeilTTL \in Nat
  BY MetadataConstants DEF Inv, Typed, MaxStaleness
<1>a. /\ req[p].pc # "idle" /\ req'[p].pc = "idle" /\ req'[p].answer # Nil
      /\ req'[p] # req[p]
  BY DEF Answers
<1>d. /\ \A u \in Urls : \A d \in Documents : gone[u][d] \in Nat
      /\ \A x \in ClientIds : DocOf[x] \in Urls
  <2>1. Forgotten \in Nat
    BY <1>t DEF Forgotten
  <2> QED BY <1>t, <2>1 DEF TypeOK, Urls
<1>1. ASSUME NEW id \in ClientIds, Fetch(id)
      PROVE  /\ Valid(req'[p].answer, req[p].id)
             /\ gone[DocOf[req[p].id]][req'[p].answer] <= MaxStaleness
  <2>1. CASE PutPositive(id)
    <3>1. PICK f \in Flight : f = flights[id]
      BY <1>t DEF TypeOK
    <3>2. Wake(id, f.doc) /\ f.phase = "positive" /\ f.doc \in Documents \cup {Nil}
      BY <2>1, <3>1 DEF PutPositive, Flight
    <3>3. req[p].id = id /\ req'[p].answer = f.doc
      BY <1>a, <1>t, <3>2, AreWoken
    <3>4. f.doc \in Documents /\ Valid(f.doc, id) /\ gone[DocOf[id]][f.doc] <= f.age
      BY <1>t, <3>1, <3>2 DEF Served, FlightSound
    <3>5. f.age \in 0 .. FetchTimeout /\ gone[DocOf[id]][f.doc] \in Nat
      BY <1>d, <3>4 DEF Flight
    <3>6. gone[DocOf[id]][f.doc] <= MaxStaleness
      BY <1>t, <3>4, <3>5
    <3> QED BY <3>3, <3>4, <3>6
  <2>2. CASE PutNegative(id)
    <3>1. Wake(id, Nil)
      BY <2>2 DEF PutNegative
    <3> QED BY <1>a, <1>t, <3>1, AreWoken
  <2>3. CASE UNCHANGED req
    BY <1>a, <2>3
  <2> QED BY <1>1, <2>1, <2>2, <2>3 DEF Fetch, Responds, BreaksOff, Record
<1>2. ASSUME NEW q \in Procs, FetchClient(q)
      PROVE  /\ Valid(req'[p].answer, req[p].id)
             /\ gone[DocOf[req[p].id]][req'[p].answer] <= MaxStaleness
  <2>0. CASE q # p
    <3>1. req'[p] = req[p]
      BY <1>2, <1>t, <2>0
         DEF TypeOK, FetchClient, Begin, Lookup, RemoveExpired, IsRateLimited, Do, Answer
    <3> QED BY <1>a, <3>1
  <2>1. CASE q = p /\ Lookup(p)
    <3>1. PICK id \in ClientIds : id = req[p].id
      BY <1>a, <1>t DEF Typed, Admitted
    <3>2. Has(cache, id) /\ Get(cache, id).left > 0 /\ Answer(p, Get(cache, id).doc)
      BY <1>a, <1>t, <2>1, <3>1 DEF Lookup, TypeOK, Request
    <3>3. PICK k \in 1 .. Len(cache) : k = Position(cache, id) /\ cache[k].id = id
      BY <3>2, PositionFacts
    <3>4. PICK e \in Entry : e = cache[k]
      BY <1>t, ElementOfSeq DEF TypeOK
    <3>5. Get(cache, id) = e /\ e.id = id /\ e.left \in Nat /\ e.doc \in Documents \cup {Nil}
      BY <3>3, <3>4 DEF Get, Entry
    <3>6. req'[p].answer = e.doc /\ e.doc # Nil
      BY <1>a, <1>t, <3>2, <3>5, IsAnswered
    <3>7. EntrySound(gone, e)
      BY <1>t, <3>4 DEF Served
    <3>8. Valid(e.doc, id) /\ gone[DocOf[id]][e.doc] + e.left <= MaxStaleness
      BY <3>2, <3>5, <3>6, <3>7 DEF EntrySound
    <3>9. gone[DocOf[id]][e.doc] \in Nat
      BY <1>d, <3>5, <3>6
    <3>10. gone[DocOf[id]][e.doc] <= MaxStaleness
      BY <1>t, <3>5, <3>8, <3>9
    <3> QED BY <3>1, <3>6, <3>8, <3>10
  <2>2. CASE q = p /\ ~Lookup(p)
    <3>1. req'[p].pc # "idle" \/ req'[p].answer = Nil
      <4>1. CASE \E id \in Asks[p] : Begin(p, id)
        BY <1>a, <4>1 DEF Begin
      <4>2. CASE RemoveExpired(p)
        BY <1>a, <1>t, <4>2, MovesOn DEF RemoveExpired
      <4>3. CASE IsRateLimited(p)
        <5>1. Answer(p, Nil) \/ req' = [req EXCEPT ![p].pc = "do"]
          BY <4>3 DEF IsRateLimited
        <5> QED BY <1>a, <1>t, <5>1, IsAnswered, MovesOn
      <4>4. CASE Do(p)
        BY <1>a, <1>t, <4>4, MovesOn DEF Do
      <4> QED BY <1>2, <2>2, <4>1, <4>2, <4>3, <4>4 DEF FetchClient
    <3> QED BY <1>a, <3>1
  <2> QED BY <2>0, <2>1, <2>2
<1>3. CASE UNCHANGED req
  BY <1>3, <1>a
<1> QED BY <1>1, <1>2, <1>3 DEF Next, vars, Tick, Publish

(* A resolved client is its own valid document, and one withdrawn by its    *)
(* publisher is used no longer than cimdCeilTTL and one fetch: for every    *)
(* Cache-Control value, cache size, number of callers and schedule          *)
(* (cacheTTLFromCacheControl, Lookup, FetchClient).                         *)
THEOREM WithdrawnDocumentsGo == Spec => WithdrawnIsForgotten
<1>1. Spec => [][NoStaleAnswer]_vars
  BY InvHolds, NoStaleStep, PTL DEF Spec
<1> QED BY <1>1 DEF WithdrawnIsForgotten
=============================================================================
