------------------------ MODULE TriggerEngineProofs ------------------------
(****************************************************************************)
(* The sorted slices of the trigger engine implement the bag of triggers    *)
(* that the position manager works with.                                    *)
(****************************************************************************)
EXTENDS TriggerEngine, SequenceTheorems, FiniteSetTheorems, TLAPS

LEMMA LeastNat ==
  ASSUME NEW T \in SUBSET Nat, T # {}
  PROVE  \E m \in T : \A n \in T : m <= n
  <1> DEFINE Less == OpToRel(<, Nat)
  <1>1. IsWellFoundedOn(Less, Nat)
    BY NatLessThanWellFounded
  <1>2. PICK m \in T : \A n \in T : <<n, m>> \notin Less
    BY <1>1, WFMin, Zenon
  <1>3. ASSUME NEW n \in T PROVE m <= n
    <2>1. <<n, m>> \notin Less
      BY <1>2
    <2>2. n \in Nat /\ m \in Nat
      OBVIOUS
    <2> QED  BY <2>1, <2>2 DEF OpToRel
  <1> QED  BY <1>3

(* The binary search finds the boundary.                                    *)
LEMMA SearchFinds ==
  ASSUME NEW len \in Nat, NEW Hits
  PROVE  /\ Search(len, Hits) \in 0..len
         /\ (1..Search(len, Hits)) \cap Hits = {}
         /\ Search(len, Hits) < len => Search(len, Hits) + 1 \in Hits
  <1> DEFINE Boundary(n) == (1..n) \cap Hits = {} /\ (n < len => n + 1 \in Hits)
  <1>1. \E n \in 0..len : Boundary(n)
    <2>1. CASE (1..len) \cap Hits = {}
      BY <2>1
    <2>2. CASE (1..len) \cap Hits # {}
      <3>1. PICK m \in (1..len) \cap Hits : \A n \in (1..len) \cap Hits : m <= n
        <4>1. (1..len) \cap Hits \in SUBSET Nat
          OBVIOUS
        <4> QED  BY <4>1, <2>2, LeastNat
      <3> QED  BY <3>1
    <2> QED  BY <2>1, <2>2
  <1>2. Search(len, Hits) = CHOOSE n \in 0..len : Boundary(n)
    BY DEF Search
  <1> HIDE DEF Boundary
  <1>3. Search(len, Hits) \in 0..len /\ Boundary(Search(len, Hits))
    BY <1>1, <1>2
  <1> QED  BY <1>3 DEF Boundary

-----------------------------------------------------------------------------
(* How many copies of an entry a slice has.                                 *)

LEMMA CopiesType ==
  ASSUME NEW S, NEW s \in Seq(S), NEW e
  PROVE  /\ IsFiniteSet({i \in DOMAIN s : s[i] = e})
         /\ Copies(s, e) \in Nat
         /\ Copies(s, e) = 0 <=> \A i \in DOMAIN s : s[i] # e
  <1> DEFINE I == {i \in DOMAIN s : s[i] = e}
  <1>1. I \in SUBSET (1..Len(s)) /\ Len(s) \in Nat
    BY LenProperties
  <1>2. IsFiniteSet(1..Len(s))
    BY <1>1, FS_Interval
  <1>3. IsFiniteSet(I)
    BY <1>1, <1>2, FS_Subset
  <1>4. Copies(s, e) = Cardinality(I)
    BY DEF Copies
  <1>5. Cardinality(I) = 0 <=> I = {}
    BY <1>3, FS_EmptySet
  <1> QED  BY <1>3, <1>4, <1>5, FS_CardinalityType

LEMMA CopiesOfOne ==
  ASSUME NEW d, NEW e
  PROVE  Copies(<<d>>, e) = IF d = e THEN 1 ELSE 0
  <1>1. CASE d = e
    <2>1. {i \in DOMAIN <<d>> : <<d>>[i] = e} = {1}
      BY <1>1
    <2> QED  BY <2>1, <1>1, FS_Singleton DEF Copies
  <1>2. CASE d # e
    <2>1. {i \in DOMAIN <<d>> : <<d>>[i] = e} = {}
      BY <1>2
    <2> QED  BY <2>1, <1>2, FS_EmptySet DEF Copies
  <1> QED  BY <1>1, <1>2

LEMMA CopiesOfConcat ==
  ASSUME NEW S, NEW s \in Seq(S), NEW t \in Seq(S), NEW e
  PROVE  Copies(s \o t, e) = Copies(s, e) + Copies(t, e)
  <1> DEFINE I == {i \in DOMAIN s : s[i] = e}
             J == {j \in DOMAIN t : t[j] = e}
             H == {Len(s) + j : j \in J}
             shift == [j \in J |-> Len(s) + j]
  <1>1. /\ s \o t \in Seq(S) /\ Len(s \o t) = Len(s) + Len(t)
        /\ Len(s) \in Nat /\ Len(t) \in Nat
        /\ DOMAIN s = 1..Len(s) /\ DOMAIN t = 1..Len(t)
        /\ DOMAIN (s \o t) = 1..(Len(s) + Len(t))
        /\ \A i \in 1..(Len(s) + Len(t)) :
             (s \o t)[i] = IF i <= Len(s) THEN s[i] ELSE t[i - Len(s)]
    BY ConcatProperties, LenProperties
  <1>2. {i \in DOMAIN (s \o t) : (s \o t)[i] = e} = I \cup H
    <2>1. ASSUME NEW i \in DOMAIN (s \o t), (s \o t)[i] = e
          PROVE  i \in I \cup H
      <3>1. CASE i <= Len(s)
        BY <1>1, <2>1, <3>1
      <3>2. CASE ~(i <= Len(s))
        <4>1. i - Len(s) \in J /\ i = Len(s) + (i - Len(s))
          BY <1>1, <2>1, <3>2
        <4> QED  BY <4>1
      <3> QED  BY <3>1, <3>2
    <2>2. ASSUME NEW i \in I PROVE i \in DOMAIN (s \o t) /\ (s \o t)[i] = e
      BY <1>1
    <2>3. ASSUME NEW j \in J
          PROVE  Len(s) + j \in DOMAIN (s \o t) /\ (s \o t)[Len(s) + j] = e
      <3>1. /\ j \in 1..Len(t) /\ t[j] = e /\ Len(s) + j \in 1..(Len(s) + Len(t))
            /\ ~(Len(s) + j <= Len(s)) /\ (Len(s) + j) - Len(s) = j
        BY <1>1
      <3> QED  BY <1>1, <3>1
    <2> QED  BY <2>1, <2>2, <2>3
  <1>3. I \cap H = {}
    BY <1>1
  <1>4. IsFiniteSet(I) /\ IsFiniteSet(J)
    BY CopiesType
  <1>5. shift \in Bijection(J, H)
    <2>1. shift \in [J -> H] /\ \A h \in H : \E j \in J : shift[j] = h
      OBVIOUS
    <2>2. IsInjective(shift)
      BY <1>1 DEF IsInjective
    <2> QED  BY <2>1, <2>2 DEF Bijection, Injection, Surjection
  <1>6. IsFiniteSet(H) /\ Cardinality(H) = Cardinality(J)
    BY <1>4, <1>5, FS_Bijection DEF ExistsBijection
  <1>7. Cardinality(I \cup H) = Cardinality(I) + Cardinality(H) - Cardinality(I \cap H)
    BY <1>4, <1>6, FS_Union, Zenon
  <1>8. Cardinality(I) \in Nat /\ Cardinality(J) \in Nat
    BY <1>4, FS_CardinalityType
  <1>9. Cardinality(I \cap H) = 0
    BY <1>3, FS_EmptySet
  <1>10. Cardinality(I \cup H) = Cardinality(I) + Cardinality(J)
    BY <1>6, <1>7, <1>8, <1>9
  <1> QED  BY <1>2, <1>10 DEF Copies

-----------------------------------------------------------------------------
(* The removing loops keep what they should, in its order: pick names where *)
(* the element at index n was.                                              *)
Places(s, Keeps) ==
    [n \in 1..Cardinality(Keeps) |->
        CHOOSE i \in Keeps : Cardinality({k \in Keeps : k <= i}) = n]

LEMMA CompactedPlaces ==
  ASSUME NEW S, NEW s \in Seq(S), NEW Keeps \in SUBSET DOMAIN s
  PROVE  LET t == Compacted(s, Keeps)
             pick == Places(s, Keeps)
         IN  /\ Cardinality(Keeps) \in Nat
             /\ t \in Seq(S) /\ DOMAIN t = 1..Cardinality(Keeps)
             /\ pick \in Bijection(DOMAIN t, Keeps)
             /\ \A n \in DOMAIN t : pick[n] \in Keeps /\ t[n] = s[pick[n]]
             /\ \A m, n \in DOMAIN t : m < n => pick[m] < pick[n]
  <1> DEFINE upTo(i) == {k \in Keeps : k <= i}
             rank == [i \in Keeps |-> Cardinality(upTo(i))]
             c == Cardinality(Keeps)
             t == Compacted(s, Keeps)
             pick == Places(s, Keeps)
  <1>1. DOMAIN s = 1..Len(s) /\ Len(s) \in Nat /\ s \in [1..Len(s) -> S]
    BY LenProperties
  <1>2. IsFiniteSet(Keeps)
    <2>1. IsFiniteSet(1..Len(s)) /\ Keeps \in SUBSET (1..Len(s))
      BY <1>1, FS_Interval
    <2> QED  BY <2>1, FS_Subset
  <1>3. c \in Nat
    BY <1>2, FS_CardinalityType
  <1>4. ASSUME NEW i \in Keeps
        PROVE  IsFiniteSet(upTo(i)) /\ rank[i] \in 1..c
    <2>1. upTo(i) \in SUBSET Keeps
      OBVIOUS
    <2>2. IsFiniteSet(upTo(i)) /\ Cardinality(upTo(i)) <= c
      BY <1>2, <2>1, FS_Subset
    <2>3. i \in upTo(i)
      BY <1>1
    <2>4. Cardinality(upTo(i)) # 0 /\ Cardinality(upTo(i)) \in Nat
      BY <2>2, <2>3, FS_EmptySet, FS_CardinalityType
    <2> QED  BY <1>3, <2>2, <2>4
  <1>5. ASSUME NEW i \in Keeps, NEW j \in Keeps, i < j
        PROVE  rank[i] < rank[j]
    <2>1. upTo(i) \in SUBSET upTo(j)
      BY <1>1, <1>5
    <2>2. j \in upTo(j) /\ j \notin upTo(i)
      BY <1>1, <1>5
    <2>3. Cardinality(upTo(i)) <= Cardinality(upTo(j))
      BY <1>4, <2>1, FS_Subset
    <2>4. Cardinality(upTo(j)) # Cardinality(upTo(i))
      BY <1>4, <2>1, <2>2, FS_Subset
    <2>5. rank[i] \in 1..c /\ rank[j] \in 1..c
      BY <1>4
    <2> HIDE DEF upTo
    <2> QED  BY <1>3, <2>3, <2>4, <2>5
  <1> HIDE DEF upTo
  <1>6. rank \in [Keeps -> 1..c]
    BY <1>4
  <1>7. ASSUME NEW i \in Keeps, NEW j \in Keeps, rank[i] = rank[j]
        PROVE  i = j
    <2>1. i \in Nat /\ j \in Nat /\ rank[i] \in Nat
      BY <1>1, <1>3, <1>4
    <2>2. ~(i < j) /\ ~(j < i)
      <3>1. ~(rank[i] < rank[j]) /\ ~(rank[j] < rank[i])
        BY <1>7, <2>1
      <3> QED  BY <3>1, <1>5
    <2> QED  BY <2>1, <2>2
  <1>8. rank \in Injection(Keeps, 1..c)
    BY <1>6, <1>7 DEF Injection, IsInjective
  <1>9. IsFiniteSet(1..c) /\ Cardinality(1..c) = c
    BY <1>3, FS_Interval
  <1>10. rank \in Surjection(Keeps, 1..c)
    BY <1>8, <1>9, FS_Injection
  <1>11. ASSUME NEW n \in 1..c PROVE \E i \in Keeps : rank[i] = n
    BY <1>10 DEF Surjection
  <1>12. ASSUME NEW n \in 1..c
         PROVE  pick[n] \in Keeps /\ rank[pick[n]] = n
    <2>1. pick[n] = CHOOSE i \in Keeps : rank[i] = n
      BY DEF Places, upTo
    <2> HIDE DEF pick, rank
    <2> QED  BY <1>11, <2>1
  <1>13. DOMAIN t = 1..c /\ \A n \in 1..c : t[n] = s[pick[n]]
    BY DEF Compacted, Places
  <1>14. t \in Seq(S)
    <2>1. ASSUME NEW n \in 1..c PROVE t[n] \in S
      BY <1>1, <1>12, <1>13
    <2>2. t = [n \in 1..c |-> t[n]]
      BY DEF Compacted
    <2>3. t \in [1..c -> S]
      BY <2>1, <2>2
    <2> HIDE DEF t
    <2> QED  BY <1>3, <2>3, SeqDef
  <1>15. ASSUME NEW m \in 1..c, NEW n \in 1..c, m < n PROVE pick[m] < pick[n]
    <2>1. pick[m] \in Keeps /\ pick[n] \in Keeps /\ rank[pick[m]] = m /\ rank[pick[n]] = n
      BY <1>12
    <2>2. pick[m] \in Nat /\ pick[n] \in Nat
      BY <1>1, <2>1
    <2>3. ~(pick[n] < pick[m]) /\ pick[n] # pick[m]
      <3> HIDE DEF pick, rank
      <3> QED  BY <1>5, <1>15, <2>1
    <2> QED  BY <2>2, <2>3
  <1>16. pick \in Bijection(1..c, Keeps)
    <2>1. pick \in [1..c -> Keeps]
      <3> DEFINE at(n) == CHOOSE i \in Keeps : Cardinality({k \in Keeps : k <= i}) = n
      <3>1. pick = [n \in 1..c |-> at(n)]
        BY Zenon DEF Places
      <3> HIDE DEF pick, rank, at
      <3>2. \A n \in 1..c : pick[n] \in Keeps
        BY <1>12
      <3> QED  BY <3>1, <3>2
    <2>2. IsInjective(pick)
      <3> HIDE DEF rank, pick
      <3> QED  BY <1>12, <2>1 DEF IsInjective
    <2>3. ASSUME NEW i \in Keeps PROVE \E n \in 1..c : pick[n] = i
      <3>1. rank[i] \in 1..c
        BY <1>4
      <3>2. pick[rank[i]] \in Keeps /\ rank[pick[rank[i]]] = rank[i]
        <4> HIDE DEF rank, pick
        <4> QED  BY <3>1, <1>12
      <3>3. pick[rank[i]] = i
        <4> HIDE DEF rank, pick
        <4> QED  BY <3>2, <1>7
      <3> QED  BY <3>1, <3>3
    <2> HIDE DEF pick
    <2> QED  BY <2>1, <2>2, <2>3 DEF Bijection, Injection, Surjection
  <1> HIDE DEF pick, t, rank
  <1>17. /\ c \in Nat /\ t \in Seq(S) /\ DOMAIN t = 1..c
         /\ pick \in Bijection(DOMAIN t, Keeps)
         /\ \A n \in DOMAIN t : pick[n] \in Keeps /\ t[n] = s[pick[n]]
         /\ \A m, n \in DOMAIN t : m < n => pick[m] < pick[n]
    BY <1>3, <1>12, <1>13, <1>14, <1>15, <1>16
  <1> QED  BY <1>17 DEF pick, t

LEMMA CompactedAscends ==
  ASSUME NEW s \in Seq(Entry), NEW Keeps \in SUBSET DOMAIN s, Ascending(s)
  PROVE  Ascending(Compacted(s, Keeps))
  <1> DEFINE t == Compacted(s, Keeps)
             pick == Places(s, Keeps)
  <1>1. /\ \A n \in DOMAIN t : pick[n] \in Keeps /\ t[n] = s[pick[n]]
        /\ \A m, n \in DOMAIN t : m < n => pick[m] < pick[n]
    BY CompactedPlaces, Zenon
  <1> HIDE DEF t, pick
  <1>2. Ascending(t)
    BY <1>1 DEF Ascending
  <1> QED  BY <1>2 DEF t

(* All copies of an entry are kept, or none is.                             *)
LEMMA CompactedCopies ==
  ASSUME NEW S, NEW s \in Seq(S), NEW Keeps \in SUBSET DOMAIN s, NEW e
  PROVE  /\ (\A i \in DOMAIN s : s[i] = e => i \in Keeps)
              => Copies(Compacted(s, Keeps), e) = Copies(s, e)
         /\ (\A i \in Keeps : s[i] # e) => Copies(Compacted(s, Keeps), e) = 0
  <1> DEFINE t == Compacted(s, Keeps)
             pick == Places(s, Keeps)
  <1>1. /\ t \in Seq(S)
        /\ pick \in Bijection(DOMAIN t, Keeps)
        /\ \A n \in DOMAIN t : pick[n] \in Keeps /\ t[n] = s[pick[n]]
    BY CompactedPlaces, Zenon
  <1> HIDE DEF t, pick
  <1>2. ASSUME \A i \in DOMAIN s : s[i] = e => i \in Keeps
        PROVE  Copies(t, e) = Copies(s, e)
    <2> DEFINE I == {n \in DOMAIN t : t[n] = e}
               J == {i \in DOMAIN s : s[i] = e}
               f == [n \in I |-> pick[n]]
    <2>1. f \in [I -> J]
      BY <1>1
    <2>2. \A m, n \in DOMAIN t : pick[m] = pick[n] => m = n
      BY <1>1 DEF Bijection, Injection, IsInjective
    <2>3. IsInjective(f)
      BY <2>2 DEF IsInjective
    <2>4. ASSUME NEW i \in J PROVE \E n \in I : f[n] = i
      <3>1. PICK n \in DOMAIN t : pick[n] = i
        BY <1>1, <1>2 DEF Bijection, Surjection
      <3>2. n \in I
        BY <1>1, <3>1
      <3> QED  BY <3>1, <3>2
    <2>5. f \in Bijection(I, J)
      <3> HIDE DEF f, I, J
      <3> QED  BY <2>1, <2>3, <2>4 DEF Bijection, Injection, Surjection
    <2>6. IsFiniteSet(I)
      BY <1>1, CopiesType
    <2>7. Cardinality(J) = Cardinality(I)
      <3> HIDE DEF f, I, J
      <3> QED  BY <2>5, <2>6, FS_Bijection DEF ExistsBijection
    <2> QED  BY <2>7 DEF Copies
  <1>3. ASSUME \A i \in Keeps : s[i] # e
        PROVE  Copies(t, e) = 0
    <2>1. \A n \in DOMAIN t : t[n] # e
      BY <1>1, <1>3
    <2> QED  BY <1>1, <2>1, CopiesType
  <1> QED  BY <1>2, <1>3 DEF t

-----------------------------------------------------------------------------
(* A slice cut in two.                                                      *)
LEMMA CutInTwo ==
  ASSUME NEW S, NEW s \in Seq(S), NEW n \in 0..Len(s)
  PROVE  LET front == SubSeq(s, 1, n)
             rest == SubSeq(s, n + 1, Len(s))
         IN  /\ front \in Seq(S) /\ DOMAIN front = 1..n /\ Len(front) = n
             /\ rest \in Seq(S) /\ DOMAIN rest = 1..(Len(s) - n)
             /\ Len(rest) = Len(s) - n
             /\ \A i \in 1..n : i \in DOMAIN s /\ front[i] = s[i]
             /\ \A i \in 1..(Len(s) - n) : n + i \in DOMAIN s /\ rest[i] = s[n + i]
             /\ front \o rest = s
             /\ \A e : Copies(front, e) + Copies(rest, e) = Copies(s, e)
  <1> DEFINE front == SubSeq(s, 1, n)
             rest == SubSeq(s, n + 1, Len(s))
  <1>1. /\ DOMAIN s = 1..Len(s) /\ Len(s) \in Nat
        /\ \A i \in 1..Len(s) : s[i] \in S
    BY LenProperties
  <1>2. front \in Seq(S) /\ Len(front) = n /\ \A i \in 1..n : front[i] = s[i]
    <2>1. \A i \in 1..n : s[i] \in S
      BY <1>1
    <2>2. /\ front \in Seq(S)
          /\ Len(front) = IF 1 <= n THEN n - 1 + 1 ELSE 0
          /\ \A i \in 1..(n - 1 + 1) : front[i] = s[1 + i - 1]
      <3>1. 1 \in Int /\ n \in Int
        BY <1>1
      <3> QED  BY <2>1, <3>1, SubSeqProperties
    <2> HIDE DEF front
    <2>3. n - 1 + 1 = n /\ \A i \in 1..n : 1 + i - 1 = i
      OBVIOUS
    <2> QED  BY <2>2, <2>3
  <1>3. /\ rest \in Seq(S) /\ Len(rest) = Len(s) - n
        /\ \A i \in 1..(Len(s) - n) : rest[i] = s[n + i]
    <2>1. \A i \in n + 1..Len(s) : s[i] \in S
      BY <1>1
    <2>2. n + 1 \in Int /\ Len(s) \in Int
      BY <1>1
    <2>3. /\ rest \in Seq(S)
          /\ Len(rest) = IF n + 1 <= Len(s) THEN Len(s) - (n + 1) + 1 ELSE 0
          /\ \A i \in 1..(Len(s) - (n + 1) + 1) : rest[i] = s[n + 1 + i - 1]
      BY <2>1, <2>2, SubSeqProperties
    <2> HIDE DEF rest
    <2>4. Len(s) - (n + 1) + 1 = Len(s) - n /\ \A i \in 1..(Len(s) - n) : n + 1 + i - 1 = n + i
      BY <1>1
    <2>5. Len(rest) = Len(s) - n
      <3>1. n \in Nat /\ n <= Len(s) /\ Len(s) \in Nat
        BY <1>1
      <3>2. (IF n + 1 <= Len(s) THEN Len(s) - (n + 1) + 1 ELSE 0) = Len(s) - n
        BY <3>1
      <3> QED  BY <2>3, <3>2
    <2>6. \A i \in 1..(Len(s) - n) : rest[i] = s[n + i]
      BY <2>3, <2>4
    <2> QED  BY <2>3, <2>5, <2>6
  <1>4. DOMAIN front = 1..n /\ DOMAIN rest = 1..(Len(s) - n)
    BY <1>2, <1>3, LenProperties
  <1>5. front \o rest = s
    <2>1. 1 \in 1..(Len(s) + 1) /\ n \in (1 - 1)..Len(s) /\ Len(s) \in n..Len(s)
      BY <1>1
    <2>2. front \o rest = SubSeq(s, 1, Len(s))
      BY <2>1, ConcatAdjacentSubSeq
    <2> QED  BY <2>2, SubSeqFull
  <1> HIDE DEF front, rest
  <1>6. ASSUME NEW e PROVE Copies(front, e) + Copies(rest, e) = Copies(s, e)
    BY <1>2, <1>3, <1>5, CopiesOfConcat
  <1>7. /\ \A i \in 1..n : i \in DOMAIN s
        /\ \A i \in 1..(Len(s) - n) : n + i \in DOMAIN s
    BY <1>1
  <1>8. /\ front \in Seq(S) /\ DOMAIN front = 1..n /\ Len(front) = n
        /\ rest \in Seq(S) /\ DOMAIN rest = 1..(Len(s) - n)
        /\ Len(rest) = Len(s) - n
        /\ \A i \in 1..n : i \in DOMAIN s /\ front[i] = s[i]
        /\ \A i \in 1..(Len(s) - n) : n + i \in DOMAIN s /\ rest[i] = s[n + i]
        /\ front \o rest = s
        /\ \A e : Copies(front, e) + Copies(rest, e) = Copies(s, e)
    BY <1>2, <1>3, <1>4, <1>5, <1>6, <1>7
  <1> QED  BY <1>8 DEF front, rest

LEMMA CutAscends ==
  ASSUME NEW s \in Seq(Entry), Ascending(s), NEW n \in 0..Len(s)
  PROVE  Ascending(SubSeq(s, 1, n)) /\ Ascending(SubSeq(s, n + 1, Len(s)))
  <1> DEFINE front == SubSeq(s, 1, n)
             rest == SubSeq(s, n + 1, Len(s))
  <1>1. /\ DOMAIN front = 1..n /\ DOMAIN rest = 1..(Len(s) - n)
        /\ \A i \in 1..n : i \in DOMAIN s /\ front[i] = s[i]
        /\ \A i \in 1..(Len(s) - n) : n + i \in DOMAIN s /\ rest[i] = s[n + i]
    BY CutInTwo
  <1>2. Len(s) \in Nat
    BY LenProperties
  <1> HIDE DEF front, rest
  <1>3. Ascending(front)
    BY <1>1 DEF Ascending
  <1>4. ASSUME NEW i \in DOMAIN rest, NEW j \in DOMAIN rest, i < j
        PROVE  rest[i].price <= rest[j].price
    <2>1. n + i < n + j
      BY <1>1, <1>2, <1>4
    <2> QED  BY <1>1, <2>1 DEF Ascending
  <1> QED  BY <1>3, <1>4 DEF Ascending, front, rest

(* Slices that ascend one after the other.                                  *)
LEMMA ConcatAscends ==
  ASSUME NEW s \in Seq(Entry), NEW t \in Seq(Entry), Ascending(s), Ascending(t),
         \A i \in DOMAIN s, j \in DOMAIN t : s[i].price <= t[j].price
  PROVE  Ascending(s \o t)
  <1>1. /\ DOMAIN (s \o t) = 1..(Len(s) + Len(t))
        /\ Len(s) \in Nat /\ Len(t) \in Nat
        /\ DOMAIN s = 1..Len(s) /\ DOMAIN t = 1..Len(t)
        /\ \A i \in 1..(Len(s) + Len(t)) :
             (s \o t)[i] = IF i <= Len(s) THEN s[i] ELSE t[i - Len(s)]
    BY ConcatProperties, LenProperties
  <1> DEFINE u == s \o t
  <1> HIDE DEF u
  <1>2. ASSUME NEW i \in 1..(Len(s) + Len(t)), NEW j \in 1..(Len(s) + Len(t)), i < j
        PROVE  u[i].price <= u[j].price
    <2>1. /\ u[i] = IF i <= Len(s) THEN s[i] ELSE t[i - Len(s)]
          /\ u[j] = IF j <= Len(s) THEN s[j] ELSE t[j - Len(s)]
      BY <1>1 DEF u
    <2>2. CASE j <= Len(s)
      BY <1>1, <1>2, <2>1, <2>2 DEF Ascending
    <2>3. CASE i <= Len(s) /\ ~(j <= Len(s))
      <3>1. i \in DOMAIN s /\ j - Len(s) \in DOMAIN t
        BY <1>1, <2>3
      <3> QED  BY <2>1, <2>3, <3>1
    <2>4. CASE ~(i <= Len(s))
      <3>1. /\ i - Len(s) \in DOMAIN t /\ j - Len(s) \in DOMAIN t
            /\ i - Len(s) < j - Len(s) /\ ~(j <= Len(s))
        BY <1>1, <1>2, <2>4
      <3> QED  BY <2>1, <2>4, <3>1 DEF Ascending
    <2> QED  BY <1>1, <1>2, <2>2, <2>3, <2>4
  <1> QED  BY <1>1, <1>2 DEF Ascending, u

(* insertSorted puts an entry after those of its price and before dearer    *)
(* ones.                                                                    *)
LEMMA InsertedWell ==
  ASSUME NEW S \in SUBSET Entry, NEW s \in Seq(S), NEW e \in S, Ascending(s)
  PROVE  /\ insertSorted(s, e) \in Seq(S)
         /\ Ascending(insertSorted(s, e))
         /\ \A d : Copies(insertSorted(s, e), d) = Copies(s, d) + (IF d = e THEN 1 ELSE 0)
  <1> DEFINE Dearer == {j \in DOMAIN s : s[j].price > e.price}
             n == Search(Len(s), Dearer)
             front == SubSeq(s, 1, n)
             rest == SubSeq(s, n + 1, Len(s))
             one == <<e>>
  <1>1. Len(s) \in Nat /\ DOMAIN s = 1..Len(s) /\ \A i \in 1..Len(s) : s[i] \in S
    BY LenProperties
  <1>2. /\ n \in 0..Len(s)
        /\ (1..n) \cap Dearer = {}
        /\ n < Len(s) => n + 1 \in Dearer
    BY <1>1, SearchFinds
  <1>3. insertSorted(s, e) = front \o one \o rest
    BY DEF insertSorted
  <1>4. s \in Seq(Entry) /\ \A d \in Entry : d.price \in Nat
    <2>1. s \in Seq(Entry)
      BY SeqMonotonic
    <2>2. ASSUME NEW d \in Entry PROVE d.price \in Nat
      <3>1. d.price \in Prices \cup {0}
        BY DEF Entry
      <3>2. Prices \cup {0} \subseteq Nat
        BY PositionAssumption
      <3> QED  BY <3>1, <3>2, Zenon
    <2> QED  BY <2>1, <2>2
  <1> HIDE DEF n
  <1>5. /\ front \in Seq(S) /\ DOMAIN front = 1..n
        /\ rest \in Seq(S) /\ DOMAIN rest = 1..(Len(s) - n)
        /\ \A i \in 1..n : i \in DOMAIN s /\ front[i] = s[i]
        /\ \A i \in 1..(Len(s) - n) : n + i \in DOMAIN s /\ rest[i] = s[n + i]
        /\ \A d : Copies(front, d) + Copies(rest, d) = Copies(s, d)
    <2>1. n \in 0..Len(s)
      BY <1>2
    <2>2. /\ front \in Seq(S) /\ DOMAIN front = 1..n
          /\ rest \in Seq(S) /\ DOMAIN rest = 1..(Len(s) - n)
          /\ \A i \in 1..n : i \in DOMAIN s /\ front[i] = s[i]
          /\ \A i \in 1..(Len(s) - n) : n + i \in DOMAIN s /\ rest[i] = s[n + i]
      BY <2>1, CutInTwo
    <2>3. \A d : Copies(front, d) + Copies(rest, d) = Copies(s, d)
      BY <2>1, CutInTwo
    <2> QED  BY <2>2, <2>3
  <1>6. Ascending(front) /\ Ascending(rest)
    BY <1>2, <1>4, CutAscends
  <1> HIDE DEF front, rest
  <1>7. /\ one \in Seq(S) /\ DOMAIN one = 1..1 /\ Len(one) = 1 /\ one[1] = e
        /\ \A d : Copies(one, d) = IF d = e THEN 1 ELSE 0
    BY CopiesOfOne
  <1> HIDE DEF one
  <1>8. \A i \in DOMAIN front : front[i].price <= e.price
    <2>1. ASSUME NEW i \in 1..n PROVE s[i].price <= e.price
      <3>1. i \in DOMAIN s /\ i \notin Dearer
        BY <1>2, <1>5
      <3>2. s[i] \in Entry
        BY <1>1, <3>1
      <3> QED  BY <1>4, <3>1, <3>2
    <2> QED  BY <1>5, <2>1
  <1>9. \A i \in DOMAIN rest : e.price <= rest[i].price
    <2>1. ASSUME NEW i \in 1..(Len(s) - n) PROVE e.price <= s[n + i].price
      <3>1. n + i \in DOMAIN s /\ n + 1 \in DOMAIN s /\ n < Len(s) /\ n + 1 <= n + i
        BY <1>1, <1>2, <2>1
      <3>2. s[n + 1].price > e.price
        BY <1>2, <3>1
      <3>3. s[n + 1] \in Entry /\ s[n + i] \in Entry
        BY <1>1, <3>1
      <3>4. s[n + 1].price <= s[n + i].price
        <4>1. CASE n + 1 = n + i
          BY <1>4, <3>3, <4>1
        <4>2. CASE n + 1 < n + i
          BY <3>1, <4>2 DEF Ascending
        <4> QED  BY <1>2, <3>1, <4>1, <4>2
      <3> QED  BY <1>4, <3>2, <3>3, <3>4
    <2> QED  BY <1>5, <2>1
  <1>10. front \in Seq(Entry) /\ rest \in Seq(Entry) /\ one \in Seq(Entry)
    BY <1>5, <1>7, SeqMonotonic
  <1>11. Ascending(one)
    BY <1>7 DEF Ascending
  <1>12. Ascending(front \o one)
    <2>1. \A i \in DOMAIN front, j \in DOMAIN one : front[i].price <= one[j].price
      BY <1>7, <1>8
    <2> QED  BY <1>6, <1>10, <1>11, <2>1, ConcatAscends
  <1>13. /\ front \o one \in Seq(S) /\ front \o one \in Seq(Entry)
         /\ front \o one \o rest \in Seq(S)
    BY <1>5, <1>7, <1>10, ConcatProperties
  <1>14. \A i \in DOMAIN (front \o one), j \in DOMAIN rest :
            (front \o one)[i].price <= rest[j].price
    <2> SUFFICES ASSUME NEW i \in DOMAIN (front \o one), NEW j \in DOMAIN rest
                 PROVE  (front \o one)[i].price <= rest[j].price
      OBVIOUS
    <2>1. /\ (front \o one)[i] = e \/ \E h \in DOMAIN front : (front \o one)[i] = front[h]
      <3>1. /\ DOMAIN (front \o one) = 1..(Len(front) + 1) /\ Len(front) \in Nat
            /\ DOMAIN front = 1..Len(front)
            /\ (front \o one)[i] = IF i <= Len(front) THEN front[i] ELSE one[i - Len(front)]
        <4>1. /\ front \o one \in Seq(S) /\ Len(front \o one) = Len(front) + Len(one)
              /\ \A k \in 1..Len(front) + Len(one) :
                   (front \o one)[k] = IF k <= Len(front) THEN front[k] ELSE one[k - Len(front)]
          BY <1>5, <1>7, ConcatProperties
        <4>2. /\ DOMAIN (front \o one) = 1..Len(front \o one)
              /\ Len(front) \in Nat /\ DOMAIN front = 1..Len(front)
          BY <1>5, <4>1, LenProperties
        <4> QED  BY <1>7, <4>1, <4>2
      <3>2. i <= Len(front) \/ i - Len(front) = 1
        BY <3>1
      <3> QED  BY <3>1, <3>2, <1>7
    <2>2. rest[j] \in Entry
      BY <1>10, LenProperties
    <2>3. \A h \in DOMAIN front : front[h] \in Entry
      BY <1>10, LenProperties
    <2> QED  BY <1>4, <1>8, <1>9, <2>1, <2>2, <2>3
  <1>15. Ascending(front \o one \o rest)
    <2> QED  BY <1>6, <1>10, <1>12, <1>13, <1>14, ConcatAscends
  <1>16. ASSUME NEW d
         PROVE  Copies(front \o one \o rest, d) = Copies(s, d) + (IF d = e THEN 1 ELSE 0)
    <2>1. /\ Copies(front \o one \o rest, d) = Copies(front \o one, d) + Copies(rest, d)
          /\ Copies(front \o one, d) = Copies(front, d) + Copies(one, d)
      <3> DEFINE both == front \o one
      <3>1. one \in Seq(S) /\ both \in Seq(S)
        BY <1>7, <1>13
      <3>2. Copies(both, d) = Copies(front, d) + Copies(one, d)
        BY <1>5, <3>1, CopiesOfConcat
      <3> HIDE DEF both
      <3>3. Copies(both \o rest, d) = Copies(both, d) + Copies(rest, d)
        BY <1>5, <3>1, CopiesOfConcat
      <3> QED  BY <3>2, <3>3 DEF both
    <2>2. Copies(one, d) = IF d = e THEN 1 ELSE 0
      BY <1>7
    <2>3. Copies(front, d) \in Nat /\ Copies(rest, d) \in Nat
      BY <1>5, CopiesType
    <2> QED  BY <1>5, <2>1, <2>2, <2>3
  <1> QED  BY <1>3, <1>13, <1>15, <1>16

-----------------------------------------------------------------------------
(* What the operations do to both slices.                                   *)
SlicesOK(t) ==
    /\ t \in [above : Seq(AboveSlice), below : Seq(BelowSlice)]
    /\ Ascending(t.above) /\ Ascending(t.below)

Held(t, e) == Copies(t.above, e) + Copies(t.below, e)

LEMMA HeldType ==
  ASSUME NEW t, SlicesOK(t), NEW e
  PROVE  /\ Held(t, e) \in Nat /\ Copies(t.above, e) \in Nat /\ Copies(t.below, e) \in Nat
         /\ e.above \in BOOLEAN =>
              IF e.above THEN Held(t, e) = Copies(t.above, e)
                         ELSE Held(t, e) = Copies(t.below, e)
  <1>1. t.above \in Seq(AboveSlice) /\ t.below \in Seq(BelowSlice)
    BY DEF SlicesOK
  <1>2. Copies(t.above, e) \in Nat /\ Copies(t.below, e) \in Nat
    BY <1>1, CopiesType
  <1>3. ASSUME e.above PROVE Copies(t.below, e) = 0
    <2>1. \A i \in DOMAIN t.below : t.below[i] \in BelowSlice
      BY <1>1, LenProperties
    <2>2. \A i \in DOMAIN t.below : t.below[i] # e
      BY <1>3, <2>1 DEF BelowSlice, AboveSlice
    <2> QED  BY <1>1, <2>2, CopiesType
  <1>4. ASSUME ~e.above PROVE Copies(t.above, e) = 0
    <2>1. \A i \in DOMAIN t.above : t.above[i] \in AboveSlice
      BY <1>1, LenProperties
    <2>2. \A i \in DOMAIN t.above : t.above[i] # e
      BY <1>4, <2>1 DEF AboveSlice
    <2> QED  BY <1>1, <2>2, CopiesType
  <1> QED  BY <1>2, <1>3, <1>4 DEF Held

LEMMA RegisterLocked ==
  ASSUME NEW t, SlicesOK(t), NEW e \in Entry
  PROVE  /\ SlicesOK(registerLocked(t, e))
         /\ \A d : Held(registerLocked(t, e), d) = Held(t, d) + (IF d = e THEN 1 ELSE 0)
  <1> DEFINE u == registerLocked(t, e)
  <1>1. t.above \in Seq(AboveSlice) /\ t.below \in Seq(BelowSlice)
    BY DEF SlicesOK
  <1>2. AboveSlice \in SUBSET Entry /\ BelowSlice \in SUBSET Entry
    BY DEF AboveSlice, BelowSlice
  <1>3. \A d : Copies(t.above, d) \in Nat /\ Copies(t.below, d) \in Nat
    BY HeldType
  <1>4. CASE e.above
    <2>1. e \in AboveSlice
      BY <1>4 DEF AboveSlice
    <2>2. u = [t EXCEPT !.above = insertSorted(t.above, e)]
      BY <1>4 DEF registerLocked
    <2> HIDE DEF u
    <2>3. u.above = insertSorted(t.above, e) /\ u.below = t.below
      BY <2>2 DEF SlicesOK
    <2>4. /\ u.above \in Seq(AboveSlice) /\ Ascending(u.above)
          /\ \A d : Copies(u.above, d) = Copies(t.above, d) + (IF d = e THEN 1 ELSE 0)
      BY <1>1, <1>2, <2>1, <2>3, InsertedWell DEF SlicesOK
    <2>5. SlicesOK(u)
      BY <2>2, <2>3, <2>4 DEF SlicesOK
    <2>6. \A d : Held(u, d) = Held(t, d) + (IF d = e THEN 1 ELSE 0)
      BY <1>3, <2>3, <2>4 DEF Held
    <2> QED  BY <2>5, <2>6 DEF u
  <1>5. CASE ~e.above
    <2>1. e \in BelowSlice
      BY <1>5 DEF AboveSlice, BelowSlice
    <2>2. u = [t EXCEPT !.below = insertSorted(t.below, e)]
      BY <1>5 DEF registerLocked
    <2> HIDE DEF u
    <2>3. u.below = insertSorted(t.below, e) /\ u.above = t.above
      BY <2>2 DEF SlicesOK
    <2>4. /\ u.below \in Seq(BelowSlice) /\ Ascending(u.below)
          /\ \A d : Copies(u.below, d) = Copies(t.below, d) + (IF d = e THEN 1 ELSE 0)
      BY <1>1, <1>2, <2>1, <2>3, InsertedWell DEF SlicesOK
    <2>5. SlicesOK(u)
      BY <2>2, <2>3, <2>4 DEF SlicesOK
    <2>6. \A d : Held(u, d) = Held(t, d) + (IF d = e THEN 1 ELSE 0)
      BY <1>3, <2>3, <2>4 DEF Held
    <2> QED  BY <2>5, <2>6 DEF u
  <1> QED  BY <1>4, <1>5

(* Entries leave a slice all copies of them at once.                        *)
LEMMA RemoveEntry ==
  ASSUME NEW S \in SUBSET Entry, NEW s \in Seq(S), Ascending(s), NEW p, NEW l
  PROVE  /\ removeEntry(s, p, l) \in Seq(S)
         /\ Ascending(removeEntry(s, p, l))
         /\ \A d : Copies(removeEntry(s, p, l), d)
                     = IF d.pos = p /\ d.lvl = l THEN 0 ELSE Copies(s, d)
  <1> DEFINE Keeps == {i \in DOMAIN s : ~(s[i].pos = p /\ s[i].lvl = l)}
  <1>1. Keeps \in SUBSET DOMAIN s /\ removeEntry(s, p, l) = Compacted(s, Keeps)
    BY DEF removeEntry
  <1>2. s \in Seq(Entry)
    BY SeqMonotonic
  <1>3. \A i \in DOMAIN s : i \in Keeps <=> ~(s[i].pos = p /\ s[i].lvl = l)
    OBVIOUS
  <1> HIDE DEF Keeps
  <1>4. Compacted(s, Keeps) \in Seq(S)
    BY <1>1, CompactedPlaces
  <1>5. Ascending(Compacted(s, Keeps))
    BY <1>1, <1>2, CompactedAscends
  <1>6. ASSUME NEW d
        PROVE  Copies(Compacted(s, Keeps), d)
                 = IF d.pos = p /\ d.lvl = l THEN 0 ELSE Copies(s, d)
    <2>1. CASE d.pos = p /\ d.lvl = l
      <3>1. \A i \in Keeps : s[i] # d
        BY <1>1, <1>3, <2>1
      <3> QED  BY <1>1, <2>1, <3>1, CompactedCopies
    <2>2. CASE ~(d.pos = p /\ d.lvl = l)
      <3>1. \A i \in DOMAIN s : s[i] = d => i \in Keeps
        BY <1>3, <2>2
      <3> QED  BY <1>1, <2>2, <3>1, CompactedCopies
    <2> QED  BY <2>1, <2>2
  <1> QED  BY <1>1, <1>4, <1>5, <1>6

LEMMA RemovePositionEntries ==
  ASSUME NEW S \in SUBSET Entry, NEW s \in Seq(S), Ascending(s), NEW p
  PROVE  /\ removePositionEntries(s, p) \in Seq(S)
         /\ Ascending(removePositionEntries(s, p))
         /\ \A d : Copies(removePositionEntries(s, p), d)
                     = IF d.pos = p THEN 0 ELSE Copies(s, d)
  <1> DEFINE Keeps == {i \in DOMAIN s : s[i].pos # p}
  <1>1. Keeps \in SUBSET DOMAIN s /\ removePositionEntries(s, p) = Compacted(s, Keeps)
    BY DEF removePositionEntries
  <1>2. s \in Seq(Entry)
    BY SeqMonotonic
  <1>3. \A i \in DOMAIN s : i \in Keeps <=> s[i].pos # p
    OBVIOUS
  <1> HIDE DEF Keeps
  <1>4. Compacted(s, Keeps) \in Seq(S)
    BY <1>1, CompactedPlaces
  <1>5. Ascending(Compacted(s, Keeps))
    BY <1>1, <1>2, CompactedAscends
  <1>6. ASSUME NEW d
        PROVE  Copies(Compacted(s, Keeps), d) = IF d.pos = p THEN 0 ELSE Copies(s, d)
    <2>1. CASE d.pos = p
      <3>1. \A i \in Keeps : s[i] # d
        BY <1>1, <1>3, <2>1
      <3> QED  BY <1>1, <2>1, <3>1, CompactedCopies
    <2>2. CASE d.pos # p
      <3>1. \A i \in DOMAIN s : s[i] = d => i \in Keeps
        BY <1>3, <2>2
      <3> QED  BY <1>1, <2>2, <3>1, CompactedCopies
    <2> QED  BY <2>1, <2>2
  <1> QED  BY <1>1, <1>4, <1>5, <1>6

LEMMA UnregisterLocked ==
  ASSUME NEW t, SlicesOK(t), NEW p, NEW l
  PROVE  /\ SlicesOK(unregisterLocked(t, p, l))
         /\ \A d : Held(unregisterLocked(t, p, l), d)
                     = IF d.pos = p /\ d.lvl = l THEN 0 ELSE Held(t, d)
  <1> DEFINE a == removeEntry(t.above, p, l)
             b == removeEntry(t.below, p, l)
             u == unregisterLocked(t, p, l)
  <1>1. /\ t.above \in Seq(AboveSlice) /\ t.below \in Seq(BelowSlice)
        /\ Ascending(t.above) /\ Ascending(t.below)
    BY DEF SlicesOK
  <1>2. AboveSlice \in SUBSET Entry /\ BelowSlice \in SUBSET Entry
    BY DEF AboveSlice, BelowSlice
  <1>3. u = [above |-> a, below |-> b]
    BY DEF unregisterLocked
  <1>4. /\ a \in Seq(AboveSlice) /\ Ascending(a)
        /\ \A d : Copies(a, d) = IF d.pos = p /\ d.lvl = l THEN 0 ELSE Copies(t.above, d)
    BY <1>1, <1>2, RemoveEntry
  <1>5. /\ b \in Seq(BelowSlice) /\ Ascending(b)
        /\ \A d : Copies(b, d) = IF d.pos = p /\ d.lvl = l THEN 0 ELSE Copies(t.below, d)
    BY <1>1, <1>2, RemoveEntry
  <1> HIDE DEF a, b, u
  <1>6. SlicesOK(u)
    BY <1>3, <1>4, <1>5 DEF SlicesOK
  <1>7. \A d : Held(u, d) = IF d.pos = p /\ d.lvl = l THEN 0 ELSE Held(t, d)
    BY <1>3, <1>4, <1>5 DEF Held
  <1> QED  BY <1>6, <1>7 DEF u

-----------------------------------------------------------------------------
(* In a slice that ascends the binary search separates the hits.            *)
LEMMA SearchSeparates ==
  ASSUME NEW S \in SUBSET Entry, NEW s \in Seq(S), NEW Hits \in SUBSET DOMAIN s,
         \A i, j \in DOMAIN s : i \in Hits /\ i < j => j \in Hits
  PROVE  LET n == Search(Len(s), Hits)
             front == SubSeq(s, 1, n)
             rest == SubSeq(s, n + 1, Len(s))
         IN  /\ front \in Seq(S) /\ rest \in Seq(S)
             /\ \A e : Copies(front, e) + Copies(rest, e) = Copies(s, e)
             /\ \A i \in DOMAIN front : i \in DOMAIN s \ Hits /\ front[i] = s[i]
             /\ \A i \in DOMAIN rest : \E j \in Hits : rest[i] = s[j]
             /\ Ascending(s) => Ascending(front) /\ Ascending(rest)
  <1> DEFINE n == Search(Len(s), Hits)
             front == SubSeq(s, 1, n)
             rest == SubSeq(s, n + 1, Len(s))
  <1>1. Len(s) \in Nat /\ DOMAIN s = 1..Len(s)
    BY LenProperties
  <1>2. n \in 0..Len(s) /\ (1..n) \cap Hits = {} /\ (n < Len(s) => n + 1 \in Hits)
    BY <1>1, SearchFinds
  <1> HIDE DEF n
  <1>3. /\ front \in Seq(S) /\ DOMAIN front = 1..n
        /\ rest \in Seq(S) /\ DOMAIN rest = 1..(Len(s) - n)
        /\ \A i \in 1..n : i \in DOMAIN s /\ front[i] = s[i]
        /\ \A i \in 1..(Len(s) - n) : n + i \in DOMAIN s /\ rest[i] = s[n + i]
    <2>1. n \in 0..Len(s)
      BY <1>2
    <2> QED  BY <2>1, CutInTwo
  <1>4. \A e : Copies(front, e) + Copies(rest, e) = Copies(s, e)
    <2>1. n \in 0..Len(s)
      BY <1>2
    <2> QED  BY <2>1, CutInTwo
  <1>5. ASSUME Ascending(s) PROVE Ascending(front) /\ Ascending(rest)
    <2>1. s \in Seq(Entry)
      BY SeqMonotonic
    <2> QED  BY <1>2, <1>5, <2>1, CutAscends
  <1> HIDE DEF front, rest
  <1>6. \A i \in DOMAIN front : i \in DOMAIN s \ Hits /\ front[i] = s[i]
    BY <1>2, <1>3
  <1>7. ASSUME NEW i \in DOMAIN rest PROVE \E j \in Hits : rest[i] = s[j]
    <2>1. /\ n + i \in DOMAIN s /\ n + 1 \in DOMAIN s /\ n + 1 \in Hits
          /\ rest[i] = s[n + i] /\ (n + 1 = n + i \/ n + 1 < n + i)
      BY <1>1, <1>2, <1>3
    <2>2. n + i \in Hits
      BY <2>1
    <2> QED  BY <2>1, <2>2
  <1>8. /\ front \in Seq(S) /\ rest \in Seq(S)
        /\ \A e : Copies(front, e) + Copies(rest, e) = Copies(s, e)
        /\ \A i \in DOMAIN front : i \in DOMAIN s \ Hits /\ front[i] = s[i]
        /\ \A i \in DOMAIN rest : \E j \in Hits : rest[i] = s[j]
        /\ Ascending(s) => Ascending(front) /\ Ascending(rest)
    BY <1>3, <1>4, <1>5, <1>6, <1>7
  <1> QED  BY <1>8 DEF front, rest, n

(* OnPrice hands out what fires, in the order of EmittedBefore, and keeps   *)
(* the rest.                                                                *)
LEMMA OnPriceSeparates ==
  ASSUME SlicesOK(pt), NEW price \in Prices, OnPrice(price)
  PROVE  /\ SlicesOK(pt')
         /\ handed' \in Seq(Entry)
         /\ \A e \in Entry :
              /\ Held(pt', e) = IF Fires(e, price) THEN 0 ELSE Held(pt, e)
              /\ Copies(handed', e) = IF Fires(e, price) THEN Held(pt, e) ELSE 0
         /\ \A i, j \in DOMAIN handed' : i < j => ~EmittedBefore(handed'[j], handed'[i])
  <1> DEFINE above == pt.above
             below == pt.below
             High == {i \in DOMAIN above : above[i].price > price}
             NotLow == {i \in DOMAIN below : below[i].price >= price}
             c == Search(Len(above), High)
             b == Search(Len(below), NotLow)
             fired == SubSeq(above, 1, c)
             high == SubSeq(above, c + 1, Len(above))
             low == SubSeq(below, 1, b)
             dropped == SubSeq(below, b + 1, Len(below))
  <1>1. /\ above \in Seq(AboveSlice) /\ Ascending(above)
        /\ below \in Seq(BelowSlice) /\ Ascending(below)
    BY DEF SlicesOK
  <1>2. AboveSlice \in SUBSET Entry /\ BelowSlice \in SUBSET Entry
    BY DEF AboveSlice, BelowSlice
  <1>3. price \in Nat /\ \A e \in Entry : e.price \in Nat
    <2>1. Prices \cup {0} \subseteq Nat
      BY PositionAssumption
    <2>2. \A e \in Entry : e.price \in Prices \cup {0}
      BY DEF Entry
    <2> QED  BY <2>1, <2>2
  <1>4. handed' = fired \o dropped /\ pt' = [above |-> high, below |-> low]
    BY DEF OnPrice
  <1>5. /\ \A i \in DOMAIN above : above[i] \in AboveSlice /\ above[i].price \in Nat
        /\ \A i \in DOMAIN below : below[i] \in BelowSlice /\ below[i].price \in Nat
    <2>1. /\ \A i \in DOMAIN above : above[i] \in AboveSlice
          /\ \A i \in DOMAIN below : below[i] \in BelowSlice
      BY <1>1, LenProperties
    <2> QED  BY <1>2, <1>3, <2>1
  <1>6. \A i, j \in DOMAIN above : i \in High /\ i < j => j \in High
    BY <1>1, <1>3, <1>5 DEF Ascending
  <1>7. \A i, j \in DOMAIN below : i \in NotLow /\ i < j => j \in NotLow
    BY <1>1, <1>3, <1>5 DEF Ascending
  <1>8. High \in SUBSET DOMAIN above /\ NotLow \in SUBSET DOMAIN below
    OBVIOUS
  <1>9. /\ \A i \in High : above[i].price > price
        /\ \A i \in DOMAIN above \ High : above[i].price <= price
        /\ \A i \in NotLow : below[i].price >= price
        /\ \A i \in DOMAIN below \ NotLow : below[i].price < price
    BY <1>3, <1>5
  <1> HIDE DEF above, below, High, NotLow
  <1>10. /\ fired \in Seq(AboveSlice) /\ high \in Seq(AboveSlice)
         /\ Ascending(fired) /\ Ascending(high)
         /\ \A e : Copies(fired, e) + Copies(high, e) = Copies(above, e)
         /\ \A i \in DOMAIN fired : i \in DOMAIN above \ High /\ fired[i] = above[i]
         /\ \A i \in DOMAIN high : \E j \in High : high[i] = above[j]
    BY <1>1, <1>2, <1>6, <1>8, SearchSeparates
  <1>11. /\ low \in Seq(BelowSlice) /\ dropped \in Seq(BelowSlice)
         /\ Ascending(low) /\ Ascending(dropped)
         /\ \A e : Copies(low, e) + Copies(dropped, e) = Copies(below, e)
         /\ \A i \in DOMAIN low : i \in DOMAIN below \ NotLow /\ low[i] = below[i]
         /\ \A i \in DOMAIN dropped : \E j \in NotLow : dropped[i] = below[j]
    BY <1>1, <1>2, <1>7, <1>8, SearchSeparates
  <1> HIDE DEF c, b, fired, high, low, dropped
  <1>12. SlicesOK(pt')
    BY <1>4, <1>10, <1>11 DEF SlicesOK
  <1>13. fired \in Seq(Entry) /\ dropped \in Seq(Entry)
    BY <1>2, <1>10, <1>11, SeqMonotonic
  <1>14. handed' \in Seq(Entry)
    BY <1>4, <1>13, ConcatProperties
  <1>15. /\ \A i \in DOMAIN fired : fired[i] \in AboveSlice /\ fired[i].price <= price
         /\ \A i \in DOMAIN high : high[i] \in AboveSlice /\ high[i].price > price
         /\ \A i \in DOMAIN low : low[i] \in BelowSlice /\ low[i].price < price
         /\ \A i \in DOMAIN dropped : dropped[i] \in BelowSlice /\ dropped[i].price >= price
    <2>1. \A i \in High : i \in DOMAIN above
      BY <1>8
    <2>2. \A i \in NotLow : i \in DOMAIN below
      BY <1>8
    <2> QED  BY <1>5, <1>9, <1>10, <1>11, <2>1, <2>2
  <1>16. ASSUME NEW e \in Entry
         PROVE  /\ Held(pt', e) = IF Fires(e, price) THEN 0 ELSE Held(pt, e)
                /\ Copies(handed', e) = IF Fires(e, price) THEN Held(pt, e) ELSE 0
    <2>1. /\ Held(pt', e) = Copies(high, e) + Copies(low, e)
          /\ Held(pt, e) = Copies(above, e) + Copies(below, e)
      BY <1>4 DEF Held, above, below
    <2>2. Copies(handed', e) = Copies(fired, e) + Copies(dropped, e)
      BY <1>4, <1>13, CopiesOfConcat
    <2>3. /\ Copies(fired, e) \in Nat /\ Copies(high, e) \in Nat
          /\ Copies(low, e) \in Nat /\ Copies(dropped, e) \in Nat
      BY <1>10, <1>11, CopiesType
    <2>4. e.above \in BOOLEAN /\ e.price \in Nat
      BY <1>3 DEF Entry
    <2>5. CASE e.above
      <3>1. Copies(low, e) = 0 /\ Copies(dropped, e) = 0
        <4>1. /\ \A i \in DOMAIN low : low[i] # e
              /\ \A i \in DOMAIN dropped : dropped[i] # e
          BY <1>15, <2>5 DEF BelowSlice, AboveSlice
        <4> QED  BY <1>11, <4>1, CopiesType
      <3>2. CASE e.price <= price
        <4>1. \A i \in DOMAIN high : high[i] # e
          BY <1>3, <1>15, <2>4, <3>2
        <4>2. Copies(high, e) = 0
          BY <1>10, <4>1, CopiesType
        <4>3. Fires(e, price)
          BY <2>5, <3>2 DEF Fires
        <4> QED  BY <1>10, <1>11, <2>1, <2>2, <2>3, <3>1, <4>2, <4>3
      <3>3. CASE ~(e.price <= price)
        <4>1. \A i \in DOMAIN fired : fired[i] # e
          BY <1>15, <3>3
        <4>2. Copies(fired, e) = 0
          BY <1>10, <4>1, CopiesType
        <4>3. ~Fires(e, price)
          BY <2>5, <3>3 DEF Fires
        <4> QED  BY <1>10, <1>11, <2>1, <2>2, <2>3, <3>1, <4>2, <4>3
      <3> QED  BY <3>2, <3>3
    <2>6. CASE ~e.above
      <3>1. Copies(fired, e) = 0 /\ Copies(high, e) = 0
        <4>1. /\ \A i \in DOMAIN fired : fired[i] # e
              /\ \A i \in DOMAIN high : high[i] # e
          BY <1>15, <2>6 DEF AboveSlice
        <4> QED  BY <1>10, <4>1, CopiesType
      <3>2. CASE e.price >= price
        <4>1. \A i \in DOMAIN low : low[i] # e
          BY <1>3, <1>15, <2>4, <3>2
        <4>2. Copies(low, e) = 0
          BY <1>11, <4>1, CopiesType
        <4>3. Fires(e, price)
          BY <2>6, <3>2 DEF Fires
        <4> QED  BY <1>10, <1>11, <2>1, <2>2, <2>3, <3>1, <4>2, <4>3
      <3>3. CASE ~(e.price >= price)
        <4>1. \A i \in DOMAIN dropped : dropped[i] # e
          BY <1>15, <3>3
        <4>2. Copies(dropped, e) = 0
          BY <1>11, <4>1, CopiesType
        <4>3. ~Fires(e, price)
          BY <2>6, <3>3 DEF Fires
        <4> QED  BY <1>10, <1>11, <2>1, <2>2, <2>3, <3>1, <4>2, <4>3
      <3> QED  BY <3>2, <3>3
    <2> QED  BY <2>4, <2>5, <2>6
  <1>17. ASSUME NEW i \in DOMAIN handed', NEW j \in DOMAIN handed', i < j
         PROVE  ~EmittedBefore(handed'[j], handed'[i])
    <2> DEFINE h == handed'
    <2>1. /\ DOMAIN h = 1..(Len(fired) + Len(dropped))
          /\ Len(fired) \in Nat /\ Len(dropped) \in Nat
          /\ DOMAIN fired = 1..Len(fired) /\ DOMAIN dropped = 1..Len(dropped)
          /\ \A k \in 1..(Len(fired) + Len(dropped)) :
               h[k] = IF k <= Len(fired) THEN fired[k] ELSE dropped[k - Len(fired)]
      <3>1. /\ h \in Seq(Entry) /\ Len(h) = Len(fired) + Len(dropped)
            /\ \A k \in 1..(Len(fired) + Len(dropped)) :
                 h[k] = IF k <= Len(fired) THEN fired[k] ELSE dropped[k - Len(fired)]
        BY <1>4, <1>13, ConcatProperties
      <3>2. /\ DOMAIN h = 1..Len(h) /\ Len(fired) \in Nat /\ Len(dropped) \in Nat
            /\ DOMAIN fired = 1..Len(fired) /\ DOMAIN dropped = 1..Len(dropped)
        BY <1>13, <1>14, LenProperties
      <3> QED  BY <3>1, <3>2
    <2> HIDE DEF h
    <2>2. i \in 1..(Len(fired) + Len(dropped)) /\ j \in 1..(Len(fired) + Len(dropped))
      BY <2>1 DEF h
    <2>3. \A e \in AboveSlice : e.above /\ e \in Entry
      BY DEF AboveSlice
    <2>4. \A e \in BelowSlice : ~e.above /\ e \in Entry
      BY DEF AboveSlice, BelowSlice
    <2>5. CASE j <= Len(fired)
      <3>1. /\ i \in DOMAIN fired /\ j \in DOMAIN fired
            /\ h[i] = fired[i] /\ h[j] = fired[j]
        BY <1>17, <2>1, <2>2, <2>5
      <3>2. fired[i] \in AboveSlice /\ fired[j] \in AboveSlice
        BY <1>15, <3>1
      <3>3. fired[i].price <= fired[j].price
        BY <1>10, <1>17, <3>1 DEF Ascending
      <3>4. fired[i].price \in Nat /\ fired[j].price \in Nat
        BY <1>3, <2>3, <3>2
      <3> QED  BY <2>3, <3>1, <3>2, <3>3, <3>4 DEF EmittedBefore, h
    <2>6. CASE i <= Len(fired) /\ ~(j <= Len(fired))
      <3>1. /\ i \in DOMAIN fired /\ j - Len(fired) \in DOMAIN dropped
            /\ h[i] = fired[i] /\ h[j] = dropped[j - Len(fired)]
        BY <2>1, <2>2, <2>6
      <3>2. h[i].above /\ ~h[j].above
        BY <1>15, <2>3, <2>4, <3>1
      <3> QED  BY <3>2 DEF EmittedBefore, h
    <2>7. CASE ~(i <= Len(fired))
      <3>1. /\ i - Len(fired) \in DOMAIN dropped /\ j - Len(fired) \in DOMAIN dropped
            /\ i - Len(fired) < j - Len(fired)
            /\ h[i] = dropped[i - Len(fired)] /\ h[j] = dropped[j - Len(fired)]
        BY <1>17, <2>1, <2>2, <2>7
      <3>2. h[i] \in BelowSlice /\ h[j] \in BelowSlice
        BY <1>15, <3>1
      <3>3. h[i].price <= h[j].price
        BY <1>11, <3>1 DEF Ascending
      <3>4. h[i].price \in Nat /\ h[j].price \in Nat
        BY <1>3, <2>4, <3>2
      <3> QED  BY <2>4, <3>2, <3>3, <3>4 DEF EmittedBefore, h
    <2> QED  BY <1>17, <2>1, <2>2, <2>5, <2>6, <2>7
  <1> QED  BY <1>12, <1>14, <1>16, <1>17

-----------------------------------------------------------------------------
IInv == SlicesOK(pt) /\ handed \in Seq(Entry)

LEMMA NewEntryType ==
  ASSUME NEW p \in Positions, NEW l \in Slots, NEW type, NEW dir, NEW price \in Prices
  PROVE  LET e == NewEntry(p, l, type, dir, price)
         IN  e \in Entry /\ e.pos = p /\ e.lvl = l
  BY DEF NewEntry, Entry, shouldTriggerAbove

LEMMA UnregisterPositionKeeps ==
  ASSUME IInv, NEW p \in Positions, UnregisterPosition(p)
  PROVE  /\ SlicesOK(pt')
         /\ \A d : Held(pt', d) = IF d.pos = p THEN 0 ELSE Held(pt, d)
  <1> DEFINE a == removePositionEntries(pt.above, p)
             b == removePositionEntries(pt.below, p)
  <1>1. /\ pt.above \in Seq(AboveSlice) /\ pt.below \in Seq(BelowSlice)
        /\ Ascending(pt.above) /\ Ascending(pt.below)
    BY DEF IInv, SlicesOK
  <1>2. AboveSlice \in SUBSET Entry /\ BelowSlice \in SUBSET Entry
    BY DEF AboveSlice, BelowSlice
  <1>3. pt' = [above |-> a, below |-> b]
    BY DEF UnregisterPosition
  <1>4. /\ a \in Seq(AboveSlice) /\ Ascending(a)
        /\ \A d : Copies(a, d) = IF d.pos = p THEN 0 ELSE Copies(pt.above, d)
    BY <1>1, <1>2, RemovePositionEntries
  <1>5. /\ b \in Seq(BelowSlice) /\ Ascending(b)
        /\ \A d : Copies(b, d) = IF d.pos = p THEN 0 ELSE Copies(pt.below, d)
    BY <1>1, <1>2, RemovePositionEntries
  <1> HIDE DEF a, b
  <1>6. SlicesOK(pt')
    BY <1>3, <1>4, <1>5 DEF SlicesOK
  <1>7. \A d : Held(pt', d) = IF d.pos = p THEN 0 ELSE Held(pt, d)
    BY <1>3, <1>4, <1>5 DEF Held
  <1> QED  BY <1>6, <1>7

LEMMA EngineStarts == Init => IInv
  <1> SUFFICES ASSUME Init PROVE IInv
    OBVIOUS
  <1>1. <<>> \in Seq(AboveSlice) /\ <<>> \in Seq(BelowSlice) /\ <<>> \in Seq(Entry)
    BY EmptySeq
  <1>2. Ascending(<<>>)
    BY DEF Ascending
  <1> QED  BY <1>1, <1>2 DEF Init, IInv, SlicesOK

LEMMA EngineSteps == IInv /\ [Next]_<<pt, handed>> => IInv'
  <1> SUFFICES ASSUME IInv, [Next]_<<pt, handed>> PROVE IInv'
    OBVIOUS
  <1>1. <<>> \in Seq(Entry)
    BY EmptySeq
  <1>2. ASSUME NEW p \in Positions, NEW l \in Slots, NEW type \in LevelType,
               NEW dir \in Direction, NEW price \in Prices,
               Register(p, l, type, dir, price)
        PROVE  IInv'
    <2>1. NewEntry(p, l, type, dir, price) \in Entry
      BY NewEntryType
    <2>2. SlicesOK(registerLocked(pt, NewEntry(p, l, type, dir, price)))
      BY <2>1, RegisterLocked DEF IInv
    <2> QED  BY <1>1, <1>2, <2>2 DEF Register, IInv
  <1>3. ASSUME NEW p \in Positions, NEW l \in Slots, NEW type \in LevelType,
               NEW dir \in Direction, NEW price \in Prices,
               UpdateTriggerPrice(p, l, type, dir, price)
        PROVE  IInv'
    <2> DEFINE t == unregisterLocked(pt, p, l)
    <2>1. NewEntry(p, l, type, dir, price) \in Entry
      BY NewEntryType
    <2>2. SlicesOK(t)
      BY UnregisterLocked DEF IInv
    <2> HIDE DEF t
    <2>3. SlicesOK(registerLocked(t, NewEntry(p, l, type, dir, price)))
      BY <2>1, <2>2, RegisterLocked
    <2>4. pt' = registerLocked(t, NewEntry(p, l, type, dir, price)) /\ handed' = <<>>
      BY <1>3 DEF UpdateTriggerPrice, t
    <2> QED  BY <1>1, <2>3, <2>4 DEF IInv
  <1>4. ASSUME NEW p \in Positions, NEW l \in Slots, Unregister(p, l)
        PROVE  IInv'
    <2>1. SlicesOK(unregisterLocked(pt, p, l))
      BY UnregisterLocked DEF IInv
    <2> QED  BY <1>1, <1>4, <2>1 DEF Unregister, IInv
  <1>5. ASSUME NEW p \in Positions, UnregisterPosition(p)
        PROVE  IInv'
    <2>1. SlicesOK(pt')
      BY <1>5, UnregisterPositionKeeps
    <2>2. handed' = <<>>
      BY <1>5 DEF UnregisterPosition
    <2> QED  BY <1>1, <2>1, <2>2 DEF IInv
  <1>6. ASSUME NEW price \in Prices, OnPrice(price)
        PROVE  IInv'
    BY <1>6, OnPriceSeparates DEF IInv
  <1>7. CASE UNCHANGED <<pt, handed>>
    BY <1>7 DEF IInv
  <1> QED  BY <1>2, <1>3, <1>4, <1>5, <1>6, <1>7 DEF Next

(* The slices hold entries of their own side only, and what OnPrice returns *)
(* is a sequence of entries.                                                *)
THEOREM TypeCorrect == Spec => []TypeOK
  <1>1. IInv => TypeOK
    BY DEF IInv, SlicesOK, TypeOK
  <1> QED  BY <1>1, EngineStarts, EngineSteps, PTL DEF Spec

(* insertSorted, removeEntry, removePositionEntries and OnPrice leave both  *)
(* slices ascending by price, whatever they held and in whatever order the  *)
(* calls come.                                                              *)
THEOREM SlicesStaySorted == Spec => []Sorted
  <1>1. IInv => Sorted
    BY DEF IInv, SlicesOK, Sorted
  <1> QED  BY <1>1, EngineStarts, EngineSteps, PTL DEF Spec

-----------------------------------------------------------------------------
(* The refinement, operation by operation.                                  *)
Engine == [e \in Entry |-> Held(pt, e)]

LEMMA SameNames ==
  /\ Bag!Entry = Entry /\ Bag!Nothing = Nothing
  /\ \A eng, e : Bag!Registered(eng, e) = Registered(eng, e)
  /\ \A eng, p, l : Bag!Unregistered(eng, p, l) = Unregistered(eng, p, l)
  /\ \A eng, price : /\ Bag!Fired(eng, price) = Fired(eng, price)
                     /\ Bag!Kept(eng, price) = Kept(eng, price)
  /\ \A d, e : Bag!EmittedBefore(d, e) <=> EmittedBefore(d, e)
  <1>1. Bag!Entry = Entry
    BY DEF Bag!Entry, Entry, Bag!Slots, Slots
  <1> QED  BY <1>1 DEF Bag!Nothing, Nothing, Bag!Registered, Registered, Bag!Unregistered,
              Unregistered, Bag!Fired, Fired, Bag!Kept, Kept, Bag!Fires, Fires,
              Bag!EmittedBefore, EmittedBefore

LEMMA StartsAsABag == Init => Bag!Init
  <1> SUFFICES ASSUME Init PROVE Bag!Init
    OBVIOUS
  <1>1. \A e : Held(pt, e) = 0
    <2>1. pt.above = <<>> /\ pt.below = <<>> /\ <<>> \in Seq(Entry) /\ DOMAIN <<>> = {}
      BY EmptySeq DEF Init
    <2>2. \A e : Copies(<<>>, e) = 0
      BY <2>1, CopiesType
    <2> QED  BY <2>1, <2>2 DEF Held
  <1>2. Engine = Nothing
    BY <1>1 DEF Engine, Nothing
  <1> QED  BY <1>2, SameNames DEF Init, Bag!Init, Engine, Held

LEMMA RegisterIsABags ==
  ASSUME IInv, NEW t, SlicesOK(t), NEW e \in Entry, NEW eng,
         eng = [d \in Entry |-> Held(t, d)], pt' = registerLocked(t, e)
  PROVE  Engine' = Bag!Registered(eng, e)
  <1>1. \A d \in Entry : Held(pt', d) = Held(t, d) + (IF d = e THEN 1 ELSE 0)
    BY RegisterLocked
  <1>2. \A d \in Entry : Held(t, d) \in Nat
    BY HeldType
  <1>3. ASSUME NEW d \in Entry
        PROVE  Held(pt', d) = [eng EXCEPT ![e] = @ + 1][d]
    BY <1>1, <1>2
  <1>4. Engine' = [d \in Entry |-> Held(pt', d)]
    BY DEF Engine
  <1>5. Engine' = [eng EXCEPT ![e] = @ + 1]
    BY <1>3, <1>4
  <1> QED  BY <1>5, SameNames DEF Registered

LEMMA UnregisterIsABags ==
  ASSUME IInv, NEW p, NEW l
  PROVE  [d \in Entry |-> Held(unregisterLocked(pt, p, l), d)]
           = Bag!Unregistered(Engine, p, l)
  <1>1. \A d \in Entry : Held(unregisterLocked(pt, p, l), d)
                           = IF d.pos = p /\ d.lvl = l THEN 0 ELSE Engine[d]
    BY UnregisterLocked DEF IInv, Engine
  <1> QED  BY <1>1, SameNames DEF Unregistered

LEMMA StepsAsABag == IInv /\ [Next]_<<pt, handed>> => Bag!Next \/ UNCHANGED <<Engine, handed>>
  <1> SUFFICES ASSUME IInv, [Next]_<<pt, handed>>
               PROVE  Bag!Next \/ UNCHANGED <<Engine, handed>>
    OBVIOUS
  <1>1. ASSUME NEW p \in Positions, NEW l \in Slots, NEW type \in LevelType,
               NEW dir \in Direction, NEW price \in Prices,
               Register(p, l, type, dir, price)
        PROVE  Bag!Next
    <2> DEFINE e == NewEntry(p, l, type, dir, price)
    <2>1. e \in Entry
      BY NewEntryType
    <2> HIDE DEF e
    <2>2. pt' = registerLocked(pt, e) /\ handed' = <<>>
      BY <1>1 DEF Register, e
    <2>3. Engine' = Bag!Registered(Engine, e)
      BY <2>1, <2>2, RegisterIsABags DEF IInv, Engine
    <2>4. Bag!Register(e)
      BY <2>2, <2>3 DEF Bag!Register, Engine, Held
    <2> QED  BY <2>1, <2>4, SameNames DEF Bag!Next
  <1>2. ASSUME NEW p \in Positions, NEW l \in Slots, NEW type \in LevelType,
               NEW dir \in Direction, NEW price \in Prices,
               UpdateTriggerPrice(p, l, type, dir, price)
        PROVE  Bag!Next
    <2> DEFINE e == NewEntry(p, l, type, dir, price)
               t == unregisterLocked(pt, p, l)
               eng == [d \in Entry |-> Held(t, d)]
    <2>1. e \in Entry /\ e.pos = p /\ e.lvl = l
      BY NewEntryType
    <2>2. pt' = registerLocked(t, e) /\ handed' = <<>>
      BY <1>2 DEF UpdateTriggerPrice
    <2>3. SlicesOK(t)
      BY UnregisterLocked DEF IInv
    <2>4. eng = Bag!Unregistered(Engine, p, l)
      BY UnregisterIsABags
    <2> HIDE DEF e, t
    <2>5. Engine' = Bag!Registered(eng, e)
      BY <2>1, <2>2, <2>3, RegisterIsABags
    <2> HIDE DEF eng
    <2>6. Bag!UpdateTriggerPrice(e)
      BY <2>1, <2>2, <2>4, <2>5 DEF Bag!UpdateTriggerPrice, Engine, Held
    <2> QED  BY <2>1, <2>6, SameNames DEF Bag!Next
  <1>3. ASSUME NEW p \in Positions, NEW l \in Slots, Unregister(p, l)
        PROVE  Bag!Next
    <2>1. pt' = unregisterLocked(pt, p, l) /\ handed' = <<>>
      BY <1>3 DEF Unregister
    <2>2. Engine' = Bag!Unregistered(Engine, p, l)
      BY <2>1, UnregisterIsABags DEF Engine
    <2>3. Bag!Unregister(p, l)
      BY <2>1, <2>2 DEF Bag!Unregister, Engine, Held
    <2> QED  BY <2>3 DEF Bag!Next, Bag!Slots, Slots
  <1>4. ASSUME NEW p \in Positions, UnregisterPosition(p)
        PROVE  Bag!Next
    <2>1. \A d \in Entry : Held(pt', d) = IF d.pos = p THEN 0 ELSE Engine[d]
      BY <1>4, UnregisterPositionKeeps DEF Engine
    <2>2. Engine' = [d \in Entry |-> IF d.pos = p THEN 0 ELSE Engine[d]]
      BY <2>1 DEF Engine
    <2>3. handed' = <<>>
      BY <1>4 DEF UnregisterPosition
    <2>4. Bag!UnregisterPosition(p)
      BY <2>2, <2>3, SameNames DEF Bag!UnregisterPosition, Engine, Held
    <2> QED  BY <2>4 DEF Bag!Next
  <1>5. ASSUME NEW price \in Prices, OnPrice(price)
        PROVE  Bag!Next
    <2>1. /\ \A e \in Entry :
               /\ Held(pt', e) = IF Fires(e, price) THEN 0 ELSE Engine[e]
               /\ Copies(handed', e) = IF Fires(e, price) THEN Engine[e] ELSE 0
          /\ \A i, j \in DOMAIN handed' : i < j => ~EmittedBefore(handed'[j], handed'[i])
      BY <1>5, OnPriceSeparates DEF IInv, Engine
    <2>2. Engine' = Bag!Kept(Engine, price)
      BY <2>1, SameNames DEF Kept, Engine
    <2>3. [e \in Entry |-> Copies(handed', e)] = Bag!Fired(Engine, price)
      BY <2>1, SameNames DEF Fired
    <2>4. Bag!CountOf(handed') = [e \in Entry |-> Copies(handed', e)]
      <3>1. \A S : Bag!Cardinality(S) = Cardinality(S)
        BY Zenon DEF Bag!Cardinality, Cardinality
      <3> QED  BY <3>1, SameNames DEF Bag!CountOf, Copies
    <2>5. Bag!InOrder(handed')
      BY <2>1, SameNames DEF Bag!InOrder
    <2>6. Bag!OnPrice(price)
      BY <2>2, <2>3, <2>4, <2>5 DEF Bag!OnPrice, Engine, Held
    <2> QED  BY <2>6 DEF Bag!Next
  <1>6. CASE UNCHANGED <<pt, handed>>
    BY <1>6 DEF Engine, Held
  <1> QED  BY <1>1, <1>2, <1>3, <1>4, <1>5, <1>6 DEF Next

(* The slices of trigger.go hand out exactly the entries that fire, in the  *)
(* order the manager sends them, and keep exactly the others: whatever is   *)
(* registered how many times, they are the bag that PositionManager uses.   *)
THEOREM EngineIsABag == Spec => ImplementsBag
  <1>1. Init => Bag!Init
    BY StartsAsABag
  <1>2. IInv /\ [Next]_<<pt, handed>>
          => [Bag!Next]_<<[e \in Entry |-> Copies(pt.above, e) + Copies(pt.below, e)], handed>>
    BY StepsAsABag DEF Engine, Held
  <1> QED  BY <1>1, <1>2, EngineStarts, EngineSteps, PTL DEF Spec, ImplementsBag, Bag!Spec
=============================================================================
