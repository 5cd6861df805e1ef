---------------------- MODULE AccumulatingRouter_proofs ----------------------
(***************************************************************************)
(* Proofs about the accumulating router, for every array, every way to cut *)
(* it in partitions of at least two rows and columns, and every valid      *)
(* network of flow directions.                                             *)
(*                                                                         *)
(* The first half of the module is about the algorithms: positions in the  *)
(* partitioned array, the nine parts the loops visit, the lists of border  *)
(* cells and the counts made from them are related to the cells upstream   *)
(* and downstream in the undivided array.  The second half is about the    *)
(* state: the inductive invariant Inv, one lemma per action, and on top of *)
(* it what readers await (Awaits), what the end of a run rests on (EndInv) *)
(* and what was gathered (Sums).                                           *)
(*                                                                         *)
(* Recursive functions are reasoned about with the smallest index, or one  *)
(* of the smallest sets, at which a claim would not hold.                  *)
(***************************************************************************)
EXTENDS AccumulatingRouter, FiniteSetTheorems, SequenceTheorems, WellFoundedInduction, TLAPS

-----------------------------------------------------------------------------
(* A set of natural numbers has a smallest element.  Induction over the    *)
(* natural numbers is done by looking at the smallest counterexample.      *)
LEMMA SmallestElement ==
    ASSUME NEW S, S \subseteq Nat, S # {}
    PROVE  \E n \in S : \A m \in S : n <= m
<1> DEFINE R == OpToRel(<, Nat)
<1>1. IsWellFoundedOn(R, Nat)
  BY NatLessThanWellFounded
<1>2. \A m, n \in Nat : m < n => <<m, n>> \in R
  BY DEF OpToRel
<1> HIDE DEF R
<1>3. PICK n \in S : \A m \in S : ~(<<m, n>> \in R)
  BY <1>1, WFMin
<1>4. ASSUME NEW m \in S PROVE n <= m
  <2>1. m \in Nat /\ n \in Nat
    OBVIOUS
  <2>2. ~(m < n)
    BY <1>2, <1>3, <2>1
  <2> QED BY <2>1, <2>2
<1> QED BY <1>4

-----------------------------------------------------------------------------
(* Sequences that list every element of a set once, and how often a        *)
(* sequence contains an element.                                           *)
Listing(s, S) ==
    /\ s \in Seq(S)
    /\ \A i, j \in DOMAIN s : s[i] = s[j] => i = j
    /\ \A x \in S : \E i \in DOMAIN s : s[i] = x

(* How often a sequence contains an element.                               *)
Count(s, x) == Cardinality({k \in DOMAIN s : s[k] = x})

(* The sequence r is s without its element at m.                           *)
IsWithout(r, s, m) ==
    /\ Len(r) = Len(s) - 1
    /\ \A k \in 1 .. Len(s) - 1 : r[k] = IF k < m THEN s[k] ELSE s[k + 1]

(* RemoveFirst takes out one occurrence of an element and keeps the others *)
(* in their order.                                                         *)
LEMMA RemoveFirstFacts ==
    ASSUME NEW S, NEW s \in Seq(S), NEW x, \E k \in DOMAIN s : s[k] = x
    PROVE  /\ RemoveFirst(s, x) \in Seq(S)
           /\ \E m \in 1 .. Len(s) : s[m] = x /\ IsWithout(RemoveFirst(s, x), s, m)
<1> DEFINE I == {i \in 1 .. Len(s) : s[i] = x}
           m == Min(I)
           n == Len(s)
           left == SubSeq(s, 1, m - 1)
           right == SubSeq(s, m + 1, n)
<1>1. I # {} /\ I \subseteq Nat
  OBVIOUS
<1>2. m \in I
  <2> HIDE DEF I
  <2> QED BY <1>1, SmallestElement DEF Min
<1>3. RemoveFirst(s, x) = left \o right
  <2>1. RemoveFirst(s, x) = RemoveAt(s, SelectInSeq(s, LAMBDA v : v = x))
    BY DEF RemoveFirst
  <2>2. SelectInSeq(s, LAMBDA v : v = x) = m
    BY <1>1 DEF SelectInSeq
  <2> QED BY <2>1, <2>2 DEF RemoveAt
<1>4. m \in 1 .. n /\ s[m] = x /\ n \in Nat
  BY <1>2
<1> HIDE DEF m
<1>5. \A i \in 1 .. n : s[i] \in S
  OBVIOUS
<1>6. left \in Seq(S) /\ Len(left) = m - 1 /\ \A i \in 1 .. m - 1 : left[i] = s[i]
  <2>1. \A i \in 1 .. m - 1 : s[i] \in S
    BY <1>4, <1>5
  <2>2. m - 1 \in Int
    BY <1>4
  <2> QED BY <1>4, <2>1, <2>2, SubSeqProperties
<1>7. right \in Seq(S) /\ Len(right) = n - m /\ \A i \in 1 .. n - m : right[i] = s[m + i]
  <2>1. \A i \in m + 1 .. n : s[i] \in S
    BY <1>4, <1>5
  <2>2. m + 1 \in Int /\ n \in Int
    BY <1>4
  <2>3. /\ right \in Seq(S)
        /\ Len(right) = IF m + 1 <= n THEN n - (m + 1) + 1 ELSE 0
        /\ \A i \in 1 .. n - (m + 1) + 1 : right[i] = s[(m + 1) + i - 1]
    BY <2>1, <2>2, SubSeqProperties
  <2> HIDE DEF right, n
  <2> QED BY <1>4, <2>3
<1> HIDE DEF left, right, I
<1>8. /\ left \o right \in Seq(S)
      /\ Len(left \o right) = Len(left) + Len(right)
      /\ \A i \in 1 .. Len(left) + Len(right) : (left \o right)[i] =
                     IF i <= Len(left) THEN left[i] ELSE right[i - Len(left)]
  BY <1>6, <1>7, ConcatProperties
<1>9. IsWithout(left \o right, s, m)
  <2>1. Len(left \o right) = n - 1
    BY <1>4, <1>6, <1>7, <1>8
  <2>2. ASSUME NEW k \in 1 .. n - 1
        PROVE  (left \o right)[k] = IF k < m THEN s[k] ELSE s[k + 1]
    <3>1. (left \o right)[k] = IF k <= m - 1 THEN left[k] ELSE right[k - (m - 1)]
      BY <1>4, <1>6, <1>7, <1>8
    <3>2. CASE k < m
      BY <1>4, <1>6, <3>1, <3>2
    <3>3. CASE ~(k < m)
      <4> DEFINE i == k - (m - 1)
      <4>1. i \in 1 .. n - m /\ m + i = k + 1 /\ ~(k <= m - 1)
        BY <1>4, <3>3
      <4> HIDE DEF i
      <4>2. right[i] = s[k + 1]
        BY <1>7, <4>1
      <4> QED BY <3>1, <3>3, <4>1, <4>2 DEF i
    <3> QED BY <3>2, <3>3
  <2> QED BY <2>1, <2>2 DEF IsWithout
<1> QED BY <1>3, <1>4, <1>8, <1>9

(* Sequences with the same domain have the same length.                    *)
LEMMA SameLength ==
    ASSUME NEW m \in Nat, NEW n \in Nat, 1 .. m = 1 .. n
    PROVE  m = n
<1>1. m # 0 => m \in 1 .. n
  BY m \in 1 .. m \/ m = 0
<1>2. n # 0 => n \in 1 .. m
  BY n \in 1 .. n \/ n = 0
<1> QED BY <1>1, <1>2

(* A listing of a set is as long as the set is large.                      *)
LEMMA ListingFacts ==
    ASSUME NEW S, NEW s, Listing(s, S)
    PROVE  /\ s \in Seq(S) /\ Len(s) \in Nat /\ DOMAIN s = 1 .. Len(s)
           /\ IsFiniteSet(S) /\ Len(s) = Cardinality(S)
           /\ s = <<>> <=> S = {}
<1>1. s \in Seq(S) /\ Len(s) \in Nat /\ DOMAIN s = 1 .. Len(s) /\ s \in [1 .. Len(s) -> S]
  BY DEF Listing
<1>2. s \in Bijection(1 .. Len(s), S)
  BY <1>1 DEF Listing, Bijection, Injection, Surjection, IsInjective
<1>3. ExistsBijection(1 .. Len(s), S)
  BY <1>2 DEF ExistsBijection
<1>4. Len(s) = Cardinality(S) /\ IsFiniteSet(S)
  BY <1>1, <1>3, FS_CountingElements, FS_NatBijection
<1>5. s = <<>> <=> S = {}
  BY <1>1 DEF Listing
<1> QED BY <1>1, <1>4, <1>5

(* SetToSeq lists a finite set.                                            *)
LEMMA ListingOfSet ==
    ASSUME NEW S, IsFiniteSet(S)
    PROVE  Listing(SetToSeq(S), S)
<1> DEFINE n == Cardinality(S)
           s == SetToSeq(S)
<1>1. n \in Nat /\ ExistsBijection(1 .. n, S)
  BY FS_CardinalityType
<1>2. \E f \in [1 .. n -> S] : IsInjective(f)
  BY <1>1 DEF ExistsBijection, Bijection, Injection
<1>3. s \in [1 .. n -> S] /\ IsInjective(s)
  BY <1>2, Zenon DEF SetToSeq
<1>4. Cardinality(1 .. n) = n
  BY <1>1, FS_Interval
<1>5. s \in Injection(1 .. n, S)
  BY <1>3 DEF Injection
<1> HIDE DEF s
<1>6. s \in Surjection(1 .. n, S)
  BY <1>4, <1>5, FS_Injection
<1>7. s \in Seq(S) /\ DOMAIN s = 1 .. n
  BY <1>1, <1>3, SeqDef
<1>8. \A x \in S : \E i \in DOMAIN s : s[i] = x
  BY <1>6, <1>7 DEF Surjection
<1> QED BY <1>3, <1>7, <1>8 DEF Listing, IsInjective, s

(* Taking the head off a listing takes its element off the set.            *)
LEMMA ListingTail ==
    ASSUME NEW S, NEW s, Listing(s, S), s # <<>>
    PROVE  Head(s) \in S /\ Listing(Tail(s), S \ {Head(s)})
<1>1. /\ s \in Seq(S) /\ Len(s) \in Nat \ {0} /\ DOMAIN s = 1 .. Len(s)
      /\ \A i, j \in 1 .. Len(s) : s[i] = s[j] => i = j
      /\ \A x \in S : \E i \in 1 .. Len(s) : s[i] = x
  BY DEF Listing
<1>2. /\ Tail(s) \in Seq(S) /\ Len(Tail(s)) = Len(s) - 1
      /\ \A i \in 1 .. Len(s) - 1 : Tail(s)[i] = s[i + 1]
      /\ Head(s) = s[1] /\ s[1] \in S
  BY <1>1
<1> DEFINE t == Tail(s)
<1> HIDE DEF t
<1>3. t \in Seq(S) /\ DOMAIN t = 1 .. Len(s) - 1 /\ \A i \in 1 .. Len(s) - 1 : t[i] = s[i + 1]
  BY <1>2 DEF t
<1>4. \A i, j \in DOMAIN t : t[i] = t[j] => i = j
  <2> SUFFICES ASSUME NEW i \in DOMAIN t, NEW j \in DOMAIN t, t[i] = t[j] PROVE i = j
    OBVIOUS
  <2>1. i + 1 \in 1 .. Len(s) /\ j + 1 \in 1 .. Len(s)
    BY <1>1, <1>3
  <2>2. t[i] = s[i + 1] /\ t[j] = s[j + 1]
    BY <1>3
  <2>3. i + 1 = j + 1
    BY <1>1, <2>1, <2>2
  <2> QED BY <1>1, <1>3, <2>3
<1>5. \A i \in DOMAIN t : t[i] \in S \ {s[1]}
  <2> SUFFICES ASSUME NEW i \in DOMAIN t PROVE t[i] \in S \ {s[1]}
    OBVIOUS
  <2>1. i + 1 \in 1 .. Len(s) /\ 1 \in 1 .. Len(s) /\ i + 1 # 1 /\ t[i] = s[i + 1]
    BY <1>1, <1>3
  <2>2. s[i + 1] # s[1] /\ s[i + 1] \in S
    BY <1>1, <2>1
  <2> QED BY <2>1, <2>2
<1>6. \A x \in S \ {s[1]} : \E i \in DOMAIN t : t[i] = x
  <2> SUFFICES ASSUME NEW x \in S \ {s[1]} PROVE \E i \in DOMAIN t : t[i] = x
    OBVIOUS
  <2>1. PICK i \in 1 .. Len(s) : s[i] = x
    BY <1>1
  <2> DEFINE k == i - 1
  <2>2. i # 1
    BY <2>1
  <2>3. k \in DOMAIN t /\ k + 1 = i
    BY <1>1, <1>3, <2>2
  <2> HIDE DEF k
  <2>4. t[k] = x
    BY <1>3, <2>1, <2>3
  <2> QED BY <2>3, <2>4
<1>7. t \in Seq(S \ {s[1]})
  <2>1. Len(s) - 1 \in Nat
    BY <1>1
  <2>2. t \in [1 .. Len(s) - 1 -> S \ {s[1]}]
    BY <1>3, <1>5
  <2> QED BY <2>1, <2>2, SeqDef
<1> QED BY <1>2, <1>4, <1>5, <1>6, <1>7 DEF Listing, t

(* Appending an element to a listing adds it to the set.                   *)
LEMMA ListingAppend ==
    ASSUME NEW S, NEW s, Listing(s, S), NEW x, x \notin S
    PROVE  Listing(Append(s, x), S \cup {x})
<1>1. /\ s \in Seq(S) /\ Len(s) \in Nat /\ DOMAIN s = 1 .. Len(s)
      /\ \A i, j \in 1 .. Len(s) : s[i] = s[j] => i = j
      /\ \A y \in S : \E i \in 1 .. Len(s) : s[i] = y
  BY DEF Listing
<1> DEFINE n == Len(s)
           t == Append(s, x)
<1>2. s \in Seq(S \cup {x})
  BY <1>1, SeqMonotonic
<1>3. /\ t \in Seq(S \cup {x}) /\ DOMAIN t = 1 .. n + 1
      /\ \A i \in 1 .. n : t[i] = s[i] /\ s[i] \in S
      /\ t[n + 1] = x
  BY <1>1, <1>2, AppendProperties
<1> HIDE DEF t
<1>4. \A i \in DOMAIN t : i = n + 1 \/ i \in 1 .. n
  BY <1>1, <1>3
<1>5. \A i, j \in DOMAIN t : t[i] = t[j] => i = j
  BY <1>1, <1>3, <1>4
<1>6. \A y \in S \cup {x} : \E i \in DOMAIN t : t[i] = y
  BY <1>1, <1>3
<1> QED BY <1>3, <1>5, <1>6 DEF Listing, t

(* Removing an element from a listing takes it off the set.                *)
LEMMA ListingRemove ==
    ASSUME NEW S, NEW s, Listing(s, S), NEW x \in S
    PROVE  Listing(RemoveFirst(s, x), S \ {x})
<1> DEFINE r == RemoveFirst(s, x)
           n == Len(s)
<1>1. /\ s \in Seq(S) /\ n \in Nat /\ DOMAIN s = 1 .. n
      /\ \A i, j \in 1 .. n : s[i] = s[j] => i = j
      /\ \A y \in S : \E i \in 1 .. n : s[i] = y
      /\ \A i \in 1 .. n : s[i] \in S
  BY DEF Listing
<1>2. /\ r \in Seq(S)
      /\ \E m \in 1 .. n : s[m] = x /\ IsWithout(r, s, m)
  BY <1>1, RemoveFirstFacts
<1> HIDE DEF r
<1>3. PICK m \in 1 .. n : s[m] = x /\ IsWithout(r, s, m)
  BY <1>2
<1>4. /\ DOMAIN r = 1 .. n - 1 /\ m \in Nat
      /\ \A k \in 1 .. n - 1 : r[k] = IF k < m THEN s[k] ELSE s[k + 1]
  BY <1>1, <1>2, <1>3 DEF IsWithout
<1> DEFINE from == [k \in 1 .. n - 1 |-> IF k < m THEN k ELSE k + 1]
<1>5. /\ \A k \in 1 .. n - 1 : from[k] \in 1 .. n /\ from[k] # m
      /\ \A i, j \in 1 .. n - 1 : from[i] = from[j] => i = j
  BY <1>1, <1>4
<1>6. \A i \in 1 .. n : i # m => \E k \in 1 .. n - 1 : from[k] = i
  <2> SUFFICES ASSUME NEW i \in 1 .. n, i # m PROVE \E k \in 1 .. n - 1 : from[k] = i
    OBVIOUS
  <2>1. CASE i < m
    <3>1. i \in 1 .. n - 1
      BY <1>1, <1>4, <2>1
    <3>2. from[i] = i
      BY <2>1, <3>1
    <3> QED BY <3>1, <3>2
  <2>2. CASE ~(i < m)
    <3> DEFINE k == i - 1
    <3>1. k \in 1 .. n - 1 /\ k + 1 = i /\ ~(k < m)
      BY <1>1, <1>4, <2>2
    <3> HIDE DEF k
    <3>2. from[k] = i
      BY <3>1
    <3> QED BY <3>1, <3>2
  <2> QED BY <2>1, <2>2
<1>7. \A k \in 1 .. n - 1 : r[k] = s[from[k]]
  BY <1>1, <1>4
<1> HIDE DEF from, n
<1>8. \A i, j \in DOMAIN r : r[i] = r[j] => i = j
  BY <1>1, <1>4, <1>5, <1>7
<1>9. \A y \in S \ {x} : \E k \in DOMAIN r : r[k] = y
  <2> SUFFICES ASSUME NEW y \in S \ {x} PROVE \E k \in DOMAIN r : r[k] = y
    OBVIOUS
  <2>1. PICK i \in 1 .. n : s[i] = y
    BY <1>1
  <2>2. PICK k \in 1 .. n - 1 : from[k] = i
    BY <1>3, <1>6, <2>1
  <2> QED BY <1>4, <1>7, <2>1, <2>2
<1>10. \A k \in 1 .. n - 1 : r[k] \in S \ {x}
  BY <1>1, <1>3, <1>5, <1>7
<1>11. r \in Seq(S \ {x})
  <2>1. r \in [1 .. n - 1 -> S \ {x}] /\ n - 1 \in Nat
    <3>1. r \in [1 .. Len(r) -> S]
      BY <1>2
    <3>2. 1 .. Len(r) = 1 .. n - 1
      BY <1>2, <1>4
    <3>3. n - 1 \in Nat
      BY <1>1, <1>3
    <3> HIDE DEF r
    <3> QED BY <1>10, <3>1, <3>2, <3>3
  <2> QED BY <2>1, SeqDef
<1> QED BY <1>8, <1>9, <1>11 DEF Listing, r

(* How often a sequence contains an element.                               *)
LEMMA CountFacts ==
    ASSUME NEW S, NEW s \in Seq(S), NEW x
    PROVE  /\ IsFiniteSet({k \in DOMAIN s : s[k] = x})
           /\ Count(s, x) \in Nat
           /\ Count(s, x) # 0 <=> \E k \in DOMAIN s : s[k] = x
<1> DEFINE K == {k \in DOMAIN s : s[k] = x}
<1>1. Len(s) \in Nat /\ DOMAIN s = 1 .. Len(s)
  OBVIOUS
<1>2. IsFiniteSet(1 .. Len(s))
  BY <1>1, FS_Interval
<1>3. K \in SUBSET (1 .. Len(s))
  BY <1>1
<1>4. IsFiniteSet(K)
  BY <1>2, <1>3, FS_Subset
<1>5. Cardinality(K) \in Nat /\ (Cardinality(K) = 0 <=> K = {})
  BY <1>4, FS_CardinalityType, FS_EmptySet
<1> QED BY <1>4, <1>5 DEF Count

(* Sets between which there is a bijection are of the same size.           *)
LEMMA SameCount ==
    ASSUME NEW S, NEW T, NEW f \in Bijection(S, T), IsFiniteSet(S)
    PROVE  IsFiniteSet(T) /\ Cardinality(T) = Cardinality(S)
BY FS_Bijection DEF ExistsBijection

(* An element named by those of a listing is counted once for each.        *)
LEMMA CountOfListing ==
    ASSUME NEW S, NEW s, Listing(s, S), NEW t, NEW g,
           DOMAIN t = DOMAIN s, \A k \in DOMAIN s : t[k] = g[s[k]], NEW x
    PROVE  Count(t, x) = Cardinality({y \in S : g[y] = x})
<1> DEFINE K == {k \in DOMAIN t : t[k] = x}
           Y == {y \in S : g[y] = x}
           f == [k \in K |-> s[k]]
<1>1. \A k \in DOMAIN s : s[k] \in S
  BY DEF Listing
<1>2. f \in [K -> Y]
  BY <1>1
<1>3. f \in Injection(K, Y)
  BY <1>2 DEF Listing, Injection, IsInjective
<1>4. \A y \in Y : \E k \in K : f[k] = y
  BY DEF Listing
<1>5. f \in Bijection(K, Y)
  BY <1>2, <1>3, <1>4 DEF Bijection, Surjection
<1>6. IsFiniteSet(Y)
  <2>1. IsFiniteSet(S)
    BY ListingFacts
  <2> QED BY <2>1, FS_Subset
<1>7. IsFiniteSet(K)
  BY <1>3, <1>6, FS_Injection
<1>8. Cardinality(Y) = Cardinality(K)
  BY <1>5, <1>7, SameCount
<1> QED BY <1>8 DEF Count

(* RemoveFirst lowers the count of the element, and of no other.           *)
LEMMA CountRemove ==
    ASSUME NEW S, NEW s \in Seq(S), NEW x, Count(s, x) # 0
    PROVE  /\ RemoveFirst(s, x) \in Seq(S)
           /\ Len(RemoveFirst(s, x)) = Len(s) - 1
           /\ \A y : Count(RemoveFirst(s, x), y) = IF y = x THEN Count(s, x) - 1 ELSE Count(s, y)
<1> DEFINE r == RemoveFirst(s, x)
           n == Len(s)
<1>1. n \in Nat /\ DOMAIN s = 1 .. n /\ \E k \in DOMAIN s : s[k] = x
  <2>1. \E k \in DOMAIN s : s[k] = x
    BY CountFacts
  <2> QED BY <2>1
<1>2. r \in Seq(S) /\ \E m \in 1 .. n : s[m] = x /\ IsWithout(r, s, m)
  BY <1>1, RemoveFirstFacts
<1> HIDE DEF r
<1>3. PICK m \in 1 .. n : s[m] = x /\ IsWithout(r, s, m)
  BY <1>2
<1>4. /\ Len(r) = n - 1 /\ DOMAIN r = 1 .. n - 1 /\ m \in Nat
      /\ \A k \in 1 .. n - 1 : r[k] = IF k < m THEN s[k] ELSE s[k + 1]
  BY <1>1, <1>2, <1>3 DEF IsWithout
<1>5. ASSUME NEW y
      PROVE  Count(r, y) = IF y = x THEN Count(s, x) - 1 ELSE Count(s, y)
  <2> DEFINE K == {k \in DOMAIN s : s[k] = y}
             T == {k \in DOMAIN r : r[k] = y}
             f == [k \in T |-> IF k < m THEN k ELSE k + 1]
  <2>1. \A k \in T : f[k] \in K \ {m}
    BY <1>1, <1>4
  <2>2. \A i, j \in T : f[i] = f[j] => i = j
    BY <1>1, <1>4
  <2>3. \A i \in K \ {m} : \E k \in T : f[k] = i
    <3> SUFFICES ASSUME NEW i \in K \ {m} PROVE \E k \in T : f[k] = i
      OBVIOUS
    <3>1. CASE i < m
      <4>1. i \in T /\ f[i] = i
        BY <1>1, <1>4, <3>1
      <4> QED BY <4>1
    <3>2. CASE ~(i < m)
      <4> DEFINE k == i - 1
      <4>1. k \in 1 .. n - 1 /\ ~(k < m) /\ k + 1 = i
        BY <1>1, <1>4, <3>2
      <4> HIDE DEF k
      <4>2. k \in T
        BY <1>1, <1>4, <4>1
      <4> QED BY <4>1, <4>2
    <3> QED BY <3>1, <3>2
  <2>4. f \in Bijection(T, K \ {m})
    <3>1. f \in [T -> K \ {m}]
      BY <2>1
    <3> HIDE DEF f, K, T
    <3> QED BY <2>2, <2>3, <3>1 DEF Bijection, Injection, Surjection, IsInjective
  <2>5. IsFiniteSet(K) /\ IsFiniteSet(T) /\ Cardinality(K) \in Nat
    BY <1>2, CountFacts DEF Count
  <2>6. Cardinality(K \ {m}) = Cardinality(T)
    BY <2>4, <2>5, SameCount
  <2>7. Cardinality(K \ {m}) = IF m \in K THEN Cardinality(K) - 1 ELSE Cardinality(K)
    BY <2>5, FS_RemoveElement
  <2>8. m \in K <=> y = x
    BY <1>1, <1>3
  <2>9. Count(r, y) = Cardinality(T) /\ Count(s, y) = Cardinality(K)
    BY DEF Count
  <2> HIDE DEF K, T
  <2> QED BY <2>6, <2>7, <2>8, <2>9
<1> QED BY <1>2, <1>4, <1>5 DEF r

(* The count in a concatenation is the sum of the counts.                  *)
LEMMA CountConcat ==
    ASSUME NEW S, NEW s \in Seq(S), NEW t \in Seq(S), NEW x
    PROVE  Count(s \o t, x) = Count(s, x) + Count(t, x)
<1> DEFINE n == Len(s)
           m == Len(t)
           u == s \o t
           A == {k \in DOMAIN s : s[k] = x}
           B == {k \in DOMAIN t : t[k] = x}
           C == {k \in DOMAIN u : u[k] = x}
           f == [k \in B |-> n + k]
<1>1. n \in Nat /\ m \in Nat /\ DOMAIN s = 1 .. n /\ DOMAIN t = 1 .. m
  OBVIOUS
<1>2. DOMAIN u = 1 .. n + m /\ u \in Seq(S)
      /\ \A i \in 1 .. n + m : u[i] = IF i <= n THEN s[i] ELSE t[i - n]
  <2>1. /\ u \in Seq(S) /\ Len(u) = n + m
        /\ \A i \in 1 .. n + m : u[i] = IF i <= n THEN s[i] ELSE t[i - n]
    BY ConcatProperties
  <2> QED BY <2>1
<1> HIDE DEF u, n, m
<1>3. /\ \A i \in 1 .. n : i \in 1 .. n + m /\ u[i] = s[i]
      /\ \A i \in 1 .. m : n + i \in 1 .. n + m /\ n + i > n /\ u[n + i] = t[i]
  <2>1. \A i \in 1 .. n : i \in 1 .. n + m /\ u[i] = s[i]
    BY <1>1, <1>2
  <2>2. ASSUME NEW i \in 1 .. m PROVE n + i \in 1 .. n + m /\ n + i > n /\ u[n + i] = t[i]
    <3>1. n + i \in 1 .. n + m /\ ~(n + i <= n) /\ (n + i) - n = i
      BY <1>1
    <3> QED BY <1>1, <1>2, <3>1
  <2> QED BY <2>1, <2>2
<1>4. A \subseteq C
  BY <1>1, <1>2, <1>3
<1>5. f \in [B -> C \ A]
  BY <1>1, <1>2, <1>3
<1>6. \A i, j \in B : f[i] = f[j] => i = j
  BY <1>1
<1>7. \A i \in C \ A : \E k \in B : f[k] = i
  <2> SUFFICES ASSUME NEW i \in C \ A PROVE \E k \in B : f[k] = i
    OBVIOUS
  <2>1. i \in 1 .. n + m /\ u[i] = x /\ i \notin A
    BY <1>2
  <2>2. ~(i <= n)
    <3> SUFFICES ASSUME i <= n PROVE FALSE
      OBVIOUS
    <3>1. i \in 1 .. n /\ s[i] = x
      BY <1>1, <1>2, <2>1
    <3> QED BY <1>1, <2>1, <3>1
  <2> DEFINE k == i - n
  <2>3. k \in 1 .. m /\ n + k = i
    BY <1>1, <2>1, <2>2
  <2> HIDE DEF k
  <2>4. k \in B
    BY <1>1, <1>3, <2>1, <2>3
  <2> QED BY <2>3, <2>4
<1>8. IsFiniteSet(A) /\ IsFiniteSet(B) /\ IsFiniteSet(C)
  BY <1>2, CountFacts
<1>9. Count(s, x) = Cardinality(A) /\ Count(t, x) = Cardinality(B) /\ Count(u, x) = Cardinality(C)
  BY DEF Count
<1> HIDE DEF f, A, B, C
<1>10. f \in Bijection(B, C \ A)
  BY <1>5, <1>6, <1>7 DEF Bijection, Injection, Surjection, IsInjective
<1>11. Cardinality(C \ A) = Cardinality(B)
  BY <1>8, <1>10, SameCount
<1>12. Cardinality(C \ A) = Cardinality(C) - Cardinality(A) /\ Cardinality(C) \in Nat /\ Cardinality(A) \in Nat
  <2>1. C \cap A = A
    BY <1>4
  <2>2. Cardinality(C \ A) = Cardinality(C) - Cardinality(C \cap A)
    BY <1>8, FS_Difference
  <2> QED BY <1>8, <2>1, <2>2, FS_CardinalityType
<1> QED BY <1>9, <1>11, <1>12 DEF u

(* Sequences with the same counts have the same bag.                       *)
LEMMA BagEqual ==
    ASSUME NEW S, NEW s \in Seq(S), NEW t \in Seq(S), \A x \in S : Count(s, x) = Count(t, x)
    PROVE  Bag(s) = Bag(t)
<1>0. Range(s) \subseteq S /\ Range(t) \subseteq S
  <2>1. s \in [1 .. Len(s) -> S] /\ t \in [1 .. Len(t) -> S]
    BY LenProperties
  <2> QED BY <2>1 DEF Range
<1>1. Range(s) = Range(t)
  <2>1. ASSUME NEW x \in S PROVE x \in Range(s) <=> x \in Range(t)
    <3>1. (\E k \in DOMAIN s : s[k] = x) <=> Count(s, x) # 0
      BY CountFacts
    <3>2. (\E k \in DOMAIN t : t[k] = x) <=> Count(t, x) # 0
      BY CountFacts
    <3> QED BY <3>1, <3>2 DEF Range
  <2> QED BY <1>0, <2>1
<1>2. Bag(s) = [x \in Range(s) |-> Count(s, x)] /\ Bag(t) = [x \in Range(t) |-> Count(t, x)]
  BY DEF Bag, Count
<1> QED BY <1>0, <1>1, <1>2

-----------------------------------------------------------------------------
(* The position of a row or column: ExtentBefore is a sum of extents.      *)
IsExtentSums(g, extents, n) ==
    /\ g = [i \in 0 .. n |-> IF i = 0 THEN 0 ELSE g[i - 1] + extents[i]]

(* There is a function that sums the extents, so that the recursive        *)
(* function of ExtentBefore is it.                                         *)
LEMMA ExtentSumsExist ==
    ASSUME NEW extents \in Seq(Nat \ {0}), NEW n \in 0 .. Len(extents)
    PROVE  \E g \in [0 .. n -> Nat] : IsExtentSums(g, extents, n)
<1> DEFINE P(k) == \E g \in [0 .. k -> Nat] : IsExtentSums(g, extents, k)
           S == {k \in 0 .. Len(extents) : ~P(k)}
<1> SUFFICES ASSUME S # {} PROVE FALSE
  OBVIOUS
<1>1. PICK k \in S : \A m \in S : k <= m
  <2>1. S \subseteq Nat
    OBVIOUS
  <2> HIDE DEF S
  <2> QED BY <2>1, SmallestElement
<1>2. k # 0
  <2>1. [i \in 0 .. 0 |-> 0] \in [0 .. 0 -> Nat]
    OBVIOUS
  <2>2. IsExtentSums([i \in 0 .. 0 |-> 0], extents, 0)
    BY DEF IsExtentSums
  <2> QED BY <1>1, <2>1, <2>2
<1>3. P(k - 1)
  <2>1. k \in 1 .. Len(extents)
    BY <1>2
  <2>2. k - 1 \in 0 .. Len(extents) /\ ~(k <= k - 1)
    BY <2>1
  <2> HIDE DEF P
  <2> QED BY <1>1, <2>2
<1>4. PICK g \in [0 .. k - 1 -> Nat] : IsExtentSums(g, extents, k - 1)
  BY <1>3
<1> DEFINE h == [i \in 0 .. k |-> IF i = k THEN g[k - 1] + extents[k] ELSE g[i]]
<1>5. extents[k] \in Nat /\ k \in Nat \ {0}
  BY <1>1, <1>2
<1>6. h \in [0 .. k -> Nat]
  BY <1>4, <1>5
<1>7. ASSUME NEW i \in 0 .. k
      PROVE  h[i] = IF i = 0 THEN 0 ELSE h[i - 1] + extents[i]
  <2>1. CASE i = k
    BY <1>5, <2>1
  <2>2. CASE i # k
    <3>1. i \in 0 .. k - 1
      BY <1>5, <2>2
    <3>2. g[i] = IF i = 0 THEN 0 ELSE g[i - 1] + extents[i]
      BY <1>4, <3>1 DEF IsExtentSums
    <3>3. i # 0 => i - 1 \in 0 .. k /\ i - 1 # k
      BY <1>5, <3>1
    <3> QED BY <2>2, <3>2, <3>3
  <2> QED BY <2>1, <2>2
<1>8. IsExtentSums(h, extents, k)
  BY <1>7, Zenon DEF IsExtentSums
<1> QED BY <1>1, <1>6, <1>8

(* Sums are determined by the extents.                                     *)
LEMMA ExtentSumsUnique ==
    ASSUME NEW extents \in Seq(Nat \ {0}), NEW n \in Nat, NEW m \in 0 .. n,
           NEW g, NEW h, IsExtentSums(g, extents, n), IsExtentSums(h, extents, m)
    PROVE  \A i \in 0 .. m : g[i] = h[i]
<1> DEFINE S == {i \in 0 .. m : g[i] # h[i]}
<1> SUFFICES ASSUME S # {} PROVE FALSE
  OBVIOUS
<1>1. PICK k \in S : \A i \in S : k <= i
  <2>1. S \subseteq Nat
    OBVIOUS
  <2> HIDE DEF S
  <2> QED BY <2>1, SmallestElement
<1>2. /\ g[k] = IF k = 0 THEN 0 ELSE g[k - 1] + extents[k]
      /\ h[k] = IF k = 0 THEN 0 ELSE h[k - 1] + extents[k]
  BY DEF IsExtentSums
<1>3. k # 0
  BY <1>2
<1>4. k - 1 \in 0 .. m /\ k - 1 \notin S
  BY <1>1, <1>3
<1> QED BY <1>2, <1>3, <1>4

(* ExtentBefore satisfies its recursion.                                   *)
LEMMA ExtentBeforeFacts ==
    ASSUME NEW extents \in Seq(Nat \ {0})
    PROVE  /\ ExtentBefore(extents, 0) = 0
           /\ \A n \in 0 .. Len(extents) : ExtentBefore(extents, n) \in Nat
           /\ \A n \in 1 .. Len(extents) :
                ExtentBefore(extents, n) = ExtentBefore(extents, n - 1) + extents[n]
<1>1. PICK g \in [0 .. Len(extents) -> Nat] : IsExtentSums(g, extents, Len(extents))
  BY ExtentSumsExist
<1>2. ASSUME NEW n \in 0 .. Len(extents) PROVE ExtentBefore(extents, n) = g[n]
  <2> DEFINE f == CHOOSE f : f = [i \in 0 .. n |-> IF i = 0 THEN 0 ELSE f[i - 1] + extents[i]]
  <2>1. \E h : IsExtentSums(h, extents, n)
    BY ExtentSumsExist
  <2>2. IsExtentSums(f, extents, n)
    BY <2>1, Zenon DEF IsExtentSums
  <2>3. ExtentBefore(extents, n) = f[n]
    BY Zenon DEF ExtentBefore
  <2> HIDE DEF f
  <2> QED BY <1>1, <2>2, <2>3, ExtentSumsUnique
<1>3. \A n \in 0 .. Len(extents) :
        g[n] \in Nat /\ g[n] = IF n = 0 THEN 0 ELSE g[n - 1] + extents[n]
  BY <1>1 DEF IsExtentSums
<1>4. ASSUME NEW n \in 1 .. Len(extents)
      PROVE  ExtentBefore(extents, n) = ExtentBefore(extents, n - 1) + extents[n]
  <2>1. n \in 0 .. Len(extents) /\ n - 1 \in 0 .. Len(extents) /\ n # 0
    OBVIOUS
  <2> QED BY <1>2, <1>3, <2>1
<1>5. 0 \in 0 .. Len(extents)
  OBVIOUS
<1> QED BY <1>2, <1>3, <1>4, <1>5

(* The next partition begins where this one ends.                          *)
LEMMA ExtentBeforeNext ==
    ASSUME NEW extents \in Seq(Nat \ {0}), NEW n \in 0 .. Len(extents) - 1
    PROVE  /\ ExtentBefore(extents, n) \in Nat /\ extents[n + 1] \in Nat \ {0}
           /\ ExtentBefore(extents, n + 1) = ExtentBefore(extents, n) + extents[n + 1]
<1> DEFINE m == n + 1
<1>1. m \in 1 .. Len(extents) /\ n \in 0 .. Len(extents) /\ m - 1 = n
  OBVIOUS
<1> HIDE DEF m
<1>2. /\ ExtentBefore(extents, n) \in Nat
      /\ ExtentBefore(extents, m) = ExtentBefore(extents, m - 1) + extents[m]
  BY <1>1, ExtentBeforeFacts
<1>3. extents[m] \in Nat \ {0}
  BY <1>1
<1> QED BY <1>1, <1>2, <1>3 DEF m

(* Partitions follow each other.                                           *)
LEMMA ExtentBeforeGrows ==
    ASSUME NEW extents \in Seq(Nat \ {0}),
           NEW p \in 0 .. Len(extents) - 1, NEW q \in 0 .. Len(extents) - 1, p < q
    PROVE  ExtentBefore(extents, p) + extents[p + 1] <= ExtentBefore(extents, q)
<1> DEFINE B(n) == ExtentBefore(extents, n)
           S == {n \in 0 .. Len(extents) - 1 : p < n /\ ~(B(p) + extents[p + 1] <= B(n))}
<1>1. \A n \in 0 .. Len(extents) - 1 :
        B(n) \in Nat /\ extents[n + 1] \in Nat \ {0} /\ B(n + 1) = B(n) + extents[n + 1]
  BY ExtentBeforeNext
<1> HIDE DEF B
<1> SUFFICES ASSUME S # {} PROVE FALSE
  BY DEF B
<1>2. PICK n \in S : \A i \in S : n <= i
  <2>1. S \subseteq Nat
    OBVIOUS
  <2> HIDE DEF S
  <2> QED BY <2>1, SmallestElement
<1>3. /\ n \in 1 .. Len(extents) - 1 /\ p < n /\ p \in Nat /\ p + 1 \in 1 .. Len(extents)
      /\ ~(B(p) + extents[p + 1] <= B(n))
  BY <1>2
<1>4. CASE n = p + 1
  <2>1. B(p + 1) = B(p) + extents[p + 1] /\ B(p) \in Nat /\ extents[p + 1] \in Nat
    BY <1>1
  <2> QED BY <1>3, <1>4, <2>1
<1>5. CASE n # p + 1
  <2>1. n - 1 \in 0 .. Len(extents) - 1 /\ p < n - 1 /\ ~(n <= n - 1)
    BY <1>3, <1>5
  <2>2. B(p) + extents[p + 1] <= B(n - 1)
    BY <1>2, <2>1
  <2> DEFINE m == n - 1
  <2>3. m \in 0 .. Len(extents) - 1 /\ m + 1 = n
    BY <2>1
  <2> HIDE DEF m
  <2>4. B(n) = B(m) + extents[n] /\ extents[n] \in Nat /\ B(m) \in Nat
    <3>1. B(m + 1) = B(m) + extents[m + 1] /\ extents[m + 1] \in Nat \ {0} /\ B(m) \in Nat
      BY <1>1, <2>3
    <3> QED BY <2>3, <3>1
  <2>5. B(p) \in Nat /\ extents[p + 1] \in Nat
    BY <1>1
  <2>6. B(p) + extents[p + 1] <= B(m)
    BY <2>2 DEF m
  <2> HIDE DEF S
  <2> QED BY <1>3, <2>3, <2>4, <2>5, <2>6
<1> QED BY <1>4, <1>5

(* Along a dimension: the offset of the partition that a step from index i *)
(* leads to, and the index in that partition, given its extent.            *)
Leave(i, extent, o) ==
    IF o = -1 /\ i = 0 THEN -1 ELSE IF o = 1 /\ i = extent - 1 THEN 1 ELSE 0

(* The index at which a step enters the partition it leads to.             *)
Enter(i, extent, o, leave) ==
    IF leave = -1 THEN extent - 1 ELSE IF leave = 1 THEN 0 ELSE i + o

(* Two partitions p and q, that begin at bp and bq and have extents ep and *)
(* eq, and an index in each.                                               *)
InPartitions(p, q, i, j, bp, bq, ep, eq) ==
    /\ {p, q, i, j, bp, bq, ep, eq} \subseteq Int
    /\ 0 <= i /\ i < ep /\ 0 <= j /\ j < eq
    /\ q = p => bq = bp /\ eq = ep
    /\ q = p + 1 => bq = bp + ep
    /\ p = q + 1 => bp = bq + eq
    /\ p + 1 < q => bp + ep + 1 <= bq
    /\ q + 1 < p => bq + eq + 1 <= bp

(* The step o from index i of p leads to index j of q.                     *)
StepsTo(p, q, i, j, bp, bq, ep, eq, o) ==
    bq + j = bp + i + o <=>
        q = p + Leave(i, ep, o) /\ j = Enter(i, eq, o, Leave(i, ep, o))

(* The positions in the whole array agree with the indices in the          *)
(* partitions.                                                             *)
LEMMA StepArithmetic ==
    ASSUME NEW p, NEW q, NEW i, NEW j, NEW bp, NEW bq, NEW ep, NEW eq,
           InPartitions(p, q, i, j, bp, bq, ep, eq), NEW o \in {-1, 0, 1}
    PROVE  StepsTo(p, q, i, j, bp, bq, ep, eq, o)
<1> USE DEF InPartitions
<1> DEFINE leave == Leave(i, ep, o)
           enter == Enter(i, eq, o, leave)
<1>1. leave = IF o = -1 /\ i = 0 THEN -1 ELSE IF o = 1 /\ i = ep - 1 THEN 1 ELSE 0
  BY DEF Leave
<1>2. enter = IF leave = -1 THEN eq - 1 ELSE IF leave = 1 THEN 0 ELSE i + o
  BY DEF Enter
<1> HIDE DEF leave, enter
<1>3. o \in Int /\ leave \in Int /\ enter \in Int
  BY <1>1, <1>2
<1>4. bq + j = bp + i + o <=> q = p + leave /\ j = enter
  <2>1. CASE o = -1
    BY <1>1, <1>2, <1>3, <2>1
  <2>2. CASE o = 0
    BY <1>1, <1>2, <1>3, <2>2
  <2>3. CASE o = 1
    BY <1>1, <1>2, <1>3, <2>3
  <2> QED BY <2>1, <2>2, <2>3
<1> QED BY <1>4 DEF leave, enter, StepsTo

(* A step leads to the index it enters at, and nowhere else.               *)
LEMMA StepAlong ==
    ASSUME NEW extents \in Seq(Nat \ {0}), NEW o \in {-1, 0, 1},
           NEW p \in 0 .. Len(extents) - 1, NEW i \in 0 .. extents[p + 1] - 1,
           NEW q \in 0 .. Len(extents) - 1, NEW j \in 0 .. extents[q + 1] - 1
    PROVE  StepsTo(p, q, i, j, ExtentBefore(extents, p), ExtentBefore(extents, q),
                   extents[p + 1], extents[q + 1], o)
<1> DEFINE B(n) == ExtentBefore(extents, n)
           E(n) == extents[n + 1]
<1>1. /\ \A n \in 0 .. Len(extents) - 1 : B(n) \in Nat /\ E(n) \in Nat \ {0}
      /\ \A n \in 0 .. Len(extents) - 2 : B(n + 1) = B(n) + E(n)
  BY ExtentBeforeNext
<1>2. \A m, n \in 0 .. Len(extents) - 1 : m < n => B(m) + E(m) <= B(n)
  BY ExtentBeforeGrows
<1>3. p \in Int /\ q \in Int /\ i \in Int /\ j \in Int /\ 0 <= i /\ i < E(p) /\ 0 <= j /\ j < E(q)
      /\ B(p) \in Int /\ B(q) \in Int /\ E(p) \in Int /\ E(q) \in Int
  BY <1>1
<1>4. p < q => B(p) + E(p) <= B(q)
  BY <1>2
<1>5. q < p => B(q) + E(q) <= B(p)
  BY <1>2
<1>6. q = p + 1 => B(q) = B(p) + E(p)
  BY <1>1
<1>7. p = q + 1 => B(p) = B(q) + E(q)
  BY <1>1
<1>8. p + 1 < q => B(p) + E(p) + 1 <= B(q)
  <2> SUFFICES ASSUME p + 1 < q PROVE B(p) + E(p) + 1 <= B(q)
    OBVIOUS
  <2>1. p + 1 \in 0 .. Len(extents) - 1 /\ p \in 0 .. Len(extents) - 2
    OBVIOUS
  <2>2. B(p + 1) + E(p + 1) <= B(q) /\ B(p + 1) = B(p) + E(p)
    BY <1>1, <1>2, <2>1
  <2>3. E(p + 1) \in Nat \ {0}
    BY <1>1, <2>1
  <2> HIDE DEF B, E
  <2> QED BY <1>3, <2>2, <2>3
<1>9. q + 1 < p => B(q) + E(q) + 1 <= B(p)
  <2> SUFFICES ASSUME q + 1 < p PROVE B(q) + E(q) + 1 <= B(p)
    OBVIOUS
  <2>1. q + 1 \in 0 .. Len(extents) - 1 /\ q \in 0 .. Len(extents) - 2
    OBVIOUS
  <2>2. B(q + 1) + E(q + 1) <= B(p) /\ B(q + 1) = B(q) + E(q)
    BY <1>1, <1>2, <2>1
  <2>3. E(q + 1) \in Nat \ {0}
    BY <1>1, <2>1
  <2> HIDE DEF B, E
  <2> QED BY <1>3, <2>2, <2>3
<1>10. q = p => E(q) = E(p) /\ B(q) = B(p)
  OBVIOUS
<1> HIDE DEF B, E
<1>11. StepsTo(p, q, i, j, B(p), B(q), E(p), E(q), o)
  <2>1. InPartitions(p, q, i, j, B(p), B(q), E(p), E(q))
    BY <1>3, <1>4, <1>5, <1>6, <1>7, <1>8, <1>9, <1>10 DEF InPartitions
  <2>2. o \in {-1, 0, 1}
    OBVIOUS
  <2> QED BY <2>1, <2>2, StepArithmetic, Zenon
<1> QED BY <1>11, Zenon DEF B, E

-----------------------------------------------------------------------------
(* Cells of the partitioned array.                                         *)
LEMMA PartitionFacts ==
    ASSUME NEW p \in Partitions
    PROVE  /\ p = <<p[1], p[2]>>
           /\ p[1] \in 0 .. Len(RowExtents) - 1 /\ p[2] \in 0 .. Len(ColExtents) - 1
           /\ Extent0(p) \in Nat \ {0} /\ Extent1(p) \in Nat \ {0}
<1>1. p[1] \in 0 .. Len(RowExtents) - 1 /\ p[2] \in 0 .. Len(ColExtents) - 1 /\ p = <<p[1], p[2]>>
  BY DEF Partitions
<1>2. Extent0(p) \in Nat \ {0}
  BY <1>1, ExtentBeforeNext, ExtentsAssumption DEF Extent0
<1>3. Extent1(p) \in Nat \ {0}
  BY <1>1, ExtentBeforeNext, ExtentsAssumption DEF Extent1
<1> QED BY <1>1, <1>2, <1>3

(* A cell is a partition and the indices of a cell in it.                  *)
LEMMA CellFacts ==
    /\ \A p \in Partitions : \A idxs \in CellsOf(p) : <<p, idxs>> \in Cells
    /\ \A c \in Cells : c = <<c[1], c[2]>> /\ c[1] \in Partitions /\ c[2] \in CellsOf(c[1])
<1>1. ASSUME NEW p \in Partitions, NEW idxs \in CellsOf(p) PROVE <<p, idxs>> \in Cells
  <2>1. <<p, idxs>> \in {p} \X CellsOf(p)
    OBVIOUS
  <2> QED BY <2>1, Zenon DEF Cells
<1>2. ASSUME NEW c \in Cells PROVE c = <<c[1], c[2]>> /\ c[1] \in Partitions /\ c[2] \in CellsOf(c[1])
  <2>1. PICK p \in Partitions : c \in {p} \X CellsOf(p)
    BY DEF Cells
  <2> QED BY <2>1
<1> QED BY <1>1, <1>2

(* The indices of a cell of a partition are within its extents.            *)
LEMMA IdxsFacts ==
    ASSUME NEW p \in Partitions, NEW idxs \in CellsOf(p)
    PROVE  /\ idxs = <<idxs[1], idxs[2]>>
           /\ idxs[1] \in 0 .. Extent0(p) - 1 /\ idxs[2] \in 0 .. Extent1(p) - 1
BY DEF CellsOf

(* The same in two dimensions.                                             *)
LeaveOf(p, idxs, o) ==
    <<Leave(idxs[1], Extent0(p), o[1]), Leave(idxs[2], Extent1(p), o[2])>>

(* The cell that a step enters.                                            *)
EnterOf(p, idxs, o, leave) ==
    <<Enter(idxs[1], Extent0(p), o[1], leave[1]), Enter(idxs[2], Extent1(p), o[2], leave[2])>>

(* The steps to a cell itself or to one of its eight neighbours.           *)
Steps == {-1, 0, 1} \X {-1, 0, 1}

(* A step in the whole array is a step to a partition and to a cell in it. *)
LEMMA StepInArray ==
    ASSUME NEW c \in Cells, NEW x \in Cells, NEW o \in Steps
    PROVE  ArrayIdxs(x) = Plus(ArrayIdxs(c), o) <=>
                LET leave == LeaveOf(c[1], c[2], o)
                IN  x[1] = Plus(c[1], leave) /\ x[2] = EnterOf(x[1], c[2], o, leave)
<1> DEFINE p == c[1]
           i == c[2]
           q == x[1]
           j == x[2]
           leave == LeaveOf(p, i, o)
<1>1. p \in Partitions /\ i \in CellsOf(p) /\ q \in Partitions /\ j \in CellsOf(q)
  BY CellFacts
<1>2. /\ p[1] \in 0 .. Len(RowExtents) - 1 /\ p[2] \in 0 .. Len(ColExtents) - 1
      /\ q[1] \in 0 .. Len(RowExtents) - 1 /\ q[2] \in 0 .. Len(ColExtents) - 1
      /\ q = <<q[1], q[2]>>
  BY <1>1, PartitionFacts
<1>3. /\ i[1] \in 0 .. RowExtents[p[1] + 1] - 1 /\ i[2] \in 0 .. ColExtents[p[2] + 1] - 1
      /\ j[1] \in 0 .. RowExtents[q[1] + 1] - 1 /\ j[2] \in 0 .. ColExtents[q[2] + 1] - 1
      /\ j = <<j[1], j[2]>>
  BY <1>1, IdxsFacts DEF Extent0, Extent1
<1>4. o[1] \in {-1, 0, 1} /\ o[2] \in {-1, 0, 1}
  BY DEF Steps
<1>5. leave[1] = Leave(i[1], RowExtents[p[1] + 1], o[1]) /\ leave[2] = Leave(i[2], ColExtents[p[2] + 1], o[2])
  BY DEF LeaveOf, Extent0, Extent1
<1>6. Plus(p, leave) = <<p[1] + leave[1], p[2] + leave[2]>>
  BY DEF Plus
<1>7. EnterOf(q, i, o, leave) = <<Enter(i[1], RowExtents[q[1] + 1], o[1], leave[1]),
                                  Enter(i[2], ColExtents[q[2] + 1], o[2], leave[2])>>
  BY DEF EnterOf, Extent0, Extent1
<1>8. /\ ArrayIdxs(x) = <<ExtentBefore(RowExtents, q[1]) + j[1], ExtentBefore(ColExtents, q[2]) + j[2]>>
      /\ Plus(ArrayIdxs(c), o) = <<ExtentBefore(RowExtents, p[1]) + i[1] + o[1],
                                   ExtentBefore(ColExtents, p[2]) + i[2] + o[2]>>
  BY DEF ArrayIdxs, Plus
<1> HIDE DEF p, i, q, j, leave
<1>9. ExtentBefore(RowExtents, q[1]) + j[1] = ExtentBefore(RowExtents, p[1]) + i[1] + o[1] <=>
        q[1] = p[1] + leave[1] /\ j[1] = Enter(i[1], RowExtents[q[1] + 1], o[1], leave[1])
  <2>1. StepsTo(p[1], q[1], i[1], j[1], ExtentBefore(RowExtents, p[1]), ExtentBefore(RowExtents, q[1]),
                RowExtents[p[1] + 1], RowExtents[q[1] + 1], o[1])
    <3>1. RowExtents \in Seq(Nat \ {0})
      BY ExtentsAssumption
    <3> QED BY <1>2, <1>3, <1>4, <3>1, StepAlong, Zenon
  <2> QED BY <1>5, <2>1 DEF StepsTo
<1>10. ExtentBefore(ColExtents, q[2]) + j[2] = ExtentBefore(ColExtents, p[2]) + i[2] + o[2] <=>
        q[2] = p[2] + leave[2] /\ j[2] = Enter(i[2], ColExtents[q[2] + 1], o[2], leave[2])
  <2>1. StepsTo(p[2], q[2], i[2], j[2], ExtentBefore(ColExtents, p[2]), ExtentBefore(ColExtents, q[2]),
                ColExtents[p[2] + 1], ColExtents[q[2] + 1], o[2])
    <3>1. ColExtents \in Seq(Nat \ {0})
      BY ExtentsAssumption
    <3> QED BY <1>2, <1>3, <1>4, <3>1, StepAlong, Zenon
  <2> QED BY <1>5, <2>1 DEF StepsTo
<1>11. q = Plus(p, leave) <=> q[1] = p[1] + leave[1] /\ q[2] = p[2] + leave[2]
  BY <1>2, <1>6
<1>12. ArrayIdxs(x) = Plus(ArrayIdxs(c), o) <=> q = Plus(p, leave) /\ j = EnterOf(q, i, o, leave)
  BY <1>3, <1>7, <1>8, <1>9, <1>10, <1>11
<1> QED BY <1>12 DEF p, i, q, j, leave

(* The cell that is entered is a cell of the partition.                    *)
LEMMA EnterIsCell ==
    ASSUME NEW c \in Cells, NEW o \in Steps,
           Plus(c[1], LeaveOf(c[1], c[2], o)) \in Partitions
    PROVE  LET leave == LeaveOf(c[1], c[2], o)
           IN  EnterOf(Plus(c[1], leave), c[2], o, leave) \in CellsOf(Plus(c[1], leave))
<1> DEFINE p == c[1]
           i == c[2]
           leave == LeaveOf(p, i, o)
           q == Plus(p, leave)
<1>1. p \in Partitions /\ i \in CellsOf(p) /\ q \in Partitions
  BY CellFacts
<1>2. /\ p[1] \in Int /\ p[2] \in Int /\ Extent0(p) \in Int /\ Extent1(p) \in Int
      /\ Extent0(q) \in Nat \ {0} /\ Extent1(q) \in Nat \ {0}
      /\ i[1] \in 0 .. Extent0(p) - 1 /\ i[2] \in 0 .. Extent1(p) - 1
      /\ o[1] \in {-1, 0, 1} /\ o[2] \in {-1, 0, 1}
  BY <1>1, PartitionFacts, IdxsFacts DEF Steps
<1>3. leave[1] = 0 => Extent0(q) = Extent0(p)
  BY <1>2 DEF Plus, Extent0
<1>4. leave[2] = 0 => Extent1(q) = Extent1(p)
  BY <1>2 DEF Plus, Extent1
<1>5. leave[1] = Leave(i[1], Extent0(p), o[1]) /\ leave[2] = Leave(i[2], Extent1(p), o[2])
  BY DEF LeaveOf
<1> HIDE DEF p, i, leave, q
<1>6. Enter(i[1], Extent0(q), o[1], leave[1]) \in 0 .. Extent0(q) - 1
  BY <1>2, <1>3, <1>5 DEF Enter, Leave
<1>7. Enter(i[2], Extent1(q), o[2], leave[2]) \in 0 .. Extent1(q) - 1
  BY <1>2, <1>4, <1>5 DEF Enter, Leave
<1>8. EnterOf(q, i, o, leave) \in CellsOf(q)
  BY <1>6, <1>7 DEF EnterOf, CellsOf
<1> QED BY <1>8 DEF p, i, leave, q

(* The directions are the eight steps away from a cell.                    *)
LEMMA OffsetFacts ==
    /\ \A d \in Directions : Offset[d] \in Steps \ {<<0, 0>>}
    /\ \A d, e \in Directions : Offset[d] = Offset[e] => d = e
    /\ \A o \in Steps \ {<<0, 0>>} : \E d \in Directions : Offset[d] = o
BY DEF Directions, Offset, Steps

(* The reference, in terms of partitions: where a cell flows to.           *)
Leaving(field, c) == LeaveOf(c[1], c[2], Offset[field[c]])

(* The partition that a cell flows into.                                   *)
TargetPartition(field, c) == Plus(c[1], Leaving(field, c))

(* The cell that a cell flows into.                                        *)
Target(field, c) ==
    <<TargetPartition(field, c),
      EnterOf(TargetPartition(field, c), c[2], Offset[field[c]], Leaving(field, c))>>

(* Downstream, defined on the whole array, is the target where there is    *)
(* one.                                                                    *)
LEMMA DownstreamIs ==
    ASSUME NEW field \in [Cells -> FlowValues], NEW c \in Cells
    PROVE  /\ field[c] \notin Directions => Downstream(field)[c] = NoCell
           /\ field[c] \in Directions =>
                /\ TargetPartition(field, c) \in Partitions => Target(field, c) \in Cells
                /\ Downstream(field)[c] = IF TargetPartition(field, c) \in Partitions
                                          THEN Target(field, c) ELSE NoCell
<1> DEFINE to == {x \in Cells : /\ field[c] \in Directions
                               /\ ArrayIdxs(x) = Plus(ArrayIdxs(c), Offset[field[c]])}
           o == Offset[field[c]]
           leave == Leaving(field, c)
           q == TargetPartition(field, c)
           y == Target(field, c)
<1>1. Downstream(field)[c] = IF to = {} THEN NoCell ELSE CHOOSE x \in to : TRUE
  BY Zenon DEF Downstream
<1>2. ASSUME field[c] \notin Directions PROVE Downstream(field)[c] = NoCell
  BY <1>1, <1>2
<1>3. ASSUME field[c] \in Directions
      PROVE  (q \in Partitions => y \in Cells)
             /\ Downstream(field)[c] = IF q \in Partitions THEN y ELSE NoCell
  <2>1. o \in Steps
    BY <1>3, OffsetFacts
  <2>2. leave = LeaveOf(c[1], c[2], o) /\ q = Plus(c[1], leave) /\ y = <<q, EnterOf(q, c[2], o, leave)>>
    BY DEF Leaving, TargetPartition, Target
  <2>3. \A x : x \in to <=> x \in Cells /\ ArrayIdxs(x) = Plus(ArrayIdxs(c), o)
    BY <1>3
  <2> HIDE DEF o, leave, q, y, to
  <2>4. ASSUME NEW x \in Cells PROVE x \in to <=> x[1] = q /\ x[2] = EnterOf(x[1], c[2], o, leave)
    BY <2>1, <2>2, <2>3, StepInArray
  <2>5. CASE q \in Partitions
    <3>1. EnterOf(q, c[2], o, leave) \in CellsOf(q)
      BY <2>1, <2>2, <2>5, EnterIsCell
    <3>2. y \in Cells
      BY <2>2, <2>5, <3>1, CellFacts, Zenon
    <3>3. y[1] = q /\ y[2] = EnterOf(q, c[2], o, leave)
      BY <2>2
    <3>4. \A x \in Cells : x \in to <=> x = y
      BY <2>2, <2>4, <3>3, CellFacts
    <3>5. to = {y}
      BY <2>3, <3>2, <3>4
    <3> QED BY <1>1, <2>5, <3>2, <3>5
  <2>6. CASE q \notin Partitions
    <3>1. to = {}
      BY <2>3, <2>4, <2>6, CellFacts
    <3> QED BY <1>1, <2>6, <3>1
  <2> QED BY <2>5, <2>6
<1> QED BY <1>2, <1>3
-----------------------------------------------------------------------------
(* The parts of a partition, and the neighbour that a border cell flows    *)
(* to.  In a partition of at least two rows and columns every cell is in   *)
(* one part.                                                               *)
AtLeastTwo == \A p \in Partitions : Extent0(p) >= 2 /\ Extent1(p) >= 2

(* At which end of a dimension an index is.                                *)
Side(i, extent) == IF i = 0 THEN -1 ELSE IF i = extent - 1 THEN 1 ELSE 0

(* The part of the partition that a cell is in.                            *)
PartOf(p, idxs) == <<Side(idxs[1], Extent0(p)), Side(idxs[2], Extent1(p))>>

(* The parts do not overlap in a partition of at least two rows and        *)
(* columns.                                                                *)
LEMMA PartUnique ==
    ASSUME AtLeastTwo, NEW p \in Partitions, NEW idxs \in CellsOf(p), NEW part \in Parts
    PROVE  idxs \in PartCells(p, part) <=> part = PartOf(p, idxs)
<1>1. /\ Extent0(p) \in Nat /\ Extent1(p) \in Nat /\ Extent0(p) >= 2 /\ Extent1(p) >= 2
      /\ idxs = <<idxs[1], idxs[2]>>
      /\ idxs[1] \in 0 .. Extent0(p) - 1 /\ idxs[2] \in 0 .. Extent1(p) - 1
  BY PartitionFacts, IdxsFacts DEF AtLeastTwo
<1>2. part = <<part[1], part[2]>> /\ part[1] \in {-1, 0, 1} /\ part[2] \in {-1, 0, 1}
  BY DEF Parts
<1>3. ASSUME NEW extent \in Nat, extent >= 2, NEW i \in 0 .. extent - 1, NEW v \in {-1, 0, 1}
      PROVE  i \in PartIdxs(extent, v) <=> v = Side(i, extent)
  <2>1. CASE v = -1
    <3>1. PartIdxs(extent, v) = {0}
      BY <2>1 DEF PartIdxs
    <3> QED BY <1>3, <2>1, <3>1 DEF Side
  <2>2. CASE v = 1
    <3>1. PartIdxs(extent, v) = {extent - 1}
      BY <2>2 DEF PartIdxs
    <3> QED BY <1>3, <2>2, <3>1 DEF Side
  <2>3. CASE v = 0
    <3>1. PartIdxs(extent, v) = 1 .. extent - 2
      BY <2>3 DEF PartIdxs
    <3> QED BY <1>3, <2>3, <3>1 DEF Side
  <2> QED BY <2>1, <2>2, <2>3
<1>4. idxs \in PartCells(p, part) <=>
        idxs[1] \in PartIdxs(Extent0(p), part[1]) /\ idxs[2] \in PartIdxs(Extent1(p), part[2])
  BY <1>1, Zenon DEF PartCells
<1>5. part = PartOf(p, idxs) <=>
        part[1] = Side(idxs[1], Extent0(p)) /\ part[2] = Side(idxs[2], Extent1(p))
  BY <1>2 DEF PartOf
<1> QED BY <1>1, <1>2, <1>3, <1>4, <1>5

(* The neighbour a flow direction leads to, as the loops, the streams and  *)
(* the lists of output cells decide it.                                    *)
LEMMA LeavesIs ==
    ASSUME AtLeastTwo, NEW p \in Partitions, NEW idxs \in CellsOf(p), NEW d \in Directions
    PROVE  /\ Leaves(PartOf(p, idxs), d) = LeaveOf(p, idxs, Offset[d])
           /\ PartOf(p, idxs) \in Parts
           /\ LeaveOf(p, idxs, Offset[d]) \in Steps
           /\ WithinPartition(p, idxs, d) <=> LeaveOf(p, idxs, Offset[d]) = <<0, 0>>
<1>1. /\ Extent0(p) \in Nat /\ Extent1(p) \in Nat /\ Extent0(p) >= 2 /\ Extent1(p) >= 2
      /\ idxs[1] \in 0 .. Extent0(p) - 1 /\ idxs[2] \in 0 .. Extent1(p) - 1
  BY PartitionFacts, IdxsFacts DEF AtLeastTwo
<1> DEFINE o == Offset[d]
<1>2. o[1] \in {-1, 0, 1} /\ o[2] \in {-1, 0, 1}
  BY OffsetFacts DEF Steps
<1>3. ASSUME NEW extent \in Nat, extent >= 2, NEW i \in 0 .. extent - 1, NEW v \in {-1, 0, 1}
      PROVE  /\ Side(i, extent) \in {-1, 0, 1} /\ Leave(i, extent, v) \in {-1, 0, 1}
             /\ Leave(i, extent, v) = IF Side(i, extent) # 0 /\ v = Side(i, extent)
                                      THEN Side(i, extent) ELSE 0
             /\ Leave(i, extent, v) = 0 <=> ~(v = -1 /\ i = 0) /\ ~(v = 1 /\ i = extent - 1)
  BY <1>3 DEF Side, Leave
<1>4. DownstreamOffset(d) = o
  BY DEF DownstreamOffset
<1> HIDE DEF o
<1>5. /\ Side(idxs[1], Extent0(p)) \in {-1, 0, 1} /\ Leave(idxs[1], Extent0(p), o[1]) \in {-1, 0, 1}
      /\ Leave(idxs[1], Extent0(p), o[1]) =
            IF Side(idxs[1], Extent0(p)) # 0 /\ o[1] = Side(idxs[1], Extent0(p))
            THEN Side(idxs[1], Extent0(p)) ELSE 0
      /\ Leave(idxs[1], Extent0(p), o[1]) = 0 <=>
            ~(o[1] = -1 /\ idxs[1] = 0) /\ ~(o[1] = 1 /\ idxs[1] = Extent0(p) - 1)
  BY <1>1, <1>2, <1>3
<1>6. /\ Side(idxs[2], Extent1(p)) \in {-1, 0, 1} /\ Leave(idxs[2], Extent1(p), o[2]) \in {-1, 0, 1}
      /\ Leave(idxs[2], Extent1(p), o[2]) =
            IF Side(idxs[2], Extent1(p)) # 0 /\ o[2] = Side(idxs[2], Extent1(p))
            THEN Side(idxs[2], Extent1(p)) ELSE 0
      /\ Leave(idxs[2], Extent1(p), o[2]) = 0 <=>
            ~(o[2] = -1 /\ idxs[2] = 0) /\ ~(o[2] = 1 /\ idxs[2] = Extent1(p) - 1)
  BY <1>1, <1>2, <1>3
<1>7. Leaves(PartOf(p, idxs), d) = LeaveOf(p, idxs, o)
  BY <1>5, <1>6 DEF Leaves, PartOf, LeaveOf, o
<1>8. PartOf(p, idxs) \in Parts /\ LeaveOf(p, idxs, o) \in Steps
  BY <1>5, <1>6 DEF PartOf, LeaveOf, Parts, Steps
<1>9. WithinPartition(p, idxs, d) <=> LeaveOf(p, idxs, o) = <<0, 0>>
  BY <1>4, <1>5, <1>6 DEF WithinPartition, LeaveOf
<1> QED BY <1>7, <1>8, <1>9 DEF o

(* Where the material of an output cell is sent.                           *)
LEMMA DestinationIs ==
    ASSUME AtLeastTwo, NEW p \in Partitions, NEW idxs \in CellsOf(p), NEW d \in Directions,
           NEW e \in Directions, LeaveOf(p, idxs, Offset[d]) = Offset[e]
    PROVE  DestinationCell(Extent0(p), Extent1(p), idxs, Offset[d])
                = <<e, InputIdx(e, idxs, Offset[d])>>
<1> DEFINE o == Offset[d]
           v == IF idxs[1] = 0 THEN -1 ELSE IF idxs[1] = Extent0(p) - 1 THEN 1 ELSE 0
           h == IF idxs[2] = 0 THEN -1 ELSE IF idxs[2] = Extent1(p) - 1 THEN 1 ELSE 0
           to == CASE v # 0 /\ h # 0 /\ o[1] * v <= 0 -> <<0, h>>
                   [] v # 0 /\ h # 0 /\ o[1] * v > 0 /\ o[2] * h <= 0 -> <<v, 0>>
                   [] v # 0 /\ h = 0 -> <<v, 0>>
                   [] v = 0 /\ h # 0 -> <<0, h>>
                   [] OTHER -> <<v, h>>
<1>1. Leaves(PartOf(p, idxs), d) = Offset[e]
  BY LeavesIs
<1>2. PartOf(p, idxs) = <<v, h>> /\ v \in {-1, 0, 1} /\ h \in {-1, 0, 1}
  BY DEF PartOf, Side
<1>3. o[1] \in {-1, 0, 1} /\ o[2] \in {-1, 0, 1} /\ Offset[e] # <<0, 0>>
  BY OffsetFacts DEF Steps
<1>4. Offset[e] = <<IF v # 0 /\ o[1] = v THEN v ELSE 0, IF h # 0 /\ o[2] = h THEN h ELSE 0>>
  BY <1>1, <1>2 DEF Leaves
<1>5. DestinationCell(Extent0(p), Extent1(p), idxs, o) =
        <<DirectionOf(to), InputIdx(DirectionOf(to), idxs, o)>>
  BY Zenon DEF DestinationCell
<1> HIDE DEF v, h, o
<1>6. ASSUME NEW a \in {-1, 0, 1}, v = a PROVE to = Offset[e]
  <2>1. CASE a = -1
    BY <1>2, <1>3, <1>4, <1>6, <2>1
  <2>2. CASE a = 0
    BY <1>2, <1>3, <1>4, <1>6, <2>2
  <2>3. CASE a = 1
    BY <1>2, <1>3, <1>4, <1>6, <2>3
  <2> QED BY <2>1, <2>2, <2>3
<1>7. to = Offset[e]
  BY <1>2, <1>6
<1> HIDE DEF to
<1>8. DirectionOf(to) = e
  BY <1>7, OffsetFacts DEF DirectionOf
<1> QED BY <1>5, <1>8 DEF o

-----------------------------------------------------------------------------
(* Channels come in pairs: the channel a partition reads for a neighbour   *)
(* belongs to the neighbour, which reads the other one.                    *)
LEMMA SenderDirectionFacts ==
    \A d \in Directions :
        /\ SenderDirection[d] \in Directions /\ SenderDirection[SenderDirection[d]] = d
        /\ Offset[SenderDirection[d]][1] = -Offset[d][1]
        /\ Offset[SenderDirection[d]][2] = -Offset[d][2]
BY DEF Directions, SenderDirection, Offset

(* The channel a partition reads for a neighbour is a channel of that      *)
(* neighbour, which reads the one of the partition.                        *)
LEMMA ChannelFacts ==
    ASSUME NEW p, NEW d, <<p, d>> \in Channels
    PROVE  /\ p \in Partitions /\ d \in Directions /\ <<p, d>> \in Sides
           /\ Neighbour(p, d) \in Partitions /\ Neighbour(p, d) # p
           /\ Source(p, d) = <<Neighbour(p, d), SenderDirection[d]>>
           /\ Source(p, d) \in Channels
           /\ Neighbour(Neighbour(p, d), SenderDirection[d]) = p
           /\ Source(Neighbour(p, d), SenderDirection[d]) = <<p, d>>
<1> DEFINE q == Neighbour(p, d)
           e == SenderDirection[d]
<1>1. p \in Partitions /\ d \in Directions /\ <<p, d>> \in Sides /\ q \in Partitions
  BY DEF Channels, Sides, HasNeighbour, Neighbour
<1>2. Source(p, d) = <<q, e>>
  BY DEF Source
<1>3. e \in Directions /\ SenderDirection[e] = d /\ Offset[e][1] = -Offset[d][1] /\ Offset[e][2] = -Offset[d][2]
  BY <1>1, SenderDirectionFacts
<1>4. Offset[d][1] \in {-1, 0, 1} /\ Offset[d][2] \in {-1, 0, 1}
      /\ ~(Offset[d][1] = 0 /\ Offset[d][2] = 0)
  <2>1. Offset[d] \in Steps \ {<<0, 0>>}
    BY <1>1, OffsetFacts
  <2> QED BY <2>1 DEF Steps
<1>5. p = <<p[1], p[2]>> /\ p[1] \in Int /\ p[2] \in Int
  BY <1>1, PartitionFacts
<1>6. q = <<p[1] + Offset[d][1], p[2] + Offset[d][2]>>
  BY DEF Neighbour, Plus
<1>7. Neighbour(q, e) = <<q[1] + Offset[e][1], q[2] + Offset[e][2]>>
  BY DEF Neighbour, Plus
<1> HIDE DEF q, e
<1>8. Neighbour(q, e) = p
  BY <1>3, <1>4, <1>5, <1>6, <1>7
<1>9. q # p
  BY <1>4, <1>5, <1>6
<1>10. <<q, e>> \in Channels
  BY <1>1, <1>3, <1>8 DEF Channels, Sides, HasNeighbour, Neighbour
<1>11. Source(q, e) = <<p, d>>
  BY <1>3, <1>8 DEF Source
<1> QED BY <1>1, <1>2, <1>8, <1>9, <1>10, <1>11 DEF q, e

(* The cell that a stream enters, as its sender names it.                  *)
LEMMA EnterIs ==
    ASSUME NEW q, NEW idxs, NEW o, NEW e \in Directions
    PROVE  EnterOf(q, idxs, o, Offset[e]) = IdxToIdxs(q, SenderDirection[e], InputIdx(e, idxs, o))
<1> USE DEF EnterOf, Enter, Offset, IdxToIdxs, SenderDirection, InputIdx
<1>1. CASE e = "north"
  BY <1>1
<1>2. CASE e = "north_east"
  BY <1>2
<1>3. CASE e = "east"
  BY <1>3
<1>4. CASE e = "south_east"
  BY <1>4
<1>5. CASE e = "south"
  BY <1>5
<1>6. CASE e = "south_west"
  BY <1>6
<1>7. CASE e = "west"
  BY <1>7
<1>8. CASE e = "north_west"
  BY <1>8
<1> QED BY <1>1, <1>2, <1>3, <1>4, <1>5, <1>6, <1>7, <1>8 DEF Directions

(* The cells of a partition whose stream leaves for a direction.           *)
Senders(field, p, e) ==
    {idxs \in CellsOf(p) :
        /\ field[<<p, idxs>>] \in Directions
        /\ LeaveOf(p, idxs, Offset[field[<<p, idxs>>]]) = Offset[e]}

(* Every cell flows nowhere, into its own partition, or leaves it.         *)
LEMMA FlowCases ==
    ASSUME AtLeastTwo, NEW field \in [Cells -> FlowValues], NEW p \in Partitions, NEW idxs \in CellsOf(p)
    PROVE  LET c == <<p, idxs>>
               down_ == Downstream(field)[c]
           IN  /\ c \in Cells
               /\ field[c] \notin Directions => down_ = NoCell
               /\ field[c] \in Directions /\ WithinPartition(p, idxs, field[c]) =>
                    /\ down_ = <<p, Plus(idxs, DownstreamOffset(field[c]))>>
                    /\ Plus(idxs, DownstreamOffset(field[c])) \in CellsOf(p)
               /\ field[c] \in Directions /\ ~WithinPartition(p, idxs, field[c]) =>
                    \E e \in Directions : idxs \in Senders(field, p, e)
               /\ \A e \in Directions : idxs \in Senders(field, p, e) =>
                    /\ ~WithinPartition(p, idxs, field[c])
                    /\ DestinationCell(Extent0(p), Extent1(p), idxs, Offset[field[c]])
                            = <<e, InputIdx(e, idxs, Offset[field[c]])>>
                    /\ <<p, e>> \notin Channels => down_ = NoCell
                    /\ <<p, e>> \in Channels =>
                        /\ down_ \in Cells
                        /\ down_ = <<Neighbour(p, e),
                                     IdxToIdxs(Neighbour(p, e), SenderDirection[e],
                                               InputIdx(e, idxs, Offset[field[c]]))>>
<1> DEFINE c == <<p, idxs>>
           down_ == Downstream(field)[c]
           o == Offset[field[c]]
           leave == LeaveOf(p, idxs, o)
           q == TargetPartition(field, c)
<1>1. c \in Cells
  BY CellFacts
<1>2. c[1] = p /\ c[2] = idxs /\ Leaving(field, c) = leave
  BY DEF Leaving
<1>3. /\ q = Plus(p, leave)
      /\ Target(field, c) = <<q, EnterOf(q, idxs, o, leave)>>
  BY <1>2 DEF TargetPartition, Target
<1>4. /\ field[c] \notin Directions => down_ = NoCell
      /\ field[c] \in Directions =>
                /\ q \in Partitions => Target(field, c) \in Cells
                /\ down_ = IF q \in Partitions THEN Target(field, c) ELSE NoCell
  BY <1>1, DownstreamIs
<1>5. p = <<p[1], p[2]>> /\ p[1] \in Int /\ p[2] \in Int
  BY PartitionFacts
<1>6. ASSUME field[c] \in Directions
      PROVE  leave \in Steps /\ (WithinPartition(p, idxs, field[c]) <=> leave = <<0, 0>>)
  BY <1>6, LeavesIs
<1>7. DownstreamOffset(field[c]) = IF field[c] \in Directions THEN o ELSE <<0, 0>>
  BY DEF DownstreamOffset
<1>8. \A e : idxs \in Senders(field, p, e) <=> field[c] \in Directions /\ leave = Offset[e]
  BY DEF Senders
<1> HIDE DEF down_, c, o, leave, q
<1>9. ASSUME field[c] \in Directions, WithinPartition(p, idxs, field[c])
      PROVE  /\ down_ = <<p, Plus(idxs, DownstreamOffset(field[c]))>>
             /\ Plus(idxs, DownstreamOffset(field[c])) \in CellsOf(p)
  <2>1. leave = <<0, 0>>
    BY <1>6, <1>9
  <2>2. q = p
    BY <1>3, <1>5, <2>1 DEF Plus
  <2>3. EnterOf(q, idxs, o, leave) = Plus(idxs, o)
    BY <2>1 DEF EnterOf, Enter, Plus
  <2>4. down_ = <<p, Plus(idxs, o)>> /\ down_ \in Cells
    BY <1>3, <1>4, <1>9, <2>2, <2>3
  <2>5. Plus(idxs, o) \in CellsOf(p)
    BY <2>4, CellFacts
  <2> QED BY <1>7, <1>9, <2>4, <2>5
<1>10. ASSUME field[c] \in Directions, ~WithinPartition(p, idxs, field[c])
       PROVE  \E e \in Directions : idxs \in Senders(field, p, e)
  <2>1. leave \in Steps \ {<<0, 0>>}
    BY <1>6, <1>10
  <2> QED BY <1>8, <1>10, <2>1, OffsetFacts
<1>11. ASSUME NEW e \in Directions, idxs \in Senders(field, p, e)
       PROVE  /\ ~WithinPartition(p, idxs, field[c])
              /\ DestinationCell(Extent0(p), Extent1(p), idxs, o) = <<e, InputIdx(e, idxs, o)>>
              /\ <<p, e>> \notin Channels => down_ = NoCell
              /\ <<p, e>> \in Channels =>
                        /\ down_ \in Cells
                        /\ down_ = <<Neighbour(p, e),
                                     IdxToIdxs(Neighbour(p, e), SenderDirection[e], InputIdx(e, idxs, o))>>
  <2>1. field[c] \in Directions /\ leave = Offset[e] /\ leave # <<0, 0>>
    BY <1>8, <1>11, OffsetFacts
  <2>2. ~WithinPartition(p, idxs, field[c])
    BY <1>6, <2>1
  <2>3. DestinationCell(Extent0(p), Extent1(p), idxs, o) = <<e, InputIdx(e, idxs, o)>>
    BY <2>1, DestinationIs DEF leave, o
  <2>4. q = Neighbour(p, e) /\ (<<p, e>> \in Channels <=> q \in Partitions)
    BY <1>3, <2>1 DEF Neighbour, Channels, Sides, HasNeighbour
  <2>5. EnterOf(q, idxs, o, leave) = IdxToIdxs(q, SenderDirection[e], InputIdx(e, idxs, o))
    BY <2>1, EnterIs
  <2> QED BY <1>3, <1>4, <2>1, <2>2, <2>3, <2>4, <2>5
<1> QED BY <1>1, <1>4, <1>9, <1>10, <1>11 DEF down_, c, o

-----------------------------------------------------------------------------
(* The lists and counts of the connectivity tasks.                         *)
LEMMA CellsFinite ==
    /\ IsFiniteSet(Partitions) /\ IsFiniteSet(Cells)
    /\ \A p \in Partitions : IsFiniteSet(CellsOf(p))
<1>1. Len(RowExtents) \in Nat /\ Len(ColExtents) \in Nat
  BY ExtentsAssumption
<1>2. IsFiniteSet(0 .. Len(RowExtents) - 1) /\ IsFiniteSet(0 .. Len(ColExtents) - 1)
  <2>1. 0 \in Int /\ Len(RowExtents) - 1 \in Int /\ Len(ColExtents) - 1 \in Int
    BY <1>1
  <2> QED BY <2>1, FS_Interval
<1>3. IsFiniteSet(Partitions)
  BY <1>2, FS_Product DEF Partitions
<1>4. ASSUME NEW p \in Partitions PROVE IsFiniteSet(CellsOf(p)) /\ IsFiniteSet({p} \X CellsOf(p))
  <2>1. Extent0(p) - 1 \in Int /\ Extent1(p) - 1 \in Int
    BY PartitionFacts
  <2>2. IsFiniteSet(0 .. Extent0(p) - 1) /\ IsFiniteSet(0 .. Extent1(p) - 1)
    BY <2>1, FS_Interval
  <2>3. IsFiniteSet(CellsOf(p))
    BY <2>2, FS_Product DEF CellsOf
  <2> QED BY <2>3, FS_Product, FS_Singleton
<1>5. IsFiniteSet({{p} \X CellsOf(p) : p \in Partitions})
  <2> DEFINE T == {{p} \X CellsOf(p) : p \in Partitions}
             f == [p \in Partitions |-> {p} \X CellsOf(p)]
  <2>1. f \in [Partitions -> T] /\ \A t \in T : \E p \in Partitions : f[p] = t
    OBVIOUS
  <2>2. f \in Surjection(Partitions, T)
    BY <2>1 DEF Surjection
  <2> QED BY <1>3, <2>2, FS_Surjection
<1>6. IsFiniteSet(Cells)
  BY <1>4, <1>5, FS_UNION DEF Cells
<1> QED BY <1>3, <1>4, <1>6

(* The list of output cells of a border has every cell whose stream leaves *)
(* there once.                                                             *)
LEMMA OutputCellsIs ==
    ASSUME AtLeastTwo, NEW field \in [Cells -> FlowValues], NEW p \in Partitions, NEW e \in Directions
    PROVE  Listing(OutputCells(field, p, e), Senders(field, p, e))
<1> DEFINE E == OutputEntries(field, p, e)
           S == Senders(field, p, e)
           f == [entry \in E |-> entry[2]]
           entries == SetToSeq(E)
           output == [k \in DOMAIN entries |-> entries[k][2]]
<1>1. ASSUME NEW entry
      PROVE  entry \in E <=> entry[2] \in S /\ entry = <<PartOf(p, entry[2]), entry[2]>>
  <2>1. ASSUME entry \in E PROVE entry[2] \in S /\ entry = <<PartOf(p, entry[2]), entry[2]>>
    <3>1. /\ entry = <<entry[1], entry[2]>> /\ entry[1] \in Parts /\ entry[2] \in CellsOf(p)
          /\ entry[2] \in PartCells(p, entry[1])
          /\ field[<<p, entry[2]>>] \in Directions
          /\ Leaves(entry[1], field[<<p, entry[2]>>]) = Offset[e]
      BY <2>1 DEF OutputEntries
    <3>2. entry[1] = PartOf(p, entry[2])
      BY <3>1, PartUnique
    <3>3. LeaveOf(p, entry[2], Offset[field[<<p, entry[2]>>]]) = Offset[e]
      BY <3>1, <3>2, LeavesIs
    <3> QED BY <3>1, <3>2, <3>3 DEF Senders
  <2>2. ASSUME entry[2] \in S, entry = <<PartOf(p, entry[2]), entry[2]>> PROVE entry \in E
    <3> DEFINE part == PartOf(p, entry[2])
               d == field[<<p, entry[2]>>]
    <3>1. entry[2] \in CellsOf(p) /\ d \in Directions /\ LeaveOf(p, entry[2], Offset[d]) = Offset[e]
      BY <2>2 DEF Senders
    <3>2. Leaves(part, d) = Offset[e] /\ part \in Parts
      BY <3>1, LeavesIs
    <3>3. part # <<0, 0>>
      <4>1. Leaves(<<0, 0>>, d) = <<0, 0>>
        BY DEF Leaves
      <4> QED BY <3>2, <4>1, OffsetFacts
    <3>4. entry[2] \in PartCells(p, part)
      BY <3>1, <3>2, PartUnique
    <3>5. entry[1] = part
      BY <2>2
    <3> HIDE DEF part
    <3> QED BY <2>2, <3>1, <3>2, <3>3, <3>4, <3>5 DEF OutputEntries, part
  <2> QED BY <2>1, <2>2
<1> HIDE DEF E
<1>2. f \in [E -> S]
  BY <1>1
<1>3. \A x, y \in E : f[x] = f[y] => x = y
  BY <1>1
<1>4. \A i \in S : \E entry \in E : f[entry] = i
  <2> SUFFICES ASSUME NEW i \in S PROVE \E entry \in E : f[entry] = i
    OBVIOUS
  <2>1. <<PartOf(p, i), i>> \in E
    BY <1>1
  <2> QED BY <2>1
<1>5. IsFiniteSet(E)
  <2>1. IsFiniteSet(S)
    BY CellsFinite, FS_Subset DEF Senders
  <2>2. f \in Injection(E, S)
    BY <1>2, <1>3 DEF Injection, IsInjective
  <2> QED BY <2>1, <2>2, FS_Injection
<1>6. Listing(entries, E)
  BY <1>5, ListingOfSet
<1>7. OutputCells(field, p, e) = output
  BY Zenon DEF OutputCells, E
<1> HIDE DEF entries
<1>8. entries \in Seq(E) /\ Len(entries) \in Nat /\ DOMAIN entries = 1 .. Len(entries)
      /\ \A k \in 1 .. Len(entries) : entries[k] \in E
  BY <1>6, ListingFacts
<1>9. \A k \in 1 .. Len(entries) : output[k] = f[entries[k]] /\ output[k] \in S
  BY <1>2, <1>8
<1>10. output \in [1 .. Len(entries) -> S]
  BY <1>8, <1>9
<1> HIDE DEF output, f, S
<1>11. output \in Seq(S) /\ DOMAIN output = 1 .. Len(entries)
  BY <1>8, <1>10, SeqDef
<1>12. \A i, j \in DOMAIN output : output[i] = output[j] => i = j
  BY <1>3, <1>6, <1>8, <1>9, <1>11 DEF Listing
<1>13. \A x \in S : \E k \in DOMAIN output : output[k] = x
  BY <1>4, <1>6, <1>8, <1>9, <1>11 DEF Listing
<1>14. Listing(output, S)
  BY <1>11, <1>12, <1>13 DEF Listing
<1> QED BY <1>7, <1>14 DEF S

(* The cells of a partition that flow into a cell of it.                   *)
LocalUpstream(field, p, idxs) ==
    {i \in CellsOf(p) : Downstream(field)[<<p, i>>] = <<p, idxs>>}

(* Part by part, a partition counts the cells of its own that flow into a  *)
(* cell.                                                                   *)
LEMMA PartitionInflowCountIs ==
    ASSUME AtLeastTwo, NEW field \in [Cells -> FlowValues], NEW p \in Partitions,
           NEW idxs \in CellsOf(p)
    PROVE  PartitionInflowCount(field, p, idxs) = Cardinality(LocalUpstream(field, p, idxs))
<1> DEFINE E == {entry \in Parts \X CellsOf(p) :
                    /\ entry[2] \in PartCells(p, entry[1])
                    /\ field[<<p, entry[2]>>] \in Directions
                    /\ Leaves(entry[1], field[<<p, entry[2]>>]) = <<0, 0>>
                    /\ Plus(entry[2], Offset[field[<<p, entry[2]>>]]) = idxs}
           S == LocalUpstream(field, p, idxs)
           f == [entry \in E |-> entry[2]]
<1>1. ASSUME NEW i \in CellsOf(p)
      PROVE  i \in S <=> /\ field[<<p, i>>] \in Directions
                         /\ Leaves(PartOf(p, i), field[<<p, i>>]) = <<0, 0>>
                         /\ Plus(i, Offset[field[<<p, i>>]]) = idxs
  <2> DEFINE d == field[<<p, i>>]
             x == Downstream(field)[<<p, i>>]
  <2>1. i \in S <=> x = <<p, idxs>>
    BY DEF LocalUpstream
  <2>2. d \notin Directions => x = NoCell
    BY FlowCases
  <2>3. d \in Directions => (WithinPartition(p, i, d) <=> Leaves(PartOf(p, i), d) = <<0, 0>>)
    BY LeavesIs
  <2>4. d \in Directions /\ WithinPartition(p, i, d) => x = <<p, Plus(i, DownstreamOffset(d))>>
    BY FlowCases
  <2>5. d \in Directions /\ ~WithinPartition(p, i, d) => x = NoCell \/ x[1] # p
    <3> SUFFICES ASSUME d \in Directions, ~WithinPartition(p, i, d) PROVE x = NoCell \/ x[1] # p
      OBVIOUS
    <3>1. PICK e \in Directions : i \in Senders(field, p, e)
      BY FlowCases
    <3>2. <<p, e>> \notin Channels => x = NoCell
      BY <3>1, FlowCases
    <3>3. <<p, e>> \in Channels => x[1] = Neighbour(p, e)
      BY <3>1, FlowCases
    <3> QED BY <3>2, <3>3, ChannelFacts
  <2>6. NoCell # <<p, idxs>>
    BY DEF NoCell
  <2>7. d \in Directions => DownstreamOffset(d) = Offset[d]
    BY DEF DownstreamOffset
  <2> HIDE DEF x, d, S
  <2>8. CASE d \in Directions /\ WithinPartition(p, i, d)
    <3>1. x = <<p, Plus(i, Offset[d])>>
      BY <2>4, <2>7, <2>8
    <3>2. x = <<p, idxs>> <=> Plus(i, Offset[d]) = idxs
      BY <3>1
    <3> QED BY <2>1, <2>3, <2>8, <3>2 DEF d
  <2>9. CASE ~(d \in Directions /\ WithinPartition(p, i, d))
    <3>1. x # <<p, idxs>>
      BY <2>2, <2>5, <2>6, <2>9
    <3> QED BY <2>1, <2>3, <2>9, <3>1 DEF d
  <2> QED BY <2>8, <2>9
<1>2. ASSUME NEW entry
      PROVE  entry \in E <=> entry[2] \in S /\ entry = <<PartOf(p, entry[2]), entry[2]>>
  <2>1. ASSUME entry \in E PROVE entry[2] \in S /\ entry = <<PartOf(p, entry[2]), entry[2]>>
    <3>1. /\ entry = <<entry[1], entry[2]>> /\ entry[1] \in Parts /\ entry[2] \in CellsOf(p)
          /\ entry[2] \in PartCells(p, entry[1])
      BY <2>1
    <3>2. entry[1] = PartOf(p, entry[2])
      BY <3>1, PartUnique
    <3> HIDE DEF S
    <3> QED BY <1>1, <2>1, <3>1, <3>2
  <2>2. ASSUME entry[2] \in S, entry = <<PartOf(p, entry[2]), entry[2]>> PROVE entry \in E
    <3>1. entry[2] \in CellsOf(p)
      BY <2>2 DEF LocalUpstream
    <3> DEFINE part == PartOf(p, entry[2])
               d == field[<<p, entry[2]>>]
    <3>2. d \in Directions /\ Leaves(part, d) = <<0, 0>> /\ Plus(entry[2], Offset[d]) = idxs
      BY <1>1, <2>2, <3>1
    <3>3. part \in Parts
      BY <3>1, <3>2, LeavesIs
    <3>4. entry[2] \in PartCells(p, part)
      BY <3>1, <3>3, PartUnique
    <3>5. entry[1] = part
      BY <2>2
    <3> HIDE DEF part
    <3> QED BY <2>2, <3>1, <3>2, <3>3, <3>4, <3>5 DEF part
  <2> QED BY <2>1, <2>2
<1>3. PartitionInflowCount(field, p, idxs) = Cardinality(E)
  BY Zenon DEF PartitionInflowCount
<1> HIDE DEF E, S
<1>4. f \in [E -> S]
  BY <1>2
<1>5. \A x, y \in E : f[x] = f[y] => x = y
  BY <1>2
<1>6. \A i \in S : \E entry \in E : f[entry] = i
  <2> SUFFICES ASSUME NEW i \in S PROVE \E entry \in E : f[entry] = i
    OBVIOUS
  <2>1. <<PartOf(p, i), i>> \in E
    BY <1>2
  <2> QED BY <2>1
<1> HIDE DEF f
<1>7. f \in Bijection(E, S)
  BY <1>4, <1>5, <1>6 DEF Bijection, Injection, Surjection, IsInjective
<1>8. IsFiniteSet(S)
  BY CellsFinite, FS_Subset DEF S, LocalUpstream
<1>9. IsFiniteSet(E)
  BY <1>7, <1>8, FS_Injection DEF Bijection
<1> QED BY <1>3, <1>7, <1>9, SameCount DEF S

-----------------------------------------------------------------------------
(* The inductive invariant.  It relates what is known in every partition   *)
(* and what is on its way in every channel to the cells that were entered  *)
(* (solved) and those whose outflow has arrived (delivered).               *)

FlowInv ==
    /\ flow \in [Cells -> FlowValues]
    /\ external \in [Cells -> Nat \cup {NoData}]
    /\ down = Downstream(flow)
    /\ \A c \in Cells : down[c] # NoCell => flow[down[c]] # "no_data"

(* Lists of cells, one per side of a partition.                            *)
ListsOfSides == {lists \in [Sides -> Seq(Nat \X Nat)] : \A s \in Sides : lists[s] \in Seq(CellsOf(s[1]))}

(* The types of the variables, in the form the steps of the proof use.     *)
TypeInv ==
    /\ phase \in [Partitions -> {"connect", "count", "intra", "inter", "done"}]
    /\ inflowChannel \in [Channels -> Seq(Seq(Int))]
    /\ inputReady \subseteq Sides
    /\ inputCells \in ListsOfSides /\ outputCells \in ListsOfSides /\ awaited \in ListsOfSides
    /\ inflowCount \in [Cells -> Int]
    /\ outflow \in [Cells -> Nat \cup {NoData}]
    /\ ridges \in [Partitions -> SUBSET (Nat \X Nat)]
    /\ \A p \in Partitions : ridges[p] \subseteq CellsOf(p)
    /\ stream \in [Partitions -> (Nat \X Nat) \cup {Idle}]
    /\ \A p \in Partitions : stream[p] \in CellsOf(p) \cup {Idle}
    /\ material \in [Channels -> Seq(Int \X (Nat \cup {NoData}) \X Cells)]
    /\ closed \subseteq Channels
    /\ solved \subseteq Cells
    /\ delivered \subseteq solved

(* A partition that has not counted its inflow does nothing else yet.      *)
Counted == {"intra", "inter", "done"}

(* What a partition has done depends on the task it is at.                 *)
StageInv(p) ==
    /\ phase[p] \notin Counted =>
        /\ stream[p] = Idle /\ ridges[p] = {}
        /\ \A c \in solved : c[1] # p
        /\ \A x \in delivered : down[x][1] # p
    /\ phase[p] = "connect" => \A d \in Directions : <<p, d>> \notin inputReady
    /\ phase[p] \in Counted => \A d \in Directions : <<p, d>> \in inputReady
    /\ phase[p] \in {"inter", "done"} => ridges[p] = {}
    /\ phase[p] = "done" => stream[p] = Idle /\ \A d \in Directions : awaited[<<p, d>>] = <<>>

(* The list of input cells that p gets from the neighbour at d: it is not  *)
(* sent, on its way, received but not ended, or received.                  *)
Listed(ch) == OutputCells(flow, ch[1], ch[2])

(* The names its neighbour gets for them.                                  *)
NamesOf(ch) == InputIdxs(flow, ch[1], ch[2], Listed(ch))

(* The cells of partition p that these names stand for.                    *)
Named(p, d) ==
    [k \in DOMAIN NamesOf(Source(p, d)) |-> IdxToIdxs(p, d, NamesOf(Source(p, d))[k])]

(* How far the list of input cells has come.                               *)
ListInv(p, d) ==
    LET ch == Source(p, d)
    IN  /\ <<p, d>> \notin Channels => inputCells[<<p, d>>] = <<>> /\ awaited[<<p, d>>] = <<>>
        /\ <<p, d>> \in Channels =>
            \/ /\ phase[ch[1]] = "connect"
               /\ inflowChannel[ch] = <<>> /\ inputCells[<<p, d>>] = <<>>
               /\ <<p, d>> \notin inputReady
            \/ /\ phase[ch[1]] # "connect" /\ NamesOf(ch) # <<>>
               /\ inflowChannel[ch] = <<NamesOf(ch), <<>> >> /\ inputCells[<<p, d>>] = <<>>
               /\ <<p, d>> \notin inputReady
            \/ /\ phase[ch[1]] # "connect"
               /\ inflowChannel[ch] = << <<>> >> /\ inputCells[<<p, d>>] = Named(p, d)
               /\ <<p, d>> \notin inputReady
            \/ /\ phase[ch[1]] # "connect"
               /\ inflowChannel[ch] = <<>> /\ inputCells[<<p, d>>] = Named(p, d)
               /\ <<p, d>> \in inputReady

(* The cells whose stream leaves over ch are still listed, or their        *)
(* material is on its way, or it was delivered.                            *)
SendersOf(ch) == Senders(flow, ch[1], ch[2])

(* The cells still to send, and those that are on their way.               *)
Unsolved(ch) == {idxs \in SendersOf(ch) : <<ch[1], idxs>> \notin solved}

(* The cells sent over ch that have not arrived.                           *)
Sent(ch) == {idxs \in SendersOf(ch) : <<ch[1], idxs>> \in solved \ delivered}

(* The cells the material in ch is from.                                   *)
Origins(ch) == [k \in DOMAIN material[ch] |-> material[ch][k][3][2]]

(* The message that carries the outflow of a cell.                         *)
Material(ch, idxs) ==
    <<InputIdx(ch[2], idxs, Offset[flow[<<ch[1], idxs>>]]), outflow[<<ch[1], idxs>>], <<ch[1], idxs>> >>

(* The list of output cells has the cells still to send, each once.        *)
OutputInv(s) ==
    phase[s[1]] # "connect" => Listing(outputCells[s], Unsolved(s))

(* The channel holds one message for each cell on its way; when it is      *)
(* closed there is nothing left to send.                                   *)
SentInv(ch) ==
    /\ Listing(Origins(ch), Sent(ch))
    /\ \A k \in DOMAIN material[ch] : material[ch][k] = Material(ch, Origins(ch)[k])
    /\ ch \in closed => phase[ch[1]] # "connect" /\ outputCells[ch] = <<>>

(* A partition that has counted knows what each cell awaits.               *)
CountInv(c) ==
    IF phase[c[1]] \in Counted THEN inflowCount[c] = Cardinality(UpstreamOf(c) \ delivered)
    ELSE inflowCount[c] = 0

(* Everything has come in for the cell a stream is at, and for a ridge     *)
(* nothing is to come.                                                     *)
StreamInv(p) ==
    /\ stream[p] # Idle =>
        /\ phase[p] \in {"intra", "inter"} /\ flow[<<p, stream[p]>>] # "no_data"
        /\ UpstreamOf(<<p, stream[p]>>) \subseteq delivered
        /\ <<p, stream[p]>> \notin solved /\ stream[p] \notin ridges[p]
    /\ \A idxs \in ridges[p] :
        /\ flow[<<p, idxs>>] # "no_data" /\ UpstreamOf(<<p, idxs>>) = {}
        /\ <<p, idxs>> \notin solved

(* Cells are entered after all upstream, and leave what they gathered.     *)
SolvedInv ==
    /\ \A c \in solved :
        /\ flow[c] # "no_data" /\ UpstreamOf(c) \subseteq delivered
        /\ down[c] # NoCell /\ down[c][1] = c[1] => c \in delivered
    /\ \A x \in delivered : down[x] # NoCell

(* The inductive invariant.                                                *)
Inv ==
    /\ FlowInv /\ TypeInv
    /\ \A p \in Partitions : StageInv(p)
    /\ \A p \in Partitions, d \in Directions : ListInv(p, d)
    /\ \A s \in Sides : OutputInv(s)
    /\ \A ch \in Channels : SentInv(ch)
    /\ \A c \in Cells : CountInv(c)
    /\ \A p \in Partitions : StreamInv(p)
    /\ SolvedInv

(* What the readers still expect.                                          *)
Outstanding(ch) == {idxs \in SendersOf(ch) : <<ch[1], idxs>> \notin delivered}

(* The cells among S that flow into the cell idxs of the reader.           *)
Naming(ch, S, idxs) == {i \in S : down[<<ch[1], i>>][2] = idxs}

(* The list cells names a cell for each cell that did not deliver yet.     *)
Serves(cells, p, d) ==
    LET ch == Source(p, d)
    IN  /\ Len(cells) = Cardinality(Outstanding(ch))
        /\ \A idxs \in CellsOf(p) :
            Count(cells, idxs) = Cardinality(Naming(ch, Outstanding(ch), idxs))

(* The reader of a channel awaits what has not been delivered over it.     *)
AwaitInv(p, d) == <<p, d>> \in Channels \cap inputReady => Serves(Expecting(p, d), p, d)

(* A channel is closed when the last output cell was sent.                 *)
ClosedInv ==
    \A ch \in Channels :
        phase[ch[1]] # "connect" /\ outputCells[ch] = <<>> /\ Listed(ch) # <<>> => ch \in closed

(* A cell for which everything came in is entered, or about to be.         *)
Started(c) == c[2] \in ridges[c[1]] \/ stream[c[1]] = c[2]

(* Once its partition has counted, no cell is forgotten.                   *)
ReadyInv(c) ==
    /\ flow[c] # "no_data" /\ phase[c[1]] \in Counted
    /\ c \notin solved /\ UpstreamOf(c) \subseteq delivered
    => Started(c)

(* What the end of a run rests on.                                         *)
EndInv == ClosedInv /\ \A c \in Cells : ReadyInv(c)

(* What is gathered from cells S, given the outflow f of each, and what a  *)
(* cell has: all that was delivered to it.                                 *)
SumOf(base, f, S) == FoldFunctionOnSet(AddMaterial, base, f, S)

(* The cells whose outflow reached c.                                      *)
Arrived(c) == UpstreamOf(c) \cap delivered

(* The outflow of a cell is what arrived, and the external inflow once it  *)
(* was entered.                                                            *)
SumInv(c) ==
    flow[c] # "no_data" =>
        outflow[c] = SumOf(IF c \in solved THEN external[c] ELSE 0, outflow, Arrived(c))

(* It is so for all cells.                                                 *)
Sums == \A c \in Cells : SumInv(c)

-----------------------------------------------------------------------------
(* What the flow directions say about the state.                           *)
LEMMA SenderFlow ==
    ASSUME AtLeastTwo, FlowInv, NEW p, NEW d, <<p, d>> \in Channels,
           NEW idxs \in SendersOf(Source(p, d))
    PROVE  LET ch == Source(p, d)
               x == <<ch[1], idxs>>
           IN  /\ x \in Cells /\ idxs \in CellsOf(ch[1]) /\ flow[x] \in Directions
               /\ down[x] \in Cells /\ down[x][1] = p /\ down[x] # NoCell /\ ch[1] # p
               /\ down[x][2] = IdxToIdxs(p, d, InputIdx(ch[2], idxs, Offset[flow[x]]))
<1> DEFINE ch == Source(p, d)
           x == <<ch[1], idxs>>
<1>1. /\ p \in Partitions /\ d \in Directions /\ ch = <<Neighbour(p, d), SenderDirection[d]>>
      /\ ch \in Channels /\ Neighbour(Neighbour(p, d), SenderDirection[d]) = p
      /\ Neighbour(p, d) # p /\ Neighbour(p, d) \in Partitions
  BY ChannelFacts
<1>2. ch[1] \in Partitions /\ ch[2] \in Directions /\ ch = <<ch[1], ch[2]>> /\ ch[1] # p
      /\ Neighbour(ch[1], ch[2]) = p /\ SenderDirection[ch[2]] = d
  BY <1>1, SenderDirectionFacts
<1>3. idxs \in Senders(flow, ch[1], ch[2])
  BY DEF SendersOf
<1>4. idxs \in CellsOf(ch[1]) /\ flow[x] \in Directions
  BY <1>3 DEF Senders
<1>5. flow \in [Cells -> FlowValues] /\ down = Downstream(flow)
  BY DEF FlowInv
<1> HIDE DEF ch
<1>6. x \in Cells /\ down[x] \in Cells
      /\ down[x] = <<Neighbour(ch[1], ch[2]),
                     IdxToIdxs(Neighbour(ch[1], ch[2]), SenderDirection[ch[2]],
                               InputIdx(ch[2], idxs, Offset[flow[x]]))>>
  BY <1>1, <1>2, <1>3, <1>4, <1>5, FlowCases
<1>7. down[x] # NoCell
  BY <1>6 DEF NoCell
<1> QED BY <1>2, <1>4, <1>6, <1>7 DEF ch

(* A cell that flows into another partition is one of the senders of a     *)
(* channel that is read there.                                             *)
LEMMA RemoteFlow ==
    ASSUME AtLeastTwo, FlowInv, NEW x \in Cells, down[x] # NoCell, down[x][1] # x[1]
    PROVE  \E d \in Directions :
                /\ <<down[x][1], d>> \in Channels
                /\ x[1] = Source(down[x][1], d)[1]
                /\ x[2] \in SendersOf(Source(down[x][1], d))
<1>1. flow \in [Cells -> FlowValues] /\ down = Downstream(flow)
  BY DEF FlowInv
<1>2. x = <<x[1], x[2]>> /\ x[1] \in Partitions /\ x[2] \in CellsOf(x[1])
  BY CellFacts
<1>3. flow[x] \in Directions /\ ~WithinPartition(x[1], x[2], flow[x])
  <2>1. flow[x] \notin Directions => down[x] = NoCell
    BY <1>1, <1>2, FlowCases
  <2>2. flow[x] \in Directions /\ WithinPartition(x[1], x[2], flow[x]) => down[x][1] = x[1]
    BY <1>1, <1>2, FlowCases
  <2> QED BY <2>1, <2>2
<1>4. PICK e \in Directions : x[2] \in Senders(flow, x[1], e)
  BY <1>1, <1>2, <1>3, FlowCases
<1>5. <<x[1], e>> \in Channels
  BY <1>1, <1>2, <1>4, FlowCases
<1>6. down[x][1] = Neighbour(x[1], e)
  BY <1>1, <1>2, <1>4, <1>5, FlowCases
<1> DEFINE p == Neighbour(x[1], e)
           d == SenderDirection[e]
<1>7. <<p, d>> \in Channels /\ Source(p, d) = <<x[1], e>> /\ d \in Directions
  <2>1. Source(x[1], e) = <<p, d>> /\ Source(x[1], e) \in Channels /\ Source(p, d) = <<x[1], e>>
    BY <1>5, ChannelFacts
  <2> QED BY <2>1, SenderDirectionFacts
<1>8. x[2] \in SendersOf(Source(p, d))
  BY <1>4, <1>7 DEF SendersOf
<1> QED BY <1>6, <1>7, <1>8

(* A cell that flows within its partition is no sender.                    *)
LEMMA LocalFlow ==
    ASSUME AtLeastTwo, FlowInv, NEW p \in Partitions, NEW idxs \in CellsOf(p),
           WithinPartition(p, idxs, flow[<<p, idxs>>])
    PROVE  /\ \A e \in Directions : idxs \notin SendersOf(<<p, e>>)
           /\ flow[<<p, idxs>>] \in Directions =>
                /\ down[<<p, idxs>>] = <<p, Plus(idxs, DownstreamOffset(flow[<<p, idxs>>]))>>
                /\ Plus(idxs, DownstreamOffset(flow[<<p, idxs>>])) \in CellsOf(p)
           /\ flow[<<p, idxs>>] \notin Directions => down[<<p, idxs>>] = NoCell
<1>1. flow \in [Cells -> FlowValues] /\ down = Downstream(flow)
  BY DEF FlowInv
<1>2. \A e \in Directions : SendersOf(<<p, e>>) = Senders(flow, p, e)
  BY DEF SendersOf
<1>3. \A e \in Directions : idxs \notin Senders(flow, p, e)
  BY <1>1, FlowCases
<1> QED BY <1>1, <1>2, <1>3, FlowCases

(* Each cell has at most eight others upstream.                            *)
LEMMA UpstreamBound ==
    ASSUME FlowInv, NEW c \in Cells
    PROVE  /\ IsFiniteSet(UpstreamOf(c))
           /\ Cardinality(UpstreamOf(c)) \in 0 .. 8
           /\ UpstreamOf(c) \subseteq Cells
<1> DEFINE U == UpstreamOf(c)
           f == [x \in U |-> flow[x]]
<1>1. flow \in [Cells -> FlowValues] /\ down = Downstream(flow)
  BY DEF FlowInv
<1>2. \A x \in U : x \in Cells /\ down[x] = c
  BY DEF UpstreamOf
<1>3. c # NoCell
  BY CellFacts DEF NoCell
<1>4. ASSUME NEW x \in U
      PROVE  flow[x] \in Directions /\ ArrayIdxs(c) = Plus(ArrayIdxs(x), Offset[flow[x]])
  <2> DEFINE to == {y \in Cells : /\ flow[x] \in Directions
                                 /\ ArrayIdxs(y) = Plus(ArrayIdxs(x), Offset[flow[x]])}
  <2>1. Downstream(flow)[x] = IF to = {} THEN NoCell ELSE CHOOSE y \in to : TRUE
    BY <1>2, Zenon DEF Downstream
  <2>2. c \in to
    BY <1>1, <1>2, <1>3, <2>1
  <2> QED BY <2>2
<1>5. ASSUME NEW x \in U, NEW y \in U, flow[x] = flow[y] PROVE x = y
  <2>1. /\ x \in Cells /\ y \in Cells
        /\ ArrayIdxs(c) = Plus(ArrayIdxs(x), Offset[flow[x]])
        /\ ArrayIdxs(c) = Plus(ArrayIdxs(y), Offset[flow[x]])
    BY <1>2, <1>4, <1>5
  <2>2. Offset[flow[x]][1] \in Int /\ Offset[flow[x]][2] \in Int
    BY <1>4, OffsetFacts DEF Steps
  <2>3. \A z \in Cells : ArrayIdxs(z) = <<ArrayIdxs(z)[1], ArrayIdxs(z)[2]>>
                        /\ ArrayIdxs(z)[1] \in Int /\ ArrayIdxs(z)[2] \in Int
    <3> SUFFICES ASSUME NEW z \in Cells
                 PROVE  ArrayIdxs(z) = <<ArrayIdxs(z)[1], ArrayIdxs(z)[2]>>
                        /\ ArrayIdxs(z)[1] \in Int /\ ArrayIdxs(z)[2] \in Int
      OBVIOUS
    <3>1. z[1] \in Partitions /\ z[2] \in CellsOf(z[1])
      BY CellFacts
    <3>2. ExtentBefore(RowExtents, z[1][1]) \in Nat /\ ExtentBefore(ColExtents, z[1][2]) \in Nat
      BY <3>1, PartitionFacts, ExtentBeforeNext, ExtentsAssumption
    <3>3. z[2][1] \in Int /\ z[2][2] \in Int
      BY <3>1, IdxsFacts, PartitionFacts
    <3> QED BY <3>2, <3>3 DEF ArrayIdxs, Plus
  <2>4. ArrayIdxs(x) = Plus(ArrayIdxs(y), <<0, 0>>)
    <3> DEFINE ax == ArrayIdxs(x)
               ay == ArrayIdxs(y)
               o == Offset[flow[x]]
    <3>1. /\ ax = <<ax[1], ax[2]>> /\ ax[1] \in Int /\ ax[2] \in Int
          /\ ay = <<ay[1], ay[2]>> /\ ay[1] \in Int /\ ay[2] \in Int
      BY <2>1, <2>3
    <3>2. o[1] \in Int /\ o[2] \in Int /\ Plus(ax, o) = Plus(ay, o)
      BY <2>1, <2>2
    <3> HIDE DEF ax, ay, o
    <3>3. ax = Plus(ay, <<0, 0>>)
      BY <3>1, <3>2 DEF Plus
    <3> QED BY <3>3 DEF ax, ay
  <2>5. LeaveOf(y[1], y[2], <<0, 0>>) = <<0, 0>>
    BY DEF LeaveOf, Leave
  <2>6. x[1] = Plus(y[1], <<0, 0>>) /\ x[2] = EnterOf(x[1], y[2], <<0, 0>>, <<0, 0>>)
    <3>1. <<0, 0>> \in Steps
      BY DEF Steps
    <3> QED BY <2>1, <2>4, <2>5, <3>1, StepInArray
  <2>7. /\ y[1] = <<y[1][1], y[1][2]>> /\ y[1][1] \in Int /\ y[1][2] \in Int
        /\ y[2] = <<y[2][1], y[2][2]>> /\ y[2][1] \in Int /\ y[2][2] \in Int
    <3>1. y[1] \in Partitions /\ y[2] \in CellsOf(y[1])
      BY <2>1, CellFacts
    <3> QED BY <3>1, PartitionFacts, IdxsFacts
  <2>8. x[1] = y[1] /\ x[2] = y[2]
    BY <2>6, <2>7 DEF Plus, EnterOf, Enter
  <2> QED BY <2>1, <2>8, CellFacts
<1>6. IsFiniteSet(Directions) /\ Cardinality(Directions) \in 0 .. 8
  <2> DEFINE f8 == [i \in 1 .. 8 |-> CASE i = 1 -> "north" [] i = 2 -> "north_east" [] i = 3 -> "east"
                                      [] i = 4 -> "south_east" [] i = 5 -> "south"
                                      [] i = 6 -> "south_west" [] i = 7 -> "west"
                                      [] i = 8 -> "north_west"]
  <2>1. f8 \in Surjection(1 .. 8, Directions)
    <3>1. f8 \in [1 .. 8 -> Directions]
      BY DEF Directions
    <3>2. /\ f8[1] = "north" /\ f8[2] = "north_east" /\ f8[3] = "east" /\ f8[4] = "south_east"
          /\ f8[5] = "south" /\ f8[6] = "south_west" /\ f8[7] = "west" /\ f8[8] = "north_west"
      OBVIOUS
    <3>3. \A d \in Directions : \E i \in 1 .. 8 : f8[i] = d
      BY <3>2 DEF Directions
    <3> QED BY <3>1, <3>3 DEF Surjection
  <2>2. IsFiniteSet(1 .. 8) /\ Cardinality(1 .. 8) = 8
    <3>1. 1 \in Int /\ 8 \in Int /\ ~(1 > 8) /\ 8 - 1 + 1 = 8
      OBVIOUS
    <3>2. /\ IsFiniteSet(1 .. 8)
          /\ Cardinality(1 .. 8) = IF 1 > 8 THEN 0 ELSE 8 - 1 + 1
      BY <3>1, FS_Interval, Zenon
    <3> QED BY <3>1, <3>2, Zenon
  <2>3. IsFiniteSet(Directions) /\ Cardinality(Directions) <= 8
    BY <2>1, <2>2, FS_Surjection
  <2> QED BY <2>3, FS_CardinalityType
<1>7. f \in Injection(U, Directions)
  BY <1>4, <1>5 DEF Injection, IsInjective
<1>8. IsFiniteSet(U) /\ Cardinality(U) <= Cardinality(Directions)
  BY <1>6, <1>7, FS_Injection
<1>9. Cardinality(U) \in Nat
  BY <1>8, FS_CardinalityType
<1> QED BY <1>2, <1>6, <1>8, <1>9

(* The names sent over a channel are numbers, and name the cells the       *)
(* senders flow into.                                                      *)
LEMMA InputIdxType ==
    ASSUME NEW p \in Partitions, NEW idxs \in CellsOf(p), NEW d \in Directions, NEW e
    PROVE  InputIdx(e, idxs, Offset[d]) \in Int
<1>1. idxs[1] \in Int /\ idxs[2] \in Int
  BY PartitionFacts, IdxsFacts
<1>2. Offset[d][1] \in Int /\ Offset[d][2] \in Int
  BY OffsetFacts DEF Steps
<1> QED BY <1>1, <1>2 DEF InputIdx

(* The list sent over a channel has one name for every cell that leaves    *)
(* over it, and the reader finds the cells these flow into.                *)
LEMMA NamedFacts ==
    ASSUME AtLeastTwo, FlowInv, NEW p, NEW d, <<p, d>> \in Channels
    PROVE  LET ch == Source(p, d)
           IN  /\ Listing(Listed(ch), SendersOf(ch))
               /\ DOMAIN NamesOf(ch) = DOMAIN Listed(ch) /\ DOMAIN Named(p, d) = DOMAIN Listed(ch)
               /\ NamesOf(ch) \in Seq(Int) /\ Named(p, d) \in Seq(CellsOf(p))
               /\ \A k \in DOMAIN Listed(ch) : Named(p, d)[k] = down[<<ch[1], Listed(ch)[k]>>][2]
               /\ Named(p, d) = <<>> <=> NamesOf(ch) = <<>>
               /\ NamesOf(ch) = <<>> <=> Listed(ch) = <<>>
<1> DEFINE ch == Source(p, d)
           n == Len(Listed(ch))
<1>1. /\ p \in Partitions /\ d \in Directions /\ ch \in Channels
      /\ ch = <<Neighbour(p, d), SenderDirection[d]>>
  BY ChannelFacts
<1>2. ch[1] \in Partitions /\ ch[2] \in Directions
  BY <1>1, SenderDirectionFacts DEF Channels, Sides
<1>3. flow \in [Cells -> FlowValues]
  BY DEF FlowInv
<1>4. Listing(Listed(ch), SendersOf(ch))
  BY <1>2, <1>3, OutputCellsIs DEF Listed, SendersOf
<1>5. n \in Nat /\ DOMAIN Listed(ch) = 1 .. n /\ Listed(ch) \in Seq(SendersOf(ch))
  BY <1>4, ListingFacts
<1>6. NamesOf(ch) = [k \in 1 .. n |->
            InputIdx(ch[2], Listed(ch)[k], Offset[flow[<<ch[1], Listed(ch)[k]>>]])]
  BY <1>5 DEF NamesOf, InputIdxs
<1>7. Named(p, d) = [k \in 1 .. n |-> IdxToIdxs(p, d, NamesOf(ch)[k])]
  BY <1>6 DEF Named
<1> HIDE DEF ch, n
<1>8. \A k \in 1 .. n : Listed(ch)[k] \in SendersOf(ch)
  BY <1>5
<1>9. ASSUME NEW k \in 1 .. n
      PROVE  /\ NamesOf(ch)[k] \in Int
             /\ Named(p, d)[k] = down[<<ch[1], Listed(ch)[k]>>][2]
             /\ Named(p, d)[k] \in CellsOf(p)
  <2> DEFINE i == Listed(ch)[k]
  <2>1. i \in SendersOf(ch)
    BY <1>8
  <2>2. NamesOf(ch)[k] = InputIdx(ch[2], i, Offset[flow[<<ch[1], i>>]])
    BY <1>6
  <2>3. Named(p, d)[k] = IdxToIdxs(p, d, NamesOf(ch)[k])
    BY <1>7
  <2> HIDE DEF i
  <2>4. /\ i \in CellsOf(ch[1]) /\ flow[<<ch[1], i>>] \in Directions
        /\ down[<<ch[1], i>>] \in Cells /\ down[<<ch[1], i>>][1] = p
        /\ down[<<ch[1], i>>][2] = IdxToIdxs(p, d, InputIdx(ch[2], i, Offset[flow[<<ch[1], i>>]]))
    BY <2>1, SenderFlow DEF ch
  <2>5. NamesOf(ch)[k] \in Int
    BY <1>2, <2>2, <2>4, InputIdxType
  <2>6. down[<<ch[1], i>>][2] \in CellsOf(p)
    BY <2>4, CellFacts
  <2> QED BY <2>2, <2>3, <2>4, <2>5, <2>6 DEF i
<1>10. NamesOf(ch) \in Seq(Int) /\ DOMAIN NamesOf(ch) = 1 .. n
  <2>1. NamesOf(ch) \in [1 .. n -> Int]
    BY <1>6, <1>9
  <2> QED BY <1>5, <2>1, SeqDef
<1>11. Named(p, d) \in Seq(CellsOf(p)) /\ DOMAIN Named(p, d) = 1 .. n
  <2>1. Named(p, d) \in [1 .. n -> CellsOf(p)]
    BY <1>7, <1>9
  <2> QED BY <1>5, <2>1, SeqDef
<1>12. Named(p, d) = <<>> <=> NamesOf(ch) = <<>>
  BY <1>10, <1>11
<1>13. NamesOf(ch) = <<>> <=> Listed(ch) = <<>>
  BY <1>5, <1>10
<1> QED BY <1>4, <1>5, <1>9, <1>10, <1>11, <1>12, <1>13 DEF ch

(* When all lists are in, the cells named in them are the cells upstream   *)
(* in other partitions, so that nothing is counted twice or forgotten.     *)
LEMMA NrInputsIs ==
    ASSUME AtLeastTwo, FlowInv, NEW p \in Partitions, NEW idxs \in CellsOf(p),
           \A d \in Directions :
                inputCells[<<p, d>>] = IF <<p, d>> \in Channels THEN Named(p, d) ELSE <<>>
    PROVE  NrInputs(p, idxs) = Cardinality({x \in UpstreamOf(<<p, idxs>>) : x[1] # p})
<1> DEFINE c == <<p, idxs>>
           R == {x \in UpstreamOf(c) : x[1] # p}
           naming(d) == {k \in DOMAIN inputCells[<<p, d>>] : inputCells[<<p, d>>][k] = idxs}
           T == UNION {{d} \X naming(d) : d \in Directions}
           f == [t \in T |-> <<Neighbour(p, t[1]), Listed(Source(p, t[1]))[t[2]]>>]
<1>1. NrInputs(p, idxs) = Cardinality(T)
  BY Zenon DEF NrInputs
<1>2. c \in Cells
  BY CellFacts
<1>3. ASSUME NEW t
      PROVE  t \in T <=> /\ t = <<t[1], t[2]>> /\ t[1] \in Directions /\ <<p, t[1]>> \in Channels
                         /\ t[2] \in DOMAIN Listed(Source(p, t[1]))
                         /\ Named(p, t[1])[t[2]] = idxs
  <2>1. t \in T <=> t = <<t[1], t[2]>> /\ t[1] \in Directions /\ t[2] \in naming(t[1])
    <3>1. ASSUME t \in T PROVE t = <<t[1], t[2]>> /\ t[1] \in Directions /\ t[2] \in naming(t[1])
      <4>1. PICK d \in Directions : t \in {d} \X naming(d)
        BY <3>1
      <4> QED BY <4>1
    <3>2. ASSUME t = <<t[1], t[2]>> /\ t[1] \in Directions /\ t[2] \in naming(t[1]) PROVE t \in T
      <4>1. t \in {t[1]} \X naming(t[1])
        BY <3>2
      <4> QED BY <3>2, <4>1
    <3> QED BY <3>1, <3>2
  <2>2. ASSUME t[1] \in Directions
        PROVE  t[2] \in naming(t[1]) <=> /\ <<p, t[1]>> \in Channels
                                         /\ t[2] \in DOMAIN Listed(Source(p, t[1]))
                                         /\ Named(p, t[1])[t[2]] = idxs
    <3>1. CASE <<p, t[1]>> \in Channels
      <4>1. inputCells[<<p, t[1]>>] = Named(p, t[1])
        BY <2>2, <3>1
      <4>2. DOMAIN Named(p, t[1]) = DOMAIN Listed(Source(p, t[1]))
        BY <3>1, NamedFacts
      <4> QED BY <3>1, <4>1, <4>2
    <3>2. CASE <<p, t[1]>> \notin Channels
      <4>1. inputCells[<<p, t[1]>>] = <<>>
        BY <2>2, <3>2
      <4> QED BY <3>2, <4>1
    <3> QED BY <3>1, <3>2
  <2> HIDE DEF T
  <2> QED BY <2>1, <2>2
<1> HIDE DEF T
<1>4. ASSUME NEW t \in T PROVE f[t] \in R
  <2> DEFINE ch == Source(p, t[1])
             i == Listed(ch)[t[2]]
             x == <<ch[1], i>>
  <2>1. /\ <<p, t[1]>> \in Channels /\ t[2] \in DOMAIN Listed(ch)
        /\ Named(p, t[1])[t[2]] = idxs
    BY <1>3
  <2>2. i \in SendersOf(ch) /\ down[x][2] = idxs
    <3>1. Listing(Listed(ch), SendersOf(ch)) /\ Named(p, t[1])[t[2]] = down[x][2]
      BY <2>1, NamedFacts
    <3> QED BY <2>1, <3>1, ListingFacts
  <2>3. x \in Cells /\ down[x] \in Cells /\ down[x][1] = p /\ ch[1] # p
    BY <2>1, <2>2, SenderFlow
  <2>4. down[x] = c
    BY <2>2, <2>3, CellFacts
  <2>5. ch[1] = Neighbour(p, t[1])
    BY DEF Source
  <2>6. f[t] = x
    BY <2>5
  <2> HIDE DEF f
  <2> QED BY <2>3, <2>4, <2>6 DEF UpstreamOf
<1>5. ASSUME NEW t \in T, NEW u \in T, f[t] = f[u] PROVE t = u
  <2>1. /\ t = <<t[1], t[2]>> /\ t[1] \in Directions /\ <<p, t[1]>> \in Channels
        /\ t[2] \in DOMAIN Listed(Source(p, t[1]))
        /\ u = <<u[1], u[2]>> /\ u[1] \in Directions /\ <<p, u[1]>> \in Channels
        /\ u[2] \in DOMAIN Listed(Source(p, u[1]))
    BY <1>3
  <2>2. /\ Neighbour(p, t[1]) = Neighbour(p, u[1])
        /\ Listed(Source(p, t[1]))[t[2]] = Listed(Source(p, u[1]))[u[2]]
    BY <1>5
  <2>3. t[1] = u[1]
    <3>1. p[1] \in Int /\ p[2] \in Int
      BY PartitionFacts
    <3>2. Offset[t[1]] \in Steps /\ Offset[u[1]] \in Steps
      BY <2>1, OffsetFacts
    <3>3. /\ Offset[t[1]] = <<Offset[t[1]][1], Offset[t[1]][2]>>
          /\ Offset[u[1]] = <<Offset[u[1]][1], Offset[u[1]][2]>>
          /\ Offset[t[1]][1] \in Int /\ Offset[t[1]][2] \in Int
          /\ Offset[u[1]][1] \in Int /\ Offset[u[1]][2] \in Int
      BY <3>2 DEF Steps
    <3>4. Offset[t[1]][1] = Offset[u[1]][1] /\ Offset[t[1]][2] = Offset[u[1]][2]
      BY <2>2, <3>1, <3>3 DEF Neighbour, Plus
    <3>5. Offset[t[1]] = Offset[u[1]]
      BY <3>3, <3>4
    <3> QED BY <2>1, <3>5, OffsetFacts
  <2>4. Listing(Listed(Source(p, t[1])), SendersOf(Source(p, t[1])))
    BY <2>1, NamedFacts
  <2>5. t[2] = u[2]
    BY <2>1, <2>2, <2>3, <2>4 DEF Listing
  <2> QED BY <2>1, <2>3, <2>5
<1>6. ASSUME NEW x \in R PROVE \E t \in T : f[t] = x
  <2>1. x \in Cells /\ down[x] = c /\ x[1] # p /\ c # NoCell /\ c[1] = p /\ c[2] = idxs
    BY DEF UpstreamOf, NoCell
  <2>2. PICK d \in Directions : /\ <<p, d>> \in Channels /\ x[1] = Source(p, d)[1]
                               /\ x[2] \in SendersOf(Source(p, d))
    BY <2>1, RemoteFlow
  <2>3. Listing(Listed(Source(p, d)), SendersOf(Source(p, d)))
    BY <2>2, NamedFacts
  <2>4. PICK k \in DOMAIN Listed(Source(p, d)) : Listed(Source(p, d))[k] = x[2]
    BY <2>2, <2>3 DEF Listing
  <2>5. x = <<Source(p, d)[1], Listed(Source(p, d))[k]>>
    BY <2>1, <2>2, <2>4, CellFacts
  <2>6. Named(p, d)[k] = idxs
    <3>1. Named(p, d)[k] = down[<<Source(p, d)[1], Listed(Source(p, d))[k]>>][2]
      BY <2>2, <2>4, NamedFacts
    <3> QED BY <2>1, <2>5, <3>1
  <2>7. <<d, k>> \in T
    BY <1>3, <2>2, <2>6
  <2>8. f[<<d, k>>] = x
    BY <2>5, <2>7 DEF Source
  <2> QED BY <2>7, <2>8
<1>7. f \in Bijection(T, R)
  <2>1. f \in [T -> R]
    BY <1>4
  <2> HIDE DEF f, R
  <2> QED BY <1>5, <1>6, <2>1 DEF Bijection, Injection, Surjection, IsInjective
<1>8. IsFiniteSet(R)
  BY <1>2, UpstreamBound, FS_Subset
<1>9. IsFiniteSet(T)
  BY <1>7, <1>8, FS_Injection DEF Bijection
<1> QED BY <1>1, <1>7, <1>9, SameCount

(* The cells upstream in the partition itself are the others.              *)
LEMMA InflowCountIs ==
    ASSUME AtLeastTwo, FlowInv, NEW p \in Partitions, NEW idxs \in CellsOf(p),
           \A d \in Directions :
                inputCells[<<p, d>>] = IF <<p, d>> \in Channels THEN Named(p, d) ELSE <<>>
    PROVE  PartitionInflowCount(flow, p, idxs) + NrInputs(p, idxs) = Cardinality(UpstreamOf(<<p, idxs>>))
<1> DEFINE c == <<p, idxs>>
           U == UpstreamOf(c)
           R == {x \in U : x[1] # p}
           L == LocalUpstream(flow, p, idxs)
           f == [i \in L |-> <<p, i>>]
<1>1. c \in Cells /\ flow \in [Cells -> FlowValues] /\ down = Downstream(flow)
  BY CellFacts DEF FlowInv
<1>2. IsFiniteSet(U) /\ \A x \in U : x \in Cells /\ down[x] = c
  BY <1>1, UpstreamBound DEF UpstreamOf
<1>3. \A i : i \in L <=> i \in CellsOf(p) /\ down[<<p, i>>] = c
  BY <1>1 DEF LocalUpstream
<1>4. PartitionInflowCount(flow, p, idxs) = Cardinality(L) /\ NrInputs(p, idxs) = Cardinality(R)
  BY <1>1, PartitionInflowCountIs, NrInputsIs
<1>5. \A i \in L : f[i] \in U \ R
  <2> SUFFICES ASSUME NEW i \in L PROVE <<p, i>> \in U \ R
    OBVIOUS
  <2>1. <<p, i>> \in Cells /\ down[<<p, i>>] = c
    BY <1>3, CellFacts
  <2> QED BY <2>1 DEF UpstreamOf
<1>6. \A x \in U \ R : \E i \in L : f[i] = x
  <2> SUFFICES ASSUME NEW x \in U \ R PROVE \E i \in L : f[i] = x
    OBVIOUS
  <2>1. x \in Cells /\ down[x] = c /\ x[1] = p
    BY <1>2
  <2>2. x = <<p, x[2]>> /\ x[2] \in CellsOf(p)
    BY <2>1, CellFacts
  <2>3. x[2] \in L
    BY <1>3, <2>1, <2>2
  <2> QED BY <2>2, <2>3
<1>7. f \in Bijection(L, U \ R)
  <2>1. f \in [L -> U \ R] /\ \A i, j \in L : f[i] = f[j] => i = j
    BY <1>5
  <2> HIDE DEF f, L, U, R
  <2> QED BY <1>6, <2>1 DEF Bijection, Injection, Surjection, IsInjective
<1>8. IsFiniteSet(L)
  BY CellsFinite, FS_Subset DEF LocalUpstream
<1>9. Cardinality(U \ R) = Cardinality(L)
  BY <1>7, <1>8, SameCount
<1>10. Cardinality(U \ R) = Cardinality(U) - Cardinality(R)
       /\ Cardinality(U) \in Nat /\ Cardinality(R) \in Nat
  <2>1. U \cap R = R /\ R \in SUBSET U
    OBVIOUS
  <2>2. Cardinality(U \ R) = Cardinality(U) - Cardinality(U \cap R)
    BY <1>2, FS_Difference
  <2> QED BY <1>2, <2>1, <2>2, FS_CardinalityType, FS_Subset
<1> HIDE DEF U, R, L
<1> QED BY <1>4, <1>9, <1>10 DEF U

-----------------------------------------------------------------------------
(* What does not change when the inputs do not.                            *)
LEMMA InputsStay ==
    ASSUME UNCHANGED inputs
    PROVE  /\ flow' = flow /\ external' = external /\ down' = down
           /\ FlowInv => FlowInv'
           /\ \A c : UpstreamOf(c)' = UpstreamOf(c)
           /\ \A ch : SendersOf(ch)' = SendersOf(ch) /\ Listed(ch)' = Listed(ch) /\ NamesOf(ch)' = NamesOf(ch)
           /\ \A p, d : Named(p, d)' = Named(p, d)
<1>1. flow' = flow /\ external' = external /\ down' = down
  BY DEF inputs
<1>2. FlowInv => FlowInv'
  BY <1>1 DEF FlowInv
<1>3. \A c : UpstreamOf(c)' = UpstreamOf(c)
  BY <1>1 DEF UpstreamOf
<1>4. \A ch : Listed(ch)' = Listed(ch) /\ SendersOf(ch)' = SendersOf(ch)
  BY <1>1 DEF Listed, SendersOf
<1>5. \A ch : NamesOf(ch)' = NamesOf(ch)
  BY <1>1, <1>4 DEF NamesOf
<1>6. \A p, d : Named(p, d)' = Named(p, d)
  BY <1>5 DEF Named
<1> QED BY <1>1, <1>2, <1>3, <1>4, <1>5, <1>6

(* No partition starts, or counts.                                         *)
SameStage ==
    \A p \in Partitions :
        /\ phase'[p] = "connect" <=> phase[p] = "connect"
        /\ phase'[p] \in Counted <=> phase[p] \in Counted

(* A step that leaves the lists of input cells alone.                      *)
LEMMA ListsStay ==
    ASSUME UNCHANGED <<inputs, connectivity>>,
           \A p \in Partitions : phase'[p] = "connect" <=> phase[p] = "connect",
           \A s \in Sides : s \notin Channels => awaited'[s] = <<>>,
           \A p \in Partitions, d \in Directions : ListInv(p, d)
    PROVE  \A p \in Partitions, d \in Directions : ListInv(p, d)'
<1> SUFFICES ASSUME NEW p \in Partitions, NEW d \in Directions PROVE ListInv(p, d)'
  OBVIOUS
<1>1. inflowChannel' = inflowChannel /\ inputCells' = inputCells /\ inputReady' = inputReady
  BY DEF connectivity
<1>2. NamesOf(Source(p, d))' = NamesOf(Source(p, d)) /\ Named(p, d)' = Named(p, d)
  BY InputsStay
<1>3. <<p, d>> \in Channels => Source(p, d)[1] \in Partitions
  BY ChannelFacts
<1>4. <<p, d>> \in Channels => (phase'[Source(p, d)[1]] = "connect" <=> phase[Source(p, d)[1]] = "connect")
  BY <1>3
<1>5. ListInv(p, d) /\ (<<p, d>> \notin Channels => awaited'[<<p, d>>] = <<>>)
  BY DEF Sides
<1> QED BY <1>1, <1>2, <1>4, <1>5, Zenon DEF ListInv

(* The cells that leave over the sides of a partition.                     *)
LEMMA OutputsStay ==
    ASSUME UNCHANGED inputs, NEW s \in Sides, OutputInv(s),
           phase'[s[1]] = "connect" <=> phase[s[1]] = "connect",
           outputCells'[s] = outputCells[s],
           \A idxs \in SendersOf(s) : <<s[1], idxs>> \in solved' <=> <<s[1], idxs>> \in solved
    PROVE  OutputInv(s)'
<1>1. SendersOf(s)' = SendersOf(s)
  BY InputsStay
<1>2. Unsolved(s)' = Unsolved(s)
  BY <1>1 DEF Unsolved
<1> QED BY <1>2 DEF OutputInv

(* A step that no message on its way takes notice of.                      *)
LEMMA SentStays ==
    ASSUME UNCHANGED inputs, NEW ch \in Channels, SentInv(ch),
           phase[ch[1]] # "connect" => phase'[ch[1]] # "connect",
           ch \in closed /\ outputCells[ch] = <<>> => outputCells'[ch] = <<>>,
           ch \in closed' => ch \in closed,
           material'[ch] = material[ch],
           \A idxs \in SendersOf(ch) :
                /\ <<ch[1], idxs>> \in solved' \ delivered' <=> <<ch[1], idxs>> \in solved \ delivered
                /\ <<ch[1], idxs>> \in solved \ delivered => outflow'[<<ch[1], idxs>>] = outflow[<<ch[1], idxs>>]
    PROVE  SentInv(ch)'
<1>1. flow' = flow /\ SendersOf(ch)' = SendersOf(ch)
  BY InputsStay
<1>2. Sent(ch)' = Sent(ch)
  BY <1>1 DEF Sent
<1>3. Origins(ch)' = Origins(ch)
  BY DEF Origins
<1>4. Listing(Origins(ch), Sent(ch)) /\ DOMAIN Origins(ch) = DOMAIN material[ch]
  BY DEF SentInv, Origins
<1>5. ASSUME NEW k \in DOMAIN material[ch]
      PROVE  material'[ch][k] = Material(ch, Origins(ch)[k])'
  <2>1. Origins(ch)[k] \in Sent(ch)
    BY <1>4, ListingFacts
  <2>2. Material(ch, Origins(ch)[k])' = Material(ch, Origins(ch)[k])
    BY <1>1, <1>3, <2>1 DEF Material, Sent
  <2> QED BY <2>2 DEF SentInv
<1>6. ch \in closed' => phase'[ch[1]] # "connect" /\ outputCells'[ch] = <<>>
  BY DEF SentInv
<1> QED BY <1>2, <1>3, <1>4, <1>5, <1>6 DEF SentInv

(* A step that leaves what a cell awaits alone.                            *)
LEMMA CountsStay ==
    ASSUME UNCHANGED inputs, NEW c \in Cells, CountInv(c),
           phase'[c[1]] \in Counted <=> phase[c[1]] \in Counted,
           inflowCount'[c] = inflowCount[c],
           UpstreamOf(c) \ delivered' = UpstreamOf(c) \ delivered
    PROVE  CountInv(c)'
BY InputsStay DEF CountInv

(* A step that leaves the streams of a partition alone.                    *)
LEMMA StreamStays ==
    ASSUME UNCHANGED inputs, NEW p \in Partitions, StreamInv(p),
           stream'[p] = stream[p], ridges'[p] = ridges[p],
           phase[p] = phase'[p] \/ stream[p] = Idle,
           delivered \subseteq delivered',
           \A idxs : <<p, idxs>> \in solved' => <<p, idxs>> \in solved
    PROVE  StreamInv(p)'
<1>1. flow' = flow /\ \A c : UpstreamOf(c)' = UpstreamOf(c)
  BY InputsStay
<1> QED BY <1>1 DEF StreamInv

-----------------------------------------------------------------------------
(* The invariant holds initially.                                          *)
NetworksAreValid == \A field \in FlowFields : IsValidNetwork(field)

(* Cells flow into cells, or nowhere.                                      *)
LEMMA DownstreamType ==
    ASSUME NEW field \in [Cells -> FlowValues]
    PROVE  Downstream(field) \in [Cells -> Cells \cup {NoCell}]
<1>1. \A c \in Cells : Downstream(field)[c] \in Cells \cup {NoCell}
  BY DownstreamIs
<1>2. Downstream(field) = [c \in Cells |-> Downstream(field)[c]]
  BY DEF Downstream
<1> QED BY <1>1, <1>2

(* The invariant holds initially.                                          *)
LEMMA InitInv ==
    ASSUME AtLeastTwo, NetworksAreValid, Init
    PROVE  Inv
<1>1. FlowInv
  <2>1. flow \in [Cells -> FlowValues] /\ external \in [Cells -> Nat \cup {NoData}]
    BY InputsAssumption DEF Init
  <2>2. \A c \in Cells : down[c] # NoCell => flow[down[c]] # "no_data"
    BY DEF Init, NetworksAreValid, IsValidNetwork
  <2> QED BY <2>1, <2>2 DEF Init, FlowInv
<1>2. TypeInv
  <2>1. \A S : <<>> \in Seq(S)
    OBVIOUS
  <2>2. [s \in Sides |-> <<>>] \in ListsOfSides
    BY <2>1 DEF ListsOfSides
  <2> QED BY <2>1, <2>2 DEF Init, TypeInv, Idle
<1>3. \A p \in Partitions : StageInv(p)
  BY DEF Init, StageInv, Counted
<1>4. ASSUME NEW p \in Partitions, NEW d \in Directions PROVE ListInv(p, d)
  <2>1. <<p, d>> \in Sides
    BY DEF Sides
  <2>2. <<p, d>> \in Channels => Source(p, d) \in Channels /\ Source(p, d)[1] \in Partitions
    BY ChannelFacts
  <2> QED BY <2>1, <2>2 DEF Init, ListInv
<1>5. \A s \in Sides : OutputInv(s)
  BY DEF Init, OutputInv, Sides
<1>6. ASSUME NEW ch \in Channels PROVE SentInv(ch)
  <2>1. Sent(ch) = {} /\ material[ch] = <<>> /\ closed = {}
    BY DEF Init, Sent
  <2>2. Origins(ch) = <<>>
    BY <2>1 DEF Origins
  <2>3. Listing(<<>>, {})
    BY DEF Listing
  <2> QED BY <2>1, <2>2, <2>3 DEF SentInv
<1>7. \A c \in Cells : CountInv(c)
  BY CellFacts DEF Init, CountInv, Counted
<1>8. \A p \in Partitions : StreamInv(p)
  BY DEF Init, StreamInv
<1>9. SolvedInv
  BY DEF Init, SolvedInv
<1> QED BY <1>1, <1>2, <1>3, <1>4, <1>5, <1>6, <1>7, <1>8, <1>9 DEF Inv

-----------------------------------------------------------------------------
(* The invariant is preserved, action by action.                           *)
LEMMA SideFacts ==
    \A s \in Sides : s = <<s[1], s[2]>> /\ s[1] \in Partitions /\ s[2] \in Directions
BY DEF Sides

(* A stream starts at a ridge.                                             *)
LEMMA EnterRidgeInv ==
    ASSUME AtLeastTwo, Inv, NEW p \in Partitions, EnterRidge(p)
    PROVE  Inv'
<1>1. /\ FlowInv /\ TypeInv /\ SolvedInv
      /\ \A q \in Partitions : StageInv(q) /\ StreamInv(q)
      /\ \A q \in Partitions, d \in Directions : ListInv(q, d)
      /\ \A s \in Sides : OutputInv(s)
      /\ \A ch \in Channels : SentInv(ch)
      /\ \A c \in Cells : CountInv(c)
  BY DEF Inv
<1>2. PICK idxs \in ridges[p] :
        /\ stream' = [stream EXCEPT ![p] = idxs]
        /\ ridges' = [ridges EXCEPT ![p] = @ \ {idxs}]
  BY DEF EnterRidge
<1>3. /\ phase[p] = "intra" /\ stream[p] = Idle
      /\ UNCHANGED <<inputs, phase, connectivity, outputCells, inflowCount, outflow,
                   material, closed, awaited, history>>
  BY DEF EnterRidge
<1>4. inputReady' = inputReady /\ solved' = solved /\ delivered' = delivered /\ UNCHANGED inputs
      /\ UNCHANGED <<inputs, connectivity>>
  BY <1>3 DEF connectivity, history
<1>5. SameStage
  BY <1>3 DEF SameStage
<1>6. FlowInv' /\ down' = down
  BY <1>1, <1>4, InputsStay
<1>7. TypeInv'
  <2>1. idxs \in CellsOf(p) /\ idxs \in Nat \X Nat
    BY <1>1, <1>2 DEF TypeInv
  <2> QED BY <1>1, <1>2, <1>3, <1>4, <2>1 DEF TypeInv, connectivity, history
<1>8. ASSUME NEW q \in Partitions PROVE StageInv(q)'
  BY <1>1, <1>2, <1>3, <1>4, <1>6 DEF StageInv, TypeInv, Counted
<1>9. \A q \in Partitions, d \in Directions : ListInv(q, d)'
  <2>1. \A s \in Sides : s \notin Channels => awaited'[s] = <<>>
    BY <1>1, <1>3, SideFacts DEF ListInv
  <2> QED BY <1>1, <1>4, <1>5, <2>1, ListsStay DEF SameStage
<1>10. \A s \in Sides : OutputInv(s)'
  BY <1>1, <1>3, <1>4, OutputsStay
<1>11. \A ch \in Channels : SentInv(ch)'
  BY <1>1, <1>3, <1>4, SentStays
<1>12. \A c \in Cells : CountInv(c)'
  BY <1>1, <1>3, <1>4, CountsStay
<1>13. ASSUME NEW q \in Partitions PROVE StreamInv(q)'
  <2>1. CASE q = p
    <3>1. /\ flow[<<p, idxs>>] # "no_data" /\ UpstreamOf(<<p, idxs>>) = {}
          /\ <<p, idxs>> \notin solved
      BY <1>1, <1>2 DEF StreamInv
    <3>2. stream'[p] = idxs /\ ridges'[p] = ridges[p] \ {idxs}
      BY <1>1, <1>2 DEF TypeInv
    <3>3. flow' = flow /\ \A c : UpstreamOf(c)' = UpstreamOf(c)
      BY <1>4, InputsStay
    <3> QED BY <1>1, <1>3, <1>4, <2>1, <3>1, <3>2, <3>3 DEF StreamInv
  <2>2. CASE q # p
    BY <1>1, <1>2, <1>3, <1>4, <2>2, StreamStays DEF TypeInv
  <2> QED BY <2>1, <2>2
<1>14. SolvedInv'
  BY <1>1, <1>4, InputsStay DEF SolvedInv
<1> QED BY <1>6, <1>7, <1>8, <1>9, <1>10, <1>11, <1>12, <1>13, <1>14 DEF Inv

(* A partition goes on to its next task.                                   *)
LEMMA FinishInv ==
    ASSUME AtLeastTwo, Inv, NEW p \in Partitions, FinishIntra(p) \/ Finish(p)
    PROVE  Inv'
<1>1. /\ FlowInv /\ TypeInv /\ SolvedInv
      /\ \A q \in Partitions : StageInv(q) /\ StreamInv(q)
      /\ \A q \in Partitions, d \in Directions : ListInv(q, d)
      /\ \A s \in Sides : OutputInv(s)
      /\ \A ch \in Channels : SentInv(ch)
      /\ \A c \in Cells : CountInv(c)
  BY DEF Inv
<1>2. /\ UNCHANGED <<inputs, connectivity, outputCells, inflowCount, outflow, ridges, stream,
                     material, closed, history>>
      /\ stream[p] = Idle
      /\ \/ /\ phase[p] = "intra" /\ ridges[p] = {} /\ phase' = [phase EXCEPT ![p] = "inter"]
            /\ awaited' = [s \in Sides |-> IF s[1] = p THEN inputCells[s] ELSE awaited[s]]
         \/ /\ phase[p] = "inter" /\ \A d \in Directions : awaited[<<p, d>>] = <<>>
            /\ phase' = [phase EXCEPT ![p] = "done"] /\ awaited' = awaited
  BY DEF FinishIntra, Finish
<1>3. /\ inputReady' = inputReady /\ solved' = solved /\ delivered' = delivered /\ UNCHANGED inputs
      /\ UNCHANGED <<inputs, connectivity>> /\ inputCells' = inputCells
  BY <1>2 DEF connectivity, history
<1>4. /\ phase \in [Partitions -> {"connect", "count", "intra", "inter", "done"}]
      /\ phase' \in [Partitions -> {"connect", "count", "intra", "inter", "done"}]
      /\ \A q \in Partitions : q # p => phase'[q] = phase[q]
      /\ \/ phase[p] = "intra" /\ phase'[p] = "inter" /\ ridges[p] = {}
         \/ phase[p] = "inter" /\ phase'[p] = "done"
            /\ awaited' = awaited /\ \A d \in Directions : awaited[<<p, d>>] = <<>>
  BY <1>1, <1>2 DEF TypeInv
<1>5. SameStage
  BY <1>4 DEF SameStage, Counted
<1>6. FlowInv' /\ down' = down
  BY <1>1, <1>3, InputsStay
<1>7. awaited' \in ListsOfSides
  <2>1. inputCells \in ListsOfSides /\ awaited \in ListsOfSides
    BY <1>1 DEF TypeInv
  <2>2. awaited' = awaited \/ awaited' = [s \in Sides |-> IF s[1] = p THEN inputCells[s] ELSE awaited[s]]
    BY <1>2
  <2> QED BY <2>1, <2>2 DEF ListsOfSides
<1>8. TypeInv'
  BY <1>1, <1>2, <1>3, <1>4, <1>7 DEF TypeInv, connectivity, history
<1>9. ASSUME NEW q \in Partitions PROVE StageInv(q)'
  <2>1. CASE q = p
    BY <1>1, <1>2, <1>3, <1>4, <1>6, <2>1 DEF StageInv, Counted
  <2>2. CASE q # p
    <3>1. \A d \in Directions : awaited'[<<q, d>>] = awaited[<<q, d>>]
      BY <1>2, <2>2 DEF Sides
    <3> QED BY <1>1, <1>2, <1>3, <1>4, <1>6, <2>2, <3>1 DEF StageInv, Counted
  <2> QED BY <2>1, <2>2
<1>10. \A q \in Partitions, d \in Directions : ListInv(q, d)'
  <2>1. \A s \in Sides : s \notin Channels => awaited'[s] = <<>>
    BY <1>1, <1>2, SideFacts DEF ListInv
  <2> QED BY <1>1, <1>3, <1>5, <2>1, ListsStay DEF SameStage
<1>11. \A s \in Sides : OutputInv(s)'
  BY <1>1, <1>2, <1>3, <1>5, SideFacts, OutputsStay DEF SameStage
<1>12. \A ch \in Channels : SentInv(ch)'
  <2>1. \A ch \in Channels : ch[1] \in Partitions
    BY DEF Channels, Sides
  <2> QED BY <1>1, <1>2, <1>3, <1>5, <2>1, SentStays DEF SameStage
<1>13. \A c \in Cells : CountInv(c)'
  BY <1>1, <1>2, <1>3, <1>5, CellFacts, CountsStay DEF SameStage
<1>14. \A q \in Partitions : StreamInv(q)'
  BY <1>1, <1>2, <1>3, <1>4, StreamStays
<1>15. SolvedInv'
  BY <1>1, <1>3, InputsStay DEF SolvedInv
<1> QED BY <1>6, <1>8, <1>9, <1>10, <1>11, <1>12, <1>13, <1>14, <1>15 DEF Inv

(* Material adds up to material.                                           *)
LEMMA TotalType ==
    ASSUME FlowInv, TypeInv, NEW c \in Cells
    PROVE  /\ Total(c) \in Nat \cup {NoData}
           /\ \A v, w \in Nat \cup {NoData} : AddMaterial(v, w) \in Nat \cup {NoData}
<1>1. \A v, w \in Nat \cup {NoData} : AddMaterial(v, w) \in Nat \cup {NoData}
  BY DEF AddMaterial
<1>2. outflow[c] \in Nat \cup {NoData} /\ external[c] \in Nat \cup {NoData}
  BY DEF FlowInv, TypeInv
<1> QED BY <1>1, <1>2 DEF Total

(* A stream ends in a sink.                                                *)
LEMMA StopAtSinkInv ==
    ASSUME AtLeastTwo, Inv, NEW p \in Partitions, StopAtSink(p)
    PROVE  Inv'
<1> DEFINE c == <<p, stream[p]>>
<1>1. /\ FlowInv /\ TypeInv /\ SolvedInv
      /\ \A q \in Partitions : StageInv(q) /\ StreamInv(q)
      /\ \A q \in Partitions, d \in Directions : ListInv(q, d)
      /\ \A s \in Sides : OutputInv(s)
      /\ \A ch \in Channels : SentInv(ch)
      /\ \A x \in Cells : CountInv(x)
  BY DEF Inv
<1>2. /\ stream[p] # Idle /\ flow[c] = "sink"
      /\ outflow' = [outflow EXCEPT ![c] = Total(c)]
      /\ solved' = solved \cup {c}
      /\ stream' = [stream EXCEPT ![p] = Idle]
      /\ UNCHANGED <<inputs, phase, connectivity, outputCells, inflowCount, ridges,
                     material, closed, awaited, delivered>>
  BY DEF StopAtSink
<1>3. inputReady' = inputReady /\ UNCHANGED inputs /\ UNCHANGED <<inputs, connectivity>>
  BY <1>2 DEF connectivity
<1>4. /\ stream[p] \in CellsOf(p) /\ c \in Cells /\ c[1] = p /\ c[2] = stream[p]
      /\ phase[p] \in {"intra", "inter"} /\ UpstreamOf(c) \subseteq delivered
      /\ c \notin solved /\ stream[p] \notin ridges[p] /\ delivered \subseteq solved
  <2>1. stream[p] \in CellsOf(p)
    BY <1>1, <1>2 DEF TypeInv
  <2>2. delivered \subseteq solved
    BY <1>1 DEF TypeInv
  <2> QED BY <1>1, <1>2, <2>1, <2>2, CellFacts DEF StreamInv
<1> HIDE DEF c
<1>5. down[c] = NoCell /\ \A e \in Directions : stream[p] \notin SendersOf(<<p, e>>)
  <2>1. "sink" \notin Directions
    BY DEF Directions
  <2>2. down = Downstream(flow) /\ flow \in [Cells -> FlowValues]
    BY <1>1 DEF FlowInv
  <2>3. down[c] = NoCell
    BY <1>2, <1>4, <2>1, <2>2, DownstreamIs
  <2>4. \A e \in Directions : stream[p] \notin SendersOf(<<p, e>>)
    BY <1>2, <2>1 DEF SendersOf, Senders, c
  <2> QED BY <2>3, <2>4
<1>6. SameStage
  BY <1>2 DEF SameStage
<1>7. FlowInv' /\ down' = down
  BY <1>1, <1>3, InputsStay
<1>8. TypeInv'
  <2>1. Total(c) \in Nat \cup {NoData}
    BY <1>1, <1>4, TotalType
  <2> QED BY <1>1, <1>2, <1>4, <2>1 DEF TypeInv, connectivity
<1>9. ASSUME NEW q \in Partitions PROVE StageInv(q)'
  <2>1. stream' \in [Partitions -> (Nat \X Nat) \cup {Idle}] /\ (stream'[q] = stream[q] \/ stream'[q] = Idle)
    BY <1>1, <1>2 DEF TypeInv
  <2>2. phase[q] \notin Counted => q # p
    BY <1>4 DEF Counted
  <2> QED BY <1>1, <1>2, <1>3, <1>4, <1>7, <2>1, <2>2 DEF StageInv, Counted
<1>10. \A q \in Partitions, d \in Directions : ListInv(q, d)'
  <2>1. \A s \in Sides : s \notin Channels => awaited'[s] = <<>>
    BY <1>1, <1>2, SideFacts DEF ListInv
  <2> QED BY <1>1, <1>3, <1>6, <2>1, ListsStay DEF SameStage
<1>11. ASSUME NEW s \in Sides, NEW idxs \in SendersOf(s) PROVE <<s[1], idxs>> # c
  BY <1>4, <1>5, SideFacts
<1>12. ASSUME NEW s \in Sides PROVE OutputInv(s)'
  <2>1. \A idxs \in SendersOf(s) : <<s[1], idxs>> \in solved' <=> <<s[1], idxs>> \in solved
    BY <1>2, <1>11
  <2> QED BY <1>1, <1>2, <1>3, <2>1, OutputsStay
<1>13. ASSUME NEW ch \in Channels PROVE SentInv(ch)'
  <2>1. ch \in Sides
    BY DEF Channels
  <2>2. \A idxs \in SendersOf(ch) :
                /\ <<ch[1], idxs>> \in solved' \ delivered' <=> <<ch[1], idxs>> \in solved \ delivered
                /\ <<ch[1], idxs>> \in solved \ delivered => outflow'[<<ch[1], idxs>>] = outflow[<<ch[1], idxs>>]
    <3> SUFFICES ASSUME NEW idxs \in SendersOf(ch)
                 PROVE  /\ <<ch[1], idxs>> \in solved' \ delivered' <=> <<ch[1], idxs>> \in solved \ delivered
                        /\ <<ch[1], idxs>> \in solved \ delivered => outflow'[<<ch[1], idxs>>] = outflow[<<ch[1], idxs>>]
      OBVIOUS
    <3>1. <<ch[1], idxs>> # c
      BY <1>11, <2>1
    <3>2. \A x \in Cells : x # c => outflow'[x] = outflow[x]
      BY <1>1, <1>2 DEF TypeInv
    <3>3. solved \subseteq Cells
      BY <1>1 DEF TypeInv
    <3> QED BY <1>2, <3>1, <3>2, <3>3
  <2> QED BY <1>1, <1>2, <1>3, <2>2, SentStays
<1>14. \A x \in Cells : CountInv(x)'
  BY <1>1, <1>2, <1>3, CountsStay
<1>15. ASSUME NEW q \in Partitions PROVE StreamInv(q)'
  <2>1. CASE q = p
    <3>1. stream'[p] = Idle /\ ridges'[p] = ridges[p] /\ solved' = solved \cup {c}
      BY <1>1, <1>2 DEF TypeInv
    <3>2. flow' = flow /\ \A x : UpstreamOf(x)' = UpstreamOf(x)
      BY <1>3, InputsStay
    <3>3. \A idxs \in ridges[p] : <<p, idxs>> # c
      BY <1>4
    <3> QED BY <1>1, <2>1, <3>1, <3>2, <3>3 DEF StreamInv
  <2>2. CASE q # p
    <3>1. stream'[q] = stream[q] /\ \A idxs : <<q, idxs>> \in solved' => <<q, idxs>> \in solved
      BY <1>1, <1>2, <1>4, <2>2 DEF TypeInv
    <3> QED BY <1>1, <1>2, <1>3, <3>1, StreamStays
  <2> QED BY <2>1, <2>2
<1>16. SolvedInv'
  <2>1. flow' = flow /\ \A x : UpstreamOf(x)' = UpstreamOf(x)
    BY <1>3, InputsStay
  <2>2. flow[c] # "no_data"
    BY <1>2
  <2> QED BY <1>1, <1>2, <1>4, <1>5, <1>7, <2>1, <2>2 DEF SolvedInv
<1> QED BY <1>7, <1>8, <1>9, <1>10, <1>12, <1>13, <1>14, <1>15, <1>16 DEF Inv

(* A stream leaves the partition: its last cell goes from the list of      *)
(* output cells to the channel.                                            *)
LEMMA StopAtOutputInv ==
    ASSUME AtLeastTwo, Inv, NEW p \in Partitions, StopAtOutput(p)
    PROVE  Inv'
<1>1. /\ FlowInv /\ TypeInv /\ SolvedInv
      /\ \A q \in Partitions : StageInv(q) /\ StreamInv(q)
      /\ \A q \in Partitions, d \in Directions : ListInv(q, d)
      /\ \A s \in Sides : OutputInv(s)
      /\ \A ch \in Channels : SentInv(ch)
      /\ \A x \in Cells : CountInv(x)
  BY DEF Inv
<1>i. PICK i \in CellsOf(p) : stream[p] = i /\ stream[p] # Idle
  <2>1. stream[p] # Idle
    BY Zenon DEF StopAtOutput
  <2> QED BY <1>1, <2>1 DEF TypeInv
<1> DEFINE c == <<p, i>>
           to == DestinationCell(Extent0(p), Extent1(p), i, Offset[flow[c]])
<1>0. /\ ~WithinPartition(p, i, flow[c])
      /\ outflow' = [outflow EXCEPT ![c] = Total(c)]
      /\ solved' = solved \cup {c}
      /\ outputCells' = [outputCells EXCEPT ![<<p, to[1]>>] = RemoveFirst(outputCells[<<p, to[1]>>], i)]
      /\ IF <<p, to[1]>> \in Channels
         THEN /\ material' = [material EXCEPT ![<<p, to[1]>>] = Append(@, <<to[2], Total(c), c>>)]
              /\ closed' = IF RemoveFirst(outputCells[<<p, to[1]>>], i) = <<>> THEN closed \cup {<<p, to[1]>>} ELSE closed
         ELSE UNCHANGED <<material, closed>>
      /\ stream' = [stream EXCEPT ![p] = Idle]
      /\ UNCHANGED <<inputs, phase, connectivity, inflowCount, ridges, awaited, delivered>>
  <2>1. stream[p] = i
    BY <1>i
  <2> QED BY <2>1, Zenon DEF StopAtOutput, AfterSending, LastOutput
<1>2. /\ stream[p] # Idle /\ ~WithinPartition(p, i, flow[c])
      /\ outflow' = [outflow EXCEPT ![c] = Total(c)]
      /\ solved' = solved \cup {c}
      /\ stream' = [stream EXCEPT ![p] = Idle]
      /\ UNCHANGED <<inputs, phase, connectivity, inflowCount, ridges, awaited, delivered>>
  BY <1>0, <1>i
<1>3. inputReady' = inputReady /\ UNCHANGED inputs /\ UNCHANGED <<inputs, connectivity>>
  BY <1>2 DEF connectivity
<1>4. /\ i \in CellsOf(p) /\ c \in Cells /\ c[1] = p /\ c[2] = i
      /\ phase[p] \in {"intra", "inter"} /\ UpstreamOf(c) \subseteq delivered /\ flow[c] # "no_data"
      /\ c \notin solved /\ i \notin ridges[p] /\ delivered \subseteq solved
  <2>2. delivered \subseteq solved
    BY <1>1 DEF TypeInv
  <2> QED BY <1>1, <1>i, <2>2, CellFacts DEF StreamInv
<1>5. flow \in [Cells -> FlowValues] /\ down = Downstream(flow)
  BY <1>1 DEF FlowInv
<1>6. flow[c] \in Directions
  <2>1. flow[c] \notin Directions => DownstreamOffset(flow[c]) = <<0, 0>>
    BY DEF DownstreamOffset
  <2>2. flow[c] \notin Directions => WithinPartition(p, i, flow[c])
    BY <2>1 DEF WithinPartition
  <2> QED BY <1>2, <2>2
<1>7. PICK e \in Directions : i \in Senders(flow, p, e)
  BY <1>2, <1>4, <1>5, <1>6, FlowCases
<1>8. to = <<e, InputIdx(e, i, Offset[flow[c]])>>
  <2>1. DestinationCell(Extent0(p), Extent1(p), i, Offset[flow[<<p, i>>]])
            = <<e, InputIdx(e, i, Offset[flow[<<p, i>>]])>>
    BY <1>5, <1>7, FlowCases
  <2> QED BY <2>1
<1> DEFINE side == <<p, e>>
           left == RemoveFirst(outputCells[side], i)
           message == <<InputIdx(e, i, Offset[flow[c]]), Total(c), c>>
<1>9. side = <<p, e>> /\ side \in Sides /\ i \in SendersOf(side) /\ side[1] = p /\ side[2] = e
  BY <1>7 DEF Sides, SendersOf
<1>10. to[1] = e /\ to[2] = InputIdx(e, i, Offset[flow[c]]) /\ InputIdx(e, i, Offset[flow[c]]) \in Int
  BY <1>4, <1>6, <1>8, InputIdxType
<1> HIDE DEF to
<1>11. /\ IF side \in Channels
          THEN /\ material' = [material EXCEPT ![side] = Append(@, message)]
               /\ closed' = IF left = <<>> THEN closed \cup {side} ELSE closed
          ELSE UNCHANGED <<material, closed>>
       /\ outputCells' = [outputCells EXCEPT ![side] = left]
  BY <1>0, <1>10
<1>12. \A s \in Sides : s[1] = p /\ i \in SendersOf(s) => s = side
  <2> SUFFICES ASSUME NEW s \in Sides, s[1] = p, i \in SendersOf(s) PROVE s = side
    OBVIOUS
  <2>1. s = <<p, s[2]>> /\ s[2] \in Directions
    BY SideFacts
  <2>2. Offset[s[2]] = Offset[e]
    BY <1>9, <2>1 DEF SendersOf, Senders
  <2> QED BY <1>9, <2>1, <2>2, OffsetFacts
<1> HIDE DEF c, side
<1>13. Listing(outputCells[side], Unsolved(side)) /\ i \in Unsolved(side)
  <2>1. phase[p] # "connect"
    BY <1>4
  <2>2. <<side[1], i>> = c
    BY <1>9 DEF c
  <2> QED BY <1>1, <1>4, <1>9, <2>1, <2>2 DEF OutputInv, Unsolved
<1>14. Listing(left, Unsolved(side) \ {i})
  BY <1>13, ListingRemove
<1>15. side \notin closed
  BY <1>1, <1>13, ListingFacts DEF SentInv, TypeInv
<1> HIDE DEF left
<1>16. SameStage
  BY <1>2 DEF SameStage
<1>17. FlowInv' /\ down' = down /\ flow' = flow
  BY <1>1, <1>3, InputsStay
<1>18. Total(c) \in Nat \cup {NoData}
  BY <1>1, <1>4, TotalType
<1>19. /\ outputCells \in ListsOfSides /\ outputCells'[side] = left
       /\ \A s \in Sides : s # side => outputCells'[s] = outputCells[s]
  BY <1>1, <1>9, <1>11 DEF TypeInv, ListsOfSides
<1>20. outputCells' \in ListsOfSides
  <2>1. left \in Seq(CellsOf(p))
    <3>1. Unsolved(side) \ {i} \subseteq CellsOf(p)
      BY <1>9 DEF Unsolved, SendersOf, Senders
    <3>2. left \in Seq(Unsolved(side) \ {i})
      BY <1>14, ListingFacts
    <3> QED BY <3>1, <3>2, SeqMonotonic
  <2>2. CellsOf(p) \subseteq Nat \X Nat
    BY PartitionFacts DEF CellsOf
  <2>3. left \in Seq(Nat \X Nat)
    BY <2>1, <2>2, SeqMonotonic
  <2> QED BY <1>9, <1>11, <1>19, <2>1, <2>3 DEF ListsOfSides
<1>21. /\ material' \in [Channels -> Seq(Int \X (Nat \cup {NoData}) \X Cells)]
       /\ closed' \subseteq Channels
       /\ side \in Channels => material'[side] = Append(material[side], message)
       /\ \A ch \in Channels : ch # side => material'[ch] = material[ch] /\ (ch \in closed' => ch \in closed)
  <2>1. message \in Int \X (Nat \cup {NoData}) \X Cells
    BY <1>4, <1>10, <1>18
  <2>2. material \in [Channels -> Seq(Int \X (Nat \cup {NoData}) \X Cells)] /\ closed \subseteq Channels
    BY <1>1 DEF TypeInv
  <2> HIDE DEF message
  <2>3. \A m \in Seq(Int \X (Nat \cup {NoData}) \X Cells) :
            Append(m, message) \in Seq(Int \X (Nat \cup {NoData}) \X Cells)
    BY <2>1
  <2>4. CASE side \in Channels
    BY <1>11, <2>2, <2>3, <2>4
  <2>5. CASE side \notin Channels
    BY <1>11, <2>2, <2>5
  <2> QED BY <2>4, <2>5
<1> HIDE DEF message
<1>22. TypeInv'
  BY <1>1, <1>2, <1>4, <1>18, <1>20, <1>21 DEF TypeInv, connectivity
<1>23. ASSUME NEW q \in Partitions PROVE StageInv(q)'
  <2>1. stream' \in [Partitions -> (Nat \X Nat) \cup {Idle}] /\ (stream'[q] = stream[q] \/ stream'[q] = Idle)
    BY <1>1, <1>2 DEF TypeInv
  <2>2. phase[q] \notin Counted => q # p
    BY <1>4 DEF Counted
  <2> QED BY <1>1, <1>2, <1>3, <1>4, <1>17, <2>1, <2>2 DEF StageInv, Counted
<1>24. \A q \in Partitions, d \in Directions : ListInv(q, d)'
  <2>1. \A s \in Sides : s \notin Channels => awaited'[s] = <<>>
    BY <1>1, <1>2, SideFacts DEF ListInv
  <2> QED BY <1>1, <1>3, <1>16, <2>1, ListsStay DEF SameStage
<1>25. ASSUME NEW s \in Sides, s # side, NEW idxs \in SendersOf(s) PROVE <<s[1], idxs>> # c
  BY <1>12, <1>25 DEF c
<1>26. \A x \in Cells : x # c => outflow'[x] = outflow[x]
  BY <1>1, <1>2 DEF TypeInv
<1>27. solved \subseteq Cells
  BY <1>1 DEF TypeInv
<1>28. ASSUME NEW s \in Sides PROVE OutputInv(s)'
  <2>1. CASE s # side
    <3>1. \A idxs \in SendersOf(s) : <<s[1], idxs>> \in solved' <=> <<s[1], idxs>> \in solved
      BY <1>2, <1>25, <2>1
    <3> QED BY <1>1, <1>2, <1>3, <1>19, <2>1, <3>1, OutputsStay
  <2>2. CASE s = side
    <3>1. SendersOf(side)' = SendersOf(side)
      BY <1>3, InputsStay
    <3>2. Unsolved(side)' = Unsolved(side) \ {i}
      BY <1>2, <1>9, <3>1 DEF Unsolved, c
    <3> QED BY <1>14, <1>19, <2>2, <3>2 DEF OutputInv
  <2> QED BY <2>1, <2>2
<1>29. ASSUME NEW ch \in Channels PROVE SentInv(ch)'
  <2>1. ch \in Sides
    BY DEF Channels
  <2>2. CASE ch # side
    <3>1. \A idxs \in SendersOf(ch) :
                /\ <<ch[1], idxs>> \in solved' \ delivered' <=> <<ch[1], idxs>> \in solved \ delivered
                /\ <<ch[1], idxs>> \in solved \ delivered => outflow'[<<ch[1], idxs>>] = outflow[<<ch[1], idxs>>]
      BY <1>2, <1>25, <1>26, <1>27, <2>1, <2>2
    <3> QED BY <1>1, <1>2, <1>3, <1>19, <1>21, <2>1, <2>2, <3>1, SentStays
  <2>3. CASE ch = side
    <3>1. SentInv(side) /\ side \in Channels
      BY <1>1, <2>3
    <3>2. material'[side] = Append(material[side], message) /\ material[side] \in Seq(Int \X (Nat \cup {NoData}) \X Cells)
      BY <1>1, <1>21, <3>1 DEF TypeInv
    <3> DEFINE n == Len(material[side])
    <3>3. /\ n \in Nat /\ DOMAIN material[side] = 1 .. n
          /\ DOMAIN material'[side] = 1 .. n + 1 /\ material'[side][n + 1] = message
          /\ \A k \in 1 .. n : material'[side][k] = material[side][k]
      BY <3>2
    <3>4. Origins(side) = [k \in 1 .. n |-> material[side][k][3][2]]
      BY <3>3 DEF Origins
    <3>5. Origins(side)' = [k \in 1 .. n + 1 |-> material'[side][k][3][2]]
      BY <3>3 DEF Origins
    <3>6. message[3][2] = i
      BY DEF message, c
    <3>7. Listing(Origins(side), Sent(side)) /\ Len(Origins(side)) = n /\ Origins(side) \in Seq(Sent(side))
      <4>1. Listing(Origins(side), Sent(side))
        BY <3>1 DEF SentInv
      <4> QED BY <3>3, <3>4, <4>1, ListingFacts
    <3> HIDE DEF n
    <3>8. Origins(side)' = Append(Origins(side), i)
      <4> DEFINE a == Append(Origins(side), i)
      <4>1. a \in Seq(Sent(side) \cup {i}) /\ DOMAIN a = 1 .. n + 1 /\ a[n + 1] = i
            /\ \A k \in 1 .. n : a[k] = Origins(side)[k]
        <5>1. Origins(side) \in Seq(Sent(side) \cup {i})
          BY <3>7, SeqMonotonic
        <5> QED BY <3>7, <5>1, AppendProperties
      <4> HIDE DEF a
      <4>2. a = [k \in 1 .. n + 1 |-> a[k]]
        <5>1. a \in [1 .. Len(a) -> Sent(side) \cup {i}] /\ DOMAIN a = 1 .. Len(a)
          BY <4>1, LenProperties
        <5>2. a \in [1 .. n + 1 -> Sent(side) \cup {i}]
          BY <4>1, <5>1
        <5> QED BY <5>2
      <4>3. \A k \in 1 .. n + 1 : a[k] = material'[side][k][3][2]
        <5> SUFFICES ASSUME NEW k \in 1 .. n + 1 PROVE a[k] = material'[side][k][3][2]
          OBVIOUS
        <5>1. CASE k = n + 1
          BY <3>3, <3>6, <4>1, <5>1
        <5>2. CASE k # n + 1
          <6>1. k \in 1 .. n
            BY <3>3, <5>2
          <6> QED BY <3>3, <3>4, <4>1, <6>1
        <5> QED BY <5>1, <5>2
      <4> QED BY <3>5, <4>2, <4>3 DEF a
    <3>9. SendersOf(side)' = SendersOf(side)
      BY <1>3, InputsStay
    <3>10. Sent(side)' = Sent(side) \cup {i} /\ i \notin Sent(side)
      BY <1>2, <1>4, <1>9, <3>9 DEF Sent, c
    <3>11. Listing(Origins(side)', Sent(side)')
      BY <3>7, <3>8, <3>10, ListingAppend
    <3>12. ASSUME NEW k \in 1 .. n + 1 PROVE material'[side][k] = Material(side, Origins(side)[k])'
      <4>1. CASE k = n + 1
        <5>1. Origins(side)'[k] = i
          BY <3>5, <3>3, <3>6, <4>1
        <5>2. outflow'[c] = Total(c)
          BY <1>1, <1>2, <1>4 DEF TypeInv
        <5>3. Material(side, i)' = message
          BY <1>9, <1>17, <5>2 DEF Material, message, c
        <5> QED BY <3>3, <4>1, <5>1, <5>3 DEF Material
      <4>2. CASE k # n + 1
        <5>1. k \in 1 .. n
          BY <3>3, <4>2
        <5>0. Origins(side)[k] \in Sent(side)
          BY <3>7, <5>1, ElementOfSeq
        <5> PICK j \in Sent(side) : j = Origins(side)[k]
          BY <5>0
        <5>2. Origins(side)'[k] = j /\ j \in Sent(side)
          BY <3>3, <3>4, <3>5, <5>1
        <5>3. material'[side][k] = Material(side, j)
          BY <3>1, <3>3, <5>1 DEF SentInv
        <5>4. outflow'[<<side[1], j>>] = outflow[<<side[1], j>>]
          BY <1>4, <1>26, <1>27, <5>2 DEF Sent
        <5>5. Material(side, j)' = Material(side, j)
          BY <1>17, <5>4 DEF Material
        <5> QED BY <5>2, <5>3, <5>5 DEF Material
      <4> QED BY <4>1, <4>2
    <3>13. side \in closed' => phase'[side[1]] # "connect" /\ outputCells'[side] = <<>>
      BY <1>2, <1>4, <1>9, <1>11, <1>15, <1>19, <3>1
    <3> QED BY <2>3, <3>3, <3>11, <3>12, <3>13 DEF SentInv
  <2> QED BY <2>2, <2>3
<1>30. \A x \in Cells : CountInv(x)'
  BY <1>1, <1>2, <1>3, CountsStay
<1>31. ASSUME NEW q \in Partitions PROVE StreamInv(q)'
  <2>1. CASE q = p
    <3>1. stream'[p] = Idle /\ ridges'[p] = ridges[p] /\ solved' = solved \cup {c}
      BY <1>1, <1>2 DEF TypeInv
    <3>2. flow' = flow /\ \A x : UpstreamOf(x)' = UpstreamOf(x)
      BY <1>3, InputsStay
    <3>3. \A idxs \in ridges[p] : <<p, idxs>> # c
      BY <1>4
    <3> QED BY <1>1, <2>1, <3>1, <3>2, <3>3 DEF StreamInv
  <2>2. CASE q # p
    <3>1. stream'[q] = stream[q] /\ \A idxs : <<q, idxs>> \in solved' => <<q, idxs>> \in solved
      BY <1>1, <1>2, <1>4, <2>2 DEF TypeInv
    <3> QED BY <1>1, <1>2, <1>3, <3>1, StreamStays
  <2> QED BY <2>1, <2>2
<1>32. SolvedInv'
  <2>1. \A x : UpstreamOf(x)' = UpstreamOf(x)
    BY <1>3, InputsStay
  <2>2. down[c] # NoCell => down[c][1] # p
    <3>1. side \notin Channels => down[c] = NoCell
      BY <1>4, <1>5, <1>7, <1>9, FlowCases DEF c
    <3>2. side \in Channels => down[c][1] = Neighbour(p, e)
      BY <1>4, <1>5, <1>7, <1>9, FlowCases DEF c
    <3>3. side \in Channels => Neighbour(p, e) # p
      BY <1>9, ChannelFacts
    <3> QED BY <3>1, <3>2, <3>3
  <2> QED BY <1>1, <1>2, <1>4, <1>17, <2>1, <2>2 DEF SolvedInv
<1> QED BY <1>17, <1>22, <1>23, <1>24, <1>28, <1>29, <1>30, <1>31, <1>32 DEF Inv

(* The outflow of a cell x reaches the cell c downstream.                  *)
Arrives(x, c) ==
    /\ UNCHANGED <<inputs, phase>>
    /\ delivered' = delivered \cup {x}
    /\ inflowCount' = [inflowCount EXCEPT ![c] = @ - 1]

(* The counts stay exact; unless the cell is a confluence it has           *)
(* everything, and it was not entered before.                              *)
LEMMA ArrivesFacts ==
    ASSUME FlowInv, TypeInv, SolvedInv, \A y \in Cells : CountInv(y), \A p \in Partitions : StreamInv(p),
           NEW c \in Cells, NEW x \in Cells \ delivered, down[x] = c,
           phase[c[1]] \in Counted, Arrives(x, c)
    PROVE  /\ \A y \in Cells : CountInv(y)'
           /\ ~Confluence(c) => UpstreamOf(c) \subseteq delivered'
           /\ inflowCount' \in [Cells -> Int]
           /\ c \notin solved /\ c[2] \notin ridges[c[1]] /\ stream[c[1]] # c[2] /\ flow[c] # "no_data"
<1> DEFINE U == UpstreamOf(c) \ delivered
<1>1. UNCHANGED inputs /\ phase' = phase /\ delivered' = delivered \cup {x}
      /\ inflowCount' = [inflowCount EXCEPT ![c] = @ - 1]
  BY DEF Arrives
<1>2. down' = down /\ \A y : UpstreamOf(y)' = UpstreamOf(y)
  BY <1>1, InputsStay
<1>3. x \in U /\ \A y \in Cells : y # c => x \notin UpstreamOf(y)
  BY DEF UpstreamOf
<1>4. IsFiniteSet(U)
  BY UpstreamBound, FS_Subset
<1>5. Cardinality(U \ {x}) = Cardinality(U) - 1 /\ Cardinality(U) \in Nat /\ Cardinality(U \ {x}) \in Nat
  <2> HIDE DEF U
  <2>1. Cardinality(U \ {x}) = Cardinality(U) - 1
    BY <1>3, <1>4, FS_RemoveElement
  <2>2. IsFiniteSet(U \ {x})
    BY <1>4, FS_RemoveElement
  <2> QED BY <1>4, <2>1, <2>2, FS_CardinalityType
<1>6. UpstreamOf(c) \ delivered' = U \ {x}
  BY <1>1
<1>7. inflowCount \in [Cells -> Int] /\ inflowCount[c] = Cardinality(U)
  BY DEF TypeInv, CountInv
<1>8. inflowCount' \in [Cells -> Int] /\ inflowCount'[c] = Cardinality(U) - 1
      /\ \A y \in Cells : y # c => inflowCount'[y] = inflowCount[y]
  BY <1>1, <1>7
<1>9. ASSUME NEW y \in Cells PROVE CountInv(y)'
  <2>1. CASE y = c
    BY <1>1, <1>2, <1>5, <1>6, <1>8, <2>1 DEF CountInv
  <2>2. CASE y # c
    <3>1. UpstreamOf(y) \ delivered' = UpstreamOf(y) \ delivered
      BY <1>1, <1>3, <2>2
    <3> QED BY <1>1, <1>8, <2>2, <3>1, CountsStay
  <2> QED BY <2>1, <2>2
<1>10. ~Confluence(c) => UpstreamOf(c) \subseteq delivered'
  <2> SUFFICES ASSUME ~Confluence(c) PROVE UpstreamOf(c) \subseteq delivered'
    OBVIOUS
  <2> HIDE DEF U
  <2>1. Cardinality(U \ {x}) = 0
    BY <1>5, <1>7 DEF Confluence
  <2>2. IsFiniteSet(U \ {x})
    BY <1>4, FS_RemoveElement
  <2>3. U \ {x} = {}
    BY <2>1, <2>2, FS_EmptySet
  <2> QED BY <1>6, <2>3
<1>11. c = <<c[1], c[2]>> /\ c[1] \in Partitions /\ c[2] \in CellsOf(c[1])
  BY CellFacts
<1>12. c # NoCell
  BY <1>11 DEF NoCell
<1>13. stream[c[1]] # c[2]
  <2>1. c[2] # Idle
    BY <1>11, IdxsFacts, PartitionFacts DEF Idle
  <2> QED BY <1>3, <1>11, <2>1 DEF StreamInv
<1> QED BY <1>3, <1>8, <1>9, <1>10, <1>11, <1>12, <1>13 DEF SolvedInv, StreamInv, FlowInv

(* The stream of partition p flows on from its cell i to its cell j.       *)
FlowedOn(p, i, j) ==
    LET c == <<p, i>>
        to == <<p, j>>
    IN  /\ i \in CellsOf(p) /\ j \in CellsOf(p) /\ c \in Cells /\ to \in Cells /\ to # c
        /\ stream[p] = i /\ phase[p] \in {"intra", "inter"} /\ UpstreamOf(c) \subseteq delivered
        /\ c \notin solved /\ c \notin delivered /\ i \notin ridges[p]
        /\ flow[c] # "no_data" /\ down[c] = to
        /\ \A e \in Directions : i \notin SendersOf(<<p, e>>)
        /\ outflow' = [outflow EXCEPT ![c] = Total(c), ![to] = AddMaterial(@, Total(c))]
        /\ inflowCount' = [inflowCount EXCEPT ![to] = @ - 1]
        /\ stream' = [stream EXCEPT ![p] = IF Confluence(to) THEN Idle ELSE j]
        /\ solved' = solved \cup {c}
        /\ delivered' = delivered \cup {c}
        /\ UNCHANGED <<inputs, phase, connectivity, outputCells, ridges, material, closed, awaited>>

(* That is what leave_cell does.                                           *)
LEMMA FlowedOnIs ==
    ASSUME AtLeastTwo, Inv, NEW p \in Partitions, FlowOn(p)
    PROVE  \E i, j : FlowedOn(p, i, j)
<1>1. /\ FlowInv /\ TypeInv /\ SolvedInv
      /\ \A q \in Partitions : StageInv(q) /\ StreamInv(q)
      /\ \A q \in Partitions, d \in Directions : ListInv(q, d)
      /\ \A s \in Sides : OutputInv(s)
      /\ \A ch \in Channels : SentInv(ch)
      /\ \A x \in Cells : CountInv(x)
  BY DEF Inv
<1>i. PICK i \in CellsOf(p) : stream[p] = i /\ stream[p] # Idle
  <2>1. stream[p] # Idle
    BY Zenon DEF FlowOn
  <2> QED BY <1>1, <2>1 DEF TypeInv
<1> DEFINE c == <<p, i>>
           next == Plus(i, DownstreamOffset(flow[c]))
<1>2. /\ flow[c] # "sink" /\ WithinPartition(p, i, flow[c])
      /\ outflow' = [outflow EXCEPT ![c] = Total(c), ![<<p, next>>] = AddMaterial(@, Total(c))]
      /\ inflowCount' = [inflowCount EXCEPT ![<<p, next>>] = @ - 1]
      /\ stream' = [stream EXCEPT ![p] = IF Confluence(<<p, next>>) THEN Idle ELSE next]
      /\ solved' = solved \cup {c}
      /\ delivered' = delivered \cup {c}
      /\ UNCHANGED <<inputs, phase, connectivity, outputCells, ridges, material, closed, awaited>>
  BY <1>i, Zenon DEF FlowOn
<1>3. inputReady' = inputReady /\ UNCHANGED inputs /\ UNCHANGED <<inputs, connectivity>>
  BY <1>2 DEF connectivity
<1>4. /\ c \in Cells /\ c[1] = p /\ c[2] = i
      /\ phase[p] \in {"intra", "inter"} /\ UpstreamOf(c) \subseteq delivered /\ flow[c] # "no_data"
      /\ c \notin solved /\ i \notin ridges[p] /\ delivered \subseteq solved /\ solved \subseteq Cells
  <2>2. delivered \subseteq solved /\ solved \subseteq Cells
    BY <1>1 DEF TypeInv
  <2> QED BY <1>1, <1>i, <2>2, CellFacts DEF StreamInv
<1>5. flow[c] \in Directions
  BY <1>1, <1>2, <1>4 DEF FlowInv, FlowValues
<1>6. down[c] = <<p, next>> /\ next \in CellsOf(p) /\ \A e \in Directions : i \notin SendersOf(<<p, e>>)
  BY <1>1, <1>2, <1>5, LocalFlow
<1> PICK j \in CellsOf(p) : j = next
  BY <1>6
<1> DEFINE to == <<p, j>>
<1>7. to \in Cells /\ to[1] = p /\ to[2] = j /\ down[c] = to /\ c \in UpstreamOf(to)
  BY <1>4, <1>6, CellFacts DEF UpstreamOf
<1>8. /\ outflow' = [outflow EXCEPT ![c] = Total(c), ![to] = AddMaterial(@, Total(c))]
      /\ inflowCount' = [inflowCount EXCEPT ![to] = @ - 1]
      /\ stream' = [stream EXCEPT ![p] = IF Confluence(to) THEN Idle ELSE j]
  BY <1>2
<1>9. to # c
  BY <1>4, <1>7
<1>10. stream[p] = i /\ c \notin delivered
  BY <1>i, <1>4
<1>11. FlowedOn(p, i, j)
  <2> HIDE DEF next
  <2> QED BY <1>2, <1>4, <1>6, <1>7, <1>8, <1>9, <1>10, Zenon DEF FlowedOn
<1> QED BY <1>11

(* A stream flows on or stops at a confluence.                             *)
LEMMA FlowOnInv ==
    ASSUME AtLeastTwo, Inv, NEW p \in Partitions, FlowOn(p)
    PROVE  Inv'
<1>1. /\ FlowInv /\ TypeInv /\ SolvedInv
      /\ \A q \in Partitions : StageInv(q) /\ StreamInv(q)
      /\ \A q \in Partitions, d \in Directions : ListInv(q, d)
      /\ \A s \in Sides : OutputInv(s)
      /\ \A ch \in Channels : SentInv(ch)
      /\ \A x \in Cells : CountInv(x)
  BY DEF Inv
<1> PICK i, j : FlowedOn(p, i, j)
  BY FlowedOnIs
<1> DEFINE c == <<p, i>>
           to == <<p, j>>
<1>2. /\ solved' = solved \cup {c} /\ delivered' = delivered \cup {c}
      /\ UNCHANGED <<inputs, phase, connectivity, outputCells, ridges, material, closed, awaited>>
  BY Zenon DEF FlowedOn
<1>3. inputReady' = inputReady /\ UNCHANGED inputs /\ UNCHANGED <<inputs, connectivity>>
  BY <1>2 DEF connectivity
<1>4. /\ c \in Cells /\ i \in CellsOf(p) /\ phase[p] \in {"intra", "inter"}
      /\ UpstreamOf(c) \subseteq delivered /\ flow[c] # "no_data"
      /\ c \notin solved /\ c \notin delivered /\ i \notin ridges[p]
  BY Zenon DEF FlowedOn
<1>5. /\ delivered \subseteq solved /\ solved \subseteq Cells /\ c[1] = p /\ c[2] = i
  BY <1>1 DEF TypeInv
<1>6. \A e \in Directions : i \notin SendersOf(<<p, e>>)
  BY Zenon DEF FlowedOn
<1>7. to \in Cells /\ j \in CellsOf(p) /\ to # c /\ down[c] = to
  BY Zenon DEF FlowedOn
<1>8. /\ outflow' = [outflow EXCEPT ![c] = Total(c), ![to] = AddMaterial(@, Total(c))]
      /\ inflowCount' = [inflowCount EXCEPT ![to] = @ - 1]
      /\ stream' = [stream EXCEPT ![p] = IF Confluence(to) THEN Idle ELSE j]
  BY Zenon DEF FlowedOn
<1>0. to[1] = p /\ to[2] = j /\ to # NoCell
  BY DEF NoCell
<1> HIDE DEF c, to
<1>10. /\ \A y \in Cells : CountInv(y)'
       /\ ~Confluence(to) => UpstreamOf(to) \subseteq delivered'
       /\ inflowCount' \in [Cells -> Int]
       /\ to \notin solved /\ j \notin ridges[p] /\ flow[to] # "no_data"
  <2>1. Arrives(c, to)
    BY <1>2, <1>8 DEF Arrives
  <2>2. c \in Cells \ delivered /\ phase[to[1]] \in Counted
    BY <1>0, <1>4 DEF Counted
  <2> QED BY <1>0, <1>1, <1>7, <2>1, <2>2, ArrivesFacts
<1>11. SameStage
  BY <1>2 DEF SameStage
<1>12. FlowInv' /\ down' = down /\ flow' = flow /\ \A x : UpstreamOf(x)' = UpstreamOf(x)
  BY <1>1, <1>3, InputsStay
<1>13. /\ outflow' \in [Cells -> Nat \cup {NoData}]
       /\ \A x \in Cells : x # c /\ x # to => outflow'[x] = outflow[x]
  <2>1. Total(c) \in Nat \cup {NoData}
        /\ \A v, w \in Nat \cup {NoData} : AddMaterial(v, w) \in Nat \cup {NoData}
    BY <1>1, <1>4, TotalType
  <2>2. outflow \in [Cells -> Nat \cup {NoData}]
    BY <1>1 DEF TypeInv
  <2>3. AddMaterial(outflow[to], Total(c)) \in Nat \cup {NoData}
    BY <1>7, <2>1, <2>2
  <2> QED BY <1>4, <1>7, <1>8, <2>1, <2>2, <2>3
<1>14. /\ stream' \in [Partitions -> (Nat \X Nat) \cup {Idle}]
       /\ stream'[p] = IF Confluence(to) THEN Idle ELSE j
       /\ \A q \in Partitions : q # p => stream'[q] = stream[q]
  <2>1. j \in Nat \X Nat
    BY <1>7, PartitionFacts DEF CellsOf
  <2> QED BY <1>1, <1>8, <2>1 DEF TypeInv
<1>15. TypeInv'
  BY <1>1, <1>2, <1>3, <1>4, <1>5, <1>7, <1>10, <1>13, <1>14 DEF TypeInv, connectivity
<1>16. ASSUME NEW q \in Partitions PROVE StageInv(q)'
  <2>1. phase[q] \notin Counted => q # p
    BY <1>4 DEF Counted
  <2>2. phase[q] = "done" => q # p
    BY <1>4
  <2> QED BY <1>0, <1>1, <1>2, <1>3, <1>4, <1>5, <1>7, <1>12, <1>14, <2>1, <2>2 DEF StageInv, Counted
<1>17. \A q \in Partitions, d \in Directions : ListInv(q, d)'
  <2>1. \A s \in Sides : s \notin Channels => awaited'[s] = <<>>
    BY <1>1, <1>2, SideFacts DEF ListInv
  <2> QED BY <1>1, <1>3, <1>11, <2>1, ListsStay DEF SameStage
<1>18. ASSUME NEW s \in Sides, NEW idxs \in SendersOf(s) PROVE <<s[1], idxs>> # c
  BY <1>6, SideFacts DEF c
<1>19. ASSUME NEW s \in Sides PROVE OutputInv(s)'
  <2>1. \A idxs \in SendersOf(s) : <<s[1], idxs>> \in solved' <=> <<s[1], idxs>> \in solved
    BY <1>2, <1>18
  <2> QED BY <1>1, <1>2, <1>3, <2>1, OutputsStay
<1>20. ASSUME NEW ch \in Channels PROVE SentInv(ch)'
  <2>1. ch \in Sides
    BY DEF Channels
  <2>2. \A idxs \in SendersOf(ch) :
                /\ <<ch[1], idxs>> \in solved' \ delivered' <=> <<ch[1], idxs>> \in solved \ delivered
                /\ <<ch[1], idxs>> \in solved \ delivered => outflow'[<<ch[1], idxs>>] = outflow[<<ch[1], idxs>>]
    BY <1>2, <1>4, <1>5, <1>10, <1>13, <1>18, <2>1
  <2> QED BY <1>1, <1>2, <1>3, <2>2, SentStays
<1>21. ASSUME NEW q \in Partitions PROVE StreamInv(q)'
  <2>1. CASE q = p
    <3>1. stream'[p] # Idle =>
            /\ stream'[p] = j /\ UpstreamOf(to) \subseteq delivered' /\ to \notin solved'
      BY <1>2, <1>7, <1>10, <1>14
    <3>2. \A idxs \in ridges[p] : <<p, idxs>> # c
      BY <1>4 DEF c
    <3> QED BY <1>1, <1>2, <1>4, <1>10, <1>12, <2>1, <3>1, <3>2 DEF StreamInv, to
  <2>2. CASE q # p
    <3>1. stream'[q] = stream[q] /\ \A idxs : <<q, idxs>> \in solved' => <<q, idxs>> \in solved
      BY <1>2, <1>14, <2>2 DEF c
    <3> QED BY <1>1, <1>2, <1>3, <3>1, StreamStays
  <2> QED BY <2>1, <2>2
<1>22. SolvedInv'
  BY <1>0, <1>1, <1>2, <1>4, <1>7, <1>12 DEF SolvedInv
<1> QED BY <1>10, <1>12, <1>15, <1>16, <1>17, <1>19, <1>20, <1>21, <1>22 DEF Inv

(* A cell leaves over one side.                                            *)
LEMMA SenderUnique ==
    ASSUME NEW s \in Sides, NEW t \in Sides, NEW i, s[1] = t[1],
           i \in SendersOf(s), i \in SendersOf(t)
    PROVE  s = t
<1>1. s = <<s[1], s[2]>> /\ t = <<t[1], t[2]>> /\ s[2] \in Directions /\ t[2] \in Directions
  BY SideFacts
<1>2. Offset[s[2]] = Offset[t[2]]
  BY DEF SendersOf, Senders
<1> QED BY <1>1, <1>2, OffsetFacts

(* RemoveFirst returns a sequence of the same elements, or changes         *)
(* nothing.                                                                *)
LEMMA RemoveFirstType ==
    ASSUME NEW S, NEW s \in Seq(S), NEW x
    PROVE  RemoveFirst(s, x) \in Seq(S)
<1>1. CASE \E k \in DOMAIN s : s[k] = x
  BY <1>1, RemoveFirstFacts
<1>2. CASE ~\E k \in DOMAIN s : s[k] = x
  <2>1. DOMAIN s = 1 .. Len(s)
    OBVIOUS
  <2>2. RemoveFirst(s, x) = s
    BY <1>2, <2>1 DEF RemoveFirst
  <2> QED BY <2>2
<1> QED BY <1>1, <1>2

(* The elements of the tail are the elements after the first.              *)
LEMMA TailFacts ==
    ASSUME NEW S, NEW s \in Seq(S), s # <<>>
    PROVE  /\ Len(s) \in Nat \ {0} /\ DOMAIN s = 1 .. Len(s) /\ Head(s) = s[1]
           /\ Tail(s) \in Seq(S) /\ DOMAIN Tail(s) = 1 .. Len(s) - 1
           /\ Tail(s) = [k \in 1 .. Len(s) - 1 |-> s[k + 1]]
<1>1. /\ Len(s) \in Nat \ {0} /\ DOMAIN s = 1 .. Len(s) /\ Head(s) = s[1]
  OBVIOUS
<1>2. /\ Tail(s) \in Seq(S) /\ Len(Tail(s)) = Len(s) - 1
      /\ \A k \in 1 .. Len(s) - 1 : Tail(s)[k] = s[k + 1]
  OBVIOUS
<1> DEFINE t == Tail(s)
<1> HIDE DEF t
<1>3. t \in [1 .. Len(s) - 1 -> S]
  BY <1>2, LenProperties DEF t
<1>4. t = [k \in 1 .. Len(s) - 1 |-> t[k]]
  BY <1>3
<1>5. t = [k \in 1 .. Len(s) - 1 |-> s[k + 1]]
  <2>1. \A k \in 1 .. Len(s) - 1 : t[k] = s[k + 1]
    BY <1>2 DEF t
  <2> QED BY <1>4, <2>1
<1> QED BY <1>1, <1>2, <1>3, <1>5 DEF t

(* The head of a channel.                                                  *)
LEMMA HeadOfMaterial ==
    ASSUME TypeInv, NEW ch \in Channels, SentInv(ch), material[ch] # <<>>
    PROVE  /\ Head(Origins(ch)) \in Sent(ch)
           /\ Head(material[ch]) = Material(ch, Head(Origins(ch)))
           /\ Listing(Tail(Origins(ch)), Sent(ch) \ {Head(Origins(ch))})
           /\ DOMAIN Tail(material[ch]) = DOMAIN Tail(Origins(ch))
           /\ Tail(Origins(ch)) = [k \in DOMAIN Tail(material[ch]) |-> Tail(material[ch])[k][3][2]]
           /\ \A k \in DOMAIN Tail(material[ch]) :
                Tail(material[ch])[k] = Material(ch, Tail(Origins(ch))[k])
<1> DEFINE m == material[ch]
           o == Origins(ch)
           n == Len(m)
<1>1. m \in Seq(Int \X (Nat \cup {NoData}) \X Cells) /\ m # <<>>
  BY DEF TypeInv
<1>2. /\ Listing(o, Sent(ch)) /\ DOMAIN o = DOMAIN m /\ o = [k \in DOMAIN m |-> m[k][3][2]]
      /\ \A k \in DOMAIN m : m[k] = Material(ch, o[k])
  BY DEF SentInv, Origins
<1> HIDE DEF m, o
<1>3. /\ n \in Nat \ {0} /\ DOMAIN m = 1 .. n
      /\ Head(m) = m[1] /\ Tail(m) = [k \in 1 .. n - 1 |-> m[k + 1]]
  BY <1>1, TailFacts
<1>4. o \in Seq(Sent(ch)) /\ Len(o) = n /\ o # <<>>
  <2>1. o \in Seq(Sent(ch)) /\ Len(o) \in Nat /\ DOMAIN o = 1 .. Len(o)
    BY <1>2, ListingFacts
  <2>2. 1 .. Len(o) = 1 .. n
    BY <1>2, <1>3, <2>1
  <2> HIDE DEF n
  <2>3. Len(o) = n
    <3> DEFINE l == Len(o)
    <3>1. l \in Nat /\ n \in Nat \ {0} /\ 1 .. l = 1 .. n
      BY <1>3, <2>1, <2>2
    <3> HIDE DEF l
    <3>2. n \in 1 .. n
      BY <3>1
    <3>3. n \in 1 .. l
      BY <3>1, <3>2
    <3>4. l \in 1 .. l
      BY <3>1, <3>3
    <3>5. l \in 1 .. n
      BY <3>1, <3>4
    <3> QED BY <3>1, <3>3, <3>5 DEF l
  <2> QED BY <1>3, <2>1, <2>3
<1>5. /\ Head(o) = o[1] /\ Tail(o) = [k \in 1 .. n - 1 |-> o[k + 1]]
  BY <1>4, TailFacts
<1>6. Head(o) \in Sent(ch) /\ Listing(Tail(o), Sent(ch) \ {Head(o)})
  BY <1>2, <1>4, ListingTail
<1>7. Head(m) = Material(ch, Head(o))
  BY <1>2, <1>3, <1>5
<1>8. ASSUME NEW k \in 1 .. n - 1
      PROVE  /\ Tail(m)[k] = m[k + 1] /\ Tail(o)[k] = o[k + 1] /\ k + 1 \in 1 .. n
             /\ m[k + 1] = Material(ch, o[k + 1]) /\ o[k + 1] = m[k + 1][3][2]
  <2> HIDE DEF n
  <2>1. k + 1 \in 1 .. n
    BY <1>3
  <2> QED BY <1>2, <1>3, <1>5, <2>1
<1>9. DOMAIN Tail(m) = 1 .. n - 1 /\ DOMAIN Tail(o) = 1 .. n - 1
  BY <1>3, <1>5
<1>10. Tail(o) = [k \in 1 .. n - 1 |-> Tail(m)[k][3][2]]
  <2>1. \A k \in 1 .. n - 1 : o[k + 1] = Tail(m)[k][3][2]
    BY <1>8
  <2> QED BY <1>5, <2>1
<1> QED BY <1>6, <1>7, <1>8, <1>9, <1>10 DEF m, o

(* Partition p takes the material of the cell i of the neighbour at d off  *)
(* the channel, for its cell j.                                            *)
Received(p, d, i, j) ==
    LET ch == Source(p, d)
        x == <<ch[1], i>>
        c == <<p, j>>
    IN  /\ phase[p] = "inter" /\ material[ch] # <<>> /\ stream[p] = Idle
        /\ <<p, d>> \in Channels /\ ch \in Channels /\ ch \in Sides /\ ch[1] \in Partitions
        /\ i \in Sent(ch) /\ i = Head(Origins(ch)) /\ i \in SendersOf(ch)
        /\ x \in solved /\ x \notin delivered /\ x \in Cells /\ ch[1] # p
        /\ j \in CellsOf(p) /\ down[x] = c /\ c \in Cells /\ c # x /\ c # NoCell
        /\ material' = [material EXCEPT ![ch] = Tail(@)]
        /\ awaited' = [awaited EXCEPT ![<<p, d>>] = RemoveFirst(@, j)]
        /\ outflow' = [outflow EXCEPT ![c] = AddMaterial(@, outflow[x])]
        /\ inflowCount' = [inflowCount EXCEPT ![c] = @ - 1]
        /\ stream' = [stream EXCEPT ![p] = IF Confluence(c) THEN Idle ELSE j]
        /\ delivered' = delivered \cup {x}
        /\ UNCHANGED <<inputs, phase, connectivity, outputCells, ridges, closed, solved>>

(* That is what a monitor does.                                            *)
LEMMA ReceivedIs ==
    ASSUME AtLeastTwo, Inv, NEW p \in Partitions, NEW d \in Directions, ReceiveMaterial(p, d)
    PROVE  \E i, j : Received(p, d, i, j)
<1> DEFINE ch == Source(p, d)
<1>1. /\ FlowInv /\ TypeInv /\ SolvedInv
      /\ \A q \in Partitions : StageInv(q) /\ StreamInv(q)
      /\ \A q \in Partitions, e \in Directions : ListInv(q, e)
      /\ \A s \in Sides : OutputInv(s)
      /\ \A s \in Channels : SentInv(s)
      /\ \A y \in Cells : CountInv(y)
  BY DEF Inv
<1>2. /\ phase[p] = "inter" /\ awaited[<<p, d>>] # <<>> /\ material[ch] # <<>> /\ stream[p] = Idle
  BY Zenon DEF ReceiveMaterial
<1>3. <<p, d>> \in Channels
  BY <1>1, <1>2 DEF ListInv
<1>4. ch \in Channels /\ ch \in Sides /\ ch[1] \in Partitions
  BY <1>3, ChannelFacts DEF Channels, Sides
<1> PICK i : i = Head(Origins(ch))
  OBVIOUS
<1> HIDE DEF ch
<1>5. /\ i \in Sent(ch) /\ Head(material[ch]) = Material(ch, i)
      /\ Listing(Tail(Origins(ch)), Sent(ch) \ {i})
      /\ DOMAIN Tail(material[ch]) = DOMAIN Tail(Origins(ch))
      /\ Tail(Origins(ch)) = [k \in DOMAIN Tail(material[ch]) |-> Tail(material[ch])[k][3][2]]
      /\ \A k \in DOMAIN Tail(material[ch]) :
            Tail(material[ch])[k] = Material(ch, Tail(Origins(ch))[k])
  BY <1>1, <1>2, <1>4, HeadOfMaterial
<1> DEFINE x == <<ch[1], i>>
           name == InputIdx(ch[2], i, Offset[flow[x]])
<1>6. i \in SendersOf(ch) /\ x \in solved /\ x \notin delivered
  BY <1>5 DEF Sent
<1>7. /\ x \in Cells /\ down[x] \in Cells /\ down[x][1] = p /\ down[x] # NoCell /\ ch[1] # p
      /\ down[x][2] = IdxToIdxs(p, d, name)
  BY <1>1, <1>3, <1>6, SenderFlow DEF ch
<1>8. down[x] = <<p, IdxToIdxs(p, d, name)>> /\ IdxToIdxs(p, d, name) \in CellsOf(p)
  BY <1>7, CellFacts
<1> PICK j \in CellsOf(p) : j = IdxToIdxs(p, d, name)
  BY <1>8
<1> DEFINE c == <<p, j>>
<1>9. down[x] = c /\ c \in Cells /\ c # x /\ c # NoCell
  BY <1>7, <1>8
<1>10. Head(material[ch]) = <<name, outflow[x], x>>
  BY <1>5 DEF Material
<1> DEFINE received == Head(material[ch])
<1>11. received[1] = name /\ received[2] = outflow[x] /\ received[3] = x
  BY <1>10
<1>12. /\ material' = [material EXCEPT ![ch] = Tail(@)]
       /\ awaited' = [awaited EXCEPT ![<<p, d>>] = RemoveFirst(@, j)]
       /\ outflow' = [outflow EXCEPT ![c] = AddMaterial(@, outflow[x])]
       /\ inflowCount' = [inflowCount EXCEPT ![c] = @ - 1]
       /\ stream' = [stream EXCEPT ![p] = IF Confluence(c) THEN Idle ELSE j]
       /\ delivered' = delivered \cup {x}
       /\ UNCHANGED <<inputs, phase, connectivity, outputCells, ridges, closed, solved>>
  <2>1. /\ material' = [material EXCEPT ![ch] = Tail(@)]
        /\ awaited' = [awaited EXCEPT ![<<p, d>>] = RemoveFirst(@, IdxToIdxs(p, d, received[1]))]
        /\ outflow' = [outflow EXCEPT ![<<p, IdxToIdxs(p, d, received[1])>>] = AddMaterial(@, received[2])]
        /\ inflowCount' = [inflowCount EXCEPT ![<<p, IdxToIdxs(p, d, received[1])>>] = @ - 1]
        /\ stream' = [stream EXCEPT ![p] = IF Confluence(<<p, IdxToIdxs(p, d, received[1])>>) THEN Idle
                                           ELSE IdxToIdxs(p, d, received[1])]
        /\ delivered' = delivered \cup {received[3]}
        /\ UNCHANGED <<inputs, phase, connectivity, outputCells, ridges, closed, solved>>
    BY Zenon DEF ReceiveMaterial, ch
  <2>2. IdxToIdxs(p, d, received[1]) = j /\ <<p, IdxToIdxs(p, d, received[1])>> = c
    BY <1>11
  <2> HIDE DEF received, c, x, name
  <2> QED BY <1>11, <2>1, <2>2, Zenon
<1> HIDE DEF received, c, x, name
<1>13. Received(p, d, i, j)
  <2>1. i = Head(Origins(ch))
    OBVIOUS
  <2> QED BY <1>2, <1>3, <1>4, <1>5, <1>6, <1>7, <1>9, <1>12, <2>1, Zenon DEF Received, ch, c, x
<1> QED BY <1>13

(* Material is received from a neighbour.                                  *)
LEMMA ReceiveMaterialInv ==
    ASSUME AtLeastTwo, Inv, NEW p \in Partitions, NEW d \in Directions, ReceiveMaterial(p, d)
    PROVE  Inv'
<1> DEFINE ch == Source(p, d)
<1>1. /\ FlowInv /\ TypeInv /\ SolvedInv
      /\ \A q \in Partitions : StageInv(q) /\ StreamInv(q)
      /\ \A q \in Partitions, e \in Directions : ListInv(q, e)
      /\ \A s \in Sides : OutputInv(s)
      /\ \A s \in Channels : SentInv(s)
      /\ \A y \in Cells : CountInv(y)
  BY DEF Inv
<1> PICK i, j : Received(p, d, i, j)
  BY ReceivedIs
<1> DEFINE x == <<ch[1], i>>
           c == <<p, j>>
<1>2. /\ phase[p] = "inter" /\ material[ch] # <<>> /\ stream[p] = Idle
  BY Zenon DEF Received
<1>3. <<p, d>> \in Channels
  BY Zenon DEF Received
<1>4. ch \in Channels /\ ch \in Sides /\ ch[1] \in Partitions
  BY Zenon DEF Received
<1>0. i = Head(Origins(ch)) /\ i \in SendersOf(ch)
  BY Zenon DEF Received
<1>6. x \in solved /\ x \notin delivered /\ x \in Cells /\ ch[1] # p
  BY Zenon DEF Received
<1>7. down[x] = c /\ c \in Cells /\ c # x /\ c # NoCell /\ j \in CellsOf(p)
  BY Zenon DEF Received
<1>12. /\ material' = [material EXCEPT ![ch] = Tail(@)]
       /\ awaited' = [awaited EXCEPT ![<<p, d>>] = RemoveFirst(@, j)]
       /\ outflow' = [outflow EXCEPT ![c] = AddMaterial(@, outflow[x])]
       /\ inflowCount' = [inflowCount EXCEPT ![c] = @ - 1]
       /\ stream' = [stream EXCEPT ![p] = IF Confluence(c) THEN Idle ELSE j]
       /\ delivered' = delivered \cup {x}
       /\ UNCHANGED <<inputs, phase, connectivity, outputCells, ridges, closed, solved>>
  BY Zenon DEF Received
<1>9. down[x] = c /\ c \in Cells /\ c[1] = p /\ c[2] = j /\ c # x /\ down[x] # NoCell /\ down[x][1] = p
  BY <1>7
<1> HIDE DEF ch
<1>5. /\ i \in Sent(ch) /\ Head(material[ch]) = Material(ch, i)
      /\ Listing(Tail(Origins(ch)), Sent(ch) \ {i})
      /\ DOMAIN Tail(material[ch]) = DOMAIN Tail(Origins(ch))
      /\ Tail(Origins(ch)) = [k \in DOMAIN Tail(material[ch]) |-> Tail(material[ch])[k][3][2]]
      /\ \A k \in DOMAIN Tail(material[ch]) :
            Tail(material[ch])[k] = Material(ch, Tail(Origins(ch))[k])
  BY <1>0, <1>1, <1>2, <1>4, HeadOfMaterial
<1> HIDE DEF c, x
<1>13. inputReady' = inputReady /\ UNCHANGED inputs /\ UNCHANGED <<inputs, connectivity>>
  BY <1>12 DEF connectivity
<1>14. /\ \A y \in Cells : CountInv(y)'
       /\ ~Confluence(c) => UpstreamOf(c) \subseteq delivered'
       /\ inflowCount' \in [Cells -> Int]
       /\ c \notin solved /\ j \notin ridges[p] /\ flow[c] # "no_data"
  <2>1. Arrives(x, c)
    BY <1>12 DEF Arrives
  <2>2. x \in Cells \ delivered /\ phase[c[1]] \in Counted
    BY <1>2, <1>6, <1>9 DEF Counted
  <2> QED BY <1>1, <1>9, <2>1, <2>2, ArrivesFacts
<1>15. SameStage
  BY <1>12 DEF SameStage
<1>16. FlowInv' /\ down' = down /\ flow' = flow /\ \A y : UpstreamOf(y)' = UpstreamOf(y)
  BY <1>1, <1>13, InputsStay
<1>17. delivered \subseteq solved /\ solved \subseteq Cells
  BY <1>1 DEF TypeInv
<1>18. /\ outflow' \in [Cells -> Nat \cup {NoData}]
       /\ \A y \in Cells : y # c => outflow'[y] = outflow[y]
  <2>1. \A v, w \in Nat \cup {NoData} : AddMaterial(v, w) \in Nat \cup {NoData}
    BY <1>1, <1>9, TotalType
  <2>2. outflow \in [Cells -> Nat \cup {NoData}]
    BY <1>1 DEF TypeInv
  <2>3. AddMaterial(outflow[c], outflow[x]) \in Nat \cup {NoData}
    BY <1>6, <1>9, <2>1, <2>2
  <2> QED BY <1>9, <1>12, <2>2, <2>3
<1>19. /\ stream' \in [Partitions -> (Nat \X Nat) \cup {Idle}]
       /\ stream'[p] = IF Confluence(c) THEN Idle ELSE j
       /\ \A q \in Partitions : q # p => stream'[q] = stream[q]
  <2>1. j \in Nat \X Nat
    BY <1>7, PartitionFacts DEF CellsOf
  <2> QED BY <1>1, <1>7, <1>12, <2>1 DEF TypeInv
<1>20. /\ awaited' \in ListsOfSides
       /\ \A s \in Sides : s # <<p, d>> => awaited'[s] = awaited[s]
  <2>1. awaited \in ListsOfSides /\ <<p, d>> \in Sides
    BY <1>1 DEF TypeInv, Sides
  <2>2. RemoveFirst(awaited[<<p, d>>], j) \in Seq(CellsOf(p)) /\ RemoveFirst(awaited[<<p, d>>], j) \in Seq(Nat \X Nat)
    <3>1. awaited[<<p, d>>] \in Seq(Nat \X Nat) /\ awaited[<<p, d>>] \in Seq(CellsOf(p))
      BY <2>1 DEF ListsOfSides
    <3> QED BY <3>1, RemoveFirstType
  <2> DEFINE r == RemoveFirst(awaited[<<p, d>>], j)
  <2>3. awaited' = [awaited EXCEPT ![<<p, d>>] = r]
    BY <1>12
  <2> HIDE DEF r
  <2>4. r \in Seq(CellsOf(p)) /\ r \in Seq(Nat \X Nat)
    BY <2>2 DEF r
  <2> PICK side \in Sides : side = <<p, d>>
    BY <2>1
  <2>5. side[1] = p /\ awaited' = [awaited EXCEPT ![side] = r]
    BY <2>3
  <2>6. awaited' \in ListsOfSides /\ \A s \in Sides : s # side => awaited'[s] = awaited[s]
    BY <2>1, <2>4, <2>5 DEF ListsOfSides
  <2> QED BY <2>6
<1>21. /\ material' \in [Channels -> Seq(Int \X (Nat \cup {NoData}) \X Cells)]
       /\ material'[ch] = Tail(material[ch])
       /\ \A s \in Channels : s # ch => material'[s] = material[s]
  <2>1. material \in [Channels -> Seq(Int \X (Nat \cup {NoData}) \X Cells)]
    BY <1>1 DEF TypeInv
  <2>2. Tail(material[ch]) \in Seq(Int \X (Nat \cup {NoData}) \X Cells)
    BY <1>2, <1>4, <2>1, TailFacts
  <2> QED BY <1>4, <1>12, <2>1, <2>2
<1>22. TypeInv'
  BY <1>1, <1>6, <1>7, <1>12, <1>13, <1>14, <1>17, <1>18, <1>19, <1>20, <1>21 DEF TypeInv, connectivity
<1>23. ASSUME NEW q \in Partitions PROVE StageInv(q)'
  <2>1. phase[q] \notin Counted => q # p
    BY <1>2 DEF Counted
  <2>2. phase[q] = "done" => q # p
    BY <1>2
  <2>3. q # p => \A e \in Directions : awaited'[<<q, e>>] = awaited[<<q, e>>]
    BY <1>20 DEF Sides
  <2> QED BY <1>1, <1>9, <1>12, <1>13, <1>16, <1>19, <2>1, <2>2, <2>3 DEF StageInv, Counted
<1>24. \A q \in Partitions, e \in Directions : ListInv(q, e)'
  <2>1. \A s \in Sides : s \notin Channels => awaited'[s] = <<>>
    BY <1>1, <1>3, <1>20, SideFacts DEF ListInv
  <2> QED BY <1>1, <1>13, <1>15, <2>1, ListsStay DEF SameStage
<1>25. \A s \in Sides : OutputInv(s)'
  BY <1>1, <1>12, <1>13, OutputsStay
<1>26. ASSUME NEW s \in Channels PROVE SentInv(s)'
  <2>1. s \in Sides
    BY DEF Channels
  <2>2. ASSUME NEW k \in SendersOf(s)
        PROVE  /\ <<s[1], k>> = x <=> s = ch /\ k = i
               /\ <<s[1], k>> \in solved => outflow'[<<s[1], k>>] = outflow[<<s[1], k>>]
    <3>1. <<s[1], k>> = x <=> s = ch /\ k = i
      BY <1>0, <1>4, <2>1, SenderUnique DEF x
    <3>2. <<s[1], k>> \in solved => outflow'[<<s[1], k>>] = outflow[<<s[1], k>>]
      BY <1>14, <1>17, <1>18
    <3> QED BY <3>1, <3>2
  <2>3. CASE s # ch
    <3>1. \A k \in SendersOf(s) :
                /\ <<s[1], k>> \in solved' \ delivered' <=> <<s[1], k>> \in solved \ delivered
                /\ <<s[1], k>> \in solved \ delivered => outflow'[<<s[1], k>>] = outflow[<<s[1], k>>]
      BY <1>12, <2>2, <2>3
    <3> QED BY <1>1, <1>12, <1>13, <1>21, <2>3, <3>1, SentStays
  <2>4. CASE s = ch
    <3> DEFINE m == Tail(material[ch])
    <3> PICK o : o = Tail(Origins(ch))
      OBVIOUS
    <3>1. SendersOf(ch)' = SendersOf(ch)
      BY <1>13, InputsStay
    <3>2. Sent(ch)' = Sent(ch) \ {i}
      BY <1>12, <2>2, <2>4, <3>1 DEF Sent
    <3>3. material'[ch] = m /\ Origins(ch)' = o
      <4>1. Origins(ch)' = [k \in DOMAIN material'[ch] |-> material'[ch][k][3][2]]
        BY DEF Origins
      <4> QED BY <1>5, <1>21, <4>1
    <3>4. Listing(Origins(ch)', Sent(ch)')
      BY <1>5, <3>2, <3>3
    <3>5. ASSUME NEW k \in DOMAIN m PROVE m[k] = Material(ch, o[k])'
      <4>1. m[k] = Material(ch, o[k]) /\ o[k] \in Sent(ch)
        <5>1. o \in Seq(Sent(ch) \ {i}) /\ k \in DOMAIN o
          BY <1>5, ListingFacts
        <5>2. o[k] \in Sent(ch)
          BY <5>1
        <5> QED BY <1>5, <5>2
      <4> PICK l \in Sent(ch) : l = o[k]
        BY <4>1
      <4>2. l \in SendersOf(ch) /\ <<ch[1], l>> \in solved
        BY DEF Sent
      <4>3. outflow'[<<ch[1], l>>] = outflow[<<ch[1], l>>]
        BY <2>2, <2>4, <4>2
      <4>4. Material(ch, l)' = Material(ch, l)
        BY <1>16, <4>3 DEF Material
      <4> QED BY <3>3, <4>1, <4>4
    <3>6. ch \in closed' => phase'[ch[1]] # "connect" /\ outputCells'[ch] = <<>>
      BY <1>1, <1>4, <1>12 DEF SentInv
    <3> HIDE DEF m
    <3> QED BY <2>4, <3>3, <3>4, <3>5, <3>6 DEF SentInv
  <2> QED BY <2>3, <2>4
<1>27. ASSUME NEW q \in Partitions PROVE StreamInv(q)'
  <2>1. CASE q = p
    <3>1. stream'[p] # Idle =>
            /\ stream'[p] = j /\ UpstreamOf(c) \subseteq delivered' /\ c \notin solved'
      BY <1>12, <1>14, <1>19
    <3> QED BY <1>1, <1>2, <1>12, <1>14, <1>16, <2>1, <3>1 DEF StreamInv, c
  <2>2. CASE q # p
    BY <1>1, <1>12, <1>13, <1>19, <2>2, StreamStays
  <2> QED BY <2>1, <2>2
<1>28. SolvedInv'
  BY <1>1, <1>9, <1>12, <1>16 DEF SolvedInv
<1> QED BY <1>14, <1>16, <1>22, <1>23, <1>24, <1>25, <1>26, <1>27, <1>28 DEF Inv

(* What every partition tells its neighbours.                              *)
LEMMA ReverseChannel ==
    ASSUME NEW ch \in Channels
    PROVE  \E p, d : <<p, d>> \in Channels /\ Source(p, d) = ch
<1>1. ch = <<ch[1], ch[2]>>
  BY DEF Channels, Sides
<1> QED BY <1>1, ChannelFacts

(* Every channel has one reader.                                           *)
LEMMA SourceUnique ==
    ASSUME NEW p, NEW d, NEW q, NEW e, <<p, d>> \in Channels, <<q, e>> \in Channels,
           Source(p, d) = Source(q, e)
    PROVE  p = q /\ d = e
<1>1. /\ Source(p, d) = <<Neighbour(p, d), SenderDirection[d]>>
      /\ Source(Neighbour(p, d), SenderDirection[d]) = <<p, d>>
      /\ Source(q, e) = <<Neighbour(q, e), SenderDirection[e]>>
      /\ Source(Neighbour(q, e), SenderDirection[e]) = <<q, e>>
  BY ChannelFacts
<1>2. \A a, b, x, y : <<a, b>> = <<x, y>> => a = x /\ b = y
  OBVIOUS
<1>3. <<Neighbour(p, d), SenderDirection[d]>> = <<Neighbour(q, e), SenderDirection[e]>>
  BY <1>1, Zenon
<1>4. Neighbour(p, d) = Neighbour(q, e) /\ SenderDirection[d] = SenderDirection[e]
  BY <1>2, <1>3, Zenon
<1>5. <<p, d>> = <<q, e>>
  BY <1>1, <1>4, Zenon
<1> QED BY <1>5

(* A partition lists its output cells and sends the names.                 *)
LEMMA ConnectInv ==
    ASSUME AtLeastTwo, Inv, NEW p \in Partitions, Connect(p)
    PROVE  Inv'
<1>1. /\ FlowInv /\ TypeInv /\ SolvedInv
      /\ \A q \in Partitions : StageInv(q) /\ StreamInv(q)
      /\ \A q \in Partitions, d \in Directions : ListInv(q, d)
      /\ \A s \in Sides : OutputInv(s)
      /\ \A ch \in Channels : SentInv(ch)
      /\ \A c \in Cells : CountInv(c)
  BY DEF Inv
<1> DEFINE output == [d \in Directions |-> OutputCells(flow, p, d)]
           lists(d) == IF output[d] = <<>> THEN << <<>> >>
                       ELSE <<InputIdxs(flow, p, d, output[d]), <<>> >>
<1>2. /\ phase[p] = "connect" /\ phase' = [phase EXCEPT ![p] = "count"]
      /\ outputCells' = [s \in Sides |-> IF s[1] = p THEN output[s[2]] ELSE outputCells[s]]
      /\ inflowChannel' = [ch \in Channels |-> IF ch[1] = p THEN lists(ch[2]) ELSE inflowChannel[ch]]
      /\ inputReady' = inputReady \cup (({p} \X Directions) \ Channels)
      /\ UNCHANGED <<inputs, inputCells, inflowCount, outflow, ridges, stream,
                     material, closed, awaited, history>>
  BY Zenon DEF Connect
<1>3. UNCHANGED inputs /\ solved' = solved /\ delivered' = delivered /\ flow' = flow /\ down' = down
  BY <1>2 DEF inputs, history
<1>4. \A s \in Sides : outputCells'[s] = IF s[1] = p THEN Listed(s) ELSE outputCells[s]
  BY <1>2, SideFacts DEF Listed
<1>5. ASSUME NEW ch \in Channels
      PROVE  inflowChannel'[ch] = IF ch[1] # p THEN inflowChannel[ch]
                                  ELSE IF Listed(ch) = <<>> THEN << <<>> >> ELSE <<NamesOf(ch), <<>> >>
  <2>1. ch \in Sides /\ ch[2] \in Directions
    BY DEF Channels, Sides
  <2>2. ch[1] = p => output[ch[2]] = Listed(ch)
    BY <2>1 DEF Listed
  <2>3. ch[1] = p => InputIdxs(flow, p, ch[2], output[ch[2]]) = NamesOf(ch)
    BY <2>2 DEF NamesOf
  <2> HIDE DEF output
  <2> QED BY <1>2, <2>2, <2>3
<1> HIDE DEF output, lists
<1>6. /\ phase \in [Partitions -> {"connect", "count", "intra", "inter", "done"}]
      /\ phase' \in [Partitions -> {"connect", "count", "intra", "inter", "done"}]
      /\ phase'[p] = "count" /\ \A q \in Partitions : q # p => phase'[q] = phase[q]
      /\ \A q \in Partitions : phase'[q] \in Counted <=> phase[q] \in Counted
  <2>1. phase \in [Partitions -> {"connect", "count", "intra", "inter", "done"}]
    BY <1>1 DEF TypeInv
  <2> QED BY <1>2, <2>1 DEF Counted
<1>7. \A q \in Partitions, d \in Directions :
        <<q, d>> \in inputReady' <=> <<q, d>> \in inputReady \/ (q = p /\ <<q, d>> \notin Channels)
  BY <1>2
<1>8. flow \in [Cells -> FlowValues] /\ FlowInv'
  BY <1>1, <1>3, InputsStay DEF FlowInv
<1>9. ASSUME NEW s \in Sides PROVE Listing(Listed(s), SendersOf(s))
  BY <1>8, SideFacts, OutputCellsIs DEF Listed, SendersOf
<1>10. outputCells' \in ListsOfSides
  <2>1. outputCells \in ListsOfSides
    BY <1>1 DEF TypeInv
  <2>2. ASSUME NEW s \in Sides PROVE Listed(s) \in Seq(CellsOf(s[1])) /\ Listed(s) \in Seq(Nat \X Nat)
    <3>1. Listed(s) \in Seq(SendersOf(s))
      BY <1>9, ListingFacts
    <3>2. SendersOf(s) \subseteq CellsOf(s[1]) /\ SendersOf(s) \subseteq Nat \X Nat
      BY SideFacts, PartitionFacts DEF SendersOf, Senders, CellsOf
    <3> QED BY <3>1, <3>2, SeqMonotonic
  <2>3. outputCells' = [s \in Sides |-> outputCells'[s]]
    BY <1>2
  <2> QED BY <1>4, <2>1, <2>2, <2>3 DEF ListsOfSides
<1>11. inflowChannel' \in [Channels -> Seq(Seq(Int))]
  <2>1. inflowChannel' = [ch \in Channels |-> inflowChannel'[ch]]
    BY <1>2
  <2>2. ASSUME NEW ch \in Channels PROVE inflowChannel'[ch] \in Seq(Seq(Int))
    <3>1. NamesOf(ch) \in Seq(Int)
      BY <1>1, ReverseChannel, NamedFacts
    <3>2. <<>> \in Seq(Int) /\ inflowChannel[ch] \in Seq(Seq(Int))
      BY <1>1 DEF TypeInv
    <3>3. << <<>> >> \in Seq(Seq(Int)) /\ <<NamesOf(ch), <<>> >> \in Seq(Seq(Int))
      BY <3>1, <3>2
    <3> QED BY <1>5, <3>2, <3>3
  <2> QED BY <2>1, <2>2
<1>12. TypeInv'
  <2>1. inputReady' \subseteq Sides
    BY <1>1, <1>2 DEF TypeInv, Sides
  <2> QED BY <1>1, <1>2, <1>3, <1>6, <1>10, <1>11, <2>1 DEF TypeInv
<1>13. ASSUME NEW q \in Partitions PROVE StageInv(q)'
  <2>1. CASE q = p
    BY <1>1, <1>2, <1>3, <1>6, <1>7, <2>1 DEF StageInv, Counted
  <2>2. CASE q # p
    BY <1>1, <1>2, <1>3, <1>6, <1>7, <2>2 DEF StageInv, Counted
  <2> QED BY <2>1, <2>2
<1>14. ASSUME NEW q \in Partitions, NEW d \in Directions PROVE ListInv(q, d)'
  <2> DEFINE ch == Source(q, d)
  <2>1. ListInv(q, d) /\ NamesOf(ch)' = NamesOf(ch) /\ Named(q, d)' = Named(q, d)
        /\ inputCells' = inputCells /\ awaited' = awaited
    BY <1>1, <1>2, <1>3, InputsStay
  <2>2. CASE <<q, d>> \notin Channels
    BY <2>1, <2>2 DEF ListInv
  <2>3. CASE <<q, d>> \in Channels
    <3>1. ch \in Channels /\ ch[1] \in Partitions /\ (<<q, d>> \in inputReady' <=> <<q, d>> \in inputReady)
      BY <1>7, <2>3, ChannelFacts
    <3>2. /\ Named(q, d) = <<>> <=> NamesOf(ch) = <<>>
          /\ NamesOf(ch) = <<>> <=> Listed(ch) = <<>>
      BY <1>1, <2>3, NamedFacts
    <3>3. CASE ch[1] = p
      <4>1. inputCells[<<q, d>>] = <<>> /\ <<q, d>> \notin inputReady
        BY <1>2, <2>1, <2>3, <3>3 DEF ListInv
      <4>2. inflowChannel'[ch] = IF Listed(ch) = <<>> THEN << <<>> >> ELSE <<NamesOf(ch), <<>> >>
        BY <1>5, <3>1, <3>3
      <4>3. phase'[ch[1]] # "connect"
        BY <1>6, <3>3
      <4> HIDE DEF ch
      <4> QED BY <2>1, <2>3, <3>1, <3>2, <4>1, <4>2, <4>3 DEF ListInv, ch
    <3>4. CASE ch[1] # p
      <4>1. inflowChannel'[ch] = inflowChannel[ch] /\ phase'[ch[1]] = phase[ch[1]]
        BY <1>5, <1>6, <3>1, <3>4
      <4> QED BY <2>1, <2>3, <3>1, <4>1 DEF ListInv
    <3> QED BY <3>3, <3>4
  <2> QED BY <2>2, <2>3
<1>15. ASSUME NEW s \in Sides PROVE OutputInv(s)'
  <2>1. CASE s[1] = p
    <3>1. SendersOf(s)' = SendersOf(s)
      BY <1>3, InputsStay
    <3>2. \A c \in solved : c[1] # p
      BY <1>1, <1>2 DEF StageInv, Counted
    <3>3. Unsolved(s)' = SendersOf(s)
      BY <1>3, <2>1, <3>1, <3>2 DEF Unsolved
    <3>4. outputCells'[s] = Listed(s)
      BY <1>4, <2>1
    <3> QED BY <1>9, <3>3, <3>4 DEF OutputInv
  <2>2. CASE s[1] # p
    BY <1>1, <1>3, <1>4, <1>6, <2>2, SideFacts, OutputsStay
  <2> QED BY <2>1, <2>2
<1>16. ASSUME NEW ch \in Channels PROVE SentInv(ch)'
  <2>1. ch \in Sides /\ ch[1] \in Partitions
    BY DEF Channels, Sides
  <2>2. ch \in closed => ch[1] # p
    BY <1>1, <1>2 DEF SentInv
  <2> QED BY <1>1, <1>2, <1>3, <1>4, <1>6, <2>1, <2>2, SentStays
<1>17. \A c \in Cells : CountInv(c)'
  BY <1>1, <1>2, <1>3, <1>6, CellFacts, CountsStay
<1>18. ASSUME NEW q \in Partitions PROVE StreamInv(q)'
  <2>1. phase'[q] = phase[q] \/ stream[q] = Idle
    BY <1>1, <1>2, <1>6 DEF StageInv, Counted
  <2> QED BY <1>1, <1>2, <1>3, <2>1, StreamStays
<1>19. SolvedInv'
  BY <1>1, <1>3, InputsStay DEF SolvedInv
<1> QED BY <1>8, <1>12, <1>13, <1>14, <1>15, <1>16, <1>17, <1>18, <1>19 DEF Inv

(* A list of names, or its end, is received.                               *)
LEMMA ReceiveInputCellsInv ==
    ASSUME AtLeastTwo, Inv, NEW p \in Partitions, NEW d \in Directions, ReceiveInputCells(p, d)
    PROVE  Inv'
<1>1. /\ FlowInv /\ TypeInv /\ SolvedInv
      /\ \A q \in Partitions : StageInv(q) /\ StreamInv(q)
      /\ \A q \in Partitions, e \in Directions : ListInv(q, e)
      /\ \A s \in Sides : OutputInv(s)
      /\ \A s \in Channels : SentInv(s)
      /\ \A c \in Cells : CountInv(c)
  BY DEF Inv
<1> DEFINE ch == Source(p, d)
           idxs == Head(inflowChannel[ch])
<1>2. /\ phase[p] = "count" /\ <<p, d>> \in Channels /\ <<p, d>> \notin inputReady
      /\ inflowChannel[ch] # <<>>
      /\ inflowChannel' = [inflowChannel EXCEPT ![ch] = Tail(@)]
      /\ IF idxs = <<>>
         THEN inputReady' = inputReady \cup {<<p, d>>} /\ inputCells' = inputCells
         ELSE /\ inputCells' = [inputCells EXCEPT ![<<p, d>>] =
                                @ \o [k \in DOMAIN idxs |-> IdxToIdxs(p, d, idxs[k])]]
              /\ inputReady' = inputReady
      /\ UNCHANGED <<inputs, phase, outputCells, inflowCount, outflow, ridges, stream,
                     material, closed, awaited, history>>
  BY Zenon DEF ReceiveInputCells
<1>3. UNCHANGED inputs /\ solved' = solved /\ delivered' = delivered /\ flow' = flow /\ down' = down
  BY <1>2 DEF inputs, history
<1>4. ch \in Channels /\ ch[1] \in Partitions /\ <<p, d>> \in Sides
  BY <1>2, ChannelFacts DEF Channels, Sides
<1>5. /\ NamesOf(ch) \in Seq(Int) /\ Named(p, d) \in Seq(CellsOf(p))
      /\ Named(p, d) = [k \in DOMAIN NamesOf(ch) |-> IdxToIdxs(p, d, NamesOf(ch)[k])]
  BY <1>1, <1>2, NamedFacts DEF Named
<1>6. ListInv(p, d)
  BY <1>1
<1> HIDE DEF ch, idxs
<1>7. /\ phase[ch[1]] # "connect"
      /\ \/ /\ NamesOf(ch) # <<>> /\ inflowChannel[ch] = <<NamesOf(ch), <<>> >>
            /\ inputCells[<<p, d>>] = <<>>
         \/ inflowChannel[ch] = << <<>> >> /\ inputCells[<<p, d>>] = Named(p, d)
  BY <1>2, <1>6 DEF ListInv, ch
<1>8. /\ inflowChannel \in [Channels -> Seq(Seq(Int))] /\ inputCells \in ListsOfSides
      /\ inputReady \subseteq Sides
  BY <1>1 DEF TypeInv
<1>9. /\ inflowChannel' \in [Channels -> Seq(Seq(Int))]
      /\ \A s \in Channels : s # ch => inflowChannel'[s] = inflowChannel[s]
      /\ inflowChannel'[ch] = Tail(inflowChannel[ch])
  <2>1. Tail(inflowChannel[ch]) \in Seq(Seq(Int))
    BY <1>2, <1>4, <1>8, TailFacts
  <2> QED BY <1>2, <1>4, <1>8, <2>1
<1>10. /\ inputCells' \in ListsOfSides /\ inputCells'[<<p, d>>] = Named(p, d)
       /\ \A s \in Sides : s # <<p, d>> => inputCells'[s] = inputCells[s]
       /\ \/ /\ inflowChannel'[ch] = << <<>> >> /\ inputReady' = inputReady
          \/ /\ inflowChannel'[ch] = <<>> /\ inputReady' = inputReady \cup {<<p, d>>}
  <2>1. CASE NamesOf(ch) # <<>> /\ inflowChannel[ch] = <<NamesOf(ch), <<>> >> /\ inputCells[<<p, d>>] = <<>>
    <3>1. idxs = NamesOf(ch) /\ Tail(inflowChannel[ch]) = << <<>> >>
      BY <2>1 DEF idxs
    <3>2. inputCells[<<p, d>>] \o [k \in DOMAIN idxs |-> IdxToIdxs(p, d, idxs[k])] = Named(p, d)
      <4>1. [k \in DOMAIN idxs |-> IdxToIdxs(p, d, idxs[k])] = Named(p, d)
        BY <1>5, <3>1
      <4>2. \A t \in Seq(CellsOf(p)) : <<>> \o t = t
        OBVIOUS
      <4> QED BY <1>5, <2>1, <4>1, <4>2
    <3>3. inputCells' = [inputCells EXCEPT ![<<p, d>>] = Named(p, d)] /\ inputReady' = inputReady
      BY <1>2, <2>1, <3>1, <3>2
    <3>4. Named(p, d) \in Seq(Nat \X Nat)
      <4>1. CellsOf(p) \subseteq Nat \X Nat
        BY PartitionFacts DEF CellsOf
      <4> QED BY <1>5, <4>1, SeqMonotonic
    <3> PICK side \in Sides : side = <<p, d>>
      BY <1>4
    <3>5. side[1] = p /\ inputCells' = [inputCells EXCEPT ![side] = Named(p, d)]
      BY <3>3
    <3>6. inputCells' \in ListsOfSides /\ inputCells'[side] = Named(p, d)
          /\ \A s \in Sides : s # side => inputCells'[s] = inputCells[s]
      BY <1>5, <1>8, <3>4, <3>5 DEF ListsOfSides
    <3> QED BY <1>9, <3>1, <3>3, <3>6
  <2>2. CASE inflowChannel[ch] = << <<>> >> /\ inputCells[<<p, d>>] = Named(p, d)
    <3>1. idxs = <<>> /\ Tail(inflowChannel[ch]) = <<>>
      BY <2>2 DEF idxs
    <3> QED BY <1>2, <1>8, <1>9, <2>2, <3>1
  <2> QED BY <1>7, <2>1, <2>2
<1>11. SameStage /\ phase' = phase
  BY <1>2 DEF SameStage
<1>12. FlowInv'
  BY <1>1, <1>3, InputsStay
<1>13. TypeInv'
  <2>1. inputReady' \subseteq Sides
    BY <1>4, <1>8, <1>10
  <2> QED BY <1>1, <1>2, <1>3, <1>9, <1>10, <2>1 DEF TypeInv
<1>14. ASSUME NEW q \in Partitions PROVE StageInv(q)'
  <2>1. CASE q = p
    BY <1>1, <1>2, <1>3, <2>1 DEF StageInv, Counted
  <2>2. CASE q # p
    <3>1. \A e \in Directions : <<q, e>> \in inputReady' <=> <<q, e>> \in inputReady
      BY <1>10, <2>2
    <3> QED BY <1>1, <1>2, <1>3, <2>2, <3>1 DEF StageInv, Counted
  <2> QED BY <2>1, <2>2
<1>15. ASSUME NEW q \in Partitions, NEW e \in Directions PROVE ListInv(q, e)'
  <2>1. /\ ListInv(q, e) /\ NamesOf(Source(q, e))' = NamesOf(Source(q, e)) /\ Named(q, e)' = Named(q, e)
        /\ awaited' = awaited /\ phase' = phase /\ <<q, e>> \in Sides
    BY <1>1, <1>2, <1>3, InputsStay DEF Sides
  <2>2. CASE <<q, e>> = <<p, d>>
    <3>1. q = p /\ e = d
      BY <2>2
    <3>2. inflowChannel'[ch] = <<>> => <<p, d>> \in inputReady'
      BY <1>10
    <3>3. <<p, d>> \in inputReady' => inflowChannel'[ch] = <<>>
      BY <1>2, <1>10
    <3> QED BY <1>2, <1>7, <1>10, <2>1, <3>1, <3>2, <3>3 DEF ListInv, ch
  <2>3. CASE <<q, e>> # <<p, d>>
    <3>1. inputCells'[<<q, e>>] = inputCells[<<q, e>>]
          /\ (<<q, e>> \in inputReady' <=> <<q, e>> \in inputReady)
      BY <1>10, <2>1, <2>3
    <3>2. <<q, e>> \in Channels => inflowChannel'[Source(q, e)] = inflowChannel[Source(q, e)]
      <4>1. <<q, e>> \in Channels => Source(q, e) \in Channels /\ Source(q, e) # ch
        BY <1>2, <2>3, ChannelFacts, SourceUnique DEF ch
      <4> QED BY <1>9, <4>1
    <3> QED BY <2>1, <3>1, <3>2 DEF ListInv
  <2> QED BY <2>2, <2>3
<1>16. \A s \in Sides : OutputInv(s)'
  BY <1>1, <1>2, <1>3, OutputsStay
<1>17. \A s \in Channels : SentInv(s)'
  BY <1>1, <1>2, <1>3, SentStays
<1>18. \A c \in Cells : CountInv(c)'
  BY <1>1, <1>2, <1>3, CountsStay
<1>19. \A q \in Partitions : StreamInv(q)'
  BY <1>1, <1>2, <1>3, StreamStays
<1>20. SolvedInv'
  BY <1>1, <1>3, InputsStay DEF SolvedInv
<1> QED BY <1>12, <1>13, <1>14, <1>15, <1>16, <1>17, <1>18, <1>19, <1>20 DEF Inv

(* All lists are in: the counts are the numbers of cells upstream.         *)
LEMMA CountInflowInv ==
    ASSUME AtLeastTwo, Inv, NEW p \in Partitions, CountInflow(p)
    PROVE  Inv'
<1>1. /\ FlowInv /\ TypeInv /\ SolvedInv
      /\ \A q \in Partitions : StageInv(q) /\ StreamInv(q)
      /\ \A q \in Partitions, d \in Directions : ListInv(q, d)
      /\ \A s \in Sides : OutputInv(s)
      /\ \A ch \in Channels : SentInv(ch)
      /\ \A c \in Cells : CountInv(c)
  BY DEF Inv
<1> DEFINE count == [idxs \in CellsOf(p) |-> PartitionInflowCount(flow, p, idxs) + NrInputs(p, idxs)]
           valid == {idxs \in CellsOf(p) : flow[<<p, idxs>>] # "no_data"}
<1>2. /\ phase[p] = "count" /\ {p} \X Directions \subseteq inputReady
      /\ phase' = [phase EXCEPT ![p] = "intra"]
      /\ inflowCount' = [c \in Cells |-> IF c[1] = p THEN count[c[2]] ELSE inflowCount[c]]
      /\ ridges' = [ridges EXCEPT ![p] = {idxs \in valid : count[idxs] = 0}]
      /\ outflow' = [c \in Cells |-> IF c[1] = p /\ c[2] \notin valid THEN NoData ELSE outflow[c]]
      /\ UNCHANGED <<inputs, connectivity, outputCells, stream, material, closed,
                     awaited, history>>
  BY Zenon DEF CountInflow
<1>3. /\ UNCHANGED inputs /\ solved' = solved /\ delivered' = delivered /\ flow' = flow /\ down' = down
      /\ UNCHANGED <<inputs, connectivity>> /\ inputReady' = inputReady
  BY <1>2 DEF inputs, history, connectivity
<1>4. ASSUME NEW d \in Directions
      PROVE  inputCells[<<p, d>>] = IF <<p, d>> \in Channels THEN Named(p, d) ELSE <<>>
  <2>1. <<p, d>> \in inputReady /\ ListInv(p, d)
    BY <1>1, <1>2
  <2> QED BY <2>1 DEF ListInv
<1>5. ASSUME NEW idxs \in CellsOf(p) PROVE count[idxs] = Cardinality(UpstreamOf(<<p, idxs>>))
  <2>1. PartitionInflowCount(flow, p, idxs) + NrInputs(p, idxs) = Cardinality(UpstreamOf(<<p, idxs>>))
    BY <1>1, <1>4, InflowCountIs
  <2> QED BY <2>1
<1>6. ASSUME NEW idxs \in CellsOf(p)
      PROVE  /\ count[idxs] \in Int /\ (count[idxs] = 0 <=> UpstreamOf(<<p, idxs>>) = {})
             /\ UpstreamOf(<<p, idxs>>) \ delivered = UpstreamOf(<<p, idxs>>)
  <2>1. <<p, idxs>> \in Cells
    BY CellFacts
  <2>2. IsFiniteSet(UpstreamOf(<<p, idxs>>)) /\ Cardinality(UpstreamOf(<<p, idxs>>)) \in Int
    BY <1>1, <2>1, UpstreamBound
  <2>3. \A x \in delivered : down[x][1] # p
    BY <1>1, <1>2 DEF StageInv, Counted
  <2>4. UpstreamOf(<<p, idxs>>) \ delivered = UpstreamOf(<<p, idxs>>)
    BY <2>3 DEF UpstreamOf
  <2> QED BY <1>5, <2>2, <2>4, FS_EmptySet
<1> HIDE DEF count
<1>7. /\ phase \in [Partitions -> {"connect", "count", "intra", "inter", "done"}]
      /\ phase' \in [Partitions -> {"connect", "count", "intra", "inter", "done"}]
      /\ phase'[p] = "intra" /\ \A q \in Partitions : q # p => phase'[q] = phase[q]
      /\ \A q \in Partitions : phase'[q] = "connect" <=> phase[q] = "connect"
  BY <1>1, <1>2 DEF TypeInv
<1>8. FlowInv' /\ \A c : UpstreamOf(c)' = UpstreamOf(c)
  BY <1>1, <1>3, InputsStay
<1>9. \A c \in Cells : c = <<c[1], c[2]>> /\ c[1] \in Partitions /\ c[2] \in CellsOf(c[1])
  BY CellFacts
<1>10. inflowCount' \in [Cells -> Int]
  BY <1>1, <1>2, <1>6, <1>9 DEF TypeInv
<1>11. outflow' \in [Cells -> Nat \cup {NoData}]
       /\ \A c \in Cells : c[1] # p => outflow'[c] = outflow[c]
  BY <1>1, <1>2 DEF TypeInv
<1>12. /\ ridges' \in [Partitions -> SUBSET (Nat \X Nat)]
       /\ \A q \in Partitions : ridges'[q] \subseteq CellsOf(q)
       /\ \A q \in Partitions : q # p => ridges'[q] = ridges[q]
       /\ ridges'[p] = {idxs \in valid : count[idxs] = 0}
  <2>1. CellsOf(p) \subseteq Nat \X Nat
    BY PartitionFacts DEF CellsOf
  <2> QED BY <1>1, <1>2, <2>1 DEF TypeInv
<1>13. TypeInv'
  BY <1>1, <1>2, <1>3, <1>7, <1>10, <1>11, <1>12 DEF TypeInv, connectivity
<1>14. ASSUME NEW q \in Partitions PROVE StageInv(q)'
  <2>1. CASE q = p
    BY <1>1, <1>2, <1>3, <1>7, <2>1 DEF StageInv, Counted
  <2>2. CASE q # p
    BY <1>1, <1>2, <1>3, <1>7, <1>12, <2>2 DEF StageInv, Counted
  <2> QED BY <2>1, <2>2
<1>15. \A q \in Partitions, d \in Directions : ListInv(q, d)'
  <2>1. \A s \in Sides : s \notin Channels => awaited'[s] = <<>>
    BY <1>1, <1>2, SideFacts DEF ListInv
  <2> QED BY <1>1, <1>3, <1>7, <2>1, ListsStay
<1>16. \A s \in Sides : OutputInv(s)'
  BY <1>1, <1>2, <1>3, <1>7, SideFacts, OutputsStay
<1>17. ASSUME NEW ch \in Channels PROVE SentInv(ch)'
  <2>1. ch[1] \in Partitions
    BY DEF Channels, Sides
  <2>2. solved \subseteq Cells /\ \A c \in solved : c[1] # p
    BY <1>1, <1>2 DEF StageInv, Counted, TypeInv
  <2>3. \A c \in solved : outflow'[c] = outflow[c]
    BY <1>11, <2>2
  <2> QED BY <1>1, <1>2, <1>3, <1>7, <2>1, <2>3, SentStays
<1>18. ASSUME NEW c \in Cells PROVE CountInv(c)'
  <2>1. CASE c[1] = p
    <3>1. c = <<p, c[2]>> /\ c[2] \in CellsOf(p)
      BY <1>9, <2>1
    <3>2. inflowCount'[c] = count[c[2]]
      BY <1>2, <2>1
    <3>3. inflowCount'[c] = Cardinality(UpstreamOf(c) \ delivered)
      BY <1>5, <1>6, <3>1, <3>2
    <3> QED BY <1>3, <1>7, <1>8, <2>1, <3>3 DEF CountInv, Counted
  <2>2. CASE c[1] # p
    <3>1. inflowCount'[c] = inflowCount[c] /\ phase'[c[1]] = phase[c[1]]
      BY <1>2, <1>7, <1>9, <2>2
    <3> QED BY <1>1, <1>3, <3>1, CountsStay
  <2> QED BY <2>1, <2>2
<1>19. ASSUME NEW q \in Partitions PROVE StreamInv(q)'
  <2>1. CASE q = p
    <3>1. stream'[p] = Idle
      BY <1>1, <1>2 DEF StageInv, Counted
    <3>2. \A c \in solved : c[1] # p
      BY <1>1, <1>2 DEF StageInv, Counted
    <3> QED BY <1>3, <1>6, <1>8, <1>12, <2>1, <3>1, <3>2 DEF StreamInv
  <2>2. CASE q # p
    BY <1>1, <1>2, <1>3, <1>7, <1>12, <2>2, StreamStays
  <2> QED BY <2>1, <2>2
<1>20. SolvedInv'
  BY <1>1, <1>3, InputsStay DEF SolvedInv
<1> QED BY <1>8, <1>13, <1>14, <1>15, <1>16, <1>17, <1>18, <1>19, <1>20 DEF Inv

(* A step that changes nothing.                                            *)
LEMMA StutterInv ==
    ASSUME Inv, UNCHANGED vars
    PROVE  Inv'
<1>1. /\ FlowInv /\ TypeInv /\ SolvedInv
      /\ \A q \in Partitions : StageInv(q) /\ StreamInv(q)
      /\ \A q \in Partitions, d \in Directions : ListInv(q, d)
      /\ \A s \in Sides : OutputInv(s)
      /\ \A ch \in Channels : SentInv(ch)
      /\ \A c \in Cells : CountInv(c)
  BY DEF Inv
<1>2. /\ UNCHANGED <<inputs, connectivity>> /\ UNCHANGED inputs
      /\ UNCHANGED <<phase, inflowChannel, inputCells, inputReady, outputCells, inflowCount, outflow,
                     ridges, stream, material, closed, awaited, solved, delivered>>
  BY DEF vars, inputs, connectivity
<1>3. FlowInv' /\ SolvedInv'
  BY <1>1, <1>2, InputsStay DEF SolvedInv
<1>4. TypeInv'
  BY <1>1, <1>2 DEF TypeInv
<1>5. \A q \in Partitions : StageInv(q)' /\ StreamInv(q)'
  BY <1>1, <1>2, InputsStay, StreamStays DEF StageInv
<1>6. \A q \in Partitions, d \in Directions : ListInv(q, d)'
  <2>1. \A s \in Sides : s \notin Channels => awaited'[s] = <<>>
    BY <1>1, <1>2, SideFacts DEF ListInv
  <2> QED BY <1>1, <1>2, <2>1, ListsStay
<1>7. \A s \in Sides : OutputInv(s)'
  BY <1>1, <1>2, OutputsStay
<1>8. \A ch \in Channels : SentInv(ch)'
  BY <1>1, <1>2, SentStays
<1>9. \A c \in Cells : CountInv(c)'
  BY <1>1, <1>2, CountsStay
<1> QED BY <1>3, <1>4, <1>5, <1>6, <1>7, <1>8, <1>9 DEF Inv

(* Every step preserves the invariant.                                     *)
LEMMA NextInv ==
    ASSUME AtLeastTwo, Inv, [Next]_vars
    PROVE  Inv'
<1>1. ASSUME NEW p \in Partitions, Step(p) PROVE Inv'
  <2>1. CASE Connect(p)
    BY <2>1, ConnectInv
  <2>2. CASE \E d \in Directions : ReceiveInputCells(p, d)
    BY <2>2, ReceiveInputCellsInv
  <2>3. CASE CountInflow(p)
    BY <2>3, CountInflowInv
  <2>4. CASE EnterRidge(p)
    BY <2>4, EnterRidgeInv
  <2>5. CASE StopAtSink(p)
    BY <2>5, StopAtSinkInv
  <2>6. CASE StopAtOutput(p)
    BY <2>6, StopAtOutputInv
  <2>7. CASE FlowOn(p)
    BY <2>7, FlowOnInv
  <2>8. CASE FinishIntra(p)
    BY <2>8, FinishInv
  <2>9. CASE \E d \in Directions : ReceiveMaterial(p, d)
    BY <2>9, ReceiveMaterialInv
  <2>10. CASE Finish(p)
    BY <2>10, FinishInv
  <2> QED BY <1>1, <2>1, <2>2, <2>3, <2>4, <2>5, <2>6, <2>7, <2>8, <2>9, <2>10 DEF Step
<1>2. CASE UNCHANGED vars
  BY <1>2, StutterInv
<1> QED BY <1>1, <1>2 DEF Next, Terminated

-----------------------------------------------------------------------------
(* Every run keeps the invariant, and what follows from it.                *)
LEMMA AlwaysInv == AtLeastTwo /\ NetworksAreValid => (Spec => []Inv)
<1> SUFFICES ASSUME AtLeastTwo, NetworksAreValid PROVE Spec => []Inv
  OBVIOUS
<1>1. Init => Inv
  BY InitInv
<1>2. Inv /\ [Next]_vars => Inv'
  BY NextInv
<1> QED BY <1>1, <1>2, PTL DEF Spec

(* Before a partition has counted, nothing was delivered to it.            *)
LEMMA CountOfIs ==
    ASSUME AtLeastTwo, Inv, NEW c \in Cells
    PROVE  CountOf(c) = Cardinality(UpstreamOf(c) \ delivered)
<1>1. c[1] \in Partitions
  BY CellFacts
<1>2. FlowInv /\ StageInv(c[1]) /\ CountInv(c)
      /\ phase \in [Partitions -> {"connect", "count", "intra", "inter", "done"}]
  BY <1>1 DEF Inv, TypeInv
<1>3. c \notin Valid => UpstreamOf(c) = {}
  <2>1. c # NoCell
    BY CellFacts DEF NoCell
  <2> QED BY <1>2, <2>1 DEF Valid, FlowInv, UpstreamOf
<1>4. phase[c[1]] \in Counted \/ phase[c[1]] \in {"connect", "count"}
  BY <1>1, <1>2 DEF Counted
<1>5. phase[c[1]] \in Counted => phase[c[1]] \notin {"connect", "count"}
  BY DEF Counted
<1>6. phase[c[1]] \notin Counted => UpstreamOf(c) \ delivered = UpstreamOf(c)
  BY <1>2 DEF StageInv, UpstreamOf
<1>7. CASE c \notin Valid
  BY <1>3, <1>7 DEF CountOf
<1>8. CASE c \in Valid
  BY <1>2, <1>4, <1>5, <1>6, <1>8 DEF CountOf, CountInv
<1> QED BY <1>7, <1>8

(* The types of the variables follow.                                      *)
LEMMA InvTypes == ASSUME AtLeastTwo, Inv PROVE TypeOK
<1>1. FlowInv /\ TypeInv /\ \A c \in Cells : CountInv(c)
  BY DEF Inv
<1>2. down \in [Cells -> Cells \cup {NoCell}]
  BY <1>1, DownstreamType DEF FlowInv
<1>3. ASSUME NEW c \in Cells PROVE inflowCount[c] \in 0 .. 8
  <2> DEFINE U == UpstreamOf(c)
  <2>1. IsFiniteSet(U) /\ Cardinality(U) \in 0 .. 8
    BY <1>1, UpstreamBound
  <2>2. Cardinality(U \ delivered) \in Nat /\ Cardinality(U \ delivered) <= Cardinality(U)
    <3> HIDE DEF U
    <3>1. U \ delivered \in SUBSET U
      OBVIOUS
    <3>2. IsFiniteSet(U \ delivered)
      BY <2>1, <3>1, FS_Subset
    <3> QED BY <2>1, <3>1, <3>2, FS_Subset, FS_CardinalityType
  <2> HIDE DEF U
  <2>3. inflowCount[c] = Cardinality(U \ delivered) \/ inflowCount[c] = 0
    BY <1>1 DEF CountInv, U
  <2> QED BY <2>1, <2>2, <2>3
<1>4. inflowCount \in [Cells -> 0 .. 8]
  BY <1>1, <1>3 DEF TypeInv
<1> QED BY <1>1, <1>2, <1>4 DEF TypeOK, TypeInv, FlowInv, ListsOfSides

(* All variables have their types.  The lists that travel between          *)
(* partitions name cells that exist, and a count never drops below zero.   *)
THEOREM TypeCorrect == AtLeastTwo /\ NetworksAreValid => (Spec => []TypeOK)
<1> SUFFICES ASSUME AtLeastTwo, NetworksAreValid PROVE Spec => []TypeOK
  OBVIOUS
<1>1. Inv => TypeOK
  BY InvTypes
<1>2. Spec => []Inv
  BY AlwaysInv
<1> QED BY <1>1, <1>2, PTL

(* The counts of the partitions, made from lists of border cells and       *)
(* counted down by streams and messages, are those of the undivided array; *)
(* a stream is only ever at a cell for which all material came in.         *)
THEOREM CountsAlwaysServe == AtLeastTwo /\ NetworksAreValid => (Spec => []CountsServe)
<1> SUFFICES ASSUME AtLeastTwo, NetworksAreValid PROVE Spec => []CountsServe
  OBVIOUS
<1>1. Inv => CountsServe
  <2> SUFFICES ASSUME Inv PROVE CountsServe
    OBVIOUS
  <2>1. InflowCountExact
    BY DEF Inv, CountInv, Counted, InflowCountExact
  <2>2. StreamAtReadyCell
    BY DEF Inv, StreamInv, StreamAtReadyCell
  <2> QED BY <2>1, <2>2 DEF CountsServe
<1>2. Spec => []Inv
  BY AlwaysInv
<1> QED BY <1>1, <1>2, PTL

-----------------------------------------------------------------------------
(* The partitions implement the routing over the undivided array.          *)
LEMMA ValidCells ==
    ASSUME AtLeastTwo, FlowInv
    PROVE  /\ \A c \in Cells : down[c] # NoCell => c \in Valid /\ down[c] \in Valid
           /\ down \in [Cells -> Cells \cup {NoCell}]
           /\ \A c : Abstract!Upstream(c) = UpstreamOf(c)
<1>1. down \in [Cells -> Cells \cup {NoCell}]
  BY DownstreamType DEF FlowInv
<1>2. ASSUME NEW c \in Cells, down[c] # NoCell PROVE c \in Valid /\ down[c] \in Valid
  <2>1. c = <<c[1], c[2]>> /\ c[1] \in Partitions /\ c[2] \in CellsOf(c[1])
    BY CellFacts
  <2>2. flow[c] \notin Directions => down[c] = NoCell
    BY <2>1, FlowCases DEF FlowInv
  <2>3. flow[c] # "no_data"
    BY <1>2, <2>2 DEF Directions
  <2>4. flow[down[c]] # "no_data" /\ down[c] \in Cells
    BY <1>1, <1>2 DEF FlowInv
  <2> QED BY <2>3, <2>4 DEF Valid
<1>3. \A c : Abstract!Upstream(c) = UpstreamOf(c)
  BY DEF Abstract!Upstream, UpstreamOf
<1> QED BY <1>1, <1>2, <1>3

(* What is seen from outside of the material of a cell.                    *)
Seen(c) == IF c \in Valid THEN outflow[c] ELSE NoData

(* There is no remainder but where data is missing.                        *)
Rest(c) == IF c \in Valid /\ outflow[c] # NoData THEN 0 ELSE NoData

(* Initially nothing was routed.                                           *)
LEMMA InitRefines ==
    ASSUME AtLeastTwo, NetworksAreValid, Init
    PROVE  Abstract!Init
<1>1. Inv
  BY InitInv
<1>2. FlowInv /\ TypeInv
  BY <1>1 DEF Inv
<1>3. /\ \A c \in Cells : down[c] # NoCell => c \in Valid /\ down[c] \in Valid
      /\ down \in [Cells -> Cells \cup {NoCell}]
      /\ \A c : Abstract!Upstream(c) = UpstreamOf(c)
  BY <1>2, ValidCells
<1>4. external \in [Cells -> Nat \cup {NoData}]
  BY <1>2 DEF FlowInv
<1>5. Valid \in SUBSET Cells
  BY DEF Valid
<1>6. Abstract!IsNetwork
  BY <1>3 DEF Abstract!IsNetwork
<1>7. [c \in Cells |-> CountOf(c)] = [c \in Cells |-> Abstract!Cardinality(Abstract!Upstream(c))]
  <2>1. \A c \in Cells : CountOf(c) = Cardinality(UpstreamOf(c))
    BY CellFacts DEF Init, CountOf
  <2>2. \A S : Abstract!Cardinality(S) = Cardinality(S)
    BY Zenon DEF Cardinality, Abstract!Cardinality
  <2> QED BY <1>3, <2>1, <2>2
<1>8. \A c \in Cells : outflow[c] = 0
  BY DEF Init
<1>9. [c \in Cells |-> IF c \in Valid THEN outflow[c] ELSE NoData]
        = [c \in Cells |-> IF c \in Valid THEN 0 ELSE NoData]
  BY <1>8
<1>10. [c \in Cells |-> IF c \in Valid /\ outflow[c] # NoData THEN 0 ELSE NoData]
        = [c \in Cells |-> IF c \in Valid THEN outflow[c] ELSE NoData]
  BY <1>8, InputsAssumption
<1>11. solved = {} /\ delivered = {}
  BY DEF Init
<1>12. [c \in Cells |-> NoData] \in [Cells -> {NoData}]
  OBVIOUS
<1> QED BY <1>3, <1>4, <1>5, <1>6, <1>7, <1>9, <1>10, <1>11, <1>12, Zenon DEF Abstract!Init

(* What flows out of a cell that is entered.                               *)
LEMMA EnteredIs ==
    ASSUME FlowInv, TypeInv, NEW c \in Cells, c \in Valid
    PROVE  /\ Abstract!Outflow(c) = Total(c)
           /\ Abstract!Remainder(c) = IF Total(c) = NoData THEN NoData ELSE 0
<1> DEFINE out == [x \in Cells |-> IF x \in Valid THEN outflow[x] ELSE NoData]
<1>1. outflow[c] \in Nat \cup {NoData} /\ external[c] \in Nat \cup {NoData} /\ NoData \notin Nat
  BY InputsAssumption DEF FlowInv, TypeInv
<1>2. out[c] = outflow[c]
  OBVIOUS
<1> HIDE DEF out
<1>3. Abstract!Lacks(c) <=> external[c] = NoData
  BY DEF Abstract!Lacks
<1>4. Abstract!Split(c) = IF out[c] = NoData \/ Abstract!Lacks(c)
                          THEN [outflow |-> NoData, remainder |-> NoData]
                          ELSE [outflow |-> out[c] + external[c], remainder |-> 0]
  <2>1. \A total, b : Abstract!SplitOf(total, b) = [outflow |-> total, remainder |-> 0]
    BY DEF Abstract!SplitOf
  <2> QED BY <2>1, Zenon DEF Abstract!Split, out
<1>5. Total(c) = IF outflow[c] = NoData \/ external[c] = NoData THEN NoData ELSE outflow[c] + external[c]
  BY DEF Total, AddMaterial
<1>6. outflow[c] # NoData /\ external[c] # NoData => outflow[c] + external[c] # NoData
  BY <1>1
<1> QED BY <1>2, <1>3, <1>4, <1>5, <1>6 DEF Abstract!Outflow, Abstract!Remainder

(* A step that no cell downstream or inside takes notice of.               *)
CountsSeen == \A c \in Cells : CountOf(c) = Cardinality(UpstreamOf(c) \ delivered)

(* Such a step is not seen.                                                *)
LEMMA StutterRefines ==
    ASSUME CountsSeen, CountsSeen', UNCHANGED inputs, solved' = solved, delivered' = delivered,
           \A c \in Valid : outflow'[c] = outflow[c]
    PROVE  UNCHANGED Abstract!vars
<1>1. flow' = flow /\ external' = external /\ down' = down /\ \A c : UpstreamOf(c)' = UpstreamOf(c)
  BY InputsStay
<1>2. Valid' = Valid
  BY <1>1 DEF Valid
<1>3. ASSUME NEW c \in Cells PROVE CountOf(c)' = CountOf(c)
  <2>1. CountOf(c) = Cardinality(UpstreamOf(c) \ delivered)
    BY DEF CountsSeen
  <2>2. CountOf(c)' = Cardinality(UpstreamOf(c)' \ delivered')
    BY DEF CountsSeen
  <2> QED BY <1>1, <2>1, <2>2
<1>4. [c \in Cells |-> CountOf(c)]' = [c \in Cells |-> CountOf(c)]
  BY <1>3
<1>5. [c \in Cells |-> IF c \in Valid THEN outflow[c] ELSE NoData]'
        = [c \in Cells |-> IF c \in Valid THEN outflow[c] ELSE NoData]
  BY <1>2
<1>6. [c \in Cells |-> IF c \in Valid /\ outflow[c] # NoData THEN 0 ELSE NoData]'
        = [c \in Cells |-> IF c \in Valid /\ outflow[c] # NoData THEN 0 ELSE NoData]
  BY <1>2
<1> QED BY <1>1, <1>2, <1>4, <1>5, <1>6 DEF Abstract!vars

(* A stream stops at a cell.                                               *)
LEMMA StopRefines ==
    ASSUME FlowInv, TypeInv, CountsSeen, CountsSeen', UNCHANGED inputs,
           NEW c \in Cells, c \in Valid \ solved, UpstreamOf(c) \subseteq delivered,
           outflow' = [outflow EXCEPT ![c] = Total(c)], solved' = solved \cup {c}, delivered' = delivered
    PROVE  Abstract!Stop(c)
<1>1. flow' = flow /\ external' = external /\ down' = down /\ \A x : UpstreamOf(x)' = UpstreamOf(x)
  BY InputsStay
<1>2. Valid' = Valid
  BY <1>1 DEF Valid
<1>3. \A x \in Cells : CountOf(x)' = CountOf(x)
  BY <1>1 DEF CountsSeen
<1>4. CountOf(c) = 0
  <2>1. UpstreamOf(c) \ delivered = {}
    OBVIOUS
  <2> QED BY <2>1, FS_EmptySet DEF CountsSeen
<1>5. Abstract!Ready(c)
  BY <1>4 DEF Abstract!Ready
<1>6. /\ Abstract!Outflow(c) = Total(c)
      /\ Abstract!Remainder(c) = IF Total(c) = NoData THEN NoData ELSE 0
  BY EnteredIs
<1>7. outflow \in [Cells -> Nat \cup {NoData}]
  BY DEF TypeInv
<1>8. [x \in Cells |-> IF x \in Valid THEN outflow[x] ELSE NoData]'
        = [[x \in Cells |-> IF x \in Valid THEN outflow[x] ELSE NoData] EXCEPT ![c] = Abstract!Outflow(c)]
  BY <1>2, <1>6, <1>7
<1>9. [x \in Cells |-> IF x \in Valid /\ outflow[x] # NoData THEN 0 ELSE NoData]'
        = [[x \in Cells |-> IF x \in Valid /\ outflow[x] # NoData THEN 0 ELSE NoData]
                EXCEPT ![c] = Abstract!Remainder(c)]
  BY <1>2, <1>6, <1>7
<1>10. [x \in Cells |-> CountOf(x)]' = [x \in Cells |-> CountOf(x)]
  BY <1>3
<1> QED BY <1>1, <1>2, <1>5, <1>8, <1>9, <1>10 DEF Abstract!Stop, Abstract!inputs

(* The outflow of a cell reaches the cell downstream.                      *)
LEMMA DeliverySeen ==
    ASSUME FlowInv, CountsSeen, CountsSeen', UNCHANGED inputs,
           NEW x \in Cells, x \notin delivered, down[x] \in Cells, delivered' = delivered \cup {x}
    PROVE  [y \in Cells |-> CountOf(y)]' = [[y \in Cells |-> CountOf(y)] EXCEPT ![down[x]] = @ - 1]
<1>1. flow' = flow /\ down' = down /\ \A y : UpstreamOf(y)' = UpstreamOf(y)
  BY InputsStay
<1>2. ASSUME NEW y \in Cells
      PROVE  CountOf(y)' = IF y = down[x] THEN CountOf(y) - 1 ELSE CountOf(y)
  <2> DEFINE U == UpstreamOf(y) \ delivered
  <2>1. CountOf(y) = Cardinality(U) /\ CountOf(y)' = Cardinality(UpstreamOf(y) \ delivered')
    BY <1>1 DEF CountsSeen
  <2>2. UpstreamOf(y) \ delivered' = U \ {x}
    OBVIOUS
  <2>3. IsFiniteSet(U)
    BY UpstreamBound, FS_Subset
  <2>4. x \in U <=> y = down[x]
    BY DEF UpstreamOf
  <2> HIDE DEF U
  <2>5. CASE y = down[x]
    <3>1. Cardinality(U \ {x}) = Cardinality(U) - 1
      BY <2>3, <2>4, <2>5, FS_RemoveElement
    <3> QED BY <2>1, <2>2, <2>5, <3>1
  <2>6. CASE y # down[x]
    <3>1. U \ {x} = U
      BY <2>4, <2>6
    <3> QED BY <2>1, <2>2, <2>6, <3>1
  <2> QED BY <2>5, <2>6
<1> QED BY <1>2

(* The values seen after adding material to a cell.                        *)
LEMMA AdditionSeen ==
    ASSUME NEW c \in Cells, c \in Valid, NEW v \in Nat \cup {NoData}, TypeInv
    PROVE  /\ Abstract!AddMaterial(Seen(c), v) = AddMaterial(outflow[c], v)
           /\ Abstract!MarkRemainder(Rest(c), v)
                = IF AddMaterial(outflow[c], v) # NoData THEN 0 ELSE NoData
<1>1. outflow[c] \in Nat \cup {NoData} /\ NoData \notin Nat
  BY InputsAssumption DEF TypeInv
<1>2. outflow[c] # NoData /\ v # NoData => outflow[c] + v # NoData
  BY <1>1
<1> QED BY <1>2 DEF AddMaterial, Abstract!AddMaterial, Abstract!MarkRemainder, Seen, Rest

(* The stream goes on, or joins others.                                    *)
LEMMA PassRefines ==
    ASSUME FlowInv, TypeInv, CountsSeen, CountsSeen', UNCHANGED inputs,
           NEW c \in Cells, c \in Valid \ solved, UpstreamOf(c) \subseteq delivered, c \notin delivered,
           NEW to \in Cells, down[c] = to, to \in Valid, to # c, to # NoCell,
           outflow' = [outflow EXCEPT ![c] = Total(c), ![to] = AddMaterial(@, Total(c))],
           solved' = solved \cup {c}, delivered' = delivered \cup {c}
    PROVE  Abstract!Pass(c)
<1>1. flow' = flow /\ external' = external /\ down' = down
  BY InputsStay
<1>2. Valid' = Valid
  BY <1>1 DEF Valid
<1>3. [x \in Cells |-> CountOf(x)]' = [[x \in Cells |-> CountOf(x)] EXCEPT ![down[c]] = @ - 1]
  BY DeliverySeen
<1>4. CountOf(c) = 0
  <2>1. UpstreamOf(c) \ delivered = {}
    OBVIOUS
  <2> QED BY <2>1, FS_EmptySet DEF CountsSeen
<1>5. Abstract!Ready(c)
  BY <1>4 DEF Abstract!Ready
<1>6. /\ Abstract!Outflow(c) = Total(c)
      /\ Abstract!Remainder(c) = IF Total(c) = NoData THEN NoData ELSE 0
  BY EnteredIs
<1>7. outflow \in [Cells -> Nat \cup {NoData}] /\ Total(c) \in Nat \cup {NoData}
  BY TotalType DEF TypeInv
<1>8. /\ Abstract!AddMaterial(Seen(to), Total(c)) = AddMaterial(outflow[to], Total(c))
      /\ Abstract!MarkRemainder(Rest(to), Total(c))
            = IF AddMaterial(outflow[to], Total(c)) # NoData THEN 0 ELSE NoData
  BY <1>7, AdditionSeen
<1>9. /\ outflow'[c] = Total(c) /\ outflow'[to] = AddMaterial(outflow[to], Total(c))
      /\ \A x \in Cells : x # c /\ x # to => outflow'[x] = outflow[x]
  BY <1>7
<1> DEFINE out == [x \in Cells |-> IF x \in Valid THEN outflow[x] ELSE NoData]
           rest == [x \in Cells |-> IF x \in Valid /\ outflow[x] # NoData THEN 0 ELSE NoData]
<1>10. out' = [out EXCEPT ![c] = Abstract!Outflow(c), ![down[c]] = Abstract!AddMaterial(@, Abstract!Outflow(c))]
  <2>1. out' = [x \in Cells |-> IF x \in Valid THEN outflow'[x] ELSE NoData]
    BY <1>2
  <2>2. out = [x \in Cells |-> Seen(x)]
    BY DEF Seen
  <2>3. \A x \in Cells : Seen(x) = IF x \in Valid THEN outflow[x] ELSE NoData
    BY DEF Seen
  <2> HIDE DEF out
  <2> QED BY <1>6, <1>8, <1>9, <2>1, <2>2, <2>3
<1>11. rest' = [rest EXCEPT ![c] = Abstract!Remainder(c), ![down[c]] = Abstract!MarkRemainder(@, Abstract!Outflow(c))]
  <2>1. rest' = [x \in Cells |-> IF x \in Valid /\ outflow'[x] # NoData THEN 0 ELSE NoData]
    BY <1>2
  <2>2. rest = [x \in Cells |-> Rest(x)]
    BY DEF Rest
  <2>3. \A x \in Cells : Rest(x) = IF x \in Valid /\ outflow[x] # NoData THEN 0 ELSE NoData
    BY DEF Rest
  <2> HIDE DEF rest
  <2> QED BY <1>6, <1>8, <1>9, <2>1, <2>2, <2>3
<1> QED BY <1>1, <1>2, <1>3, <1>5, <1>10, <1>11 DEF Abstract!Pass, Abstract!inputs

(* The material of a cell of another partition is received.                *)
LEMMA ArriveRefines ==
    ASSUME FlowInv, TypeInv, CountsSeen, CountsSeen', UNCHANGED inputs,
           NEW x \in Cells, x \in Valid, x \in solved \ delivered,
           NEW c \in Cells, down[x] = c, c \in Valid, c # NoCell,
           outflow' = [outflow EXCEPT ![c] = AddMaterial(@, outflow[x])],
           solved' = solved, delivered' = delivered \cup {x}
    PROVE  Abstract!Arrive(x)
<1>1. flow' = flow /\ external' = external /\ down' = down
  BY InputsStay
<1>2. Valid' = Valid
  BY <1>1 DEF Valid
<1>3. [y \in Cells |-> CountOf(y)]' = [[y \in Cells |-> CountOf(y)] EXCEPT ![down[x]] = @ - 1]
  BY DeliverySeen
<1>7. outflow \in [Cells -> Nat \cup {NoData}] /\ outflow[x] \in Nat \cup {NoData}
  BY DEF TypeInv
<1>8. /\ Abstract!AddMaterial(Seen(c), outflow[x]) = AddMaterial(outflow[c], outflow[x])
      /\ Abstract!MarkRemainder(Rest(c), outflow[x])
            = IF AddMaterial(outflow[c], outflow[x]) # NoData THEN 0 ELSE NoData
  BY <1>7, AdditionSeen
<1>9. /\ outflow'[c] = AddMaterial(outflow[c], outflow[x])
      /\ \A y \in Cells : y # c => outflow'[y] = outflow[y]
  BY <1>7
<1> DEFINE out == [y \in Cells |-> IF y \in Valid THEN outflow[y] ELSE NoData]
           rest == [y \in Cells |-> IF y \in Valid /\ outflow[y] # NoData THEN 0 ELSE NoData]
<1>0. out[x] = outflow[x]
  OBVIOUS
<1>10. out' = [out EXCEPT ![down[x]] = Abstract!AddMaterial(@, out[x])]
  <2>1. out' = [y \in Cells |-> IF y \in Valid THEN outflow'[y] ELSE NoData]
    BY <1>2
  <2>2. out = [y \in Cells |-> Seen(y)]
    BY DEF Seen
  <2>3. \A y \in Cells : Seen(y) = IF y \in Valid THEN outflow[y] ELSE NoData
    BY DEF Seen
  <2> HIDE DEF out
  <2> QED BY <1>0, <1>8, <1>9, <2>1, <2>2, <2>3
<1>11. rest' = [rest EXCEPT ![down[x]] = Abstract!MarkRemainder(@, out[x])]
  <2>1. rest' = [y \in Cells |-> IF y \in Valid /\ outflow'[y] # NoData THEN 0 ELSE NoData]
    BY <1>2
  <2>2. rest = [y \in Cells |-> Rest(y)]
    BY DEF Rest
  <2>3. \A y \in Cells : Rest(y) = IF y \in Valid /\ outflow[y] # NoData THEN 0 ELSE NoData
    BY DEF Rest
  <2> HIDE DEF rest, out
  <2> QED BY <1>0, <1>8, <1>9, <2>1, <2>2, <2>3
<1> QED BY <1>1, <1>2, <1>3, <1>10, <1>11 DEF Abstract!Arrive, Abstract!inputs

(* The stream of partition p stops at its cell i.                          *)
StoppedAt(p, i) ==
    LET c == <<p, i>>
    IN  /\ c \in Cells /\ stream[p] = i /\ phase[p] \in {"intra", "inter"}
        /\ flow[c] # "no_data" /\ UpstreamOf(c) \subseteq delivered /\ c \notin solved
        /\ outflow' = [outflow EXCEPT ![c] = Total(c)]
        /\ solved' = solved \cup {c}
        /\ stream' = [stream EXCEPT ![p] = Idle]
        /\ UNCHANGED <<inputs, phase, connectivity, inflowCount, ridges, awaited, delivered>>

(* That is how streams stop.                                               *)
LEMMA StoppedAtIs ==
    ASSUME Inv, NEW p \in Partitions, StopAtSink(p) \/ StopAtOutput(p)
    PROVE  \E i \in CellsOf(p) : StoppedAt(p, i)
<1>1. stream[p] # Idle /\ StreamInv(p) /\ TypeInv
  BY DEF StopAtSink, StopAtOutput, Inv
<1>2. PICK i \in CellsOf(p) : stream[p] = i
  BY <1>1 DEF TypeInv
<1> DEFINE c == <<p, i>>
<1>3. /\ outflow' = [outflow EXCEPT ![c] = Total(c)]
      /\ solved' = solved \cup {c}
      /\ stream' = [stream EXCEPT ![p] = Idle]
      /\ UNCHANGED <<inputs, phase, connectivity, inflowCount, ridges, awaited, delivered>>
  <2>1. CASE StopAtSink(p)
    BY <1>2, <2>1 DEF StopAtSink
  <2>2. CASE StopAtOutput(p)
    BY <1>2, <2>2, Zenon DEF StopAtOutput
  <2> QED BY <2>1, <2>2
<1>4. c \in Cells
  BY CellFacts
<1>5. phase[p] \in {"intra", "inter"} /\ flow[c] # "no_data" /\ UpstreamOf(c) \subseteq delivered /\ c \notin solved
  BY <1>1, <1>2 DEF StreamInv
<1>6. StoppedAt(p, i)
  BY <1>2, <1>3, <1>4, <1>5, Zenon DEF StoppedAt
<1> QED BY <1>6

(* Every step is a step of the routing over the undivided array, or is not *)
(* seen.                                                                   *)
LEMMA NextRefines ==
    ASSUME AtLeastTwo, Inv, Inv', CountsSeen, CountsSeen', [Next]_vars
    PROVE  [Abstract!Next]_(Abstract!vars)
<1>1. FlowInv /\ TypeInv /\ SolvedInv
  BY DEF Inv
<1>2. /\ \A c \in Cells : down[c] # NoCell => c \in Valid /\ down[c] \in Valid
      /\ \A c \in Cells : c \in Valid <=> flow[c] # "no_data"
      /\ NoCell \notin Cells /\ solved \subseteq Cells
      /\ \A c \in solved : c \in Valid
  <2>1. NoCell \notin Cells
    BY CellFacts DEF NoCell
  <2> QED BY <1>1, <2>1, ValidCells DEF Valid, SolvedInv, TypeInv
<1>3. ASSUME UNCHANGED <<inputs, history, outflow>> PROVE UNCHANGED Abstract!vars
  BY <1>3, StutterRefines DEF history
<1>4. ASSUME NEW p \in Partitions, Step(p) PROVE [Abstract!Next]_(Abstract!vars)
  <2>1. CASE Connect(p) \/ (\E d \in Directions : ReceiveInputCells(p, d)) \/ EnterRidge(p)
                \/ FinishIntra(p) \/ Finish(p)
    <3>1. UNCHANGED <<inputs, history, outflow>>
      BY <2>1 DEF Connect, ReceiveInputCells, EnterRidge, FinishIntra, Finish
    <3> QED BY <1>3, <3>1
  <2>2. CASE CountInflow(p)
    <3>1. UNCHANGED inputs /\ solved' = solved /\ delivered' = delivered
      BY <2>2 DEF CountInflow, history
    <3>2. \A c \in Valid : outflow'[c] = outflow[c]
      <4> SUFFICES ASSUME NEW c \in Valid PROVE outflow'[c] = outflow[c]
        OBVIOUS
      <4> DEFINE valid == {idxs \in CellsOf(p) : flow[<<p, idxs>>] # "no_data"}
      <4>1. outflow' = [x \in Cells |-> IF x[1] = p /\ x[2] \notin valid THEN NoData ELSE outflow[x]]
        BY <2>2, Zenon DEF CountInflow
      <4>2. c \in Cells /\ flow[c] # "no_data" /\ c = <<c[1], c[2]>> /\ c[2] \in CellsOf(c[1])
        BY CellFacts DEF Valid
      <4>3. c[1] = p => c[2] \in valid
        BY <4>2
      <4> HIDE DEF valid
      <4> QED BY <4>1, <4>2, <4>3
    <3> QED BY <3>1, <3>2, StutterRefines
  <2>3. CASE StopAtSink(p) \/ StopAtOutput(p)
    <3> PICK i \in CellsOf(p) : StoppedAt(p, i)
      BY <2>3, StoppedAtIs
    <3> DEFINE c == <<p, i>>
    <3>1. /\ c \in Cells /\ flow[c] # "no_data" /\ UpstreamOf(c) \subseteq delivered /\ c \notin solved
          /\ outflow' = [outflow EXCEPT ![c] = Total(c)]
          /\ solved' = solved \cup {c}
          /\ UNCHANGED inputs /\ delivered' = delivered
      BY DEF StoppedAt
    <3> HIDE DEF c
    <3>2. Abstract!Stop(c)
      BY <1>1, <1>2, <3>1, StopRefines
    <3> QED BY <3>1, <3>2 DEF Abstract!Next
  <2>4. CASE FlowOn(p)
    <3> PICK i, j : FlowedOn(p, i, j)
      BY <2>4, FlowedOnIs
    <3> DEFINE c == <<p, i>>
               to == <<p, j>>
    <3>1. /\ c \in Cells /\ to \in Cells /\ to # c /\ UpstreamOf(c) \subseteq delivered
          /\ c \notin solved /\ c \notin delivered /\ flow[c] # "no_data" /\ down[c] = to
          /\ outflow' = [outflow EXCEPT ![c] = Total(c), ![to] = AddMaterial(@, Total(c))]
          /\ solved' = solved \cup {c}
          /\ delivered' = delivered \cup {c}
          /\ UNCHANGED <<inputs, phase, connectivity, outputCells, ridges, material, closed, awaited>>
      BY Zenon DEF FlowedOn
    <3> HIDE DEF c, to
    <3>2. UNCHANGED inputs /\ to # NoCell /\ to \in Valid
      BY <1>2, <3>1
    <3>3. Abstract!Pass(c)
      BY <1>1, <1>2, <3>1, <3>2, PassRefines
    <3> QED BY <3>1, <3>3 DEF Abstract!Next
  <2>5. CASE \E d \in Directions : ReceiveMaterial(p, d)
    <3> PICK d \in Directions : ReceiveMaterial(p, d)
      BY <2>5
    <3> PICK i, j : Received(p, d, i, j)
      BY ReceivedIs
    <3> DEFINE x == <<Source(p, d)[1], i>>
               c == <<p, j>>
    <3>1. /\ x \in solved /\ x \notin delivered /\ x \in Cells /\ down[x] = c /\ c \in Cells /\ c # NoCell
          /\ outflow' = [outflow EXCEPT ![c] = AddMaterial(@, outflow[x])]
          /\ delivered' = delivered \cup {x}
          /\ UNCHANGED <<inputs, phase, connectivity, outputCells, ridges, closed, solved>>
      BY Zenon DEF Received
    <3> HIDE DEF x, c
    <3>2. UNCHANGED inputs /\ solved' = solved /\ c \in Valid /\ x \in Valid
      BY <1>2, <3>1
    <3>3. Abstract!Arrive(x)
      BY <1>1, <3>1, <3>2, ArriveRefines
    <3> QED BY <3>1, <3>3 DEF Abstract!Next
  <2> QED BY <1>4, <2>1, <2>2, <2>3, <2>4, <2>5 DEF Step
<1>5. CASE UNCHANGED vars
  <2>1. UNCHANGED <<inputs, history, outflow>>
    BY <1>5 DEF vars, inputs, history
  <2> QED BY <1>3, <2>1
<1> QED BY <1>4, <1>5 DEF Next, Terminated

(* Cut in partitions that exchange messages, the routing still implements  *)
(* the routing over the undivided array.                                   *)
THEOREM RouterImplements == AtLeastTwo /\ NetworksAreValid => (Spec => ImplementsFlowAccumulation)
<1> SUFFICES ASSUME AtLeastTwo, NetworksAreValid PROVE Spec => Abstract!Spec
  BY DEF ImplementsFlowAccumulation
<1>1. Init => Abstract!Init
  BY InitRefines
<1>2. Inv => CountsSeen
  BY CountOfIs DEF CountsSeen
<1>3. Inv /\ Inv' /\ CountsSeen /\ CountsSeen' /\ [Next]_vars => [Abstract!Next]_(Abstract!vars)
  BY NextRefines
<1>4. Spec => []Inv
  BY AlwaysInv
<1> QED BY <1>1, <1>2, <1>3, <1>4, PTL DEF Spec, Abstract!Spec

-----------------------------------------------------------------------------
(* What the monitors await.                                                *)
LEMMA ExpectingType ==
    ASSUME TypeInv, NEW p \in Partitions, NEW d \in Directions
    PROVE  Expecting(p, d) \in Seq(CellsOf(p))
<1>1. <<p, d>> \in Sides /\ <<p, d>>[1] = p
  BY DEF Sides
<1>2. inputCells[<<p, d>>] \in Seq(CellsOf(p)) /\ awaited[<<p, d>>] \in Seq(CellsOf(p))
  BY <1>1 DEF TypeInv, ListsOfSides
<1> QED BY <1>2 DEF Expecting

(* A list t of names is counted by the senders s it names.                 *)
ListsNames(t, s, S, p, d) ==
    LET ch == Source(p, d)
    IN  /\ S \subseteq SendersOf(ch) /\ Listing(s, S) /\ DOMAIN t = DOMAIN s
        /\ \A k \in DOMAIN s :
                t[k] = IdxToIdxs(p, d, InputIdx(ch[2], s[k], Offset[flow[<<ch[1], s[k]>>]]))

(* In t, a cell occurs once for every cell among S that flows into it.     *)
CountedBy(t, S, p, d) ==
    /\ \A k \in DOMAIN t : t[k] \in CellsOf(p)
    /\ \A x : Count(t, x) = Cardinality(Naming(Source(p, d), S, x))

(* So it is for lists of names.                                            *)
LEMMA CountNamed ==
    ASSUME AtLeastTwo, FlowInv, NEW p, NEW d, <<p, d>> \in Channels,
           NEW S, NEW s, NEW t, ListsNames(t, s, S, p, d)
    PROVE  CountedBy(t, S, p, d)
<1> DEFINE ch == Source(p, d)
           g == [i \in S |-> down[<<ch[1], i>>][2]]
<1>0. /\ S \subseteq SendersOf(ch) /\ Listing(s, S) /\ DOMAIN t = DOMAIN s
      /\ \A k \in DOMAIN s :
            t[k] = IdxToIdxs(p, d, InputIdx(ch[2], s[k], Offset[flow[<<ch[1], s[k]>>]]))
  BY DEF ListsNames
<1>1. ASSUME NEW k \in DOMAIN s PROVE t[k] = g[s[k]] /\ t[k] \in CellsOf(p)
  <2>1. s[k] \in S
    BY <1>0, ListingFacts DEF Listing
  <2>2. s[k] \in SendersOf(ch)
    BY <1>0, <2>1
  <2>3. /\ down[<<ch[1], s[k]>>] \in Cells /\ down[<<ch[1], s[k]>>][1] = p
        /\ down[<<ch[1], s[k]>>][2] = IdxToIdxs(p, d, InputIdx(ch[2], s[k], Offset[flow[<<ch[1], s[k]>>]]))
    BY <2>2, SenderFlow
  <2>4. down[<<ch[1], s[k]>>][2] \in CellsOf(p)
    BY <2>3, CellFacts
  <2> QED BY <1>0, <2>1, <2>3, <2>4
<1>2. ASSUME NEW x PROVE Count(t, x) = Cardinality(Naming(ch, S, x))
  <2>1. Naming(ch, S, x) = {y \in S : g[y] = x}
    BY DEF Naming
  <2> HIDE DEF g
  <2>2. Count(t, x) = Cardinality({y \in S : g[y] = x})
    BY <1>0, <1>1, CountOfListing
  <2> QED BY <2>1, <2>2
<1> QED BY <1>0, <1>1, <1>2 DEF CountedBy

(* Nobody awaits another cell or is delivered to.                          *)
LEMMA AwaitStays ==
    ASSUME UNCHANGED inputs, NEW p, NEW d, AwaitInv(p, d),
           <<p, d>> \in Channels /\ <<p, d>> \in inputReady' => <<p, d>> \in inputReady,
           Expecting(p, d)' = Expecting(p, d),
           \A i \in SendersOf(Source(p, d)) :
                <<Source(p, d)[1], i>> \in delivered' <=> <<Source(p, d)[1], i>> \in delivered
    PROVE  AwaitInv(p, d)'
<1> DEFINE ch == Source(p, d)
<1>1. SendersOf(ch)' = SendersOf(ch) /\ down' = down
  BY InputsStay
<1>2. Outstanding(ch)' = Outstanding(ch)
  BY <1>1 DEF Outstanding
<1>3. \A x : Naming(ch, Outstanding(ch), x)' = Naming(ch, Outstanding(ch), x)
  BY <1>1, <1>2 DEF Naming
<1> QED BY <1>2, <1>3 DEF AwaitInv, Serves

(* The whole list of a direction serves when nothing was delivered yet.    *)
LEMMA NamedServes ==
    ASSUME AtLeastTwo, FlowInv, NEW p, NEW d, <<p, d>> \in Channels,
           \A x \in delivered : down[x][1] # p
    PROVE  Serves(Named(p, d), p, d)
<1> DEFINE ch == Source(p, d)
<1>3. /\ Listing(Listed(ch), SendersOf(ch))
      /\ DOMAIN NamesOf(ch) = DOMAIN Listed(ch) /\ DOMAIN Named(p, d) = DOMAIN Listed(ch)
      /\ Named(p, d) \in Seq(CellsOf(p))
  BY NamedFacts
<1>4. Outstanding(ch) = SendersOf(ch)
  <2>1. \A i \in SendersOf(ch) : down[<<ch[1], i>>][1] = p
    BY SenderFlow
  <2> QED BY <2>1 DEF Outstanding
<1>5. Len(Named(p, d)) = Cardinality(SendersOf(ch))
  <2>1. Len(Listed(ch)) = Cardinality(SendersOf(ch)) /\ Len(Listed(ch)) \in Nat /\ DOMAIN Listed(ch) = 1 .. Len(Listed(ch))
    BY <1>3, ListingFacts
  <2>2. Len(Named(p, d)) \in Nat /\ DOMAIN Named(p, d) = 1 .. Len(Named(p, d))
    BY <1>3, LenProperties
  <2> QED BY <1>3, <2>1, <2>2, SameLength
<1>6. \A k \in DOMAIN Listed(ch) :
        Named(p, d)[k] = IdxToIdxs(p, d, InputIdx(ch[2], Listed(ch)[k], Offset[flow[<<ch[1], Listed(ch)[k]>>]]))
  BY <1>3 DEF Named, NamesOf, InputIdxs
<1>7. CountedBy(Named(p, d), SendersOf(ch), p, d)
  <2>1. ListsNames(Named(p, d), Listed(ch), SendersOf(ch), p, d)
    BY <1>3, <1>6 DEF ListsNames
  <2> QED BY <2>1, CountNamed, Zenon
<1> QED BY <1>4, <1>5, <1>7 DEF Serves, CountedBy

(* It is so for all readers.                                               *)
Awaits == \A p \in Partitions, d \in Directions : AwaitInv(p, d)

(* Taking the material of a cell off a channel, its reader awaits one cell *)
(* less.                                                                   *)
LEMMA ReceiveServes ==
    ASSUME AtLeastTwo, Inv, NEW p \in Partitions, NEW d \in Directions,
           NEW i, NEW j, Received(p, d, i, j), Serves(Expecting(p, d), p, d)
    PROVE  (Serves(Expecting(p, d), p, d))'
<1> DEFINE ch == Source(p, d)
           cells == awaited[<<p, d>>]
<1>1. /\ phase[p] = "inter" /\ phase' = phase /\ UNCHANGED inputs
      /\ i \in SendersOf(ch) /\ <<ch[1], i>> \notin delivered /\ j \in CellsOf(p)
      /\ down[<<ch[1], i>>] = <<p, j>>
      /\ awaited' = [awaited EXCEPT ![<<p, d>>] = RemoveFirst(@, j)]
      /\ delivered' = delivered \cup {<<ch[1], i>>}
  BY DEF Received
<1>2. SendersOf(ch)' = SendersOf(ch) /\ down' = down
  BY <1>1, InputsStay
<1>3. Outstanding(ch)' = Outstanding(ch) \ {i} /\ i \in Outstanding(ch)
  BY <1>1, <1>2 DEF Outstanding
<1>4. \A x : Naming(ch, Outstanding(ch), x)' =
              IF x = j THEN Naming(ch, Outstanding(ch), x) \ {i} ELSE Naming(ch, Outstanding(ch), x)
  BY <1>1, <1>2, <1>3 DEF Naming
<1>5. i \in Naming(ch, Outstanding(ch), j)
  BY <1>1, <1>3 DEF Naming
<1>6. IsFiniteSet(Outstanding(ch)) /\ \A x : IsFiniteSet(Naming(ch, Outstanding(ch), x))
  <2>1. ch[1] \in Partitions
    BY DEF Received
  <2>2. IsFiniteSet(CellsOf(ch[1]))
    BY <2>1, CellsFinite
  <2>3. Outstanding(ch) \subseteq CellsOf(ch[1])
    BY DEF Outstanding, SendersOf, Senders
  <2>4. \A x : Naming(ch, Outstanding(ch), x) \subseteq CellsOf(ch[1])
    BY <2>3 DEF Naming
  <2> QED BY <2>2, <2>3, <2>4, FS_Subset
<1>7. Expecting(p, d) = cells /\ Expecting(p, d)' = awaited'[<<p, d>>]
  BY <1>1 DEF Expecting
<1>8. cells \in Seq(CellsOf(p)) /\ <<p, d>> \in DOMAIN awaited
  BY DEF Inv, TypeInv, ListsOfSides, Sides
<1>9. awaited'[<<p, d>>] = RemoveFirst(cells, j)
  BY <1>1, <1>8
<1>10. /\ Len(cells) = Cardinality(Outstanding(ch))
       /\ \A idxs \in CellsOf(p) : Count(cells, idxs) = Cardinality(Naming(ch, Outstanding(ch), idxs))
  BY <1>7 DEF Serves
<1>11. /\ Cardinality(Outstanding(ch) \ {i}) = Cardinality(Outstanding(ch)) - 1
       /\ Cardinality(Naming(ch, Outstanding(ch), j) \ {i}) = Cardinality(Naming(ch, Outstanding(ch), j)) - 1
       /\ Cardinality(Naming(ch, Outstanding(ch), j)) # 0
  BY <1>3, <1>5, <1>6, FS_RemoveElement, FS_EmptySet
<1>12. /\ Len(RemoveFirst(cells, j)) = Len(cells) - 1
       /\ \A y : Count(RemoveFirst(cells, j), y) = IF y = j THEN Count(cells, j) - 1 ELSE Count(cells, y)
  <2>1. Count(cells, j) # 0
    BY <1>1, <1>10, <1>11
  <2> HIDE DEF cells
  <2> QED BY <1>8, <2>1, CountRemove
<1>13. Len(Expecting(p, d)') = Cardinality(Outstanding(ch)')
  BY <1>3, <1>7, <1>9, <1>10, <1>11, <1>12
<1>14. ASSUME NEW idxs \in CellsOf(p)
       PROVE  Count(Expecting(p, d)', idxs) = Cardinality(Naming(ch, Outstanding(ch), idxs)')
  BY <1>4, <1>7, <1>9, <1>10, <1>11, <1>12
<1> QED BY <1>13, <1>14 DEF Serves
(* A step that no reader takes notice of.                                  *)
LEMMA AwaitsStay ==
    ASSUME UNCHANGED inputs, Awaits,
           \A p \in Partitions, d \in Directions :
                <<p, d>> \in Channels /\ <<p, d>> \in inputReady' => <<p, d>> \in inputReady,
           \A p \in Partitions, d \in Directions : Expecting(p, d)' = Expecting(p, d),
           delivered' = delivered
    PROVE  Awaits'
<1>1. ASSUME NEW p \in Partitions, NEW d \in Directions PROVE AwaitInv(p, d)'
  <2>1. AwaitInv(p, d)
    BY DEF Awaits
  <2> QED BY <2>1, AwaitStays
<1> QED BY <1>1 DEF Awaits

(* Sending names concerns no list that was read to its end.                *)
LEMMA AwaitsConnect ==
    ASSUME Awaits, NEW q \in Partitions, Connect(q), TypeInv
    PROVE  Awaits'
<1>1. /\ UNCHANGED inputs /\ delivered' = delivered /\ inputCells' = inputCells /\ awaited' = awaited
      /\ inputReady' = inputReady \cup (({q} \X Directions) \ Channels)
      /\ \A p \in Partitions : phase'[p] \in {"inter", "done"} <=> phase[p] \in {"inter", "done"}
  BY DEF Connect, history, TypeInv
<1>2. \A p \in Partitions, d \in Directions : Expecting(p, d)' = Expecting(p, d)
  BY <1>1 DEF Expecting
<1> QED BY <1>1, <1>2, AwaitsStay

(* A list that was read to its end has the name of every sender.           *)
LEMMA AwaitsReceiveInputCells ==
    ASSUME AtLeastTwo, Inv, Awaits, NEW q \in Partitions, NEW e \in Directions, ReceiveInputCells(q, e)
    PROVE  Awaits'
<1>1. /\ UNCHANGED inputs /\ delivered' = delivered /\ awaited' = awaited /\ phase' = phase
      /\ phase[q] = "count" /\ <<q, e>> \in Channels \ inputReady /\ inflowChannel[Source(q, e)] # <<>>
  BY DEF ReceiveInputCells, history
<1>2. \/ /\ Head(inflowChannel[Source(q, e)]) = <<>>
         /\ inputReady' = inputReady \cup {<<q, e>>} /\ inputCells' = inputCells
      \/ /\ inputReady' = inputReady
         /\ \E cells : inputCells' = [inputCells EXCEPT ![<<q, e>>] = cells]
  BY DEF ReceiveInputCells
<1>3. ASSUME NEW p \in Partitions, NEW d \in Directions PROVE AwaitInv(p, d)'
  <2>1. AwaitInv(p, d) /\ inputCells \in ListsOfSides
    BY DEF Awaits, Inv, TypeInv
  <2>2. CASE <<p, d>> # <<q, e>>
    <3>1. inputCells'[<<p, d>>] = inputCells[<<p, d>>]
      BY <1>2, <2>1, <2>2 DEF ListsOfSides, Sides
    <3>2. Expecting(p, d)' = Expecting(p, d)
      BY <1>1, <3>1 DEF Expecting
    <3> QED BY <1>1, <1>2, <2>1, <2>2, <3>2, AwaitStays
  <2>3. CASE p = q /\ d = e /\ inputReady' = inputReady
    BY <1>1, <2>3 DEF AwaitInv
  <2>4. CASE p = q /\ d = e /\ Head(inflowChannel[Source(q, e)]) = <<>> /\ inputCells' = inputCells
    <3>1. FlowInv /\ ListInv(q, e) /\ StageInv(q)
      BY DEF Inv
    <3>2. inputCells[<<q, e>>] = Named(q, e)
      BY <1>1, <2>4, <3>1 DEF ListInv
    <3>3. \A x \in delivered : down[x][1] # q
      BY <1>1, <3>1 DEF StageInv, Counted
    <3>4. Serves(Named(q, e), q, e)
      BY <1>1, <3>1, <3>3, NamedServes
    <3>5. Expecting(q, e)' = Named(q, e) /\ Expecting(q, e) = Named(q, e)
      BY <1>1, <2>4, <3>2 DEF Expecting
    <3>6. SendersOf(Source(q, e))' = SendersOf(Source(q, e)) /\ down' = down
      BY <1>1, InputsStay
    <3>7. Outstanding(Source(q, e))' = Outstanding(Source(q, e))
      BY <1>1, <3>6 DEF Outstanding
    <3>8. \A x : Naming(Source(q, e), Outstanding(Source(q, e)), x)' = Naming(Source(q, e), Outstanding(Source(q, e)), x)
      BY <3>6, <3>7 DEF Naming
    <3> QED BY <2>4, <3>4, <3>5, <3>7, <3>8 DEF AwaitInv, Serves
  <2> QED BY <1>2, <2>2, <2>3, <2>4
<1> QED BY <1>3 DEF Awaits

(* A monitor starts with the whole list.                                   *)
LEMMA AwaitsFinishIntra ==
    ASSUME Awaits, TypeInv, NEW q \in Partitions, FinishIntra(q)
    PROVE  Awaits'
<1>1. /\ UNCHANGED inputs /\ delivered' = delivered /\ inputCells' = inputCells /\ inputReady' = inputReady
      /\ phase[q] = "intra" /\ phase' = [phase EXCEPT ![q] = "inter"]
      /\ awaited' = [s \in Sides |-> IF s[1] = q THEN inputCells[s] ELSE awaited[s]]
  BY DEF FinishIntra, history, connectivity
<1>2. ASSUME NEW p \in Partitions, NEW d \in Directions PROVE Expecting(p, d)' = Expecting(p, d)
  <2>1. <<p, d>> \in Sides /\ <<p, d>>[1] = p
    BY DEF Sides
  <2>2. awaited'[<<p, d>>] = IF p = q THEN inputCells[<<p, d>>] ELSE awaited[<<p, d>>]
    BY <1>1, <2>1
  <2>3. phase'[p] = IF p = q THEN "inter" ELSE phase[p]
    BY <1>1 DEF TypeInv
  <2> QED BY <1>1, <2>2, <2>3 DEF Expecting
<1> QED BY <1>1, <1>2, AwaitsStay

(* A stream that flows on leaves its partition not.                        *)
LEMMA AwaitsFlowOn ==
    ASSUME AtLeastTwo, Inv, Awaits, NEW q \in Partitions, FlowOn(q)
    PROVE  Awaits'
<1>1. PICK i, j : FlowedOn(q, i, j)
  BY FlowedOnIs
<1>2. /\ UNCHANGED inputs /\ phase' = phase /\ inputCells' = inputCells /\ inputReady' = inputReady
      /\ awaited' = awaited /\ delivered' = delivered \cup {<<q, i>>}
      /\ \A e \in Directions : i \notin SendersOf(<<q, e>>)
  BY <1>1 DEF FlowedOn, connectivity
<1>3. ASSUME NEW p \in Partitions, NEW d \in Directions PROVE AwaitInv(p, d)'
  <2>1. AwaitInv(p, d) /\ Expecting(p, d)' = Expecting(p, d)
    BY <1>2 DEF Awaits, Expecting
  <2>2. SenderDirection[d] \in Directions
    BY SenderDirectionFacts
  <2>3. \A k \in SendersOf(Source(p, d)) : <<Source(p, d)[1], k>> # <<q, i>>
    BY <1>2, <2>2 DEF Source
  <2> QED BY <1>2, <2>1, <2>3, AwaitStays
<1> QED BY <1>3 DEF Awaits

(* The cell that is ticked off is the one the material is for.             *)
LEMMA AwaitsReceiveMaterial ==
    ASSUME AtLeastTwo, Inv, Awaits, NEW q \in Partitions, NEW e \in Directions, ReceiveMaterial(q, e)
    PROVE  Awaits'
<1>1. PICK i, j : Received(q, e, i, j)
  BY ReceivedIs
<1> DEFINE ch == Source(q, e)
<1>2. /\ UNCHANGED inputs /\ phase' = phase /\ inputCells' = inputCells /\ inputReady' = inputReady
      /\ awaited' = [awaited EXCEPT ![<<q, e>>] = RemoveFirst(@, j)]
      /\ delivered' = delivered \cup {<<ch[1], i>>}
      /\ <<q, e>> \in Channels /\ ch \in Sides /\ i \in SendersOf(ch)
  BY <1>1 DEF Received, connectivity
<1>3. ASSUME NEW p \in Partitions, NEW d \in Directions, <<p, d>> \in Channels \cap inputReady
      PROVE  AwaitInv(p, d)'
  <2>1. AwaitInv(p, d) /\ awaited \in ListsOfSides
    BY DEF Awaits, Inv, TypeInv
  <2>2. CASE <<p, d>> # <<q, e>>
    <3>1. awaited'[<<p, d>>] = awaited[<<p, d>>]
      BY <1>2, <2>1, <2>2 DEF ListsOfSides, Sides
    <3>2. Expecting(p, d)' = Expecting(p, d)
      BY <1>2, <3>1 DEF Expecting
    <3>3. Source(p, d) # ch /\ Source(p, d) \in Sides
      BY <1>2, <1>3, <2>2, SourceUnique, ChannelFacts DEF Channels
    <3>4. \A k \in SendersOf(Source(p, d)) : <<Source(p, d)[1], k>> # <<ch[1], i>>
      BY <1>2, <3>3, SenderUnique
    <3> QED BY <1>2, <2>1, <3>2, <3>4, AwaitStays
  <2>3. CASE p = q /\ d = e
    <3>1. Serves(Expecting(q, e), q, e)
      BY <1>3, <2>1, <2>3 DEF AwaitInv
    <3>2. Serves(Expecting(q, e), q, e)'
      BY <1>1, <3>1, ReceiveServes
    <3> QED BY <2>3, <3>2 DEF AwaitInv
  <2> QED BY <2>2, <2>3
<1> QED BY <1>2, <1>3 DEF Awaits, AwaitInv

(* Every step preserves what readers await.                                *)
LEMMA AwaitsNext ==
    ASSUME AtLeastTwo, Inv, Awaits, [Next]_vars
    PROVE  Awaits'
<1>0. TypeInv
  BY DEF Inv
<1>1. ASSUME NEW p \in Partitions, Step(p) PROVE Awaits'
  <2>1. CASE Connect(p)
    BY <1>0, <2>1, AwaitsConnect
  <2>2. CASE \E d \in Directions : ReceiveInputCells(p, d)
    BY <2>2, AwaitsReceiveInputCells
  <2>3. CASE CountInflow(p) \/ Finish(p)
    <3>1. /\ UNCHANGED inputs /\ delivered' = delivered /\ inputCells' = inputCells
          /\ inputReady' = inputReady /\ awaited' = awaited
          /\ \A q \in Partitions : phase'[q] \in {"inter", "done"} <=> phase[q] \in {"inter", "done"}
      BY <1>0, <2>3 DEF CountInflow, Finish, history, connectivity, TypeInv
    <3>2. \A q \in Partitions, d \in Directions : Expecting(q, d)' = Expecting(q, d)
      BY <3>1 DEF Expecting
    <3> QED BY <3>1, <3>2, AwaitsStay
  <2>4. CASE EnterRidge(p) \/ StopAtSink(p) \/ StopAtOutput(p)
    <3>1. /\ UNCHANGED inputs /\ delivered' = delivered /\ inputCells' = inputCells
          /\ inputReady' = inputReady /\ awaited' = awaited /\ phase' = phase
      BY <2>4 DEF EnterRidge, StopAtSink, StopAtOutput, history, connectivity
    <3>2. \A q \in Partitions, d \in Directions : Expecting(q, d)' = Expecting(q, d)
      BY <3>1 DEF Expecting
    <3> QED BY <3>1, <3>2, AwaitsStay
  <2>5. CASE FlowOn(p)
    BY <2>5, AwaitsFlowOn
  <2>6. CASE FinishIntra(p)
    BY <1>0, <2>6, AwaitsFinishIntra
  <2>7. CASE \E d \in Directions : ReceiveMaterial(p, d)
    BY <2>7, AwaitsReceiveMaterial
  <2> QED BY <1>1, <2>1, <2>2, <2>3, <2>4, <2>5, <2>6, <2>7 DEF Step
<1>2. ASSUME UNCHANGED vars PROVE Awaits'
  <2>1. /\ UNCHANGED inputs /\ delivered' = delivered /\ inputCells' = inputCells
        /\ inputReady' = inputReady /\ awaited' = awaited /\ phase' = phase
    BY <1>2 DEF vars, inputs
  <2>2. \A q \in Partitions, d \in Directions : Expecting(q, d)' = Expecting(q, d)
    BY <2>1 DEF Expecting
  <2> QED BY <2>1, <2>2, AwaitsStay
<1> QED BY <1>1, <1>2 DEF Next, Terminated

(* Every run keeps it.                                                     *)
LEMMA AlwaysAwaits == AtLeastTwo /\ NetworksAreValid => (Spec => [](Inv /\ Awaits))
<1> SUFFICES ASSUME AtLeastTwo, NetworksAreValid PROVE Spec => [](Inv /\ Awaits)
  OBVIOUS
<1>1. Init => Awaits
  BY DEF Init, Awaits, AwaitInv
<1>2. Inv /\ Awaits /\ [Next]_vars => Awaits'
  BY AwaitsNext
<1>3. Spec => []Inv
  BY AlwaysInv
<1> QED BY <1>1, <1>2, <1>3, PTL DEF Spec
(* Nobody awaits a cell that is not underway, and the other way around.    *)
LEMMA OutstandingIs ==
    ASSUME Inv, NEW p \in Partitions, NEW d \in Directions, <<p, d>> \in Channels, <<p, d>> \in inputReady
    PROVE  LET ch == Source(p, d)
           IN  /\ Listing(outputCells[ch], Unsolved(ch)) /\ Listing(Origins(ch), Sent(ch))
               /\ \A k \in DOMAIN material[ch] : material[ch][k] = Material(ch, Origins(ch)[k])
               /\ ch \in closed => outputCells[ch] = <<>>
               /\ Outstanding(ch) = Sent(ch) \cup Unsolved(ch) /\ Sent(ch) \cap Unsolved(ch) = {}
               /\ ch \in Channels /\ material[ch] \in Seq(Int \X (Nat \cup {NoData}) \X Cells)
<1> DEFINE ch == Source(p, d)
<1>1. ch \in Channels /\ ch \in Sides
  BY ChannelFacts DEF Channels
<1>2. ListInv(p, d) /\ OutputInv(ch) /\ SentInv(ch) /\ delivered \subseteq solved /\ TypeInv
  BY <1>1 DEF Inv, TypeInv
<1>3. phase[ch[1]] # "connect"
  BY <1>2 DEF ListInv
<1>4. Outstanding(ch) = Sent(ch) \cup Unsolved(ch) /\ Sent(ch) \cap Unsolved(ch) = {}
  BY <1>2 DEF Outstanding, Sent, Unsolved
<1>5. material[ch] \in Seq(Int \X (Nat \cup {NoData}) \X Cells)
  BY <1>1, <1>2 DEF TypeInv
<1> QED BY <1>1, <1>2, <1>3, <1>4, <1>5 DEF OutputInv, SentInv

(* A closed channel holds all that its reader expects.                     *)
LEMMA ClosedServes ==
    ASSUME Inv, Awaits
    PROVE  ClosedChannelServes
<1> SUFFICES ASSUME NEW p \in Partitions, NEW d \in Directions,
                    <<p, d>> \in Channels \cap inputReady, Source(p, d) \in closed
             PROVE  /\ Len(Expecting(p, d)) = Len(material[Source(p, d)])
                    /\ outputCells[Source(p, d)] = <<>>
  BY DEF ClosedChannelServes
<1> DEFINE ch == Source(p, d)
<1>1. /\ Listing(outputCells[ch], Unsolved(ch)) /\ Listing(Origins(ch), Sent(ch))
      /\ outputCells[ch] = <<>> /\ Outstanding(ch) = Sent(ch) \cup Unsolved(ch)
      /\ material[ch] \in Seq(Int \X (Nat \cup {NoData}) \X Cells)
  BY OutstandingIs
<1>2. Outstanding(ch) = Sent(ch)
  BY <1>1, ListingFacts
<1>3. Len(Expecting(p, d)) = Cardinality(Outstanding(ch))
  BY DEF Awaits, AwaitInv, Serves
<1>4. Len(Origins(ch)) = Cardinality(Sent(ch)) /\ Len(Origins(ch)) \in Nat /\ DOMAIN Origins(ch) = 1 .. Len(Origins(ch))
  BY <1>1, ListingFacts
<1>5. Len(material[ch]) \in Nat /\ DOMAIN material[ch] = 1 .. Len(material[ch])
  BY <1>1, LenProperties
<1>6. DOMAIN Origins(ch) = DOMAIN material[ch]
  BY DEF Origins
<1>7. Len(Origins(ch)) = Len(material[ch])
  BY <1>4, <1>5, <1>6, SameLength
<1> QED BY <1>1, <1>2, <1>3, <1>4, <1>7

(* What is awaited is on its way or still to be sent.                      *)
LEMMA AwaitedServes ==
    ASSUME AtLeastTwo, Inv, Awaits
    PROVE  AwaitedIsUnderway
<1> SUFFICES ASSUME NEW p \in Partitions, NEW d \in Directions, <<p, d>> \in Channels \cap inputReady
             PROVE  Bag(Expecting(p, d)) = Bag(Underway(Source(p, d), p, d) \o Unsent(Source(p, d), p, d))
  BY DEF AwaitedIsUnderway
<1> DEFINE ch == Source(p, d)
           under == Underway(ch, p, d)
           unsent == Unsent(ch, p, d)
<1>1. /\ Listing(outputCells[ch], Unsolved(ch)) /\ Listing(Origins(ch), Sent(ch))
      /\ \A k \in DOMAIN material[ch] : material[ch][k] = Material(ch, Origins(ch)[k])
      /\ Outstanding(ch) = Sent(ch) \cup Unsolved(ch) /\ Sent(ch) \cap Unsolved(ch) = {}
      /\ material[ch] \in Seq(Int \X (Nat \cup {NoData}) \X Cells)
  BY OutstandingIs
<1>2. FlowInv /\ TypeInv /\ Serves(Expecting(p, d), p, d)
  BY DEF Inv, Awaits, AwaitInv
<1>3. CountedBy(under, Sent(ch), p, d)
  <2>1. DOMAIN under = DOMAIN material[ch] /\ DOMAIN Origins(ch) = DOMAIN material[ch]
    BY DEF Underway, Origins
  <2>2. Sent(ch) \subseteq SendersOf(ch)
    BY DEF Sent
  <2>3. ASSUME NEW k \in DOMAIN Origins(ch)
        PROVE  under[k] = IdxToIdxs(p, d, InputIdx(ch[2], Origins(ch)[k], Offset[flow[<<ch[1], Origins(ch)[k]>>]]))
    <3>1. material[ch][k][1] = InputIdx(ch[2], Origins(ch)[k], Offset[flow[<<ch[1], Origins(ch)[k]>>]])
      BY <1>1, <2>1 DEF Material
    <3> QED BY <2>1, <3>1 DEF Underway
  <2>4. ListsNames(under, Origins(ch), Sent(ch), p, d)
    BY <1>1, <2>1, <2>2, <2>3 DEF ListsNames
  <2> HIDE DEF under, ch
  <2> QED BY <1>2, <2>4, CountNamed, Zenon
<1>4. CountedBy(unsent, Unsolved(ch), p, d)
  <2>1. DOMAIN unsent = DOMAIN outputCells[ch]
    BY DEF Unsent, InputIdxs
  <2>2. Unsolved(ch) \subseteq SendersOf(ch)
    BY DEF Unsolved
  <2>3. ASSUME NEW k \in DOMAIN outputCells[ch]
        PROVE  unsent[k] = IdxToIdxs(p, d, InputIdx(ch[2], outputCells[ch][k], Offset[flow[<<ch[1], outputCells[ch][k]>>]]))
    BY <2>1, <2>3 DEF Unsent, InputIdxs
  <2>4. ListsNames(unsent, outputCells[ch], Unsolved(ch), p, d)
    BY <1>1, <2>1, <2>2, <2>3 DEF ListsNames
  <2> HIDE DEF unsent, ch
  <2> QED BY <1>2, <2>4, CountNamed, Zenon
<1>5. under \in Seq(CellsOf(p)) /\ unsent \in Seq(CellsOf(p)) /\ Expecting(p, d) \in Seq(CellsOf(p))
  <2>1. Len(material[ch]) \in Nat /\ DOMAIN under = 1 .. Len(material[ch])
    BY <1>1, LenProperties DEF Underway
  <2>2. under = [k \in 1 .. Len(material[ch]) |-> under[k]]
    BY <2>1 DEF Underway
  <2>3. under \in [1 .. Len(material[ch]) -> CellsOf(p)]
    BY <1>3, <2>1, <2>2 DEF CountedBy
  <2>4. Len(outputCells[ch]) \in Nat /\ DOMAIN unsent = 1 .. Len(outputCells[ch])
    BY <1>1, ListingFacts DEF Unsent, InputIdxs
  <2>5. unsent = [k \in 1 .. Len(outputCells[ch]) |-> unsent[k]]
    BY <2>4 DEF Unsent, InputIdxs
  <2>6. unsent \in [1 .. Len(outputCells[ch]) -> CellsOf(p)]
    BY <1>4, <2>4, <2>5 DEF CountedBy
  <2> HIDE DEF under, unsent, ch
  <2>7. under \in Seq(CellsOf(p))
    BY <2>1, <2>3, SeqDef
  <2>8. unsent \in Seq(CellsOf(p))
    BY <2>4, <2>6, SeqDef
  <2>9. Expecting(p, d) \in Seq(CellsOf(p))
    BY <1>2, ExpectingType
  <2> QED BY <2>7, <2>8, <2>9
<1>6. ASSUME NEW x \in CellsOf(p) PROVE Count(Expecting(p, d), x) = Count(under \o unsent, x)
  <2> DEFINE A == Naming(ch, Sent(ch), x)
             B == Naming(ch, Unsolved(ch), x)
  <2>1. Naming(ch, Outstanding(ch), x) = A \cup B /\ A \cap B = {}
    BY <1>1 DEF Naming
  <2>2. A \subseteq Sent(ch) /\ B \subseteq Unsolved(ch)
    BY DEF Naming
  <2>3. IsFiniteSet(Sent(ch)) /\ IsFiniteSet(Unsolved(ch))
    BY <1>1, ListingFacts
  <2>4. IsFiniteSet(A) /\ IsFiniteSet(B)
    BY <2>2, <2>3, FS_Subset
  <2> HIDE DEF A, B
  <2>5. Cardinality(A \cup B) = Cardinality(A) + Cardinality(B)
    <3>1. Cardinality(A \cup B) = Cardinality(A) + Cardinality(B) - Cardinality(A \cap B)
      BY <2>4, FS_Union
    <3>2. Cardinality(A) \in Nat /\ Cardinality(B) \in Nat /\ Cardinality(A \cap B) = 0
      BY <2>1, <2>4, FS_CardinalityType, FS_EmptySet
    <3> QED BY <3>1, <3>2
  <2>6. Count(under, x) = Cardinality(A) /\ Count(unsent, x) = Cardinality(B)
    BY <1>3, <1>4 DEF CountedBy, A, B
  <2>7. Count(Expecting(p, d), x) = Cardinality(A \cup B)
    BY <1>2, <2>1 DEF Serves
  <2> HIDE DEF under, unsent
  <2>8. Count(under \o unsent, x) = Count(under, x) + Count(unsent, x)
    BY <1>5, CountConcat
  <2> QED BY <2>5, <2>6, <2>7, <2>8
<1>7. under \o unsent \in Seq(CellsOf(p))
  <2> HIDE DEF under, unsent
  <2> QED BY <1>5, ConcatProperties
<1> HIDE DEF under, unsent
<1>8. Bag(Expecting(p, d)) = Bag(under \o unsent)
  BY <1>5, <1>6, <1>7, BagEqual
<1> QED BY <1>8 DEF under, unsent

(* Every monitor is served: what it awaits is underway or is still to be   *)
(* sent, and the channel it reads is not closed before.                    *)
THEOREM ChannelsAlwaysServe == AtLeastTwo /\ NetworksAreValid => (Spec => []ChannelsServe)
<1> SUFFICES ASSUME AtLeastTwo, NetworksAreValid PROVE Spec => []ChannelsServe
  OBVIOUS
<1>1. Inv /\ Awaits => ChannelsServe
  BY AwaitedServes, ClosedServes DEF ChannelsServe
<1>2. Spec => [](Inv /\ Awaits)
  BY AlwaysAwaits
<1> QED BY <1>1, <1>2, PTL
-----------------------------------------------------------------------------
(* Every stream is started and every channel is closed in the end.         *)
LEMMA ReadyStays ==
    ASSUME UNCHANGED inputs, NEW c \in Cells, ReadyInv(c),
           phase'[c[1]] \in Counted => phase[c[1]] \in Counted,
           c \in solved => c \in solved',
           UpstreamOf(c) \subseteq delivered' => UpstreamOf(c) \subseteq delivered,
           Started(c) => c \in solved' \/ Started(c)'
    PROVE  ReadyInv(c)'
<1>1. flow' = flow /\ UpstreamOf(c)' = UpstreamOf(c)
  BY InputsStay
<1> QED BY <1>1 DEF ReadyInv

(* A step that leaves the lists of output cells and the channels alone.    *)
LEMMA ClosedStays ==
    ASSUME UNCHANGED inputs, ClosedInv,
           \A q \in Partitions : phase'[q] = "connect" <=> phase[q] = "connect",
           outputCells' = outputCells, closed' = closed
    PROVE  ClosedInv'
<1>1. \A ch : Listed(ch)' = Listed(ch)
  BY InputsStay
<1> QED BY <1>1 DEF ClosedInv, Channels, Sides

(* A step of the connectivity tasks, or from one task to the next.         *)
LEMMA EndStays ==
    ASSUME UNCHANGED inputs, EndInv,
           \A q \in Partitions : phase'[q] = "connect" <=> phase[q] = "connect",
           \A q \in Partitions : phase'[q] \in Counted => phase[q] \in Counted,
           outputCells' = outputCells, closed' = closed, solved' = solved, delivered' = delivered,
           ridges' = ridges, stream' = stream
    PROVE  EndInv'
<1>1. ClosedInv'
  BY ClosedStays DEF EndInv
<1>2. ASSUME NEW c \in Cells PROVE ReadyInv(c)'
  <2>1. ReadyInv(c) /\ c[1] \in Partitions
    BY CellFacts DEF EndInv
  <2>2. Started(c)' <=> Started(c)
    BY DEF Started
  <2> QED BY <2>1, <2>2, ReadyStays
<1> QED BY <1>1, <1>2 DEF EndInv

(* A border that no cell leaves over has no output cells from the start.   *)
LEMMA EndConnect ==
    ASSUME AtLeastTwo, Inv, EndInv, NEW p \in Partitions, Connect(p)
    PROVE  EndInv'
<1>1. /\ UNCHANGED inputs /\ closed' = closed /\ solved' = solved /\ delivered' = delivered
      /\ ridges' = ridges /\ stream' = stream /\ phase[p] = "connect"
      /\ phase' = [phase EXCEPT ![p] = "count"]
      /\ outputCells' = [s \in Sides |-> IF s[1] = p THEN OutputCells(flow, p, s[2]) ELSE outputCells[s]]
  BY SideFacts DEF Connect, history
<1>2. TypeInv /\ \A q \in Partitions : phase'[q] = IF q = p THEN "count" ELSE phase[q]
  BY <1>1 DEF Inv, TypeInv
<1>3. ClosedInv'
  <2> SUFFICES ASSUME NEW ch \in Channels, phase'[ch[1]] # "connect", outputCells'[ch] = <<>>, Listed(ch)' # <<>>
               PROVE  ch \in closed'
    BY DEF ClosedInv
  <2>1. Listed(ch)' = Listed(ch) /\ ch \in Sides /\ ch[1] \in Partitions
    BY <1>1, InputsStay, SideFacts DEF Channels
  <2>2. ch[1] # p
    BY <1>1, <2>1 DEF Listed
  <2> QED BY <1>1, <1>2, <2>1, <2>2 DEF EndInv, ClosedInv
<1>4. ASSUME NEW c \in Cells PROVE ReadyInv(c)'
  <2>1. ReadyInv(c) /\ c[1] \in Partitions
    BY CellFacts DEF EndInv
  <2>2. Started(c)' <=> Started(c)
    BY <1>1 DEF Started
  <2> QED BY <1>1, <1>2, <2>1, <2>2, ReadyStays DEF Counted
<1> QED BY <1>3, <1>4 DEF EndInv

(* What is upstream of the cells of a partition was not delivered before   *)
(* the partition has counted.                                              *)
LEMMA EndCountInflow ==
    ASSUME AtLeastTwo, Inv, Inv', EndInv, NEW p \in Partitions, CountInflow(p)
    PROVE  EndInv'
<1>1. /\ UNCHANGED inputs /\ closed' = closed /\ solved' = solved /\ delivered' = delivered
      /\ stream' = stream /\ outputCells' = outputCells
      /\ phase[p] = "count" /\ phase' = [phase EXCEPT ![p] = "intra"]
  BY DEF CountInflow, history
<1>2. /\ TypeInv /\ FlowInv /\ StageInv(p) /\ \A q \in Partitions : phase'[q] = IF q = p THEN "intra" ELSE phase[q]
  BY <1>1 DEF Inv, TypeInv
<1>3. ClosedInv'
  BY <1>1, <1>2, ClosedStays DEF EndInv
<1>4. ASSUME NEW c \in Cells PROVE ReadyInv(c)'
  <2>1. ReadyInv(c) /\ c[1] \in Partitions /\ c[2] \in CellsOf(c[1]) /\ c = <<c[1], c[2]>>
    BY CellFacts DEF EndInv
  <2>2. CASE c[1] # p
    <3>1. ridges'[c[1]] = ridges[c[1]]
      BY <1>2, <2>1, <2>2 DEF CountInflow, TypeInv
    <3>2. Started(c)' <=> Started(c)
      BY <1>1, <3>1 DEF Started
    <3> QED BY <1>1, <1>2, <2>1, <2>2, <3>2, ReadyStays
  <2>3. CASE c[1] = p
    <3> SUFFICES ASSUME flow'[c] # "no_data", UpstreamOf(c)' \subseteq delivered'
                 PROVE  c[2] \in ridges'[p]
      BY <2>3 DEF ReadyInv, Started
    <3>1. UpstreamOf(c)' = UpstreamOf(c) /\ flow' = flow
      BY <1>1, InputsStay
    <3>2. UpstreamOf(c) = {}
      BY <1>1, <1>2, <2>3, <3>1 DEF StageInv, Counted, UpstreamOf
    <3>3. CountInv(c)'
      BY DEF Inv
    <3>4. inflowCount'[c] = Cardinality(UpstreamOf(c) \ delivered)
      BY <1>1, <1>2, <2>3, <3>1, <3>3 DEF CountInv, Counted
    <3>5. inflowCount'[c] = 0
      BY <3>2, <3>4, FS_EmptySet
    <3>6. c[2] \in {idxs \in CellsOf(p) : flow[<<p, idxs>>] # "no_data"}
      BY <2>1, <2>3, <3>1
    <3>7. inflowCount'[c] = PartitionInflowCount(flow, p, c[2]) + NrInputs(p, c[2])
      BY <2>1, <2>3 DEF CountInflow
    <3>8. ridges'[p] = {idxs \in {i \in CellsOf(p) : flow[<<p, i>>] # "no_data"} :
                            PartitionInflowCount(flow, p, idxs) + NrInputs(p, idxs) = 0}
      BY <1>2 DEF CountInflow, TypeInv
    <3> QED BY <3>5, <3>6, <3>7, <3>8
  <2> QED BY <2>2, <2>3
<1> QED BY <1>3, <1>4 DEF EndInv

(* A ridge cell becomes the cell of the stream.                            *)
LEMMA EndEnterRidge ==
    ASSUME Inv, EndInv, NEW p \in Partitions, EnterRidge(p)
    PROVE  EndInv'
<1>1. /\ UNCHANGED inputs /\ closed' = closed /\ solved' = solved /\ delivered' = delivered
      /\ outputCells' = outputCells /\ phase' = phase /\ stream[p] = Idle
  BY DEF EnterRidge, history
<1>2. PICK i \in ridges[p] : /\ stream' = [stream EXCEPT ![p] = i]
                             /\ ridges' = [ridges EXCEPT ![p] = @ \ {i}]
  BY DEF EnterRidge
<1>3. TypeInv
  BY DEF Inv
<1>4. ClosedInv'
  BY <1>1, ClosedStays DEF EndInv
<1>5. ASSUME NEW c \in Cells PROVE ReadyInv(c)'
  <2>1. ReadyInv(c) /\ c[1] \in Partitions /\ c[2] \in CellsOf(c[1])
    BY CellFacts DEF EndInv
  <2>2. /\ c[1] # p => stream'[c[1]] = stream[c[1]] /\ ridges'[c[1]] = ridges[c[1]]
        /\ stream'[p] = i /\ ridges'[p] = ridges[p] \ {i}
    BY <1>2, <1>3, <2>1 DEF TypeInv
  <2>3. c[2] # Idle
    BY <2>1, IdxsFacts DEF Idle
  <2>4. Started(c) => Started(c)'
    BY <1>1, <2>2, <2>3 DEF Started
  <2> QED BY <1>1, <2>1, <2>4, ReadyStays
<1> QED BY <1>4, <1>5 DEF EndInv
(* The last output cell closes the channel.                                *)
LEMMA EndStop ==
    ASSUME Inv, EndInv, NEW p \in Partitions, StopAtSink(p) \/ StopAtOutput(p)
    PROVE  EndInv'
<1>1. PICK i \in CellsOf(p) : StoppedAt(p, i)
  BY StoppedAtIs
<1>2. /\ UNCHANGED inputs /\ phase' = phase /\ ridges' = ridges /\ delivered' = delivered
      /\ stream[p] = i /\ stream' = [stream EXCEPT ![p] = Idle] /\ solved' = solved \cup {<<p, i>>}
  BY <1>1 DEF StoppedAt
<1>3. TypeInv
  BY DEF Inv
<1>4. ClosedInv'
  <2>1. CASE StopAtSink(p)
    <3>1. outputCells' = outputCells /\ closed' = closed
      BY <2>1 DEF StopAtSink
    <3> QED BY <1>2, <3>1, ClosedStays DEF EndInv
  <2>2. CASE StopAtOutput(p)
    <3> SUFFICES ASSUME NEW ch \in Channels, phase'[ch[1]] # "connect", outputCells'[ch] = <<>>, Listed(ch)' # <<>>
                 PROVE  ch \in closed'
      BY DEF ClosedInv
    <3> DEFINE side == <<p, DestinationCell(Extent0(p), Extent1(p), stream[p], Offset[flow[<<p, stream[p]>>]])[1]>>
               left == AfterSending(outputCells[side], stream[p])
    <3>1. /\ outputCells' = [outputCells EXCEPT ![side] = left]
          /\ IF side \in Channels
             THEN closed' = IF LastOutput(left) THEN closed \cup {side} ELSE closed
             ELSE closed' = closed
      BY <2>2 DEF StopAtOutput
    <3>2. Listed(ch)' = Listed(ch)
      BY <1>2, InputsStay
    <3>3. ch \in DOMAIN outputCells
      BY <1>3 DEF TypeInv, ListsOfSides, Channels
    <3> HIDE DEF side, left
    <3>4. CASE ch = side
      BY <3>1, <3>3, <3>4 DEF LastOutput
    <3>5. CASE ch # side
      <4>1. outputCells'[ch] = outputCells[ch]
        BY <3>1, <3>5
      <4>2. ch \in closed
        BY <1>2, <3>2, <4>1 DEF EndInv, ClosedInv
      <4> QED BY <3>1, <4>2
    <3> QED BY <3>4, <3>5
  <2> QED BY <2>1, <2>2
<1>5. ASSUME NEW c \in Cells PROVE ReadyInv(c)'
  <2>1. ReadyInv(c) /\ c[1] \in Partitions /\ c = <<c[1], c[2]>>
    BY CellFacts DEF EndInv
  <2>2. c[1] # p => stream'[c[1]] = stream[c[1]]
    BY <1>2, <1>3, <2>1 DEF TypeInv
  <2>3. Started(c) => c \in solved' \/ Started(c)'
    BY <1>2, <2>1, <2>2 DEF Started
  <2> QED BY <1>2, <2>1, <2>3, ReadyStays
<1> QED BY <1>4, <1>5 DEF EndInv

(* At a confluence something else is still to come.                        *)
LEMMA ConfluenceFacts ==
    ASSUME FlowInv, NEW c \in Cells, CountInv(c), phase[c[1]] \in Counted,
           NEW x, Confluence(c)
    PROVE  ~(UpstreamOf(c) \subseteq delivered \cup {x})
<1> SUFFICES ASSUME UpstreamOf(c) \subseteq delivered \cup {x} PROVE FALSE
  OBVIOUS
<1>1. inflowCount[c] = Cardinality(UpstreamOf(c) \ delivered) /\ inflowCount[c] > 1
  BY DEF CountInv, Confluence
<1>2. UpstreamOf(c) \ delivered \subseteq {x}
  OBVIOUS
<1>3. UpstreamOf(c) \ delivered = {} \/ UpstreamOf(c) \ delivered = {x}
  BY <1>2
<1>4. Cardinality({}) = 0 /\ Cardinality({x}) = 1
  BY FS_EmptySet, FS_Singleton
<1> QED BY <1>1, <1>3, <1>4

(* The outflow of x reached c, at partition p, and the stream goes on from *)
(* c or another cell is awaited.                                           *)
LEMMA ReadyArrives ==
    ASSUME UNCHANGED <<inputs, phase>>, EndInv, FlowInv, TypeInv,
           NEW x \in Cells, NEW c \in Cells, down[x] = c, CountInv(c), phase[c[1]] \in Counted,
           delivered' = delivered \cup {x}, solved \subseteq solved', ridges' = ridges,
           stream' = [stream EXCEPT ![c[1]] = IF Confluence(c) THEN Idle ELSE c[2]],
           stream[c[1]] = Idle \/ <<c[1], stream[c[1]]>> \in solved'
    PROVE  \A y \in Cells : ReadyInv(y)'
<1> SUFFICES ASSUME NEW y \in Cells PROVE ReadyInv(y)'
  OBVIOUS
<1>1. /\ ReadyInv(y) /\ y[1] \in Partitions /\ y[2] \in CellsOf(y[1]) /\ y = <<y[1], y[2]>>
      /\ c[1] \in Partitions /\ c = <<c[1], c[2]>>
  BY CellFacts DEF EndInv
<1>2. stream'[y[1]] = IF y[1] # c[1] THEN stream[y[1]] ELSE IF Confluence(c) THEN Idle ELSE c[2]
  BY <1>1 DEF TypeInv
<1>3. y[2] # Idle
  BY <1>1, IdxsFacts DEF Idle
<1>4. UpstreamOf(y)' = UpstreamOf(y)
  BY InputsStay DEF inputs
<1>5. CASE y = c /\ Confluence(c)
  <2>1. ~(UpstreamOf(c) \subseteq delivered \cup {x})
    BY <1>5, ConfluenceFacts
  <2> QED BY <1>4, <1>5, <2>1 DEF ReadyInv
<1>6. CASE y = c /\ ~Confluence(c)
  BY <1>2, <1>6 DEF ReadyInv, Started
<1>7. CASE y # c
  <2>1. UpstreamOf(y) \subseteq delivered' => UpstreamOf(y) \subseteq delivered
    BY <1>7 DEF UpstreamOf
  <2>2. Started(y) => y \in solved' \/ Started(y)'
    BY <1>1, <1>2, <1>3, <1>7 DEF Started
  <2> QED BY <1>1, <2>1, <2>2, ReadyStays DEF inputs
<1> QED BY <1>5, <1>6, <1>7

(* A stream flows on.                                                      *)
LEMMA EndFlowOn ==
    ASSUME AtLeastTwo, Inv, EndInv, NEW p \in Partitions, FlowOn(p)
    PROVE  EndInv'
<1>1. PICK i, j : FlowedOn(p, i, j)
  BY FlowedOnIs
<1> DEFINE x == <<p, i>>
           c == <<p, j>>
<1>2. /\ UNCHANGED inputs /\ phase' = phase /\ ridges' = ridges /\ outputCells' = outputCells /\ closed' = closed
      /\ x \in Cells /\ c \in Cells /\ down[x] = c /\ phase[p] \in Counted /\ stream[p] = i
      /\ delivered' = delivered \cup {x} /\ solved' = solved \cup {x}
      /\ stream' = [stream EXCEPT ![p] = IF Confluence(c) THEN Idle ELSE j]
  BY <1>1 DEF FlowedOn, Counted
<1>3. FlowInv /\ TypeInv /\ CountInv(c)
  BY <1>2 DEF Inv
<1>4. ClosedInv'
  BY <1>2, ClosedStays DEF EndInv
<1>5. c[1] = p /\ c[2] = j /\ <<p, stream[p]>> \in solved'
  BY <1>2
<1> HIDE DEF x, c
<1>6. \A y \in Cells : ReadyInv(y)'
  BY <1>2, <1>3, <1>5, ReadyArrives
<1> QED BY <1>4, <1>6 DEF EndInv

(* Material is received.                                                   *)
LEMMA EndReceiveMaterial ==
    ASSUME AtLeastTwo, Inv, EndInv, NEW p \in Partitions, NEW d \in Directions, ReceiveMaterial(p, d)
    PROVE  EndInv'
<1>1. PICK i, j : Received(p, d, i, j)
  BY ReceivedIs
<1> DEFINE x == <<Source(p, d)[1], i>>
           c == <<p, j>>
<1>2. /\ UNCHANGED inputs /\ phase' = phase /\ ridges' = ridges /\ outputCells' = outputCells /\ closed' = closed
      /\ x \in Cells /\ c \in Cells /\ down[x] = c /\ phase[p] \in Counted /\ stream[p] = Idle
      /\ delivered' = delivered \cup {x} /\ solved' = solved
      /\ stream' = [stream EXCEPT ![p] = IF Confluence(c) THEN Idle ELSE j]
  BY <1>1 DEF Received, Counted
<1>3. FlowInv /\ TypeInv /\ CountInv(c)
  BY <1>2 DEF Inv
<1>4. ClosedInv'
  BY <1>2, ClosedStays DEF EndInv
<1>5. c[1] = p /\ c[2] = j
  OBVIOUS
<1> HIDE DEF x, c
<1>6. \A y \in Cells : ReadyInv(y)'
  BY <1>2, <1>3, <1>5, ReadyArrives
<1> QED BY <1>4, <1>6 DEF EndInv

(* Every step preserves it.                                                *)
LEMMA EndNext ==
    ASSUME AtLeastTwo, Inv, Inv', EndInv, [Next]_vars
    PROVE  EndInv'
<1>0. TypeInv
  BY DEF Inv
<1>1. ASSUME NEW p \in Partitions, Step(p) PROVE EndInv'
  <2>1. CASE Connect(p)
    BY <2>1, EndConnect
  <2>2. CASE (\E d \in Directions : ReceiveInputCells(p, d)) \/ FinishIntra(p) \/ Finish(p)
    <3>1. /\ UNCHANGED inputs /\ outputCells' = outputCells /\ closed' = closed /\ solved' = solved
          /\ delivered' = delivered /\ ridges' = ridges /\ stream' = stream
      BY <2>2 DEF ReceiveInputCells, FinishIntra, Finish, history
    <3>2. /\ \A q \in Partitions : phase'[q] = "connect" <=> phase[q] = "connect"
          /\ \A q \in Partitions : phase'[q] \in Counted => phase[q] \in Counted
      BY <1>0, <2>2 DEF ReceiveInputCells, FinishIntra, Finish, TypeInv, Counted
    <3> QED BY <3>1, <3>2, EndStays
  <2>3. CASE CountInflow(p)
    BY <2>3, EndCountInflow
  <2>4. CASE EnterRidge(p)
    BY <2>4, EndEnterRidge
  <2>5. CASE StopAtSink(p) \/ StopAtOutput(p)
    BY <2>5, EndStop
  <2>6. CASE FlowOn(p)
    BY <2>6, EndFlowOn
  <2>7. CASE \E d \in Directions : ReceiveMaterial(p, d)
    BY <2>7, EndReceiveMaterial
  <2> QED BY <1>1, <2>1, <2>2, <2>3, <2>4, <2>5, <2>6, <2>7 DEF Step
<1>2. ASSUME UNCHANGED vars PROVE EndInv'
  <2>1. /\ UNCHANGED inputs /\ outputCells' = outputCells /\ closed' = closed /\ solved' = solved
        /\ delivered' = delivered /\ ridges' = ridges /\ stream' = stream /\ phase' = phase
    BY <1>2 DEF vars, inputs
  <2> QED BY <2>1, EndStays
<1> QED BY <1>1, <1>2 DEF Next, Terminated

(* It holds initially.                                                     *)
LEMMA EndInit ==
    ASSUME Init
    PROVE  EndInv
BY CellFacts DEF Init, EndInv, ClosedInv, ReadyInv, Counted, Channels, Sides
-----------------------------------------------------------------------------
(* In a network without cycles, no cells wait for each other.              *)
IsReach(g, f, n) ==
    g = [i \in 0 .. n |-> IF i = 0 THEN DOMAIN f ELSE {f[c] : c \in g[i - 1] \ {NoCell}}]

(* There is a function that follows the streams n cells downstream, so     *)
(* that the recursive function of IsAcyclic is it.                         *)
LEMMA ReachExists ==
    ASSUME NEW f, NEW n \in Nat
    PROVE  \E g : IsReach(g, f, n)
<1> DEFINE P(k) == \E g : IsReach(g, f, k)
           S == {k \in Nat : ~P(k)}
<1> SUFFICES ASSUME S # {} PROVE FALSE
  OBVIOUS
<1>1. PICK k \in S : \A m \in S : k <= m
  <2>1. S \subseteq Nat
    OBVIOUS
  <2> HIDE DEF S
  <2> QED BY <2>1, SmallestElement
<1>2. k # 0
  <2>1. \A i \in 0 .. 0 : i = 0
    OBVIOUS
  <2>2. IsReach([i \in 0 .. 0 |-> DOMAIN f], f, 0)
    BY <2>1 DEF IsReach
  <2> QED BY <1>1, <2>2
<1>3. k \in Nat \ {0}
  BY <1>1, <1>2
<1>4. P(k - 1)
  <2>1. k - 1 \in Nat /\ ~(k <= k - 1)
    BY <1>3
  <2> HIDE DEF P
  <2> QED BY <1>1, <2>1
<1>5. PICK g : IsReach(g, f, k - 1)
  BY <1>4
<1> DEFINE step(r) == {f[c] : c \in r \ {NoCell}}
           h == [i \in 0 .. k |-> IF i = k THEN step(g[k - 1]) ELSE g[i]]
<1>6. ASSUME NEW i \in 0 .. k
      PROVE  h[i] = IF i = 0 THEN DOMAIN f ELSE step(h[i - 1])
  <2>1. CASE i = k
    <3>1. i # 0 /\ i - 1 \in 0 .. k /\ i - 1 # k
      BY <1>3, <2>1
    <3>2. h[i - 1] = g[k - 1]
      BY <2>1, <3>1
    <3> HIDE DEF step
    <3> QED BY <2>1, <3>1, <3>2
  <2>2. CASE i # k
    <3>1. i \in 0 .. k - 1
      BY <1>3, <2>2
    <3>2. g[i] = IF i = 0 THEN DOMAIN f ELSE step(g[i - 1])
      BY <1>5, <3>1 DEF IsReach
    <3>3. i # 0 => i - 1 \in 0 .. k /\ i - 1 # k
      BY <1>3, <3>1
    <3> HIDE DEF step
    <3> QED BY <2>2, <3>2, <3>3
  <2> QED BY <2>1, <2>2
<1>7. h = [i \in 0 .. k |-> IF i = 0 THEN DOMAIN f ELSE step(h[i - 1])]
  <2> HIDE DEF step
  <2> QED BY <1>6, Zenon
<1>8. IsReach(h, f, k)
  BY <1>7, Zenon DEF IsReach
<1> QED BY <1>1, <1>8

(* If each of the cells U had another one of U upstream, streams would be  *)
(* endless.                                                                *)
LEMMA NoCycle ==
    ASSUME NEW f, IsAcyclic(f), IsFiniteSet(DOMAIN f), NEW U, U \subseteq DOMAIN f, NoCell \notin U,
           \A c \in U : \E x \in U : f[x] = c
    PROVE  U = {}
<1> DEFINE n == Cardinality(DOMAIN f)
           reach == CHOOSE g : g = [i \in 0 .. n |-> IF i = 0 THEN DOMAIN f ELSE {f[c] : c \in g[i - 1] \ {NoCell}}]
<1>1. n \in Nat
  BY FS_CardinalityType
<1>2. IsReach(reach, f, n)
  <2>1. \E g : IsReach(g, f, n)
    BY <1>1, ReachExists
  <2> QED BY <2>1, Zenon DEF IsReach
<1>3. reach[n] \subseteq {NoCell}
  BY Zenon DEF IsAcyclic
<1> HIDE DEF n, reach
<1> DEFINE S == {i \in 0 .. n : ~(U \subseteq reach[i])}
<1>4. S = {}
  <2> SUFFICES ASSUME S # {} PROVE FALSE
    OBVIOUS
  <2>1. PICK k \in S : \A m \in S : k <= m
    <3>1. S \subseteq Nat
      OBVIOUS
    <3> HIDE DEF S
    <3> QED BY <3>1, SmallestElement
  <2>2. reach[k] = IF k = 0 THEN DOMAIN f ELSE {f[c] : c \in reach[k - 1] \ {NoCell}}
    BY <1>2, <2>1 DEF IsReach
  <2>3. k # 0
    BY <2>1, <2>2
  <2>4. k - 1 \in 0 .. n /\ ~(k <= k - 1)
    BY <1>1, <2>1, <2>3
  <2>5. U \subseteq reach[k - 1]
    BY <2>1, <2>4
  <2>6. U \subseteq {f[c] : c \in reach[k - 1] \ {NoCell}}
    BY <2>5
  <2> QED BY <2>1, <2>2, <2>3, <2>6
<1>5. U \subseteq reach[n]
  <2>1. n \in 0 .. n
    BY <1>1
  <2> QED BY <1>4, <2>1
<1> QED BY <1>3, <1>5

(* When all partitions are done nothing is awaited, so that whatever was   *)
(* solved was delivered, and a cell that is not solved has another one     *)
(* upstream.                                                               *)
LEMMA NothingAwaited ==
    ASSUME Inv, Awaits, Done, NEW p \in Partitions, NEW d \in Directions, <<p, d>> \in Channels
    PROVE  Outstanding(Source(p, d)) = {} /\ <<p, d>> \in inputReady
<1> DEFINE ch == Source(p, d)
<1>1. phase[p] = "done" /\ StageInv(p)
  BY DEF Done, Inv
<1>2. <<p, d>> \in inputReady /\ awaited[<<p, d>>] = <<>>
  BY <1>1 DEF StageInv, Counted
<1>3. Expecting(p, d) = <<>>
  BY <1>1, <1>2 DEF Expecting
<1>4. Cardinality(Outstanding(ch)) = 0
  BY <1>2, <1>3 DEF Awaits, AwaitInv, Serves
<1>5. IsFiniteSet(Outstanding(ch))
  <2>1. ch[1] \in Partitions
    BY ChannelFacts
  <2>2. Outstanding(ch) \subseteq CellsOf(ch[1])
    BY DEF Outstanding, SendersOf, Senders
  <2> QED BY <2>1, <2>2, CellsFinite, FS_Subset
<1> QED BY <1>2, <1>4, <1>5, FS_EmptySet

(* When all partitions are done, all cells are solved.                     *)
LEMMA DoneSolved ==
    ASSUME AtLeastTwo, Inv, Awaits, EndInv, IsAcyclic(down), Done
    PROVE  solved = Valid
<1>0. FlowInv /\ TypeInv /\ SolvedInv
  BY DEF Inv
<1>1. solved \subseteq Valid
  BY <1>0 DEF TypeInv, SolvedInv, Valid
<1>2. \A x \in solved : down[x] # NoCell => x \in delivered
  <2> SUFFICES ASSUME NEW x \in solved, down[x] # NoCell, x \notin delivered PROVE FALSE
    OBVIOUS
  <2>1. x \in Cells /\ down[x][1] # x[1]
    BY <1>0 DEF TypeInv, SolvedInv
  <2>2. PICK d \in Directions : /\ <<down[x][1], d>> \in Channels
                                /\ x[1] = Source(down[x][1], d)[1]
                                /\ x[2] \in SendersOf(Source(down[x][1], d))
    BY <1>0, <2>1, RemoteFlow
  <2>3. down[x][1] \in Partitions
    BY <2>2, ChannelFacts
  <2>4. Outstanding(Source(down[x][1], d)) = {}
    BY <2>2, <2>3, NothingAwaited
  <2>5. x = <<x[1], x[2]>>
    BY <2>1, CellFacts
  <2> QED BY <2>2, <2>4, <2>5 DEF Outstanding
<1> DEFINE U == Valid \ solved
<1>3. ASSUME NEW c \in U PROVE \E x \in U : down[x] = c
  <2>1. c \in Cells /\ flow[c] # "no_data" /\ c \notin solved /\ c[1] \in Partitions /\ c[2] \in CellsOf(c[1])
    BY CellFacts DEF Valid
  <2>2. phase[c[1]] = "done" /\ StageInv(c[1]) /\ ReadyInv(c)
    BY <2>1 DEF Done, Inv, EndInv
  <2>3. ridges[c[1]] = {} /\ stream[c[1]] = Idle
    BY <2>2 DEF StageInv
  <2>4. c[2] # Idle
    BY <2>1, IdxsFacts DEF Idle
  <2>5. ~(UpstreamOf(c) \subseteq delivered)
    BY <2>1, <2>2, <2>3, <2>4 DEF ReadyInv, Started, Counted
  <2>6. PICK x \in Cells : down[x] = c /\ x \notin delivered
    BY <2>5 DEF UpstreamOf
  <2>7. c # NoCell
    BY <2>1, CellFacts DEF NoCell
  <2>8. x \in Valid
    BY <1>0, <2>6, <2>7, ValidCells
  <2> QED BY <1>2, <2>6, <2>7, <2>8
<1>4. U = {}
  <2>1. DOMAIN down = Cells /\ IsFiniteSet(Cells)
    BY <1>0, ValidCells, CellsFinite
  <2>2. U \subseteq Cells /\ NoCell \notin U
    BY CellFacts DEF Valid, NoCell
  <2> HIDE DEF U
  <2> QED BY <1>3, <2>1, <2>2, NoCycle
<1> QED BY <1>1, <1>4

(* Then every list is used up and every channel is empty and closed.       *)
LEMMA DoneComplete ==
    ASSUME AtLeastTwo, Inv, Awaits, EndInv, IsAcyclic(down)
    PROVE  DoneIsComplete
<1> SUFFICES ASSUME Done
             PROVE  /\ solved = {c \in Cells : flow[c] # "no_data"}
                    /\ \A s \in Sides : outputCells[s] = <<>>
                    /\ \A c \in solved : inflowCount[c] = 0
                    /\ \A ch \in Channels :
                          material[ch] = <<>> /\ (OutputCells(flow, ch[1], ch[2]) # <<>> => ch \in closed)
  BY DEF DoneIsComplete
<1>0. FlowInv /\ TypeInv /\ SolvedInv
  BY DEF Inv
<1>1. solved = Valid
  BY DoneSolved
<1>2. ASSUME NEW s \in Sides PROVE outputCells[s] = <<>> /\ phase[s[1]] = "done"
  <2>1. OutputInv(s) /\ s[1] \in Partitions
    BY SideFacts DEF Inv
  <2>2. phase[s[1]] = "done"
    BY <2>1 DEF Done
  <2>3. Unsolved(s) = {}
    <3> SUFFICES ASSUME NEW i \in SendersOf(s), <<s[1], i>> \notin solved PROVE FALSE
      BY DEF Unsolved
    <3>1. i \in CellsOf(s[1]) /\ flow[<<s[1], i>>] \in Directions
      BY DEF SendersOf, Senders
    <3>2. <<s[1], i>> \in Cells
      BY <2>1, <3>1, CellFacts
    <3>3. "no_data" \notin Directions
      BY DEF Directions
    <3> QED BY <1>1, <3>1, <3>2, <3>3 DEF Valid
  <2> QED BY <2>1, <2>2, <2>3, ListingFacts DEF OutputInv
<1>3. ASSUME NEW c \in solved PROVE inflowCount[c] = 0
  <2>1. c \in Cells /\ CountInv(c) /\ UpstreamOf(c) \subseteq delivered /\ c[1] \in Partitions
    BY <1>0, CellFacts DEF Inv, TypeInv, SolvedInv
  <2>2. UpstreamOf(c) \ delivered = {}
    BY <2>1
  <2> QED BY <2>1, <2>2, FS_EmptySet DEF CountInv, Done, Counted
<1>4. ASSUME NEW ch \in Channels
      PROVE  material[ch] = <<>> /\ (OutputCells(flow, ch[1], ch[2]) # <<>> => ch \in closed)
  <2>1. PICK p, d : <<p, d>> \in Channels /\ Source(p, d) = ch
    BY ReverseChannel
  <2>2. p \in Partitions /\ d \in Directions
    BY <2>1, ChannelFacts
  <2>3. Outstanding(ch) = {} /\ <<p, d>> \in inputReady
    BY <2>1, <2>2, NothingAwaited
  <2>4. Sent(ch) = {}
    BY <2>3 DEF Sent, Outstanding
  <2>5. SentInv(ch)
    BY DEF Inv
  <2>6. Origins(ch) = <<>>
    BY <2>4, <2>5, ListingFacts DEF SentInv
  <2>7. material[ch] = <<>>
    <3>1. material[ch] \in Seq(Int \X (Nat \cup {NoData}) \X Cells)
      BY <1>0 DEF TypeInv
    <3>2. DOMAIN material[ch] = DOMAIN Origins(ch)
      BY DEF Origins
    <3>3. DOMAIN material[ch] = {}
      BY <2>6, <3>2
    <3>4. Len(material[ch]) \in Nat /\ DOMAIN material[ch] = 1 .. Len(material[ch])
      BY <3>1, LenProperties
    <3>5. Len(material[ch]) = 0
      <4> DEFINE n == Len(material[ch])
      <4> SUFFICES ASSUME n # 0 PROVE FALSE
        OBVIOUS
      <4>1. n \in Nat /\ 1 .. n = {}
        BY <3>3, <3>4
      <4> HIDE DEF n
      <4>2. 1 \in 1 .. n
        BY <4>1
      <4> QED BY <4>1, <4>2
    <3> QED BY <3>1, <3>5, EmptySeq
  <2>8. ch \in Sides
    BY DEF Channels
  <2> QED BY <1>2, <2>7, <2>8 DEF EndInv, ClosedInv, Listed
<1> QED BY <1>1, <1>2, <1>3, <1>4 DEF Valid
-----------------------------------------------------------------------------
(* What a fold over a set of cells gathers.  The order in which it takes   *)
(* the cells is of no matter: material adds up in any order.               *)
Amounts == Nat \cup {NoData}

(* Adding up is commutative and associative, and zero adds nothing.        *)
LEMMA AddMaterialFacts ==
    /\ \A v, w \in Amounts : AddMaterial(v, w) \in Amounts /\ AddMaterial(v, w) = AddMaterial(w, v)
    /\ \A u, v, w \in Amounts : AddMaterial(u, AddMaterial(v, w)) = AddMaterial(AddMaterial(u, v), w)
    /\ \A v \in Amounts : AddMaterial(v, 0) = v
<1>1. NoData \notin Nat
  BY InputsAssumption
<1> QED BY <1>1 DEF AddMaterial, Amounts

(* The same, for three amounts.                                            *)
LEMMA AddMaterialSwaps ==
    ASSUME NEW u \in Amounts, NEW v \in Amounts, NEW w \in Amounts
    PROVE  /\ AddMaterial(u, AddMaterial(v, w)) = AddMaterial(v, AddMaterial(u, w))
           /\ AddMaterial(u, AddMaterial(v, w)) = AddMaterial(AddMaterial(u, v), w)
BY AddMaterialFacts

(* The element that is taken first.                                        *)
Pick(S) == CHOOSE x \in S : TRUE

(* What is gathered from each subset of S, by recursion over the subsets.  *)
IsFold(g, base, f, S) ==
    g = [s \in SUBSET S |-> IF s = {} THEN base ELSE AddMaterial(f[Pick(s)], g[s \ {Pick(s)}])]

(* Among finite sets there is one that contains none of the others.        *)
LEMMA SmallestSet ==
    ASSUME NEW T, T # {}, \A S \in T : IsFiniteSet(S)
    PROVE  \E S \in T : \A U \in T : ~(U \subseteq S /\ U # S)
<1> DEFINE A == UNION T
           R == StrictSubsetOrdering(A)
<1>1. IsWellFoundedOn(R, FiniteSubsetsOf(A))
  BY FS_StrictSubsetOrderingWellFounded
<1>2. T \subseteq FiniteSubsetsOf(A)
  BY DEF FiniteSubsetsOf
<1>3. \A U, S \in T : U \subseteq S /\ U # S => <<U, S>> \in R
  BY DEF StrictSubsetOrdering
<1> HIDE DEF R, A
<1>4. \E S \in T : \A U \in T : ~(<<U, S>> \in R)
  BY <1>1, <1>2, WFMin, Zenon
<1> QED BY <1>3, <1>4

(* A fold over a part of a set, and of another function that is the same   *)
(* there.                                                                  *)
LEMMA FoldUnique ==
    ASSUME NEW S, NEW T, T \subseteq S, IsFiniteSet(T), NEW base, NEW f, NEW e, \A x \in T : f[x] = e[x],
           NEW g, NEW h, IsFold(g, base, f, S), IsFold(h, base, e, T)
    PROVE  \A s \in SUBSET T : g[s] = h[s]
<1> DEFINE Bad == {s \in SUBSET T : g[s] # h[s]}
<1> SUFFICES ASSUME Bad # {} PROVE FALSE
  OBVIOUS
<1>1. PICK s \in Bad : \A u \in Bad : ~(u \subseteq s /\ u # s)
  <2>1. \A u \in Bad : IsFiniteSet(u)
    BY FS_Subset
  <2> HIDE DEF Bad
  <2> QED BY <2>1, SmallestSet
<1>2. s \in SUBSET T /\ s \in SUBSET S /\ g[s] # h[s]
  BY <1>1
<1>3. /\ g[s] = IF s = {} THEN base ELSE AddMaterial(f[Pick(s)], g[s \ {Pick(s)}])
      /\ h[s] = IF s = {} THEN base ELSE AddMaterial(e[Pick(s)], h[s \ {Pick(s)}])
  BY <1>2 DEF IsFold
<1>4. s # {} /\ Pick(s) \in s
  BY <1>2, <1>3 DEF Pick
<1>5. s \ {Pick(s)} \in SUBSET T /\ s \ {Pick(s)} \notin Bad
  BY <1>1, <1>2, <1>4
<1>6. g[s \ {Pick(s)}] = h[s \ {Pick(s)}] /\ f[Pick(s)] = e[Pick(s)]
  BY <1>2, <1>4, <1>5
<1> QED BY <1>2, <1>3, <1>4, <1>6

(* The recursion over subsets has a solution.                              *)
LEMMA FoldExists ==
    ASSUME NEW S, IsFiniteSet(S), NEW base, NEW f
    PROVE  \E g : IsFold(g, base, f, S)
<1> DEFINE P(U) == \E g : IsFold(g, base, f, U)
           T == {U \in SUBSET S : ~P(U)}
<1> SUFFICES ASSUME T # {} PROVE FALSE
  OBVIOUS
<1>1. PICK U \in T : \A V \in T : ~(V \subseteq U /\ V # U)
  <2>1. \A V \in T : IsFiniteSet(V)
    BY FS_Subset
  <2> HIDE DEF T
  <2> QED BY <2>1, SmallestSet
<1> DEFINE F(V) == CHOOSE g : IsFold(g, base, f, V)
           G(V) == F(V)[V]
           Next_(s) == AddMaterial(f[Pick(s)], G(s \ {Pick(s)}))
<1>2. ASSUME NEW V \in SUBSET U, V # U PROVE IsFold(F(V), base, f, V) /\ IsFiniteSet(V)
  <2>1. V \in SUBSET S /\ V \notin T
    BY <1>1, <1>2
  <2> QED BY <2>1, FS_Subset
<1>3. ASSUME NEW V \in SUBSET U, V # U PROVE G(V) = IF V = {} THEN base ELSE Next_(V)
  <2>1. G(V) = IF V = {} THEN base ELSE AddMaterial(f[Pick(V)], F(V)[V \ {Pick(V)}])
    <3>1. IsFold(F(V), base, f, V)
      BY <1>2, <1>3
    <3> HIDE DEF F
    <3> QED BY <3>1 DEF IsFold
  <2>2. CASE V # {}
    <3> DEFINE W == V \ {Pick(V)}
    <3>1. Pick(V) \in V
      BY <2>2 DEF Pick
    <3>2. W \in SUBSET U /\ W # U /\ W \subseteq V
      BY <1>3, <3>1
    <3>3. IsFold(F(V), base, f, V) /\ IsFold(F(W), base, f, W) /\ IsFiniteSet(W)
      <4> HIDE DEF W, F
      <4> QED BY <1>2, <1>3, <3>2
    <3>4. F(V)[W] = F(W)[W]
      <4> HIDE DEF W, F
      <4> QED BY <3>2, <3>3, FoldUnique
    <3> QED BY <2>1, <2>2, <3>4
  <2> QED BY <2>1, <2>2
<1> HIDE DEF F, G
<1> DEFINE h == [s \in SUBSET U |-> IF s = {} THEN base ELSE Next_(s)]
<1>4. ASSUME NEW s \in SUBSET U, s # {}
      PROVE  h[s] = AddMaterial(f[Pick(s)], h[s \ {Pick(s)}])
  <2> DEFINE W == s \ {Pick(s)}
  <2>1. Pick(s) \in s
    BY <1>4 DEF Pick
  <2>2. W \in SUBSET U /\ W # U
    BY <2>1
  <2>3. h[W] = IF W = {} THEN base ELSE Next_(W)
    BY <2>2
  <2>4. G(W) = IF W = {} THEN base ELSE Next_(W)
    BY <1>3, <2>2
  <2>5. h[s] = Next_(s)
    BY <1>4
  <2> HIDE DEF h
  <2> QED BY <2>3, <2>4, <2>5
<1>5. IsFold(h, base, f, U)
  <2>1. h = [s \in SUBSET U |-> h[s]]
    OBVIOUS
  <2>2. ASSUME NEW s \in SUBSET U PROVE h[s] = IF s = {} THEN base ELSE AddMaterial(f[Pick(s)], h[s \ {Pick(s)}])
    <3>1. CASE s = {}
      BY <3>1
    <3>2. CASE s # {}
      BY <1>4, <3>2
    <3> QED BY <3>1, <3>2
  <2> HIDE DEF h
  <2> QED BY <2>1, <2>2, Zenon DEF IsFold
<1> QED BY <1>1, <1>5

(* The fold of the community modules.                                      *)
LEMMA FoldIs ==
    ASSUME NEW S, IsFiniteSet(S), NEW base, NEW f, NEW g, IsFold(g, base, f, S)
    PROVE  FoldFunctionOnSet(AddMaterial, base, f, S) = g[S]
<1> DEFINE h == CHOOSE iter : iter = [s \in SUBSET S |-> IF s = {} THEN base
                    ELSE LET x == CHOOSE y \in s : TRUE IN AddMaterial(f[x], iter[s \ {x}])]
<1>1. FoldFunctionOnSet(AddMaterial, base, f, S) = h[S]
  BY Zenon DEF FoldFunctionOnSet, MapThenFoldSet
<1>2. IsFold(h, base, f, S)
  BY Zenon DEF IsFold, Pick
<1> HIDE DEF h
<1>3. g[S] = h[S]
  BY <1>2, FoldUnique
<1> QED BY <1>1, <1>3
(* A fold may take any element first.                                      *)
LEMMA FoldSwaps ==
    ASSUME NEW S, IsFiniteSet(S), NEW base \in Amounts, NEW f, \A x \in S : f[x] \in Amounts,
           NEW g, IsFold(g, base, f, S)
    PROVE  /\ \A s \in SUBSET S : g[s] \in Amounts
           /\ \A s \in SUBSET S : \A x \in s : g[s] = AddMaterial(f[x], g[s \ {x}])
<1> DEFINE Good(s) == g[s] \in Amounts /\ \A x \in s : g[s] = AddMaterial(f[x], g[s \ {x}])
           Bad == {s \in SUBSET S : ~Good(s)}
<1> SUFFICES ASSUME Bad # {} PROVE FALSE
  OBVIOUS
<1>1. PICK s \in Bad : \A u \in Bad : ~(u \subseteq s /\ u # s)
  <2>1. \A u \in Bad : IsFiniteSet(u)
    BY FS_Subset
  <2> HIDE DEF Bad
  <2> QED BY <2>1, SmallestSet
<1>2. s \in SUBSET S /\ ~Good(s)
  BY <1>1
<1>3. ASSUME NEW u \in SUBSET s, u # s PROVE Good(u)
  <2>1. u \in SUBSET S /\ u \notin Bad
    BY <1>1, <1>2, <1>3
  <2> HIDE DEF Good
  <2> QED BY <2>1
<1>4. g[s] = IF s = {} THEN base ELSE AddMaterial(f[Pick(s)], g[s \ {Pick(s)}])
  BY <1>2 DEF IsFold
<1>5. s # {}
  BY <1>2, <1>4
<1> DEFINE y == Pick(s)
           r == s \ {y}
<1>6. y \in s /\ r \in SUBSET s /\ r # s
  BY <1>5 DEF Pick
<1> HIDE DEF y
<1>7. g[s] = AddMaterial(f[y], g[r]) /\ f[y] \in Amounts /\ Good(r)
  <2> HIDE DEF Good
  <2> QED BY <1>2, <1>3, <1>4, <1>5, <1>6 DEF y
<1>8. g[s] \in Amounts
  BY <1>7, AddMaterialFacts
<1>9. ASSUME NEW x \in s PROVE g[s] = AddMaterial(f[x], g[s \ {x}])
  <2>1. CASE x = y
    BY <1>7, <2>1
  <2>2. CASE x # y
    <3> DEFINE t == s \ {x}
               w == r \ {x}
    <3>1. x \in r /\ y \in t /\ w = t \ {y} /\ t \in SUBSET s /\ t # s /\ w \in SUBSET s /\ w # s
      BY <1>6, <2>2
    <3>2. Good(t) /\ Good(w)
      <4> HIDE DEF Good, t, w
      <4> QED BY <1>3, <3>1
    <3>3. g[r] = AddMaterial(f[x], g[w])
      BY <1>7, <3>1
    <3>4. g[t] = AddMaterial(f[y], g[w])
      BY <3>1, <3>2
    <3>5. f[x] \in Amounts /\ g[w] \in Amounts
      BY <1>2, <3>2
    <3>6. AddMaterial(f[y], AddMaterial(f[x], g[w])) = AddMaterial(f[x], AddMaterial(f[y], g[w]))
      <4> HIDE DEF w
      <4> QED BY <1>7, <3>5, AddMaterialSwaps, Zenon
    <3> HIDE DEF t, w, r
    <3> QED BY <1>7, <3>3, <3>4, <3>6 DEF t
  <2> QED BY <2>1, <2>2
<1> QED BY <1>2, <1>8, <1>9

(* What the base holds more, the fold holds more.                          *)
LEMMA FoldShifts ==
    ASSUME NEW S, IsFiniteSet(S), NEW base \in Amounts, NEW v \in Amounts,
           NEW f, \A x \in S : f[x] \in Amounts,
           NEW g, NEW h, IsFold(g, base, f, S), IsFold(h, AddMaterial(base, v), f, S)
    PROVE  \A s \in SUBSET S : h[s] = AddMaterial(g[s], v)
<1> DEFINE Bad == {s \in SUBSET S : h[s] # AddMaterial(g[s], v)}
<1> SUFFICES ASSUME Bad # {} PROVE FALSE
  OBVIOUS
<1>1. PICK s \in Bad : \A u \in Bad : ~(u \subseteq s /\ u # s)
  <2>1. \A u \in Bad : IsFiniteSet(u)
    BY FS_Subset
  <2> HIDE DEF Bad
  <2> QED BY <2>1, SmallestSet
<1>2. s \in SUBSET S /\ h[s] # AddMaterial(g[s], v)
  BY <1>1
<1>3. /\ g[s] = IF s = {} THEN base ELSE AddMaterial(f[Pick(s)], g[s \ {Pick(s)}])
      /\ h[s] = IF s = {} THEN AddMaterial(base, v) ELSE AddMaterial(f[Pick(s)], h[s \ {Pick(s)}])
  BY <1>2 DEF IsFold
<1>4. s # {} /\ Pick(s) \in s
  BY <1>2, <1>3 DEF Pick
<1> DEFINE r == s \ {Pick(s)}
<1>5. r \in SUBSET S /\ r \notin Bad
  BY <1>1, <1>2, <1>4
<1>6. h[r] = AddMaterial(g[r], v) /\ f[Pick(s)] \in Amounts
  BY <1>2, <1>4, <1>5
<1>7. g[r] \in Amounts
  <2> HIDE DEF r
  <2> QED BY <1>5, FoldSwaps
<1> HIDE DEF r
<1>8. AddMaterial(f[Pick(s)], AddMaterial(g[r], v)) = AddMaterial(AddMaterial(f[Pick(s)], g[r]), v)
  BY <1>6, <1>7, AddMaterialSwaps, Zenon
<1> QED BY <1>2, <1>3, <1>4, <1>6, <1>8 DEF r

(* From nothing, nothing is gathered but the base.                         *)
LEMMA SumEmpty ==
    ASSUME NEW base, NEW f
    PROVE  SumOf(base, f, {}) = base
<1>1. PICK g : IsFold(g, base, f, {})
  BY FoldExists, FS_EmptySet
<1>2. SumOf(base, f, {}) = g[{}]
  BY <1>1, FoldIs, FS_EmptySet, Zenon DEF SumOf
<1> QED BY <1>1, <1>2 DEF IsFold

(* Only the cells gathered from matter.                                    *)
LEMMA SumSame ==
    ASSUME NEW S, IsFiniteSet(S), NEW base, NEW f, NEW e, \A x \in S : f[x] = e[x]
    PROVE  SumOf(base, f, S) = SumOf(base, e, S)
<1>1. PICK g : IsFold(g, base, f, S)
  BY FoldExists
<1>2. PICK h : IsFold(h, base, e, S)
  BY FoldExists
<1>3. SumOf(base, f, S) = g[S] /\ SumOf(base, e, S) = h[S]
  BY <1>1, <1>2, FoldIs, Zenon DEF SumOf
<1>4. \A s \in SUBSET S : g[s] = h[s]
  BY <1>1, <1>2, FoldUnique
<1> QED BY <1>3, <1>4

(* An amount may be added before or after.                                 *)
LEMMA SumBase ==
    ASSUME NEW S, IsFiniteSet(S), NEW base \in Amounts, NEW v \in Amounts,
           NEW f, \A x \in S : f[x] \in Amounts
    PROVE  SumOf(AddMaterial(base, v), f, S) = AddMaterial(SumOf(base, f, S), v)
<1>1. PICK g : IsFold(g, base, f, S)
  BY FoldExists
<1>2. PICK h : IsFold(h, AddMaterial(base, v), f, S)
  BY FoldExists
<1>3. SumOf(base, f, S) = g[S] /\ SumOf(AddMaterial(base, v), f, S) = h[S]
  BY <1>1, <1>2, FoldIs, Zenon DEF SumOf
<1> QED BY <1>1, <1>2, <1>3, FoldShifts

(* One cell more is gathered from.                                         *)
LEMMA SumAdd ==
    ASSUME NEW S, IsFiniteSet(S), NEW base \in Amounts, NEW x, x \notin S,
           NEW f, \A y \in S \cup {x} : f[y] \in Amounts
    PROVE  SumOf(base, f, S \cup {x}) = AddMaterial(SumOf(base, f, S), f[x])
<1> DEFINE T == S \cup {x}
<1>0. IsFiniteSet(T) /\ S \in SUBSET T /\ T \in SUBSET T /\ T \ {x} = S /\ x \in T
  BY FS_AddElement
<1> HIDE DEF T
<1>1. PICK g : IsFold(g, base, f, T)
  BY <1>0, FoldExists
<1>2. PICK h : IsFold(h, base, f, S)
  BY FoldExists
<1>3. SumOf(base, f, T) = g[T] /\ SumOf(base, f, S) = h[S]
  BY <1>0, <1>1, <1>2, FoldIs, Zenon DEF SumOf
<1>4. g[S] = h[S]
  BY <1>0, <1>1, <1>2, FoldUnique
<1>5. \A y \in T : f[y] \in Amounts
  BY DEF T
<1>6. g[T] = AddMaterial(f[x], g[S]) /\ g[S] \in Amounts /\ f[x] \in Amounts
  BY <1>0, <1>1, <1>5, FoldSwaps
<1> QED BY <1>3, <1>4, <1>6, AddMaterialFacts DEF T
(* Nothing arrives at cell c, which is not entered.                        *)
LEMMA SumStays ==
    ASSUME UNCHANGED inputs, FlowInv, NEW c \in Cells, SumInv(c),
           c \in solved' <=> c \in solved, flow[c] # "no_data" => outflow'[c] = outflow[c],
           UpstreamOf(c) \cap delivered' = Arrived(c),
           \A x \in Arrived(c) : outflow'[x] = outflow[x]
    PROVE  SumInv(c)'
<1>1. flow' = flow /\ external' = external /\ UpstreamOf(c)' = UpstreamOf(c)
  BY InputsStay
<1>2. Arrived(c)' = Arrived(c)
  BY <1>1 DEF Arrived
<1>3. IsFiniteSet(Arrived(c))
  BY UpstreamBound, FS_Subset DEF Arrived
<1> DEFINE base == IF c \in solved THEN external[c] ELSE 0
<1>4. SumOf(base, outflow', Arrived(c)) = SumOf(base, outflow, Arrived(c))
  <2> HIDE DEF base
  <2> QED BY <1>3, SumSame
<1> QED BY <1>1, <1>2, <1>4 DEF SumInv

(* All amounts are amounts, and finitely many cells arrive.                *)
LEMMA AmountsFacts ==
    ASSUME FlowInv, TypeInv
    PROVE  /\ \A x \in Cells : outflow[x] \in Amounts /\ external[x] \in Amounts
           /\ \A x \in Cells : Total(x) \in Amounts
           /\ 0 \in Amounts /\ \A v \in Amounts : AddMaterial(0, v) = v
           /\ \A c \in Cells : Arrived(c) \subseteq Cells /\ IsFiniteSet(Arrived(c))
<1>1. \A x \in Cells : outflow[x] \in Amounts /\ external[x] \in Amounts
  BY DEF FlowInv, TypeInv, Amounts
<1>2. \A x \in Cells : Total(x) \in Amounts
  BY TotalType DEF Amounts
<1>3. 0 \in Amounts
  BY DEF Amounts
<1>4. \A v \in Amounts : AddMaterial(0, v) = v
  BY <1>3, AddMaterialFacts
<1>5. \A c \in Cells : Arrived(c) \subseteq Cells /\ IsFiniteSet(Arrived(c))
  BY UpstreamBound, FS_Subset DEF Arrived
<1> QED BY <1>1, <1>2, <1>3, <1>4, <1>5

(* Cell c is entered.                                                      *)
LEMMA SumEnters ==
    ASSUME UNCHANGED inputs, FlowInv, TypeInv, NEW c \in Cells, SumInv(c), flow[c] # "no_data",
           c \notin solved, c \in solved', outflow'[c] = Total(c),
           UpstreamOf(c) \cap delivered' = Arrived(c),
           \A x \in Arrived(c) : outflow'[x] = outflow[x]
    PROVE  SumInv(c)'
<1>1. flow' = flow /\ external' = external /\ UpstreamOf(c)' = UpstreamOf(c)
  BY InputsStay
<1>2. Arrived(c)' = Arrived(c)
  BY <1>1 DEF Arrived
<1>3. /\ IsFiniteSet(Arrived(c)) /\ external[c] \in Amounts /\ 0 \in Amounts
      /\ \A x \in Arrived(c) : outflow[x] \in Amounts
      /\ AddMaterial(0, external[c]) = external[c]
  BY AmountsFacts
<1>4. outflow[c] = SumOf(0, outflow, Arrived(c))
  BY DEF SumInv
<1>5. SumOf(AddMaterial(0, external[c]), outflow, Arrived(c)) = AddMaterial(SumOf(0, outflow, Arrived(c)), external[c])
  BY <1>3, SumBase
<1>6. SumOf(external[c], outflow', Arrived(c)) = SumOf(external[c], outflow, Arrived(c))
  BY <1>3, SumSame
<1>7. outflow'[c] = SumOf(external[c], outflow', Arrived(c))
  BY <1>3, <1>4, <1>5, <1>6 DEF Total
<1> QED BY <1>1, <1>2, <1>7 DEF SumInv

(* The outflow of x arrives at cell c.                                     *)
LEMMA SumArrives ==
    ASSUME UNCHANGED inputs, FlowInv, TypeInv, NEW c \in Cells, SumInv(c), flow[c] # "no_data",
           c \notin solved, c \notin solved',
           NEW x \in Cells, x \notin delivered, down[x] = c, delivered' = delivered \cup {x},
           outflow'[x] \in Amounts, outflow'[c] = AddMaterial(outflow[c], outflow'[x]),
           \A y \in Arrived(c) : outflow'[y] = outflow[y]
    PROVE  SumInv(c)'
<1>1. flow' = flow /\ external' = external /\ UpstreamOf(c)' = UpstreamOf(c)
  BY InputsStay
<1> DEFINE S == Arrived(c)
<1>2. Arrived(c)' = S \cup {x} /\ x \notin S
  BY <1>1 DEF Arrived, UpstreamOf
<1>3. /\ IsFiniteSet(S) /\ 0 \in Amounts
      /\ \A y \in S : outflow[y] \in Amounts
  BY AmountsFacts
<1>4. outflow[c] = SumOf(0, outflow, S)
  BY DEF SumInv
<1> HIDE DEF S
<1>5. \A y \in S : outflow'[y] = outflow[y]
  BY DEF S
<1>6. SumOf(0, outflow', S) = SumOf(0, outflow, S)
  BY <1>3, <1>5, SumSame
<1>7. \A y \in S \cup {x} : outflow'[y] \in Amounts
  BY <1>3, <1>5
<1>8. SumOf(0, outflow', S \cup {x}) = AddMaterial(SumOf(0, outflow', S), outflow'[x])
  BY <1>2, <1>3, <1>7, SumAdd
<1>9. outflow'[c] = SumOf(0, outflow', S \cup {x})
  BY <1>4, <1>6, <1>8
<1> QED BY <1>1, <1>2, <1>9 DEF SumInv
(* A step that leaves material alone.                                      *)
LEMMA SumsStay ==
    ASSUME UNCHANGED inputs, FlowInv, TypeInv, Sums, solved' = solved, delivered' = delivered, outflow' = outflow
    PROVE  Sums'
<1>1. ASSUME NEW c \in Cells PROVE SumInv(c)'
  <2>1. SumInv(c)
    BY DEF Sums
  <2>2. UpstreamOf(c) \cap delivered' = Arrived(c)
    BY DEF Arrived
  <2> QED BY <2>1, <2>2, SumStays
<1> QED BY <1>1 DEF Sums

(* Cells without data deliver nothing.                                     *)
LEMMA SumsCountInflow ==
    ASSUME Inv, Sums, NEW p \in Partitions, CountInflow(p)
    PROVE  Sums'
<1>1. /\ UNCHANGED inputs /\ solved' = solved /\ delivered' = delivered
      /\ outflow' = [c \in Cells |-> IF c[1] = p /\ c[2] \notin {idxs \in CellsOf(p) : flow[<<p, idxs>>] # "no_data"}
                                     THEN NoData ELSE outflow[c]]
  BY DEF CountInflow, history
<1>2. FlowInv /\ TypeInv /\ SolvedInv
  BY DEF Inv
<1>3. \A c \in Cells : flow[c] # "no_data" => outflow'[c] = outflow[c]
  BY <1>1, CellFacts
<1>4. ASSUME NEW c \in Cells PROVE SumInv(c)'
  <2>1. SumInv(c) /\ UpstreamOf(c) \cap delivered' = Arrived(c)
    BY <1>1 DEF Sums, Arrived
  <2>2. \A x \in Arrived(c) : outflow'[x] = outflow[x]
    BY <1>2, <1>3 DEF Arrived, TypeInv, SolvedInv
  <2> QED BY <1>1, <1>2, <1>3, <2>1, <2>2, SumStays
<1> QED BY <1>4 DEF Sums

(* The external inflow is added to a cell that is entered.                 *)
LEMMA SumsStop ==
    ASSUME Inv, Sums, NEW p \in Partitions, StopAtSink(p) \/ StopAtOutput(p)
    PROVE  Sums'
<1>1. PICK i \in CellsOf(p) : StoppedAt(p, i)
  BY StoppedAtIs
<1> DEFINE c == <<p, i>>
<1>2. /\ UNCHANGED inputs /\ delivered' = delivered /\ c \in Cells /\ c \notin solved
      /\ flow[c] # "no_data" /\ outflow' = [outflow EXCEPT ![c] = Total(c)] /\ solved' = solved \cup {c}
  BY <1>1 DEF StoppedAt
<1> HIDE DEF c
<1>3. FlowInv /\ TypeInv
  BY DEF Inv
<1>4. \A y \in Cells : outflow'[y] = IF y = c THEN Total(c) ELSE outflow[y]
  BY <1>2, <1>3 DEF TypeInv
<1>5. ASSUME NEW y \in Cells PROVE SumInv(y)'
  <2>1. SumInv(y) /\ UpstreamOf(y) \cap delivered' = Arrived(y)
    BY <1>2 DEF Sums, Arrived
  <2>2. \A x \in Arrived(y) : x \in Cells /\ x # c
    BY <1>2, <1>3 DEF Arrived, TypeInv
  <2>3. \A x \in Arrived(y) : outflow'[x] = outflow[x]
    BY <1>4, <2>2
  <2>4. CASE y = c
    BY <1>2, <1>3, <1>4, <2>1, <2>3, <2>4, SumEnters
  <2>5. CASE y # c
    BY <1>2, <1>3, <1>4, <2>1, <2>3, <2>5, SumStays
  <2> QED BY <2>4, <2>5
<1> QED BY <1>5 DEF Sums

(* A stream takes the outflow of a cell downstream.                        *)
LEMMA SumsFlowOn ==
    ASSUME AtLeastTwo, Inv, Sums, NEW p \in Partitions, FlowOn(p)
    PROVE  Sums'
<1>1. PICK i, j : FlowedOn(p, i, j)
  BY FlowedOnIs
<1> DEFINE c == <<p, i>>
           to == <<p, j>>
<1>2. /\ UNCHANGED <<inputs, phase>> /\ UNCHANGED inputs /\ c \in Cells /\ to \in Cells /\ to # c /\ c \notin solved /\ c \notin delivered
      /\ down[c] = to /\ flow[c] # "no_data" /\ to[1] = p /\ phase[p] \in Counted
      /\ outflow' = [outflow EXCEPT ![c] = Total(c), ![to] = AddMaterial(@, Total(c))]
      /\ inflowCount' = [inflowCount EXCEPT ![to] = @ - 1]
      /\ solved' = solved \cup {c} /\ delivered' = delivered \cup {c}
  BY <1>1 DEF FlowedOn, Counted, inputs
<1> HIDE DEF c, to
<1>3. FlowInv /\ TypeInv /\ SolvedInv /\ (\A y \in Cells : CountInv(y)) /\ \A q \in Partitions : StreamInv(q)
  BY DEF Inv
<1>4. to \notin solved /\ flow[to] # "no_data"
  <2>1. Arrives(c, to)
    BY <1>2 DEF Arrives
  <2> QED BY <1>2, <1>3, <2>1, ArrivesFacts
<1>5. \A y \in Cells : outflow'[y] = IF y = c THEN Total(c) ELSE IF y = to THEN AddMaterial(outflow[to], Total(c)) ELSE outflow[y]
  BY <1>2, <1>3 DEF TypeInv
<1>6. Total(c) \in Amounts
  BY <1>2, <1>3, AmountsFacts
<1>7. ASSUME NEW y \in Cells PROVE SumInv(y)'
  <2>1. SumInv(y)
    BY DEF Sums
  <2>2. \A x \in Arrived(y) : x \in Cells /\ x # c /\ x # to
    BY <1>2, <1>3, <1>4 DEF Arrived, TypeInv
  <2>3. \A x \in Arrived(y) : outflow'[x] = outflow[x]
    BY <1>5, <2>2
  <2>4. y # to => UpstreamOf(y) \cap delivered' = Arrived(y)
    BY <1>2 DEF Arrived, UpstreamOf
  <2>5. CASE y = c
    BY <1>2, <1>3, <1>5, <2>1, <2>3, <2>4, <2>5, SumEnters
  <2>6. CASE y = to
    <3>1. outflow'[c] = Total(c) /\ outflow'[to] = AddMaterial(outflow[to], outflow'[c])
      BY <1>2, <1>5
    <3> QED BY <1>2, <1>3, <1>4, <1>6, <2>1, <2>3, <2>6, <3>1, SumArrives
  <2>7. CASE y # c /\ y # to
    BY <1>2, <1>3, <1>5, <2>1, <2>3, <2>4, <2>7, SumStays
  <2> QED BY <2>5, <2>6, <2>7
<1> QED BY <1>7 DEF Sums

(* A message takes the outflow of a cell downstream.                       *)
LEMMA SumsReceiveMaterial ==
    ASSUME AtLeastTwo, Inv, Sums, NEW p \in Partitions, NEW d \in Directions, ReceiveMaterial(p, d)
    PROVE  Sums'
<1>1. PICK i, j : Received(p, d, i, j)
  BY ReceivedIs
<1> DEFINE x == <<Source(p, d)[1], i>>
           c == <<p, j>>
<1>2. /\ UNCHANGED <<inputs, phase>> /\ UNCHANGED inputs /\ x \in Cells /\ c \in Cells /\ c # x /\ x \notin delivered
      /\ down[x] = c /\ c[1] = p /\ phase[p] \in Counted
      /\ outflow' = [outflow EXCEPT ![c] = AddMaterial(@, outflow[x])]
      /\ inflowCount' = [inflowCount EXCEPT ![c] = @ - 1]
      /\ solved' = solved /\ delivered' = delivered \cup {x}
  BY <1>1 DEF Received, Counted, inputs
<1> HIDE DEF x, c
<1>3. FlowInv /\ TypeInv /\ SolvedInv /\ (\A y \in Cells : CountInv(y)) /\ \A q \in Partitions : StreamInv(q)
  BY DEF Inv
<1>4. c \notin solved /\ flow[c] # "no_data"
  <2>1. Arrives(x, c)
    BY <1>2 DEF Arrives
  <2> QED BY <1>2, <1>3, <2>1, ArrivesFacts
<1>5. \A y \in Cells : outflow'[y] = IF y = c THEN AddMaterial(outflow[c], outflow[x]) ELSE outflow[y]
  BY <1>2, <1>3 DEF TypeInv
<1>6. outflow[x] \in Amounts
  BY <1>2, <1>3, AmountsFacts
<1>7. ASSUME NEW y \in Cells PROVE SumInv(y)'
  <2>1. SumInv(y)
    BY DEF Sums
  <2>2. \A z \in Arrived(y) : z \in Cells /\ z # c
    BY <1>3, <1>4 DEF Arrived, TypeInv
  <2>3. \A z \in Arrived(y) : outflow'[z] = outflow[z]
    BY <1>5, <2>2
  <2>4. CASE y = c
    <3>1. outflow'[x] = outflow[x] /\ outflow'[c] = AddMaterial(outflow[c], outflow'[x])
      BY <1>2, <1>5
    <3> QED BY <1>2, <1>3, <1>4, <1>6, <2>1, <2>3, <2>4, <3>1, SumArrives
  <2>5. CASE y # c
    <3>1. UpstreamOf(y) \cap delivered' = Arrived(y)
      BY <1>2, <2>5 DEF Arrived, UpstreamOf
    <3> QED BY <1>2, <1>3, <1>5, <2>1, <2>3, <2>5, <3>1, SumStays
  <2> QED BY <2>4, <2>5
<1> QED BY <1>7 DEF Sums

(* Every step preserves the sums.                                          *)
LEMMA SumsNext ==
    ASSUME AtLeastTwo, Inv, Sums, [Next]_vars
    PROVE  Sums'
<1>0. FlowInv /\ TypeInv
  BY DEF Inv
<1>1. ASSUME NEW p \in Partitions, Step(p) PROVE Sums'
  <2>1. CASE Connect(p) \/ (\E d \in Directions : ReceiveInputCells(p, d)) \/ EnterRidge(p) \/ FinishIntra(p) \/ Finish(p)
    <3>1. UNCHANGED inputs /\ solved' = solved /\ delivered' = delivered /\ outflow' = outflow
      BY <2>1 DEF Connect, ReceiveInputCells, EnterRidge, FinishIntra, Finish, history
    <3> QED BY <1>0, <3>1, SumsStay
  <2>2. CASE CountInflow(p)
    BY <2>2, SumsCountInflow
  <2>3. CASE StopAtSink(p) \/ StopAtOutput(p)
    BY <2>3, SumsStop
  <2>4. CASE FlowOn(p)
    BY <2>4, SumsFlowOn
  <2>5. CASE \E d \in Directions : ReceiveMaterial(p, d)
    BY <2>5, SumsReceiveMaterial
  <2> QED BY <1>1, <2>1, <2>2, <2>3, <2>4, <2>5 DEF Step
<1>2. ASSUME UNCHANGED vars PROVE Sums'
  <2>1. UNCHANGED inputs /\ solved' = solved /\ delivered' = delivered /\ outflow' = outflow
    BY <1>2 DEF vars, inputs
  <2> QED BY <1>0, <2>1, SumsStay
<1> QED BY <1>1, <1>2 DEF Next, Terminated

(* They hold initially.                                                    *)
LEMMA SumsInit ==
    ASSUME Init
    PROVE  Sums
<1> SUFFICES ASSUME NEW c \in Cells PROVE outflow[c] = SumOf(IF c \in solved THEN external[c] ELSE 0, outflow, Arrived(c))
  BY DEF Sums, SumInv
<1>1. Arrived(c) = {} /\ outflow[c] = 0 /\ c \notin solved
  BY DEF Init, Arrived
<1>2. SumOf(0, outflow, {}) = 0
  BY SumEmpty
<1> QED BY <1>1, <1>2

(* For a cell that is solved, everything upstream has arrived.             *)
LEMMA SumsCorrect ==
    ASSUME Inv, Sums
    PROVE  OutflowCorrect
<1> SUFFICES ASSUME NEW c \in solved
             PROVE  outflow[c] = FoldFunctionOnSet(AddMaterial, external[c], outflow, UpstreamOf(c))
  BY DEF OutflowCorrect
<1>1. c \in Cells /\ flow[c] # "no_data" /\ UpstreamOf(c) \subseteq delivered
  BY DEF Inv, TypeInv, SolvedInv
<1>2. Arrived(c) = UpstreamOf(c)
  BY <1>1 DEF Arrived
<1>3. SumInv(c)
  BY <1>1 DEF Sums
<1>4. outflow[c] = SumOf(external[c], outflow, UpstreamOf(c))
  BY <1>1, <1>2, <1>3 DEF SumInv
<1> QED BY <1>4 DEF SumOf

(* The network is not changed.                                             *)
LEMMA StaysAcyclic ==
    ASSUME IsAcyclic(down), [Next]_vars
    PROVE  IsAcyclic(down)'
<1>1. UNCHANGED inputs
  <2>1. ASSUME NEW p \in Partitions, Step(p) PROVE UNCHANGED inputs
    BY <2>1 DEF Step, Connect, ReceiveInputCells, CountInflow, EnterRidge, StopAtSink, StopAtOutput, FlowOn,
                FinishIntra, ReceiveMaterial, Finish
  <2>2. UNCHANGED vars => UNCHANGED inputs
    BY DEF vars, inputs
  <2> QED BY <2>1, <2>2 DEF Next, Terminated
<1>2. down' = down
  BY <1>1 DEF inputs
<1> QED BY <1>2

(* The outflow is that of the undivided array for the cells solved so far, *)
(* and in the end no cell, list or message is left over.                   *)
THEOREM OutflowAlwaysComplete == AtLeastTwo /\ NetworksAreValid => (Spec => []OutflowComplete)
<1> SUFFICES ASSUME AtLeastTwo, NetworksAreValid PROVE Spec => []OutflowComplete
  OBVIOUS
<1>1. Init => IsAcyclic(down)
  BY DEF Init, NetworksAreValid, IsValidNetwork
<1>2. Init => EndInv /\ Sums
  BY EndInit, SumsInit
<1>3. IsAcyclic(down) /\ [Next]_vars => IsAcyclic(down)'
  BY StaysAcyclic
<1>4. Inv /\ Inv' /\ EndInv /\ [Next]_vars => EndInv'
  BY EndNext
<1>5. Inv /\ Sums /\ [Next]_vars => Sums'
  BY SumsNext
<1>6. Inv /\ Awaits /\ EndInv /\ Sums /\ IsAcyclic(down) => OutflowComplete
  BY SumsCorrect, DoneComplete DEF OutflowComplete
<1>7. Spec => [](Inv /\ Awaits)
  BY AlwaysAwaits
<1> QED BY <1>1, <1>2, <1>3, <1>4, <1>5, <1>6, <1>7, PTL DEF Spec

=============================================================================
