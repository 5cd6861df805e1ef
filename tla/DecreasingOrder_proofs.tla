----------------------- MODULE DecreasingOrder_proofs -----------------------
(***************************************************************************)
(* Proofs about the recording of routes and the walks along them, for any  *)
(* finite number of partitions, any number of zones and any values.        *)
(*                                                                         *)
(* RouteInv is about the routes and holds in both versions of the code.    *)
(* FinishInv is about the end of components, and needs the lock that only  *)
(* the version with zones takes when a route is skipped.  HistoryInv is    *)
(* about what a route has visited, and rests on both: a component that     *)
(* finishes too early loses fragments.                                     *)
(*                                                                         *)
(* WalkInv is about the walks of FirstN, which extends DecreasingOrder     *)
(* with variables of its own: it tells by the history of a route how far   *)
(* the route is walked.                                                    *)
(***************************************************************************)
EXTENDS FirstN, SequenceTheorems, FiniteSetTheorems, WellFoundedInduction, TLAPS

(* A call that has not passed the route on yet.                            *)
Active(t) == t.pc \in {"called", "read"}

(* The cells that are left are ordered.                                    *)
LocalIsOrdered ==
    \A x \in Places : \A i, j \in DOMAIN local[x] :
        i < j => Value(x, local[x][i]) >= Value(x, local[x][j])

(* Calls are made after all values are sorted, by routes that started.     *)
CallsAfterStart ==
    /\ \A t \in tasks : sorted = Partitions /\ started[t.zone] # "no"
    /\ \A x \in skips : sorted = Partitions /\ started[x[2]] # "no"

(* A route is recorded at one place at a time.                             *)
OneActive ==
    \A t, u \in tasks : Active(t) /\ Active(u) /\ t.zone = u.zone => t = u

(* A task that does not end the route selects all cells that come first.   *)
SelectsAll ==
    \A t \in tasks :
        t.pc = "read" /\ t.nr < MaxNrCells =>
            \A i \in DOMAIN local[<<t.at, t.zone>>] :
                i > Len(t.cells) =>
                    Value(<<t.at, t.zone>>, local[<<t.at, t.zone>>][i]) < NextMaximum(t.maxima)

(* A partition is told to skip a route when the route has ended, and while *)
(* the partition has cells for it.                                         *)
SkipsAfterEnd ==
    \A x \in skips : local[x] # <<>> /\ \A t \in tasks : Active(t) => t.zone # x[2]

RouteInv ==
    /\ TypeOK
    /\ local \in [Places -> Seq(Nat)]
    /\ LocalIsOrdered
    /\ CallsAfterStart
    /\ OneActive
    /\ SelectsAll
    /\ MaximaAreExact
    /\ SkipsAfterEnd

(* The lock is held by the one task that has updated.                      *)
LockIsHeld ==
    /\ locked \subseteq sorted
    /\ \A t \in tasks : t.pc = "updated" => t.at \in locked
    /\ \A t, u \in tasks : t.pc = "updated" /\ u.pc = "updated" /\ t.at = u.at => t = u

(* A component has finished when it has nothing left and is not locked.    *)
FinishedExactly ==
    \A p \in Partitions :
        finished[p] = IF p \in sorted /\ p \notin locked /\ ~HasValues(local, p) THEN 1 ELSE 0

FinishInv == LockIsHeld /\ FinishedExactly

-----------------------------------------------------------------------------
(* A set of numbers from 1 without gaps is an interval: its cardinality is *)
(* its largest element.                                                    *)
LEMMA PrefixIsInterval ==
    ASSUME NEW n \in Nat, NEW D \in SUBSET (1 .. n),
           \A j \in D : \A i \in 1 .. j : i \in D
    PROVE  Cardinality(D) \in 0 .. n /\ D = 1 .. Cardinality(D)
<1>1. IsFiniteSet(1 .. n) /\ Cardinality(1 .. n) = n
  <2>1. 1 \in Int /\ n \in Int
    OBVIOUS
  <2> QED BY <2>1, FS_Interval
<1>2. IsFiniteSet(D) /\ Cardinality(D) \in Nat /\ Cardinality(D) <= n
  BY <1>1, FS_Subset, FS_CardinalityType
<1>3. ASSUME NEW j \in D PROVE j <= Cardinality(D)
  <2>1. 1 .. j \in SUBSET D
    BY <1>3
  <2>2. 1 \in Int /\ j \in Int /\ j >= 1
    OBVIOUS
  <2>3. Cardinality(1 .. j) = j
    BY <2>2, FS_Interval
  <2> QED BY <1>2, <2>1, <2>3, FS_Subset
<1>4. D \in SUBSET (1 .. Cardinality(D))
  BY <1>2, <1>3
<1>5. IsFiniteSet(1 .. Cardinality(D)) /\ Cardinality(1 .. Cardinality(D)) = Cardinality(D)
  <2>1. 1 \in Int /\ Cardinality(D) \in Int
    BY <1>2
  <2> QED BY <1>2, <2>1, FS_Interval
<1>6. 1 .. Cardinality(D) = D
  BY <1>4, <1>5, FS_Subset
<1> QED BY <1>2, <1>6

(* An arrangement of a finite set has each of its elements once, from high *)
(* to low.                                                                 *)
LEMMA ArrangementFacts ==
    ASSUME NEW S, IsFiniteSet(S), NEW value, NEW s \in Arrangements(S, value)
    PROVE  /\ s \in Seq(S)
           /\ Len(s) = Cardinality(S)
           /\ Len(s) \in Nat
           /\ DOMAIN s = 1 .. Len(s)
           /\ Range(s) = S
           /\ \A i, j \in DOMAIN s : i # j => s[i] # s[j]
           /\ \A i, j \in DOMAIN s : i < j => value[s[i]] >= value[s[j]]
<1> DEFINE n == Cardinality(S)
<1>1. n \in Nat
  BY FS_CardinalityType
<1>2. /\ s \in [1 .. n -> S]
      /\ \A i, j \in 1 .. n : i # j => s[i] # s[j]
      /\ \A i, j \in DOMAIN s : i < j => value[s[i]] >= value[s[j]]
  BY DEF Arrangements, SetToSeqs
<1>3. s \in Seq(S) /\ Len(s) = n /\ DOMAIN s = 1 .. n
  BY <1>1, <1>2, SeqDef
<1>4. s \in Injection(1 .. n, S)
  BY <1>2 DEF Injection, IsInjective
<1>5. Cardinality(1 .. n) = n
  <2>1. 1 \in Int /\ n \in Int
    BY <1>1
  <2> QED BY <1>1, <2>1, FS_Interval
<1>6. s \in Surjection(1 .. n, S)
  BY <1>4, <1>5, FS_Injection
<1>7. Range(s) = S
  BY <1>2, <1>6 DEF Range, Surjection
<1> QED BY <1>1, <1>2, <1>3, <1>7

(* From high to low, with a partition listed at most once.                 *)
AreOrdered(maxima) ==
    \A i, j \in DOMAIN maxima :
        i < j => /\ maxima[i].value >= maxima[j].value
                 /\ maxima[i].at # maxima[j].at

(* Where a maximum is inserted.                                            *)
LEMMA InsertPosition ==
    ASSUME NEW s \in Seq(MaximumRecord), AreOrdered(s), NEW m \in MaximumRecord
    PROVE  \E k \in 0 .. Len(s) :
            /\ \A i \in 1 .. Len(s) : i <= k <=> s[i].value > m.value
            /\ InsertMaximum(s, m) \in Seq(MaximumRecord)
            /\ Len(InsertMaximum(s, m)) = Len(s) + 1
            /\ \A i \in 1 .. Len(s) + 1 :
                InsertMaximum(s, m)[i] = IF i <= k THEN s[i] ELSE IF i = k + 1 THEN m ELSE s[i - 1]
<1> DEFINE D == {i \in DOMAIN s : s[i].value > m.value}
           n == Len(s)
           k == Cardinality(D)
           t == SubSeq(s, 1, k) \o <<m>> \o SubSeq(s, k + 1, n)
<1>1. n \in Nat /\ DOMAIN s = 1 .. n /\ \A i \in 1 .. n : s[i] \in MaximumRecord
  BY LenProperties
<1>2. \A i \in 1 .. n : s[i].value \in Int
  BY <1>1 DEF MaximumRecord
<1>3. m.value \in Int
  BY DEF MaximumRecord
<1>4. D \in SUBSET (1 .. n)
  BY <1>1
<1>5. \A j \in D : \A i \in 1 .. j : i \in D
  BY <1>1, <1>2, <1>3 DEF AreOrdered
<1>6. k \in 0 .. n /\ D = 1 .. k
  <2> HIDE DEF D, n
  <2> QED BY <1>1, <1>4, <1>5, PrefixIsInterval
<1>7. \A i \in 1 .. n : i <= k <=> s[i].value > m.value
  BY <1>1, <1>6
<1>8. InsertMaximum(s, m) = InsertAt(s, k + 1, m)
  BY DEF InsertMaximum
<1> HIDE DEF D, k
<1>bounds. n \in Nat /\ k \in Nat /\ k <= n
  BY <1>1, <1>6
<1>same. InsertAt(s, k + 1, m) = t
  <2>1. (k + 1) - 1 = k
    BY <1>bounds
  <2>2. InsertAt(s, k + 1, m) = SubSeq(s, 1, (k + 1) - 1) \o <<m>> \o SubSeq(s, k + 1, n)
    BY Zenon DEF InsertAt
  <2> QED BY <2>1, <2>2, Zenon
<1>9. /\ SubSeq(s, 1, k) \in Seq(MaximumRecord)
      /\ Len(SubSeq(s, 1, k)) = k
      /\ \A i \in 1 .. k : SubSeq(s, 1, k)[i] = s[i]
  <2>1. 1 \in Int /\ k \in Int /\ \A i \in 1 .. k : s[i] \in MaximumRecord
    BY <1>1, <1>6
  <2>2. /\ SubSeq(s, 1, k) \in Seq(MaximumRecord)
        /\ Len(SubSeq(s, 1, k)) = IF 1 <= k THEN k - 1 + 1 ELSE 0
        /\ \A i \in 1 .. k - 1 + 1 : SubSeq(s, 1, k)[i] = s[1 + i - 1]
    BY <2>1, SubSeqProperties
  <2> QED BY <1>6, <2>2
<1>10. /\ SubSeq(s, k + 1, n) \in Seq(MaximumRecord)
       /\ Len(SubSeq(s, k + 1, n)) = n - k
       /\ \A i \in 1 .. n - k : SubSeq(s, k + 1, n)[i] = s[k + i]
  <2>1. k + 1 \in Int /\ n \in Int /\ \A i \in k + 1 .. n : s[i] \in MaximumRecord
    BY <1>1, <1>6
  <2>2. /\ SubSeq(s, k + 1, n) \in Seq(MaximumRecord)
        /\ Len(SubSeq(s, k + 1, n)) = IF k + 1 <= n THEN n - (k + 1) + 1 ELSE 0
        /\ \A i \in 1 .. n - (k + 1) + 1 : SubSeq(s, k + 1, n)[i] = s[k + 1 + i - 1]
    BY <2>1, SubSeqProperties
  <2>3. n - (k + 1) + 1 = n - k /\ \A i \in 1 .. n - k : k + 1 + i - 1 = k + i
    BY <1>1, <1>6
  <2>4. Len(SubSeq(s, k + 1, n)) = n - k
    <3>1. CASE k + 1 <= n
      BY <2>2, <2>3, <3>1
    <3>2. CASE ~(k + 1 <= n)
      <4>1. n - k = 0
        BY <1>bounds, <3>2
      <4> QED BY <2>2, <3>2, <4>1
    <3> QED BY <3>1, <3>2
  <2>5. \A i \in 1 .. n - k : SubSeq(s, k + 1, n)[i] = s[k + i]
    BY <2>2, <2>3
  <2> QED BY <2>2, <2>4, <2>5
<1>11. /\ t \in Seq(MaximumRecord)
       /\ Len(t) = n + 1
       /\ \A i \in 1 .. n + 1 :
            t[i] = IF i <= k THEN s[i] ELSE IF i = k + 1 THEN m ELSE s[i - 1]
  <2> DEFINE a == SubSeq(s, 1, k)
             b == SubSeq(s, k + 1, n)
             am == a \o <<m>>
  <2>1. a \in Seq(MaximumRecord) /\ Len(a) = k /\ \A i \in 1 .. k : a[i] = s[i]
    BY <1>9
  <2>2. b \in Seq(MaximumRecord) /\ Len(b) = n - k /\ \A i \in 1 .. n - k : b[i] = s[k + i]
    BY <1>10
  <2> HIDE DEF a, b
  <2>3. <<m>> \in Seq(MaximumRecord) /\ Len(<<m>>) = 1 /\ <<m>>[1] = m
    OBVIOUS
  <2>4. /\ am \in Seq(MaximumRecord)
        /\ Len(am) = k + 1
        /\ \A i \in 1 .. k + 1 : am[i] = IF i <= k THEN s[i] ELSE m
    <3>1. /\ am \in Seq(MaximumRecord)
          /\ Len(am) = k + 1
          /\ \A i \in 1 .. k + 1 : am[i] = IF i <= k THEN a[i] ELSE <<m>>[i - k]
      BY <2>1, <2>3, ConcatProperties
    <3> QED BY <1>6, <2>1, <2>3, <3>1
  <2> HIDE DEF am
  <2>5. /\ am \o b \in Seq(MaximumRecord)
        /\ Len(am \o b) = n + 1
        /\ \A i \in 1 .. n + 1 : (am \o b)[i] = IF i <= k + 1 THEN am[i] ELSE b[i - (k + 1)]
    <3>1. Len(am) + Len(b) = n + 1
      BY <1>1, <1>6, <2>2, <2>4
    <3> QED BY <2>2, <2>4, <3>1, ConcatProperties
  <2>6. t = am \o b
    BY DEF am, a, b
  <2>7. \A i \in 1 .. n + 1 :
            (am \o b)[i] = IF i <= k THEN s[i] ELSE IF i = k + 1 THEN m ELSE s[i - 1]
    <3> SUFFICES ASSUME NEW i \in 1 .. n + 1
                 PROVE  (am \o b)[i] = IF i <= k THEN s[i]
                                       ELSE IF i = k + 1 THEN m ELSE s[i - 1]
      OBVIOUS
    <3>1. CASE i <= k + 1
      <4>1. i \in 1 .. k + 1 /\ (am \o b)[i] = am[i]
        BY <1>1, <1>6, <2>5, <3>1
      <4>2. i = k + 1 \/ i <= k
        BY <1>6, <3>1
      <4> QED BY <1>6, <2>4, <4>1, <4>2
    <3>2. CASE i > k + 1
      <4>1. i - (k + 1) \in 1 .. n - k /\ k + (i - (k + 1)) = i - 1
        BY <1>1, <1>6, <3>2
      <4>2. b[i - (k + 1)] = s[i - 1]
        BY <2>2, <4>1
      <4>3. (am \o b)[i] = b[i - (k + 1)]
        BY <1>6, <2>5, <3>2
      <4>4. ~(i <= k) /\ i # k + 1
        BY <1>1, <1>6, <3>2
      <4> QED BY <4>2, <4>3, <4>4
    <3>3. i <= k + 1 \/ i > k + 1
      BY <1>bounds
    <3> QED BY <3>1, <3>2, <3>3, Zenon
  <2> HIDE DEF t
  <2> QED BY <2>5, <2>6, <2>7
<1> QED BY <1>6, <1>7, <1>8, <1>same, <1>11

(* A maximum of a partition that is not listed is inserted in order, and   *)
(* does not come first when the first one is higher.                       *)
LEMMA InsertFacts ==
    ASSUME NEW s \in Seq(MaximumRecord), AreOrdered(s), NEW m \in MaximumRecord,
           \A i \in DOMAIN s : s[i].at # m.at
    PROVE  /\ InsertMaximum(s, m) \in Seq(MaximumRecord)
           /\ InsertMaximum(s, m) # <<>>
           /\ AreOrdered(InsertMaximum(s, m))
           /\ Range(InsertMaximum(s, m)) = Range(s) \cup {m}
           /\ s # <<>> /\ s[1].value > m.value => InsertMaximum(s, m)[1] = s[1]
<1> DEFINE n == Len(s)
           t == InsertMaximum(s, m)
<1>1. PICK k \in 0 .. n :
            /\ \A i \in 1 .. n : i <= k <=> s[i].value > m.value
            /\ t \in Seq(MaximumRecord)
            /\ Len(t) = n + 1
            /\ \A i \in 1 .. n + 1 :
                t[i] = IF i <= k THEN s[i] ELSE IF i = k + 1 THEN m ELSE s[i - 1]
  BY InsertPosition
<1> HIDE DEF t
<1>2. /\ n \in Nat /\ DOMAIN s = 1 .. n /\ DOMAIN t = 1 .. n + 1
      /\ \A i \in 1 .. n : s[i].value \in Int
      /\ m.value \in Int
  <2>1. n \in Nat /\ DOMAIN s = 1 .. n /\ \A i \in 1 .. n : s[i] \in MaximumRecord
    BY LenProperties
  <2>2. DOMAIN t = 1 .. n + 1
    BY <1>1, LenProperties
  <2> QED BY <2>1, <2>2 DEF MaximumRecord
<1>3. AreOrdered(t)
  <2> SUFFICES ASSUME NEW i \in 1 .. n + 1, NEW j \in 1 .. n + 1, i < j
               PROVE  t[i].value >= t[j].value /\ t[i].at # t[j].at
    BY <1>2 DEF AreOrdered
  <2>0. \A a, b \in 1 .. n : a < b => s[a].value >= s[b].value /\ s[a].at # s[b].at
    BY <1>2 DEF AreOrdered
  <2>1. CASE j <= k
    <3>1. t[i] = s[i] /\ t[j] = s[j] /\ i \in 1 .. n /\ j \in 1 .. n
      BY <1>1, <1>2, <2>1
    <3> QED BY <2>0, <3>1
  <2>2. CASE j = k + 1
    <3>1. t[i] = s[i] /\ t[j] = m /\ i \in 1 .. n /\ i <= k
      BY <1>1, <1>2, <2>2
    <3>2. s[i].value > m.value
      BY <1>1, <3>1
    <3> QED BY <1>2, <3>1, <3>2
  <2>3. CASE j > k + 1 /\ i <= k
    <3>1. t[i] = s[i] /\ t[j] = s[j - 1] /\ i \in 1 .. n /\ j - 1 \in 1 .. n /\ i < j - 1
      BY <1>1, <1>2, <2>3
    <3> QED BY <2>0, <3>1
  <2>4. CASE j > k + 1 /\ i = k + 1
    <3>1. t[i] = m /\ t[j] = s[j - 1] /\ j - 1 \in 1 .. n /\ ~(j - 1 <= k)
      BY <1>1, <1>2, <2>4
    <3>2. ~(s[j - 1].value > m.value)
      BY <1>1, <3>1
    <3> QED BY <1>2, <3>1, <3>2
  <2>5. CASE j > k + 1 /\ i > k + 1
    <3>1. /\ t[i] = s[i - 1] /\ t[j] = s[j - 1]
          /\ i - 1 \in 1 .. n /\ j - 1 \in 1 .. n /\ i - 1 < j - 1
      BY <1>1, <1>2, <2>5
    <3> QED BY <2>0, <3>1
  <2> QED BY <1>2, <2>1, <2>2, <2>3, <2>4, <2>5
<1>4. Range(t) = Range(s) \cup {m}
  <2>1. ASSUME NEW i \in 1 .. n + 1 PROVE t[i] \in Range(s) \cup {m}
    <3>1. CASE i <= k
      <4>1. i \in 1 .. n /\ t[i] = s[i]
        BY <1>1, <1>2, <3>1
      <4> QED BY <1>2, <4>1 DEF Range
    <3>2. CASE i = k + 1
      BY <1>1, <1>2, <3>2
    <3>3. CASE i > k + 1
      <4>1. i - 1 \in 1 .. n /\ t[i] = s[i - 1]
        BY <1>1, <1>2, <3>3
      <4> QED BY <1>2, <4>1 DEF Range
    <3> QED BY <1>2, <3>1, <3>2, <3>3
  <2>2. ASSUME NEW i \in 1 .. n PROVE s[i] \in Range(t)
    <3>1. CASE i <= k
      <4>1. i \in 1 .. n + 1 /\ t[i] = s[i]
        BY <1>1, <1>2, <3>1
      <4> QED BY <1>2, <4>1 DEF Range
    <3>2. CASE i > k
      <4>1. i + 1 \in 1 .. n + 1 /\ t[i + 1] = s[i]
        BY <1>1, <1>2, <3>2
      <4> QED BY <1>2, <4>1 DEF Range
    <3> QED BY <1>2, <3>1, <3>2
  <2>3. m \in Range(t)
    <3>1. k + 1 \in 1 .. n + 1 /\ t[k + 1] = m
      BY <1>1, <1>2
    <3> QED BY <1>2, <3>1 DEF Range
  <2> QED BY <1>2, <2>1, <2>2, <2>3 DEF Range
<1>5. s # <<>> /\ s[1].value > m.value => t[1] = s[1]
  <2> SUFFICES ASSUME s # <<>>, s[1].value > m.value PROVE t[1] = s[1]
    OBVIOUS
  <2>1. 1 \in 1 .. n
    BY <1>2, EmptySeq
  <2> QED BY <1>1, <1>2, <2>1
<1>6. t # <<>>
  BY <1>1, <1>2
<1> QED BY <1>1, <1>3, <1>4, <1>5, <1>6 DEF t

(* What is left of ordered maxima without the first one.                   *)
LEMMA RestFacts ==
    ASSUME NEW s \in Seq(MaximumRecord), s # <<>>, AreOrdered(s)
    PROVE  /\ Tail(s) \in Seq(MaximumRecord)
           /\ AreOrdered(Tail(s))
           /\ Range(Tail(s)) = Range(s) \ {s[1]}
           /\ s[1] \in Range(s)
           /\ \A i \in DOMAIN Tail(s) : Tail(s)[i].at # s[1].at
           /\ Tail(s) # <<>> => Len(s) > 1 /\ Tail(s)[1] = s[2] /\ Tail(s)[1] \in Range(Tail(s))
<1> DEFINE n == Len(s)
           t == Tail(s)
<1>1. n \in Nat /\ n > 0 /\ DOMAIN s = 1 .. n
  BY LenProperties, EmptySeq
<1>2. /\ t \in Seq(MaximumRecord) /\ Len(t) = n - 1
      /\ \A i \in 1 .. Len(t) : t[i] = s[i + 1]
  BY HeadTailProperties
<1>3. DOMAIN t = 1 .. n - 1
  BY <1>2, LenProperties
<1> HIDE DEF n, t
<1>4. \A i \in 1 .. n - 1 : t[i] = s[i + 1] /\ i + 1 \in 1 .. n
  BY <1>1, <1>2
<1>5. AreOrdered(t)
  <2> SUFFICES ASSUME NEW i \in 1 .. n - 1, NEW j \in 1 .. n - 1, i < j
               PROVE  t[i].value >= t[j].value /\ t[i].at # t[j].at
    BY <1>3 DEF AreOrdered
  <2>1. i + 1 \in DOMAIN s /\ j + 1 \in DOMAIN s /\ i + 1 < j + 1
    BY <1>1
  <2>2. s[i + 1].value >= s[j + 1].value /\ s[i + 1].at # s[j + 1].at
    BY <2>1 DEF AreOrdered
  <2> QED BY <1>4, <2>2
<1>6. \A i \in 2 .. n : s[1].at # s[i].at
  BY <1>1 DEF AreOrdered
<1>7. \A i \in DOMAIN t : t[i].at # s[1].at
  BY <1>1, <1>3, <1>4, <1>6
<1>8. Range(t) = Range(s) \ {s[1]}
  <2>1. ASSUME NEW i \in 1 .. n - 1 PROVE t[i] \in Range(s) \ {s[1]}
    BY <1>1, <1>3, <1>4, <1>7 DEF Range
  <2>2. ASSUME NEW i \in 1 .. n, s[i] # s[1] PROVE s[i] \in Range(t)
    <3>1. i - 1 \in 1 .. n - 1 /\ t[i - 1] = s[i]
      BY <1>1, <1>4, <2>2
    <3> QED BY <1>3, <3>1 DEF Range
  <2> QED BY <1>1, <1>3, <2>1, <2>2 DEF Range
<1>9. s[1] \in Range(s)
  BY <1>1 DEF Range
<1>10. t # <<>> => n > 1 /\ t[1] = s[2] /\ t[1] \in Range(t)
  <2> SUFFICES ASSUME t # <<>> PROVE n > 1 /\ t[1] = s[2] /\ t[1] \in Range(t)
    OBVIOUS
  <2>1. n - 1 > 0
    BY <1>1, <1>2, EmptySeq
  <2>2. 1 \in 1 .. n - 1
    BY <1>1, <2>1
  <2> QED BY <1>1, <1>3, <1>4, <2>1, <2>2 DEF Range
<1> QED BY <1>2, <1>5, <1>7, <1>8, <1>9, <1>10 DEF t, n

(* What is left of a sequence without the first k elements.                *)
LEMMA SuffixFacts ==
    ASSUME NEW S, NEW s \in Seq(S), NEW k \in Nat
    PROVE  /\ SubSeq(s, k + 1, Len(s)) \in Seq(S)
           /\ Len(SubSeq(s, k + 1, Len(s))) =
                IF k + 1 <= Len(s) THEN Len(s) - (k + 1) + 1 ELSE 0
           /\ \A i \in DOMAIN SubSeq(s, k + 1, Len(s)) :
                k + i \in DOMAIN s /\ SubSeq(s, k + 1, Len(s))[i] = s[k + i]
<1> DEFINE n == Len(s)
           t == SubSeq(s, k + 1, n)
<1>1. n \in Nat /\ DOMAIN s = 1 .. n
  BY LenProperties
<1>2. \A i \in k + 1 .. n : s[i] \in S
  BY <1>1, ElementOfSeq
<1>3. k + 1 \in Int /\ n \in Int
  BY <1>1
<1>4. /\ t \in Seq(S)
      /\ Len(t) = IF k + 1 <= n THEN n - (k + 1) + 1 ELSE 0
      /\ \A i \in 1 .. n - (k + 1) + 1 : t[i] = s[(k + 1) + i - 1]
  BY <1>2, <1>3, SubSeqProperties
<1>5. DOMAIN t = 1 .. Len(t)
  BY <1>4, LenProperties
<1>6. ASSUME NEW i \in DOMAIN t PROVE k + i \in 1 .. n /\ t[i] = s[k + i]
  <2> HIDE DEF t, n
  <2>1. k + 1 <= n /\ i \in 1 .. n - (k + 1) + 1
    <3>1. CASE k + 1 <= n
      BY <1>4, <1>5, <3>1
    <3>2. CASE ~(k + 1 <= n)
      BY <1>4, <1>5, <3>2
    <3> QED BY <3>1, <3>2
  <2>2. i \in Int /\ (k + 1) + i - 1 = k + i /\ k + i \in 1 .. n
    BY <1>1, <2>1
  <2>3. t[i] = s[(k + 1) + i - 1]
    BY <1>4, <2>1
  <2> QED BY <2>2, <2>3
<1> QED BY <1>1, <1>4, <1>6

-----------------------------------------------------------------------------
(* The cells of a place, and their values.                                 *)
LEMMA CellFacts ==
    ASSUME TypeOK, NEW x \in Places
    PROVE  /\ CellsAt(x) \in SUBSET Nat
           /\ IsFiniteSet(CellsAt(x))
           /\ \A k \in CellsAt(x) : Value(x, k) \in Int
           /\ local[x] \in Seq(CellsAt(x))
           /\ Len(local[x]) \in Nat
           /\ DOMAIN local[x] = 1 .. Len(local[x])
           /\ local[x] # <<>> <=> 1 \in DOMAIN local[x]
           /\ \A i \in DOMAIN local[x] : Value(x, local[x][i]) \in Int
<1>1. values[x] \in Seq(Int)
  BY InputsAssumption DEF TypeOK, Places
<1>2. /\ Len(values[x]) \in Nat
      /\ CellsAt(x) = 1 .. Len(values[x])
      /\ \A k \in CellsAt(x) : Value(x, k) \in Int
  BY <1>1, LenProperties DEF CellsAt, Value
<1>3. IsFiniteSet(CellsAt(x))
  <2>1. 1 \in Int /\ Len(values[x]) \in Int
    BY <1>2
  <2> QED BY <1>2, <2>1, FS_Interval
<1>4. local[x] \in Seq(CellsAt(x))
  BY DEF TypeOK
<1>5. /\ Len(local[x]) \in Nat
      /\ DOMAIN local[x] = 1 .. Len(local[x])
      /\ \A i \in DOMAIN local[x] : local[x][i] \in CellsAt(x)
  BY <1>4, LenProperties
<1>6. local[x] # <<>> <=> 1 \in DOMAIN local[x]
  BY <1>4, <1>5, EmptySeq
<1> QED BY <1>2, <1>3, <1>4, <1>5, <1>6

(* The members of the maxima, in a state and in the next one.              *)
LEMMA MaximaMembers ==
    ASSUME NEW z \in Zones
    PROVE  /\ \A m \in Maxima(z) : \E p \in Partitions :
                local[<<p, z>>] # <<>> /\ m = Maximum(local, <<p, z>>)
           /\ \A m \in Maxima(z)' : \E p \in Partitions :
                local'[<<p, z>>] # <<>> /\ m = Maximum(local, <<p, z>>)'
<1>1. ASSUME NEW m \in Maxima(z)
      PROVE  \E p \in Partitions : local[<<p, z>>] # <<>> /\ m = Maximum(local, <<p, z>>)
  BY DEF Maxima
<1>2. ASSUME NEW m \in Maxima(z)'
      PROVE  \E p \in Partitions : local'[<<p, z>>] # <<>> /\ m = Maximum(local, <<p, z>>)'
  BY DEF Maxima
<1> QED BY <1>1, <1>2

(* The maximum of a partition.                                             *)
LEMMA MaximaFacts ==
    ASSUME TypeOK, NEW z \in Zones
    PROVE  /\ Maxima(z) \in SUBSET MaximumRecord
           /\ IsFiniteSet(Maxima(z))
           /\ \A m \in Maxima(z) : /\ local[<<m.at, z>>] # <<>>
                                   /\ m = Maximum(local, <<m.at, z>>)
                                   /\ m.value = Value(<<m.at, z>>, local[<<m.at, z>>][1])
           /\ \A p \in Partitions : local[<<p, z>>] # <<>> =>
                                        Maximum(local, <<p, z>>) \in Maxima(z)
           /\ \A m, n \in Maxima(z) : m.at = n.at => m = n
<1>1. ASSUME NEW p \in Partitions, local[<<p, z>>] # <<>>
      PROVE  /\ Maximum(local, <<p, z>>) \in MaximumRecord
             /\ Maximum(local, <<p, z>>).at = p
             /\ Maximum(local, <<p, z>>).value = Value(<<p, z>>, local[<<p, z>>][1])
  <2>1. <<p, z>> \in Places
    BY DEF Places
  <2>2. Value(<<p, z>>, local[<<p, z>>][1]) \in Int
    BY <1>1, <2>1, CellFacts
  <2> QED BY <2>2 DEF Maximum, MaximumRecord
<1>2. ASSUME NEW m \in Maxima(z)
      PROVE  \E p \in Partitions : local[<<p, z>>] # <<>> /\ m = Maximum(local, <<p, z>>)
  BY DEF Maxima
<1>3. ASSUME NEW p \in Partitions, local[<<p, z>>] # <<>>
      PROVE  Maximum(local, <<p, z>>) \in Maxima(z)
  BY <1>3 DEF Maxima
<1>4. Maxima(z) \in SUBSET MaximumRecord
  BY <1>1, <1>2
<1>5. ASSUME NEW m \in Maxima(z)
      PROVE  /\ local[<<m.at, z>>] # <<>>
             /\ m = Maximum(local, <<m.at, z>>)
             /\ m.value = Value(<<m.at, z>>, local[<<m.at, z>>][1])
  <2>1. PICK p \in Partitions : local[<<p, z>>] # <<>> /\ m = Maximum(local, <<p, z>>)
    BY <1>2
  <2>2. m.at = p
    BY <1>1, <2>1
  <2> QED BY <1>1, <2>1, <2>2
<1>6. \A m, n \in Maxima(z) : m.at = n.at => m = n
  BY <1>5
<1>7. IsFiniteSet(Maxima(z))
  <2> DEFINE f == [m \in Maxima(z) |-> m.at]
  <2>1. f \in [Maxima(z) -> Partitions]
    BY <1>4 DEF MaximumRecord
  <2>2. f \in Injection(Maxima(z), Partitions)
    BY <1>6, <2>1 DEF Injection, IsInjective
  <2> HIDE DEF f
  <2> QED BY <2>2, InputsAssumption, FS_Injection
<1> QED BY <1>3, <1>4, <1>5, <1>6, <1>7

(* The parts of a task.                                                    *)
LEMMA TaskFacts ==
    ASSUME NEW t \in Task
    PROVE  /\ t.pc \in {"called", "read", "updated"}
           /\ t.zone \in Zones
           /\ t.at \in Partitions
           /\ <<t.at, t.zone>> \in Places
           /\ t.maxima \in Seq(MaximumRecord)
           /\ t.nr \in 0 .. MaxNrCells
           /\ t.cells \in Seq(Nat)
           /\ Len(t.cells) \in Nat
           /\ t.next \in Partitions \cup {NoPartition}
           /\ t.hop \in Nat
<1>1. t.cells \in Seq(Nat)
  BY DEF Task
<1>2. Len(t.cells) \in Nat
  BY <1>1, LenProperties
<1> QED BY <1>1, <1>2 DEF Task, Places

(* What it means for a component to finish if it is done.                  *)
LEMMA FinishFacts ==
    ASSUME TypeOK, NEW p \in Partitions, NEW cells,
           NEW recorded \in [Places -> Seq(Fragment)], FinishIfDone(p, cells, recorded)
    PROVE  /\ fragments' \in [Places -> Seq(Fragment)]
           /\ result' \in [Places -> Seq(Fragment)]
           /\ finished' \in [Partitions -> Nat]
           /\ \A q \in Partitions : finished[q] > 0 => finished'[q] > 0
           /\ finished' = IF HasValues(cells, p) THEN finished
                          ELSE [finished EXCEPT ![p] = @ + 1]
<1>1. CASE HasValues(cells, p)
  BY <1>1 DEF FinishIfDone, TypeOK
<1>2. CASE ~HasValues(cells, p)
  <2>1. Finish(p, recorded)
    BY <1>2 DEF FinishIfDone
  <2>2. <<>> \in Seq(Fragment)
    OBVIOUS
  <2>3. fragments' \in [Places -> Seq(Fragment)] /\ result' \in [Places -> Seq(Fragment)]
    BY <2>1, <2>2 DEF Finish, TypeOK
  <2>4. finished' = [finished EXCEPT ![p] = @ + 1] /\ finished \in [Partitions -> Nat]
    BY <2>1 DEF Finish, TypeOK
  <2> QED BY <1>2, <2>3, <2>4
<1> QED BY <1>1, <1>2

(* The maxima of a zone change with the cells of that zone only.           *)
LEMMA MaximaSame ==
    ASSUME NEW z \in Zones, values' = values,
           \A p \in Partitions : local'[<<p, z>>] = local[<<p, z>>]
    PROVE  Maxima(z)' = Maxima(z)
BY DEF Maxima, Maximum, Value

-----------------------------------------------------------------------------
(* Nothing is recorded at first.                                           *)
LEMMA RouteInvInit == Init => RouteInv
<1> SUFFICES ASSUME Init PROVE RouteInv
  OBVIOUS
<1>1. \A S : <<>> \in Seq(S) /\ DOMAIN <<>> = {}
  BY EmptySeq, LenProperties
<1>2. TypeOK
  BY <1>1 DEF Init, TypeOK
<1>3. local \in [Places -> Seq(Nat)] /\ LocalIsOrdered
  BY <1>1 DEF Init, LocalIsOrdered
<1> QED
  BY <1>2, <1>3 DEF Init, RouteInv, CallsAfterStart, OneActive, SelectsAll, MaximaAreExact,
                    SkipsAfterEnd

(* Steps that change nothing a route is recorded with.                     *)
LEMMA RouteInvSame ==
    ASSUME RouteInv, TypeOK', UNCHANGED <<values, sorted, local, started, tasks, skips>>
    PROVE  RouteInv'
<1>1. \A z \in Zones : Maxima(z)' = Maxima(z)
  BY MaximaSame
<1>2. \A t \in tasks : t.zone \in Zones
  BY TaskFacts DEF RouteInv, TypeOK
<1>3. MaximaAreExact'
  BY <1>1, <1>2 DEF RouteInv, MaximaAreExact
<1> QED
  BY <1>3 DEF RouteInv, LocalIsOrdered, Value, CallsAfterStart, OneActive, Active, SelectsAll,
              SkipsAfterEnd

(* Sorting takes place before there are tasks.                             *)
LEMMA RouteInvSort ==
    ASSUME RouteInv, NEW p \in Partitions, Sort(p)
    PROVE  RouteInv'
<1> DEFINE orders == [z \in Zones |-> Arrangements(CellsAt(<<p, z>>), values[<<p, z>>])]
<1>1. tasks = {} /\ skips = {}
  BY DEF RouteInv, CallsAfterStart, Sort
<1>2. PICK order \in OnePerZone(orders) :
        local' = [x \in Places |-> IF x[1] = p THEN order[x[2]] ELSE local[x]]
  BY DEF Sort
<1>3. ASSUME NEW z \in Zones
      PROVE  /\ order[z] \in Seq(CellsAt(<<p, z>>))
             /\ \A i, j \in DOMAIN order[z] :
                    i < j => Value(<<p, z>>, order[z][i]) >= Value(<<p, z>>, order[z][j])
  <2>1. order[z] \in Arrangements(CellsAt(<<p, z>>), values[<<p, z>>])
    BY <1>2 DEF OnePerZone
  <2>2. IsFiniteSet(CellsAt(<<p, z>>))
    BY CellFacts DEF Places, RouteInv
  <2> QED BY <2>1, <2>2, ArrangementFacts DEF Value
<1>4. ASSUME NEW x \in Places
      PROVE  /\ local'[x] \in Seq(CellsAt(x))
             /\ local'[x] \in Seq(Nat)
             /\ \A i, j \in DOMAIN local'[x] :
                    i < j => Value(x, local'[x][i]) >= Value(x, local'[x][j])
  <2>1. CellsAt(x) \in SUBSET Nat
    BY CellFacts DEF RouteInv
  <2>2. local'[x] \in Seq(CellsAt(x))
    BY <1>2, <1>3 DEF Places, RouteInv, TypeOK
  <2>3. local'[x] \in Seq(Nat)
    BY <2>1, <2>2, SeqMonotonic
  <2>4. ASSUME NEW i \in DOMAIN local'[x], NEW j \in DOMAIN local'[x], i < j
        PROVE  Value(x, local'[x][i]) >= Value(x, local'[x][j])
    <3>1. CASE x[1] = p
      <4>1. x = <<p, x[2]>> /\ x[2] \in Zones /\ local'[x] = order[x[2]]
        BY <1>2, <3>1 DEF Places
      <4> QED BY <1>3, <2>4, <4>1
    <3>2. CASE x[1] # p
      <4>1. local'[x] = local[x]
        BY <1>2, <3>2
      <4> QED BY <2>4, <4>1 DEF RouteInv, LocalIsOrdered
    <3> QED BY <3>1, <3>2
  <2> QED BY <2>2, <2>3, <2>4
<1>5. values' = values /\ tasks' = {} /\ skips' = {}
  BY <1>1 DEF Sort
<1>6. local' \in [Places -> Seq(Nat)]
  BY <1>2, <1>4
<1>7. LocalIsOrdered'
  BY <1>4, <1>5 DEF LocalIsOrdered, Value
<1>8. TypeOK'
  <2>1. fragments \in [Places -> Seq(Fragment)]
    BY DEF RouteInv, TypeOK
  <2>2. FinishIfDone(p, local', fragments)
    BY DEF Sort
  <2>3. /\ fragments' \in [Places -> Seq(Fragment)]
        /\ result' \in [Places -> Seq(Fragment)]
        /\ finished' \in [Partitions -> Nat]
        /\ \A q \in Partitions : finished[q] > 0 => finished'[q] > 0
    BY <2>1, <2>2, FinishFacts DEF RouteInv
  <2>4. \A x \in Places : local'[x] \in Seq(CellsAt(x)')
    BY <1>4, <1>5 DEF CellsAt
  <2> QED BY <1>5, <2>3, <2>4 DEF Sort, RouteInv, TypeOK
<1> QED
  BY <1>5, <1>6, <1>7, <1>8 DEF RouteInv, CallsAfterStart, OneActive, SelectsAll,
                                MaximaAreExact, SkipsAfterEnd

(* The first call of each route carries the maxima of all partitions.      *)
LEMMA RouteInvStart ==
    ASSUME RouteInv, Start
    PROVE  RouteInv'
<1> DEFINE orders == [z \in Zones |-> Arrangements(Maxima(z), [m \in Maxima(z) |-> m.value])]
           nonempty == {z \in Zones : Maxima(z) # {}}
<1>1. tasks = {} /\ skips = {} /\ sorted = Partitions
  <2>1. \A z \in Zones : started[z] = "no"
    BY DEF Start
  <2>2. \A t \in tasks : t.zone \in Zones
    BY TaskFacts DEF RouteInv, TypeOK
  <2>3. \A x \in skips : x[2] \in Zones
    BY DEF RouteInv, TypeOK, Places
  <2> QED BY <2>1, <2>2, <2>3 DEF RouteInv, CallsAfterStart, Start
<1>2. PICK order \in OnePerZone(orders) :
        /\ tasks' = {Call(z, order[z][1].at, order[z], 0, 1) : z \in nonempty}
        /\ start' = [z \in Zones |-> IF z \in nonempty THEN order[z][1].at ELSE NoPartition]
  BY DEF Start
<1>3. ASSUME NEW z \in nonempty
      PROVE  /\ order[z] \in Seq(MaximumRecord)
             /\ order[z] # <<>>
             /\ Range(order[z]) = Maxima(z)
             /\ AreOrdered(order[z])
             /\ order[z][1].at \in Partitions
  <2> DEFINE s == order[z]
             value == [m \in Maxima(z) |-> m.value]
  <2>1. s \in Arrangements(Maxima(z), value)
    BY <1>2 DEF OnePerZone
  <2>2. /\ Maxima(z) \in SUBSET MaximumRecord /\ IsFiniteSet(Maxima(z))
        /\ \A m, n \in Maxima(z) : m.at = n.at => m = n
    BY MaximaFacts DEF RouteInv
  <2> HIDE DEF s, value
  <2>3. /\ s \in Seq(Maxima(z))
        /\ Len(s) \in Nat
        /\ DOMAIN s = 1 .. Len(s)
        /\ Range(s) = Maxima(z)
        /\ \A i, j \in DOMAIN s : i # j => s[i] # s[j]
        /\ \A i, j \in DOMAIN s : i < j => value[s[i]] >= value[s[j]]
    BY <2>1, <2>2, ArrangementFacts
  <2>4. s \in Seq(MaximumRecord)
    BY <2>2, <2>3, SeqMonotonic
  <2>5. \A i \in DOMAIN s : s[i] \in Maxima(z)
    BY <2>3 DEF Range
  <2>6. AreOrdered(s)
    <3> SUFFICES ASSUME NEW i \in DOMAIN s, NEW j \in DOMAIN s, i < j
                 PROVE  s[i].value >= s[j].value /\ s[i].at # s[j].at
      BY DEF AreOrdered
    <3>1. i # j
      BY <2>3
    <3>2. s[i] # s[j] /\ value[s[i]] >= value[s[j]] /\ s[i] \in Maxima(z) /\ s[j] \in Maxima(z)
      BY <2>3, <2>5, <3>1
    <3> QED BY <2>2, <3>2 DEF value
  <2>7. s # <<>>
    BY <2>3 DEF Range
  <2>8. 1 \in DOMAIN s
    BY <2>3, <2>4, <2>7, EmptySeq
  <2>9. s[1].at \in Partitions
    BY <2>2, <2>5, <2>8 DEF MaximumRecord
  <2> QED BY <2>3, <2>4, <2>6, <2>7, <2>9 DEF s
<1>4. ASSUME NEW t \in tasks'
      PROVE  \E z \in nonempty : t = Call(z, order[z][1].at, order[z], 0, 1)
  BY <1>2
<1> HIDE DEF nonempty, orders
<1>nonempty. \A z \in nonempty : z \in Zones
  BY DEF nonempty
<1>5. tasks' \subseteq Task
  <2> SUFFICES ASSUME NEW t \in tasks' PROVE t \in Task
    OBVIOUS
  <2>1. PICK z \in nonempty : t = Call(z, order[z][1].at, order[z], 0, 1)
    BY <1>4
  <2>2. <<>> \in Seq(Nat)
    OBVIOUS
  <2>3. 0 \in 0 .. MaxNrCells
    BY InputsAssumption
  <2> QED BY <1>3, <1>nonempty, <2>1, <2>2, <2>3 DEF Call, Task
<1>6. ASSUME NEW t \in tasks'
      PROVE  /\ t.pc = "called" /\ t.zone \in nonempty /\ t.maxima = order[t.zone]
             /\ t.at = t.maxima[1].at
             /\ t = Call(t.zone, order[t.zone][1].at, order[t.zone], 0, 1)
  BY <1>4 DEF Call
<1>7. /\ values' = values /\ local' = local /\ skips' = {} /\ sorted' = Partitions
      /\ \A z \in nonempty : started'[z] # "no"
      /\ started' \in [Zones -> {"no", "yes", "undefined"}]
  BY <1>1, <1>nonempty DEF Start, nonempty
<1>8. TypeOK'
  <2>1. start' \in [Zones -> Partitions \cup {NoPartition}]
    BY <1>2, <1>3
  <2> QED BY <1>5, <1>7, <2>1 DEF Start, RouteInv, TypeOK, CellsAt
<1>9. MaximaAreExact'
  <2>1. \A z \in Zones : Maxima(z)' = Maxima(z)
    BY <1>7, MaximaSame
  <2> QED BY <1>3, <1>6, <1>nonempty, <2>1 DEF MaximaAreExact, AreOrdered
<1>10. OneActive'
  BY <1>6 DEF OneActive
<1>11. CallsAfterStart' /\ SelectsAll' /\ SkipsAfterEnd'
  BY <1>6, <1>7 DEF CallsAfterStart, SelectsAll, SkipsAfterEnd
<1>12. LocalIsOrdered' /\ (local \in [Places -> Seq(Nat)])'
  BY <1>7 DEF RouteInv, LocalIsOrdered, Value
<1> QED BY <1>8, <1>9, <1>10, <1>11, <1>12 DEF RouteInv

(* The cells that are selected, if there is room for them all, are those   *)
(* that are at least as high as the next maximum.                          *)
LEMMA NrToRecordFacts ==
    ASSUME TypeOK, LocalIsOrdered, NEW t \in Task,
           NEW x, x = <<t.at, t.zone>>, NEW nr, nr = NrToRecord(x, local[x], t.maxima, t.nr)
    PROVE  /\ nr \in 0 .. Len(local[x])
           /\ t.nr + nr \in 0 .. MaxNrCells
           /\ t.nr + nr < MaxNrCells =>
                \A i \in DOMAIN local[x] :
                    i > nr => Value(x, local[x][i]) < NextMaximum(t.maxima)
           /\ \A i \in 1 .. nr : Value(x, local[x][i]) >= NextMaximum(t.maxima)
           /\ (/\ t.nr < MaxNrCells /\ local[x] # <<>>
               /\ Value(x, local[x][1]) >= NextMaximum(t.maxima)) => nr > 0
<1> DEFINE n == Len(local[x])
           next == NextMaximum(t.maxima)
           v(i) == Value(x, local[x][i])
           D == {i \in DOMAIN local[x] : t.nr + i <= MaxNrCells /\ v(i) >= next}
<1>1. x \in Places /\ t.nr \in 0 .. MaxNrCells /\ MaxNrCells \in Nat
  BY TaskFacts, InputsAssumption
<1>2. n \in Nat /\ DOMAIN local[x] = 1 .. n /\ \A i \in 1 .. n : v(i) \in Int
  BY <1>1, CellFacts
<1>3. next \in Int
  <2>1. CASE Len(t.maxima) > 1
    <3>1. t.maxima \in Seq(MaximumRecord) /\ Len(t.maxima) \in Nat
      BY TaskFacts, LenProperties
    <3>2. t.maxima[2] \in MaximumRecord
      BY <2>1, <3>1, ElementOfSeq
    <3> QED BY <2>1, <3>2 DEF NextMaximum, MaximumRecord
  <2>2. CASE ~(Len(t.maxima) > 1)
    BY <2>2, InputsAssumption DEF NextMaximum
  <2> QED BY <2>1, <2>2
<1>4. \A i, j \in 1 .. n : i < j => v(i) >= v(j)
  BY <1>1, <1>2 DEF LocalIsOrdered
<1>5. nr = Cardinality(D)
  BY DEF NrToRecord
<1> HIDE DEF n, next, v
<1>6. D \in SUBSET (1 .. n)
  BY <1>2
<1>7. ASSUME NEW j \in D, NEW i \in 1 .. j PROVE i \in D
  <2>1. j \in 1 .. n /\ i \in 1 .. n /\ t.nr + j <= MaxNrCells /\ v(j) >= next
    BY <1>2
  <2>2. i = j \/ i < j
    BY <1>2, <2>1
  <2>3. v(i) >= v(j) /\ v(i) \in Int /\ v(j) \in Int
    BY <1>2, <1>4, <2>1, <2>2
  <2>4. v(i) >= next
    BY <1>3, <2>1, <2>3
  <2>5. t.nr + i <= MaxNrCells
    BY <1>1, <2>1
  <2> QED BY <1>2, <2>1, <2>4, <2>5
<1>8. nr \in 0 .. n /\ D = 1 .. nr
  <2> HIDE DEF D
  <2> QED BY <1>2, <1>5, <1>6, <1>7, PrefixIsInterval
<1>9. t.nr + nr \in 0 .. MaxNrCells
  <2>1. CASE nr = 0
    BY <1>1, <2>1
  <2>2. CASE nr # 0
    <3>1. nr \in D
      BY <1>2, <1>8, <2>2
    <3> QED BY <1>1, <1>2, <1>8, <3>1
  <2> QED BY <2>1, <2>2
<1>10. ASSUME t.nr + nr < MaxNrCells, NEW i \in 1 .. n, i > nr PROVE v(i) < next
  <2>1. nr + 1 \in 1 .. n /\ nr + 1 \notin D
    BY <1>2, <1>8, <1>10
  <2>2. t.nr + (nr + 1) <= MaxNrCells
    BY <1>1, <1>2, <1>8, <1>10
  <2>3. ~(v(nr + 1) >= next)
    BY <1>2, <2>1, <2>2
  <2>4. v(nr + 1) >= v(i)
    <3>1. i = nr + 1 \/ nr + 1 < i
      BY <1>2, <1>8, <1>10
    <3> QED BY <1>2, <1>4, <2>1, <3>1
  <2> QED BY <1>2, <1>3, <2>1, <2>3, <2>4
<1>11. \A i \in 1 .. nr : v(i) >= next
  BY <1>8
<1>12. ASSUME t.nr < MaxNrCells, local[x] # <<>>, v(1) >= next PROVE nr > 0
  <2>1. 1 \in DOMAIN local[x] /\ t.nr + 1 <= MaxNrCells
    BY <1>1, <1>12, CellFacts
  <2>2. 1 \in D
    BY <1>12, <2>1
  <2> QED BY <1>2, <1>8, <2>2
<1> QED BY <1>2, <1>8, <1>9, <1>10, <1>11, <1>12 DEF n, next, v

(* A call selects the cells it records.                                    *)
LEMMA RouteInvRead ==
    ASSUME RouteInv, NEW t \in tasks, Read(t)
    PROVE  RouteInv'
<1> DEFINE x == <<t.at, t.zone>>
           nr == NrToRecord(x, local[x], t.maxima, t.nr)
           u == [t EXCEPT !.pc = "read", !.nr = @ + nr, !.cells = SubSeq(local[x], 1, nr)]
<1>1. t \in Task /\ t.pc = "called" /\ x \in Places /\ t.zone \in Zones
  BY TaskFacts DEF RouteInv, TypeOK, Read
<1>2. /\ nr \in 0 .. Len(local[x])
      /\ t.nr + nr \in 0 .. MaxNrCells
      /\ t.nr + nr < MaxNrCells =>
            \A i \in DOMAIN local[x] :
                i > nr => Value(x, local[x][i]) < NextMaximum(t.maxima)
  BY <1>1, NrToRecordFacts DEF RouteInv
<1>3. tasks' = (tasks \ {t}) \cup {u}
  BY DEF Read
<1> HIDE DEF nr
<1>4. /\ u.pc = "read" /\ u.zone = t.zone /\ u.at = t.at /\ u.maxima = t.maxima
      /\ u.nr = t.nr + nr /\ u.cells = SubSeq(local[x], 1, nr)
      /\ u.next = t.next /\ u.hop = t.hop
  BY <1>1 DEF Task
<1>5. u.cells \in Seq(Nat) /\ Len(u.cells) = nr
  <2>1. local[x] \in Seq(Nat) /\ Len(local[x]) \in Nat
    BY <1>1, LenProperties DEF RouteInv
  <2>2. \A i \in 1 .. nr : local[x][i] \in Nat
    BY <1>2, <2>1, ElementOfSeq
  <2>3. 1 \in Int /\ nr \in Int /\ nr >= 0
    BY <1>2, <2>1
  <2>4. /\ SubSeq(local[x], 1, nr) \in Seq(Nat)
        /\ Len(SubSeq(local[x], 1, nr)) = IF 1 <= nr THEN nr - 1 + 1 ELSE 0
    BY <2>2, <2>3, SubSeqProperties
  <2> QED BY <1>4, <2>3, <2>4
<1>6. u \in Task
  <2>1. SubSeq(local[x], 1, nr) \in Seq(Nat) /\ t.nr + nr \in 0 .. MaxNrCells
    BY <1>2, <1>4, <1>5
  <2> QED BY <1>1, <2>1 DEF Task
<1> HIDE DEF u
<1>7. UNCHANGED <<values, sorted, local, started, skips>>
  BY DEF Read
<1>8. TypeOK'
  BY <1>3, <1>6 DEF Read, RouteInv, TypeOK, CellsAt
<1>9. \A v \in tasks : Active(v) /\ v.zone = t.zone => v = t
  BY <1>1 DEF RouteInv, OneActive, Active
<1>10. OneActive'
  BY <1>3, <1>4, <1>9 DEF RouteInv, OneActive, Active
<1>11. MaximaAreExact'
  <2>1. \A z \in Zones : Maxima(z)' = Maxima(z)
    BY <1>7, MaximaSame
  <2>2. \A v \in tasks : v.zone \in Zones
    BY TaskFacts DEF RouteInv, TypeOK
  <2> QED BY <1>1, <1>3, <1>4, <2>1, <2>2 DEF RouteInv, MaximaAreExact
<1>12. SelectsAll'
  <2> SUFFICES ASSUME NEW v \in tasks', v.pc = "read", v.nr < MaxNrCells,
                      NEW i \in DOMAIN local[<<v.at, v.zone>>], i > Len(v.cells)
               PROVE  Value(<<v.at, v.zone>>, local[<<v.at, v.zone>>][i]) < NextMaximum(v.maxima)
    BY <1>7 DEF SelectsAll, Value
  <2>1. CASE v \in tasks
    BY <2>1 DEF RouteInv, SelectsAll
  <2>2. CASE v = u
    BY <1>2, <1>4, <1>5, <2>2
  <2> QED BY <1>3, <2>1, <2>2
<1>13. CallsAfterStart'
  BY <1>3, <1>4, <1>7 DEF RouteInv, CallsAfterStart
<1>14. SkipsAfterEnd'
  BY <1>1, <1>3, <1>4, <1>7 DEF RouteInv, SkipsAfterEnd, Active
<1>15. LocalIsOrdered' /\ (local \in [Places -> Seq(Nat)])'
  BY <1>7 DEF RouteInv, LocalIsOrdered, Value
<1> QED BY <1>8, <1>10, <1>11, <1>12, <1>13, <1>14, <1>15 DEF RouteInv

(* Storing a fragment ends a task that has passed the route on.            *)
LEMMA RouteInvStore ==
    ASSUME RouteInv, NEW t \in tasks, Store(t)
    PROVE  RouteInv'
<1>1. t \in Task /\ <<t.at, t.zone>> \in Places
  BY TaskFacts DEF RouteInv, TypeOK
<1>2. tasks' = tasks \ {t} /\ UNCHANGED <<values, sorted, local, started, skips>>
  BY DEF Store
<1>3. TypeOK'
  <2> DEFINE fragment == [cells |-> t.cells, next |-> t.next, hop |-> t.hop]
             recorded == [fragments EXCEPT ![<<t.at, t.zone>>] = Append(@, fragment)]
  <2>1. fragment \in Fragment
    BY <1>1, TaskFacts DEF Fragment
  <2>2. fragments \in [Places -> Seq(Fragment)]
    BY DEF RouteInv, TypeOK
  <2> HIDE DEF fragment
  <2>3. recorded \in [Places -> Seq(Fragment)]
    BY <1>1, <2>1, <2>2
  <2>4. FinishIfDone(t.at, local, recorded)
    BY DEF Store, fragment
  <2> HIDE DEF recorded
  <2>5. /\ fragments' \in [Places -> Seq(Fragment)]
        /\ result' \in [Places -> Seq(Fragment)]
        /\ finished' \in [Partitions -> Nat]
        /\ \A q \in Partitions : finished[q] > 0 => finished'[q] > 0
    BY <1>1, <2>3, <2>4, FinishFacts, TaskFacts DEF RouteInv
  <2>6. returned' \subseteq Zones \X Nat /\ locked' \subseteq Partitions
    BY <1>1, TaskFacts DEF Store, RouteInv, TypeOK
  <2> QED BY <1>2, <2>5, <2>6 DEF Store, RouteInv, TypeOK, CellsAt
<1>4. MaximaAreExact'
  <2>1. \A z \in Zones : Maxima(z)' = Maxima(z)
    BY <1>2, MaximaSame
  <2>2. \A v \in tasks : v.zone \in Zones
    BY TaskFacts DEF RouteInv, TypeOK
  <2> QED BY <1>2, <2>1, <2>2 DEF RouteInv, MaximaAreExact
<1> QED
  BY <1>2, <1>3, <1>4 DEF RouteInv, LocalIsOrdered, Value, CallsAfterStart, OneActive, Active,
                          SelectsAll, SkipsAfterEnd

(* Skipping a route changes the cells of a route that has ended.           *)
LEMMA RouteInvSkip ==
    ASSUME RouteInv, NEW x \in Places, Skip(x)
    PROVE  RouteInv'
<1>1. /\ skips' = skips \ {x} /\ x \in skips
      /\ local' = [local EXCEPT ![x] = <<>>]
      /\ UNCHANGED <<values, sorted, started, tasks>>
  BY DEF Skip
<1>2. \A S : <<>> \in Seq(S) /\ DOMAIN <<>> = {}
  BY EmptySeq, LenProperties
<1>3. \A t \in tasks : Active(t) => t.zone # x[2]
  BY <1>1 DEF RouteInv, SkipsAfterEnd
<1>4. \A y \in Places : local'[y] = IF y = x THEN <<>> ELSE local[y]
  BY <1>1 DEF RouteInv
<1>5. TypeOK'
  <2>1. fragments \in [Places -> Seq(Fragment)] /\ x[1] \in Partitions
    BY DEF RouteInv, TypeOK, Places
  <2>2. FinishIfDone(x[1], local', fragments)
    BY DEF Skip
  <2>3. /\ fragments' \in [Places -> Seq(Fragment)]
        /\ result' \in [Places -> Seq(Fragment)]
        /\ finished' \in [Partitions -> Nat]
        /\ \A q \in Partitions : finished[q] > 0 => finished'[q] > 0
    BY <2>1, <2>2, FinishFacts DEF RouteInv
  <2>4. \A y \in Places : local'[y] \in Seq(CellsAt(y)')
    BY <1>1, <1>2, <1>4 DEF RouteInv, TypeOK, CellsAt
  <2> QED BY <1>1, <2>3, <2>4 DEF Skip, RouteInv, TypeOK
<1>6. MaximaAreExact'
  <2> SUFFICES ASSUME NEW t \in tasks, Active(t)
               PROVE  Maxima(t.zone)' = Maxima(t.zone)
    BY <1>1 DEF RouteInv, MaximaAreExact, Active
  <2>0. t.zone \in Zones /\ t.zone # x[2]
    BY <1>3, TaskFacts DEF RouteInv, TypeOK
  <2>1. t.zone \in Zones /\ \A p \in Partitions : <<p, t.zone>> \in Places /\ <<p, t.zone>> # x
    BY <2>0 DEF Places
  <2>2. \A p \in Partitions : local'[<<p, t.zone>>] = local[<<p, t.zone>>]
    BY <1>4, <2>1
  <2> QED BY <1>1, <2>1, <2>2, MaximaSame
<1>7. SelectsAll'
  <2> SUFFICES ASSUME NEW t \in tasks, t.pc = "read"
               PROVE  local'[<<t.at, t.zone>>] = local[<<t.at, t.zone>>]
    BY <1>1 DEF RouteInv, SelectsAll, Value
  <2>1. <<t.at, t.zone>> \in Places
    BY TaskFacts DEF RouteInv, TypeOK
  <2>2. <<t.at, t.zone>> # x
    BY <1>3 DEF Active
  <2> QED BY <1>4, <2>1, <2>2
<1>8. LocalIsOrdered'
  BY <1>1, <1>2, <1>4 DEF RouteInv, LocalIsOrdered, Value
<1>9. (local \in [Places -> Seq(Nat)])'
  BY <1>1, <1>2 DEF RouteInv
<1>10. CallsAfterStart' /\ OneActive'
  BY <1>1 DEF RouteInv, CallsAfterStart, OneActive, Active
<1>11. SkipsAfterEnd'
  <2>1. \A y \in skips : y \in Places
    BY DEF RouteInv, TypeOK
  <2> QED BY <1>1, <1>4, <2>1 DEF RouteInv, SkipsAfterEnd, Active
<1> QED BY <1>5, <1>6, <1>7, <1>8, <1>9, <1>10, <1>11 DEF RouteInv

(* The maxima of a zone when the cells of a partition change.              *)
LEMMA MaximaChange ==
    ASSUME TypeOK, NEW p \in Partitions, NEW z \in Zones, NEW new,
           values' = values, local \in [Places -> Seq(Nat)],
           local' = [local EXCEPT ![<<p, z>>] = new]
    PROVE  /\ Maxima(z)' = {m \in Maxima(z) : m.at # p} \cup
                            (IF new = <<>> THEN {}
                             ELSE {[value |-> Value(<<p, z>>, new[1]), at |-> p]})
           /\ \A y \in Zones : y # z => Maxima(y)' = Maxima(y)
<1> DEFINE maximum(cells, q) == [value |-> Value(<<q, z>>, cells[<<q, z>>][1]), at |-> q]
<1>1. \A q \in Partitions : local'[<<q, z>>] = IF q = p THEN new ELSE local[<<q, z>>]
  BY DEF Places
<1>2. /\ \A q \in Partitions : local[<<q, z>>] # <<>> => maximum(local, q) \in Maxima(z)
      /\ \A m \in Maxima(z) :
            \E q \in Partitions : local[<<q, z>>] # <<>> /\ m = maximum(local, q)
  <2>1. ASSUME NEW q \in Partitions, local[<<q, z>>] # <<>>
        PROVE  maximum(local, q) \in Maxima(z)
    BY <2>1 DEF Maxima, Maximum
  <2>2. ASSUME NEW m \in Maxima(z)
        PROVE  \E q \in Partitions : local[<<q, z>>] # <<>> /\ m = maximum(local, q)
    <3>1. \E q \in Partitions : local[<<q, z>>] # <<>> /\ m = Maximum(local, <<q, z>>)
      BY MaximaMembers
    <3> QED BY <3>1 DEF Maximum
  <2> QED BY <2>1, <2>2
<1>3. /\ \A q \in Partitions : local'[<<q, z>>] # <<>> => maximum(local', q) \in Maxima(z)'
      /\ \A m \in Maxima(z)' :
            \E q \in Partitions : local'[<<q, z>>] # <<>> /\ m = maximum(local', q)
  <2>1. ASSUME NEW q \in Partitions, local'[<<q, z>>] # <<>>
        PROVE  maximum(local', q) \in Maxima(z)'
    BY <2>1 DEF Maxima, Maximum, Value
  <2>2. ASSUME NEW m \in Maxima(z)'
        PROVE  \E q \in Partitions : local'[<<q, z>>] # <<>> /\ m = maximum(local', q)
    <3>1. \E q \in Partitions : local'[<<q, z>>] # <<>> /\ m = Maximum(local, <<q, z>>)'
      BY MaximaMembers
    <3> QED BY <3>1 DEF Maximum, Value
  <2> QED BY <2>1, <2>2
<1>4. \A q \in Partitions : q # p => maximum(local', q) = maximum(local, q)
  BY <1>1
<1>5. new # <<>> => maximum(local', p) = [value |-> Value(<<p, z>>, new[1]), at |-> p]
  BY <1>1
<1>6. \A cells : \A q : maximum(cells, q).at = q
  OBVIOUS
<1> HIDE DEF maximum
<1>7. Maxima(z)' = {m \in Maxima(z) : m.at # p} \cup
                   (IF new = <<>> THEN {} ELSE {maximum(local', p)})
  <2>1. ASSUME NEW m \in Maxima(z)', m # maximum(local', p)
        PROVE  m \in Maxima(z) /\ m.at # p
    <3>1. PICK q \in Partitions : local'[<<q, z>>] # <<>> /\ m = maximum(local', q)
      BY <1>3
    <3>2. q # p
      BY <2>1, <3>1
    <3> QED BY <1>1, <1>2, <1>4, <1>6, <3>1, <3>2
  <2>2. ASSUME NEW m \in Maxima(z), m.at # p
        PROVE  m \in Maxima(z)'
    <3>1. PICK q \in Partitions : local[<<q, z>>] # <<>> /\ m = maximum(local, q)
      BY <1>2
    <3>2. q # p
      BY <1>6, <2>2, <3>1
    <3> QED BY <1>1, <1>3, <1>4, <3>1, <3>2
  <2>3. new # <<>> => maximum(local', p) \in Maxima(z)'
    BY <1>1, <1>3
  <2>4. ASSUME new = <<>>, maximum(local', p) \in Maxima(z)' PROVE FALSE
    <3>1. PICK q \in Partitions : local'[<<q, z>>] # <<>> /\ maximum(local', p) = maximum(local', q)
      BY <1>3, <2>4
    <3>2. q = p
      BY <1>6, <3>1
    <3> QED BY <1>1, <2>4, <3>1, <3>2
  <2> QED BY <2>1, <2>2, <2>3, <2>4
<1>8. ASSUME NEW y \in Zones, y # z PROVE Maxima(y)' = Maxima(y)
  <2>1. \A q \in Partitions : local'[<<q, y>>] = local[<<q, y>>]
    BY <1>8 DEF Places
  <2> QED BY <2>1, MaximaSame
<1> QED BY <1>5, <1>7, <1>8

(* Passing the route on, or ending it.                                     *)
LEMMA RouteInvUpdate ==
    ASSUME RouteInv, NEW t \in tasks, Update(t)
    PROVE  RouteInv'
<1> DEFINE z == t.zone
           x == <<t.at, z>>
           left == SubSeq(local[x], Len(t.cells) + 1, Len(local[x]))
           rest == Tail(t.maxima)
           first == t.maxima[1]
           m == [value |-> Value(x, left[1]), at |-> t.at]
           maxima == IF left = <<>> THEN rest ELSE InsertMaximum(rest, m)
           continue == t.nr < MaxNrCells /\ rest # <<>>
           ended == [t EXCEPT !.pc = "updated"]
           passed == [t EXCEPT !.pc = "updated", !.next = rest[1].at]
           call == Call(z, rest[1].at, maxima, t.nr, t.hop + 1)
           new == IF continue THEN left ELSE <<>>
<1>1. /\ t \in Task /\ t.pc = "read" /\ z \in Zones /\ t.at \in Partitions /\ x \in Places
      /\ t.maxima \in Seq(MaximumRecord) /\ Len(t.cells) \in Nat
      /\ t.nr \in 0 .. MaxNrCells /\ t.hop \in Nat
  BY TaskFacts DEF RouteInv, TypeOK, Update
<1>2. /\ t.maxima # <<>> /\ first.at = t.at /\ AreOrdered(t.maxima)
      /\ Range(t.maxima) = Maxima(z)
  BY <1>1 DEF RouteInv, MaximaAreExact, AreOrdered
<1>3. /\ rest \in Seq(MaximumRecord)
      /\ AreOrdered(rest)
      /\ Range(rest) = Maxima(z) \ {first}
      /\ first \in Maxima(z)
      /\ \A i \in DOMAIN rest : rest[i].at # t.at
      /\ rest # <<>> => Len(t.maxima) > 1 /\ rest[1] = t.maxima[2] /\ rest[1] \in Range(rest)
  BY <1>1, <1>2, RestFacts
<1>4. /\ Maxima(z) \in SUBSET MaximumRecord
      /\ local[x] # <<>>
      /\ \A n \in Maxima(z) : local[<<n.at, z>>] # <<>>
      /\ \A n \in Maxima(z) : n.at = t.at => n = first
  BY <1>1, <1>2, <1>3, MaximaFacts DEF RouteInv
<1>5. /\ local[x] \in Seq(CellsAt(x))
      /\ \A i \in DOMAIN local[x] : Value(x, local[x][i]) \in Int
      /\ CellsAt(x) \in SUBSET Nat
  BY <1>1, CellFacts DEF RouteInv
<1>6. /\ left \in Seq(CellsAt(x))
      /\ \A i \in DOMAIN left :
            Len(t.cells) + i \in DOMAIN local[x] /\ left[i] = local[x][Len(t.cells) + i]
  BY <1>1, <1>5, SuffixFacts
<1>7. /\ UNCHANGED <<values, sorted, started>>
      /\ local' = [local EXCEPT ![x] = new]
      /\ continue => tasks' = (tasks \ {t}) \cup {passed, call} /\ skips' = skips
      /\ ~continue => tasks' = (tasks \ {t}) \cup {ended} /\ skips' = skips \cup ToSkip(z, rest)
  <2>1. UNCHANGED <<values, sorted, started>>
    BY DEF Update
  <2>2. CASE continue
    BY <2>1, <2>2 DEF Update
  <2>3. CASE ~continue
    BY <2>1, <2>3 DEF Update
  <2> QED BY <2>1, <2>2, <2>3
<1> HIDE DEF left, rest, first
<1>8. new \in Seq(CellsAt(x)) /\ new \in Seq(Nat)
  <2>1. new \in Seq(CellsAt(x))
    BY <1>6, EmptySeq
  <2> HIDE DEF new
  <2> QED BY <1>5, <2>1, SeqMonotonic
<1>9. \A i, j \in DOMAIN new : i < j => Value(x, new[i]) >= Value(x, new[j])
  <2>1. ASSUME NEW i \in DOMAIN left, NEW j \in DOMAIN left, i < j
        PROVE  Value(x, left[i]) >= Value(x, left[j])
    <3>1. i \in Int /\ j \in Int
      BY <1>6, LenProperties
    <3>2. Len(t.cells) + i < Len(t.cells) + j
      BY <1>1, <2>1, <3>1
    <3> QED BY <1>1, <1>6, <2>1, <3>2 DEF RouteInv, LocalIsOrdered
  <2>2. DOMAIN <<>> = {}
    OBVIOUS
  <2> QED BY <2>1, <2>2
<1>10. \A y \in Places : local'[y] = IF y = x THEN new ELSE local[y]
  BY <1>7 DEF RouteInv
<1>11. local' \in [Places -> Seq(Nat)]
  BY <1>1, <1>7, <1>8 DEF RouteInv
<1>12. LocalIsOrdered'
  BY <1>7, <1>9, <1>10 DEF RouteInv, LocalIsOrdered, Value
<1>13. \A v \in tasks : Active(v) /\ v.zone = z => v = t
  BY <1>1 DEF RouteInv, OneActive, Active
<1>14. \A y \in skips : y \in Places /\ y[2] # z
  BY <1>1 DEF RouteInv, TypeOK, SkipsAfterEnd, Active
<1>15. ASSUME NEW i \in DOMAIN rest
       PROVE  /\ rest[i].at \in Partitions
              /\ rest[i].at # t.at
              /\ local[<<rest[i].at, z>>] # <<>>
  <2>1. rest[i] \in Maxima(z)
    BY <1>3 DEF Range
  <2> QED BY <1>3, <1>4, <2>1 DEF MaximumRecord
<1>16. ASSUME continue
       PROVE  /\ maxima \in Seq(MaximumRecord)
              /\ maxima # <<>>
              /\ AreOrdered(maxima)
              /\ maxima[1] = rest[1]
              /\ Range(maxima) = Maxima(z)'
              /\ rest[1].at \in Partitions
  <2>1. Maxima(z)' = {n \in Maxima(z) : n.at # t.at} \cup (IF left = <<>> THEN {} ELSE {m})
    <3>1. local' = [local EXCEPT ![<<t.at, z>>] = left]
      BY <1>7, <1>16
    <3>2. TypeOK /\ local \in [Places -> Seq(Nat)] /\ values' = values
      BY <1>7 DEF RouteInv
    <3>3. t.at \in Partitions /\ t.zone \in Zones
      BY <1>1
    <3>4. Maxima(t.zone)' = {n \in Maxima(t.zone) : n.at # t.at} \cup
                (IF left = <<>> THEN {}
                 ELSE {[value |-> Value(<<t.at, t.zone>>, left[1]), at |-> t.at]})
      BY <3>1, <3>2, <3>3, MaximaChange
    <3> QED BY <3>4
  <2>2. {n \in Maxima(z) : n.at # t.at} = Range(rest)
    BY <1>2, <1>3, <1>4
  <2>3. rest[1].at \in Partitions
    BY <1>3, <1>4, <1>16 DEF MaximumRecord
  <2>4. CASE left = <<>>
    BY <1>3, <1>16, <2>1, <2>2, <2>3, <2>4
  <2>5. CASE left # <<>>
    <3>1. 1 \in DOMAIN left
      BY <1>6, <2>5, EmptySeq, LenProperties
    <3>2. /\ Len(t.cells) + 1 \in DOMAIN local[x]
          /\ left[1] = local[x][Len(t.cells) + 1]
          /\ Value(x, left[1]) \in Int
      BY <1>5, <1>6, <3>1
    <3>3. m \in MaximumRecord /\ m.at = t.at /\ m.value = Value(x, left[1])
      BY <1>1, <3>2 DEF MaximumRecord
    <3>4. Value(x, left[1]) < NextMaximum(t.maxima)
      <4>1. Len(t.cells) + 1 > Len(t.cells)
        BY <1>1
      <4> QED BY <1>1, <1>16, <3>2, <4>1 DEF RouteInv, SelectsAll
    <3>5. NextMaximum(t.maxima) = rest[1].value /\ rest[1].value \in Int
      BY <1>3, <1>4, <1>16 DEF NextMaximum, MaximumRecord
    <3>6. rest[1].value > m.value
      BY <3>2, <3>3, <3>4, <3>5
    <3> HIDE DEF m
    <3>7. /\ InsertMaximum(rest, m) \in Seq(MaximumRecord)
          /\ InsertMaximum(rest, m) # <<>>
          /\ AreOrdered(InsertMaximum(rest, m))
          /\ Range(InsertMaximum(rest, m)) = Range(rest) \cup {m}
          /\ InsertMaximum(rest, m)[1] = rest[1]
      BY <1>3, <1>16, <3>3, <3>6, InsertFacts
    <3> QED BY <2>1, <2>2, <2>3, <2>5, <3>7
  <2> QED BY <2>4, <2>5
<1> HIDE DEF maxima, m
<1>17. /\ ended.pc = "updated" /\ ended.zone = z /\ ended \in Task
       /\ continue => passed.pc = "updated" /\ passed.zone = z /\ passed \in Task
       /\ continue => call \in Task
       /\ call.pc = "called" /\ call.zone = z /\ call.at = rest[1].at /\ call.maxima = maxima
  <2>1. ended.pc = "updated" /\ ended.zone = z /\ ended \in Task
    BY <1>1 DEF Task
  <2>2. continue => passed.pc = "updated" /\ passed.zone = z /\ passed \in Task
    BY <1>1, <1>16 DEF Task
  <2>3. call.pc = "called" /\ call.zone = z /\ call.at = rest[1].at /\ call.maxima = maxima
    BY DEF Call
  <2>4. continue => call \in Task
    <3>1. <<>> \in Seq(Nat) /\ t.hop + 1 \in Nat
      BY <1>1
    <3> QED BY <1>1, <1>16, <3>1 DEF Call, Task
  <2> QED BY <2>1, <2>2, <2>3, <2>4
<1> HIDE DEF ended, passed, call
<1>18. /\ tasks' \subseteq Task
       /\ \A v \in tasks' : v.zone = z =>
            v.pc = "updated" \/ (continue /\ v = call)
       /\ \A v \in tasks' : v.zone # z => v \in tasks
  <2>1. CASE continue
    <3>1. tasks' = (tasks \ {t}) \cup {passed, call}
      BY <1>7, <2>1
    <3> QED BY <1>13, <1>17, <2>1, <3>1, TaskFacts DEF RouteInv, TypeOK, Active
  <2>2. CASE ~continue
    <3>1. tasks' = (tasks \ {t}) \cup {ended}
      BY <1>7, <2>2
    <3> QED BY <1>13, <1>17, <2>2, <3>1, TaskFacts DEF RouteInv, TypeOK, Active
  <2> QED BY <2>1, <2>2
<1>19. ASSUME NEW y \in skips'
       PROVE  /\ y \in Places /\ y # x /\ local'[y] # <<>>
              /\ sorted = Partitions /\ started[y[2]] # "no"
              /\ y[2] = z => ~continue
  <2>1. CASE y \in skips
    <3>1. y \in Places /\ y[2] # z /\ y # x
      BY <1>14, <2>1
    <3> QED BY <1>10, <2>1, <3>1 DEF RouteInv, SkipsAfterEnd, CallsAfterStart
  <2>2. CASE y \notin skips
    <3>1. ~continue /\ y \in ToSkip(z, rest)
      BY <1>7, <2>2
    <3>2. PICK i \in DOMAIN rest : y = <<rest[i].at, z>>
      BY <3>1 DEF ToSkip
    <3>3. y \in Places /\ y # x /\ local[y] # <<>> /\ y[2] = z
      BY <1>1, <1>15, <3>2 DEF Places
    <3> QED BY <1>10, <3>1, <3>3 DEF RouteInv, CallsAfterStart
  <2> QED BY <2>1, <2>2
<1> HIDE DEF new
<1>20. TypeOK'
  <2>1. \A y \in Places : local'[y] \in Seq(CellsAt(y)')
    BY <1>7, <1>8, <1>10 DEF RouteInv, TypeOK, CellsAt
  <2>2. skips' \subseteq Places
    BY <1>19
  <2>3. locked' \subseteq Partitions
    BY <1>1 DEF Update, RouteInv, TypeOK
  <2>4. UNCHANGED <<values, sorted, started, start, fragments, result, finished, returned,
                    asked, published>>
    BY DEF Update
  <2> QED BY <1>18, <2>1, <2>2, <2>3, <2>4 DEF RouteInv, TypeOK
<1> HIDE DEF continue
<1>21. MaximaAreExact'
  <2> SUFFICES ASSUME NEW v \in tasks', Active(v)
               PROVE  /\ v.maxima # <<>> /\ v.at = v.maxima[1].at
                      /\ AreOrdered(v.maxima)
                      /\ Range(v.maxima) = Maxima(v.zone)'
    BY DEF MaximaAreExact, Active, AreOrdered
  <2>1. CASE v.zone = z
    <3>1. v = call /\ continue
      BY <1>18, <2>1 DEF Active
    <3> QED BY <1>16, <1>17, <3>1
  <2>2. CASE v.zone # z
    <3>1. v \in tasks /\ v.zone \in Zones
      BY <1>18, <2>2, TaskFacts
    <3>2. Maxima(v.zone)' = Maxima(v.zone)
      BY <1>1, <1>7, <2>2, <3>1, MaximaChange DEF RouteInv
    <3> QED BY <3>1, <3>2 DEF RouteInv, MaximaAreExact, Active, AreOrdered
  <2> QED BY <2>1, <2>2
<1>22. OneActive'
  BY <1>18 DEF RouteInv, OneActive, Active
<1>23. SelectsAll'
  <2> SUFFICES ASSUME NEW v \in tasks', v.pc = "read"
               PROVE  v \in tasks /\ local'[<<v.at, v.zone>>] = local[<<v.at, v.zone>>]
    BY <1>7 DEF RouteInv, SelectsAll, Value
  <2>1. v.zone # z
    BY <1>17, <1>18
  <2>2. v \in tasks /\ <<v.at, v.zone>> \in Places
    BY <1>18, <2>1, TaskFacts
  <2> QED BY <1>10, <2>1, <2>2
<1>24. CallsAfterStart'
  <2>1. sorted = Partitions /\ started[z] # "no"
    BY DEF RouteInv, CallsAfterStart
  <2>2. \A v \in tasks' : v.zone = z \/ v \in tasks
    BY <1>18
  <2> QED BY <1>7, <1>19, <2>1, <2>2 DEF RouteInv, CallsAfterStart
<1>25. SkipsAfterEnd'
  <2> SUFFICES ASSUME NEW y \in skips', NEW v \in tasks', Active(v), v.zone = y[2]
               PROVE  FALSE
    BY <1>19 DEF SkipsAfterEnd, Active
  <2>1. CASE y[2] = z
    BY <1>18, <1>19, <2>1 DEF Active
  <2>2. CASE y[2] # z
    <3>1. v \in tasks /\ y \in skips
      BY <1>7, <1>18, <2>2 DEF ToSkip
    <3> QED BY <3>1 DEF RouteInv, SkipsAfterEnd
  <2> QED BY <2>1, <2>2
<1> QED BY <1>11, <1>12, <1>20, <1>21, <1>22, <1>23, <1>24, <1>25 DEF RouteInv

(* Every step preserves the invariant about the routes.                    *)
LEMMA RouteInvNext == RouteInv /\ [Next]_vars => RouteInv'
<1> SUFFICES ASSUME RouteInv, [Next]_vars PROVE RouteInv'
  OBVIOUS
<1>1. CASE Start
  BY <1>1, RouteInvStart
<1>2. ASSUME NEW p \in Partitions, Sort(p) PROVE RouteInv'
  BY <1>2, RouteInvSort
<1>3. ASSUME NEW p \in Partitions, AskRoutePartition(p) PROVE RouteInv'
  <2>1. UNCHANGED <<values, sorted, local, started, tasks, skips>>
    BY <1>3 DEF AskRoutePartition
  <2>2. TypeOK'
    BY <1>3 DEF AskRoutePartition, RouteInv, TypeOK, CellsAt
  <2> QED BY <2>1, <2>2, RouteInvSame
<1>4. ASSUME NEW p \in Partitions, Publish(p) PROVE RouteInv'
  <2>1. UNCHANGED <<values, sorted, local, started, tasks, skips>>
    BY <1>4 DEF Publish
  <2>2. TypeOK'
    BY <1>4 DEF Publish, RouteInv, TypeOK, CellsAt
  <2> QED BY <2>1, <2>2, RouteInvSame
<1>5. ASSUME NEW t \in tasks, Read(t) PROVE RouteInv'
  BY <1>5, RouteInvRead
<1>6. ASSUME NEW t \in tasks, Update(t) PROVE RouteInv'
  BY <1>6, RouteInvUpdate
<1>7. ASSUME NEW t \in tasks, Store(t) PROVE RouteInv'
  BY <1>7, RouteInvStore
<1>8. ASSUME NEW x \in Places, Skip(x) PROVE RouteInv'
  BY <1>8, RouteInvSkip
<1>9. CASE UNCHANGED vars
  <2>1. UNCHANGED <<values, sorted, local, started, tasks, skips>>
    BY <1>9 DEF vars
  <2>2. TypeOK'
    BY <1>9 DEF vars, RouteInv, TypeOK, CellsAt
  <2> QED BY <2>1, <2>2, RouteInvSame
<1> QED
  BY <1>1, <1>2, <1>3, <1>4, <1>5, <1>6, <1>7, <1>8, <1>9 DEF Next, Step, Terminated

(* Types, with or without zones.                                           *)
THEOREM TypeCorrect == Spec => []TypeOK
<1>1. RouteInv => TypeOK
  BY DEF RouteInv
<1> QED BY RouteInvInit, RouteInvNext, <1>1, PTL DEF Spec

(* A component that is called finds in the call what all other partitions  *)
(* have left, in the right order, although nobody looked there again and   *)
(* other routes are recorded at the same time: what record_route_fragment  *)
(* asserts, and relies on to choose where the route goes.                  *)
THEOREM MaximaExact == Spec => []MaximaAreExact
<1>1. RouteInv => MaximaAreExact
  BY DEF RouteInv
<1> QED BY RouteInvInit, RouteInvNext, <1>1, PTL DEF Spec

-----------------------------------------------------------------------------
(* Components have not finished before they have sorted.                   *)
LEMMA FinishInvInit == Init => FinishInv
<1> SUFFICES ASSUME Init PROVE FinishInv
  OBVIOUS
<1>1. LockIsHeld
  BY DEF Init, LockIsHeld
<1>2. FinishedExactly
  BY DEF Init, FinishedExactly
<1> QED BY <1>1, <1>2 DEF FinishInv

(* Whether there are values depends on the cells of the partition.         *)
LEMMA HasValuesSame ==
    ASSUME NEW p \in Partitions, \A z \in Zones : local'[<<p, z>>] = local[<<p, z>>]
    PROVE  HasValues(local, p)' <=> HasValues(local, p)
BY DEF HasValues

(* A component that is called has values, and those to be skipped too.     *)
LEMMA CalledHasValues ==
    ASSUME RouteInv
    PROVE  /\ \A t \in tasks : Active(t) => HasValues(local, t.at)
           /\ \A x \in skips : HasValues(local, x[1])
<1>1. ASSUME NEW t \in tasks, Active(t) PROVE HasValues(local, t.at)
  <2> DEFINE first == t.maxima[1]
  <2>1. t \in Task /\ t.zone \in Zones /\ t.maxima \in Seq(MaximumRecord)
    BY TaskFacts DEF RouteInv, TypeOK
  <2>2. t.maxima # <<>> /\ t.at = first.at /\ Range(t.maxima) = Maxima(t.zone)
    BY <1>1 DEF RouteInv, MaximaAreExact, Active
  <2>3. 1 \in DOMAIN t.maxima
    BY <2>1, <2>2, EmptySeq, LenProperties
  <2>4. first \in Maxima(t.zone)
    BY <2>2, <2>3 DEF Range
  <2>5. local[<<t.at, t.zone>>] # <<>>
    BY <2>1, <2>2, <2>4, MaximaFacts DEF RouteInv
  <2> QED BY <2>1, <2>5 DEF HasValues
<1>2. ASSUME NEW x \in skips PROVE HasValues(local, x[1])
  <2>1. x = <<x[1], x[2]>> /\ x[2] \in Zones /\ local[x] # <<>>
    BY DEF RouteInv, TypeOK, SkipsAfterEnd, Places
  <2> QED BY <2>1 DEF HasValues
<1> QED BY <1>1, <1>2

(* A partition without values finishes when it is sorted.                  *)
LEMMA FinishInvSort ==
    ASSUME RouteInv, FinishInv, NEW p \in Partitions, Sort(p)
    PROVE  FinishInv'
<1>1. p \notin sorted /\ p \notin locked /\ finished[p] = 0
  BY DEF Sort, FinishInv, LockIsHeld, FinishedExactly
<1>2. tasks = {} /\ tasks' = {} /\ locked' = locked /\ sorted' = sorted \cup {p}
  BY <1>1 DEF Sort, RouteInv, CallsAfterStart
<1>3. LockIsHeld'
  BY <1>2 DEF FinishInv, LockIsHeld
<1>4. finished' = IF HasValues(local', p) THEN finished ELSE [finished EXCEPT ![p] = @ + 1]
  <2>1. fragments \in [Places -> Seq(Fragment)] /\ FinishIfDone(p, local', fragments)
    BY DEF RouteInv, TypeOK, Sort
  <2> QED BY <2>1, FinishFacts DEF RouteInv
<1>5. finished \in [Partitions -> Nat]
  BY DEF RouteInv, TypeOK
<1>6. ASSUME NEW q \in Partitions, q # p
      PROVE  finished'[q] = finished[q] /\ (HasValues(local, q)' <=> HasValues(local, q))
  <2>1. \A z \in Zones : local'[<<q, z>>] = local[<<q, z>>]
    BY <1>6 DEF Sort, Places
  <2> QED BY <1>4, <1>5, <1>6, <2>1, HasValuesSame
<1>7. finished'[p] = IF HasValues(local, p)' THEN 0 ELSE 1
  BY <1>1, <1>4, <1>5 DEF HasValues
<1>8. FinishedExactly'
  <2> SUFFICES ASSUME NEW q \in Partitions
               PROVE  finished'[q] = IF q \in sorted' /\ q \notin locked' /\ ~HasValues(local, q)'
                                     THEN 1 ELSE 0
    BY DEF FinishedExactly
  <2>1. CASE q = p
    BY <1>1, <1>2, <1>7, <2>1
  <2>2. CASE q # p
    BY <1>2, <1>6, <2>2 DEF FinishInv, FinishedExactly
  <2> QED BY <2>1, <2>2
<1> QED BY <1>3, <1>8 DEF FinishInv

(* A component that is updated is locked, so it has not finished yet.      *)
LEMMA FinishInvUpdate ==
    ASSUME RouteInv, FinishInv, NEW t \in tasks, Update(t)
    PROVE  FinishInv'
<1>1. t \in Task /\ t.at \in Partitions /\ t.pc = "read" /\ t.zone \in Zones
  BY TaskFacts DEF RouteInv, TypeOK, Update
<1>2. t.at \notin locked /\ locked' = locked \cup {t.at} /\ UNCHANGED <<sorted, finished>>
  BY DEF Update
<1>3. t.at \in sorted
  BY <1>1 DEF RouteInv, CallsAfterStart
<1>4. finished[t.at] = 0
  BY <1>1, CalledHasValues DEF Active, FinishInv, FinishedExactly
<1>5. /\ \A u \in tasks' : u.pc = "updated" => u.at = t.at \/ u \in tasks
      /\ \A u, v \in tasks' :
            (u.pc = "updated" /\ u \notin tasks /\ v.pc = "updated" /\ v \notin tasks) => u = v
  <2> DEFINE rest == Tail(t.maxima)
  <2>1. \E u : u.at = t.at /\ \A v \in tasks' : v.pc = "updated" /\ v \notin tasks => v = u
    <3>1. CASE t.nr < MaxNrCells /\ rest # <<>>
      <4> DEFINE u == [t EXCEPT !.pc = "updated", !.next = rest[1].at]
      <4>1. \E c : c.pc = "called" /\ tasks' = (tasks \ {t}) \cup {u, c}
        BY <3>1 DEF Update, Call
      <4>2. u.at = t.at
        BY <1>1 DEF Task
      <4> HIDE DEF u
      <4> QED BY <4>1, <4>2
    <3>2. CASE ~(t.nr < MaxNrCells /\ rest # <<>>)
      <4> DEFINE u == [t EXCEPT !.pc = "updated"]
      <4>1. tasks' = (tasks \ {t}) \cup {u}
        BY <3>2 DEF Update
      <4>2. u.at = t.at
        BY <1>1 DEF Task
      <4> HIDE DEF u
      <4> QED BY <4>1, <4>2
    <3> QED BY <3>1, <3>2
  <2>2. PICK u : u.at = t.at /\ \A v \in tasks' : v.pc = "updated" /\ v \notin tasks => v = u
    BY <2>1
  <2>3. \A v \in tasks' : v.pc = "updated" => v.at = t.at \/ v \in tasks
    BY <2>2
  <2>4. \A v, w \in tasks' :
            (v.pc = "updated" /\ v \notin tasks /\ w.pc = "updated" /\ w \notin tasks) => v = w
    BY <2>2
  <2> QED BY <2>3, <2>4
<1>6. LockIsHeld'
  BY <1>2, <1>3, <1>5 DEF FinishInv, LockIsHeld
<1>7. ASSUME NEW q \in Partitions, q # t.at
      PROVE  HasValues(local, q)' <=> HasValues(local, q)
  <2>1. \A z \in Zones : local'[<<q, z>>] = local[<<q, z>>]
    BY <1>7 DEF Update, RouteInv, Places
  <2> QED BY <2>1, HasValuesSame
<1>8. FinishedExactly'
  BY <1>2, <1>4, <1>7 DEF FinishInv, FinishedExactly
<1> QED BY <1>6, <1>8 DEF FinishInv

(* The task that holds the lock finishes the component, if it is done.     *)
LEMMA FinishInvStore ==
    ASSUME RouteInv, FinishInv, NEW t \in tasks, Store(t)
    PROVE  FinishInv'
<1>1. t \in Task /\ t.at \in Partitions /\ t.pc = "updated" /\ <<t.at, t.zone>> \in Places
  BY TaskFacts DEF RouteInv, TypeOK, Store
<1>2. /\ locked' = locked \ {t.at} /\ tasks' = tasks \ {t}
      /\ UNCHANGED <<sorted, local>>
  BY DEF Store
<1>3. t.at \in locked /\ t.at \in sorted /\ finished[t.at] = 0
  BY <1>1 DEF FinishInv, LockIsHeld, FinishedExactly
<1>4. LockIsHeld'
  BY <1>1, <1>2 DEF FinishInv, LockIsHeld
<1>5. finished' = IF HasValues(local, t.at) THEN finished
                  ELSE [finished EXCEPT ![t.at] = @ + 1]
  <2> DEFINE fragment == [cells |-> t.cells, next |-> t.next, hop |-> t.hop]
             recorded == [fragments EXCEPT ![<<t.at, t.zone>>] = Append(@, fragment)]
  <2>1. fragment \in Fragment
    BY <1>1, TaskFacts DEF Fragment
  <2>2. fragments \in [Places -> Seq(Fragment)]
    BY DEF RouteInv, TypeOK
  <2> HIDE DEF fragment
  <2>3. recorded \in [Places -> Seq(Fragment)]
    BY <1>1, <2>1, <2>2
  <2>4. FinishIfDone(t.at, local, recorded)
    BY DEF Store, fragment
  <2> HIDE DEF recorded
  <2> QED BY <1>1, <2>3, <2>4, FinishFacts DEF RouteInv
<1>6. finished \in [Partitions -> Nat]
  BY DEF RouteInv, TypeOK
<1>7. \A q \in Partitions : HasValues(local, q)' <=> HasValues(local, q)
  BY <1>2, HasValuesSame
<1>8. FinishedExactly'
  BY <1>1, <1>2, <1>3, <1>5, <1>6, <1>7 DEF FinishInv, FinishedExactly
<1> QED BY <1>4, <1>8 DEF FinishInv

(* Here the lock matters: a component that is locked is not finished yet,  *)
(* by the task that holds it.                                              *)
LEMMA FinishInvSkip ==
    ASSUME Zonal, RouteInv, FinishInv, NEW x \in Places, Skip(x)
    PROVE  FinishInv'
<1> DEFINE p == x[1]
<1>1. x \in skips /\ p \in Partitions /\ p \notin locked
  BY DEF Skip, MaySkip, Places
<1>2. /\ UNCHANGED <<sorted, locked, tasks>>
      /\ local' = [local EXCEPT ![x] = <<>>]
  BY DEF Skip
<1>3. p \in sorted /\ finished[p] = 0
  BY <1>1, CalledHasValues DEF RouteInv, CallsAfterStart, FinishInv, FinishedExactly
<1>4. LockIsHeld'
  BY <1>2 DEF FinishInv, LockIsHeld
<1>5. finished' = IF HasValues(local', p) THEN finished ELSE [finished EXCEPT ![p] = @ + 1]
  <2>1. fragments \in [Places -> Seq(Fragment)] /\ FinishIfDone(p, local', fragments)
    BY DEF RouteInv, TypeOK, Skip
  <2> QED BY <1>1, <2>1, FinishFacts DEF RouteInv
<1>6. finished \in [Partitions -> Nat]
  BY DEF RouteInv, TypeOK
<1>7. ASSUME NEW q \in Partitions, q # p
      PROVE  finished'[q] = finished[q] /\ (HasValues(local, q)' <=> HasValues(local, q))
  <2>1. \A z \in Zones : local'[<<q, z>>] = local[<<q, z>>]
    BY <1>2, <1>7 DEF RouteInv, Places
  <2> QED BY <1>5, <1>6, <1>7, <2>1, HasValuesSame
<1>8. finished'[p] = IF HasValues(local, p)' THEN 0 ELSE 1
  BY <1>1, <1>3, <1>5, <1>6 DEF HasValues
<1>9. FinishedExactly'
  <2> SUFFICES ASSUME NEW q \in Partitions
               PROVE  finished'[q] = IF q \in sorted' /\ q \notin locked' /\ ~HasValues(local, q)'
                                     THEN 1 ELSE 0
    BY DEF FinishedExactly
  <2>1. CASE q = p
    BY <1>1, <1>2, <1>3, <1>8, <2>1
  <2>2. CASE q # p
    BY <1>2, <1>7, <2>2 DEF FinishInv, FinishedExactly
  <2> QED BY <2>1, <2>2
<1> QED BY <1>4, <1>9 DEF FinishInv

(* Every step preserves the invariant about the end of components.         *)
LEMMA FinishInvNext ==
    ASSUME Zonal
    PROVE  RouteInv /\ FinishInv /\ [Next]_vars => FinishInv'
<1> SUFFICES ASSUME RouteInv, FinishInv, [Next]_vars PROVE FinishInv'
  OBVIOUS
<1>same. ASSUME UNCHANGED <<sorted, local, locked, finished>>,
                \A t \in tasks' : t.pc = "updated" => t \in tasks
         PROVE  FinishInv'
  <2>1. \A p \in Partitions : HasValues(local, p)' <=> HasValues(local, p)
    BY <1>same, HasValuesSame
  <2>2. FinishedExactly'
    BY <1>same, <2>1 DEF FinishInv, FinishedExactly
  <2>3. LockIsHeld'
    BY <1>same DEF FinishInv, LockIsHeld
  <2> QED BY <2>2, <2>3 DEF FinishInv
<1>1. CASE Start
  <2>1. \A t \in tasks' : t.pc = "called"
    BY <1>1 DEF Start, Call
  <2> QED BY <1>1, <1>same, <2>1 DEF Start
<1>2. ASSUME NEW p \in Partitions, Sort(p) PROVE FinishInv'
  BY <1>2, FinishInvSort
<1>3. ASSUME NEW p \in Partitions, AskRoutePartition(p) PROVE FinishInv'
  BY <1>3, <1>same DEF AskRoutePartition
<1>4. ASSUME NEW p \in Partitions, Publish(p) PROVE FinishInv'
  BY <1>4, <1>same DEF Publish
<1>5. ASSUME NEW t \in tasks, Read(t) PROVE FinishInv'
  <2>1. t \in Task
    BY DEF RouteInv, TypeOK
  <2>2. \A n, c : [t EXCEPT !.pc = "read", !.nr = n, !.cells = c].pc = "read"
    BY <2>1 DEF Task
  <2>3. \A u \in tasks' : u.pc = "updated" => u \in tasks
    BY <1>5, <2>2 DEF Read
  <2> QED BY <1>5, <1>same, <2>3 DEF Read
<1>6. ASSUME NEW t \in tasks, Update(t) PROVE FinishInv'
  BY <1>6, FinishInvUpdate
<1>7. ASSUME NEW t \in tasks, Store(t) PROVE FinishInv'
  BY <1>7, FinishInvStore
<1>8. ASSUME NEW x \in Places, Skip(x) PROVE FinishInv'
  BY <1>8, FinishInvSkip
<1>9. CASE UNCHANGED vars
  BY <1>9, <1>same DEF vars
<1> QED
  BY <1>1, <1>2, <1>3, <1>4, <1>5, <1>6, <1>7, <1>8, <1>9 DEF Next, Step, Terminated

(* A component is not used after it has finished, nor finished again.      *)
LEMMA InvImpliesFinishIsLast == RouteInv /\ FinishInv => FinishIsLast
<1> SUFFICES ASSUME RouteInv, FinishInv, NEW p \in Partitions, finished[p] > 0
             PROVE  /\ finished[p] = 1
                    /\ \A t \in tasks : t.at # p
                    /\ \A z \in Zones : <<p, z>> \notin skips /\ local[<<p, z>>] = <<>>
  BY DEF FinishIsLast
<1>1. finished[p] = 1 /\ p \notin locked /\ ~HasValues(local, p)
  BY DEF FinishInv, FinishedExactly
<1>2. ASSUME NEW t \in tasks PROVE t.at # p
  <2>1. t.pc = "updated" \/ Active(t)
    BY TaskFacts DEF RouteInv, TypeOK, Active
  <2>2. CASE t.pc = "updated"
    BY <1>1, <2>2 DEF FinishInv, LockIsHeld
  <2>3. CASE Active(t)
    BY <1>1, <2>3, CalledHasValues
  <2> QED BY <2>1, <2>2, <2>3
<1>3. ASSUME NEW z \in Zones PROVE <<p, z>> \notin skips /\ local[<<p, z>>] = <<>>
  <2>1. local[<<p, z>>] = <<>>
    BY <1>1 DEF HasValues
  <2> QED BY <2>1 DEF RouteInv, SkipsAfterEnd
<1> QED BY <1>1, <1>2, <1>3

(* In the version with zones, each component finishes once, and not before *)
(* all calls to it that record or skip a route have ended: finish_partition*)
(* moves its members away.  The lock in skip_recording_route_fragments is  *)
(* what makes this true.                                                   *)
THEOREM FinishesOnceAndLast ==
    ASSUME Zonal
    PROVE  Spec => []FinishIsLast
<1>1. Init => RouteInv /\ FinishInv
  BY RouteInvInit, FinishInvInit
<1>2. (RouteInv /\ FinishInv) /\ [Next]_vars => (RouteInv /\ FinishInv)'
  BY RouteInvNext, FinishInvNext
<1>3. RouteInv /\ FinishInv => FinishIsLast
  BY InvImpliesFinishIsLast
<1> QED BY <1>1, <1>2, <1>3, PTL DEF Spec
-----------------------------------------------------------------------------
(***************************************************************************)
(* The history of a route: the pieces it consists of, in the order in      *)
(* which they were selected, and the cells it has visited.  A piece tells  *)
(* where it is, which cells it has, where the route went on, and after how *)
(* many cells it began.  None of this is in the state: the fragments are   *)
(* spread over the partitions, some are on their way in a task, and a      *)
(* component that has finished has moved its fragments away.  HistoryInv   *)
(* says that there is a history that explains what is where.               *)
(***************************************************************************)

(* The fragments of a place, before and after its component has finished.  *)
Stored(x) == IF finished[x[1]] = 0 THEN fragments[x] ELSE result[x]

(* The cells of a zone, and their values.                                  *)
CellsOf(z) == UNION {{p} \X CellsAt(<<p, z>>) : p \in Partitions}

ValueOf(z, c) == Value(<<c[1], z>>, c[2])

(* The pieces are parts of the route, one after the other, and each tells  *)
(* where the next one is.  At most the last one has no cells.              *)
AreChained(h, r) ==
    /\ h = <<>> => r = <<>>
    /\ \A i \in DOMAIN h :
        /\ h[i].from >= i - 1
        /\ i = 1 => h[i].from = 0
        /\ h[i].from + Len(h[i].cells) = IF i = Len(h) THEN Len(r) ELSE h[i + 1].from
        /\ h[i].from + Len(h[i].cells) <= Len(r)
        /\ i < Len(h) => h[i].next = h[i + 1].at
        /\ \A k \in DOMAIN h[i].cells : r[h[i].from + k] = <<h[i].at, h[i].cells[k]>>

(* A route visits cells from high to low, before all cells it has not      *)
(* visited.                                                                *)
InOrder(z, r) ==
    /\ \A i \in DOMAIN r : r[i] \in CellsOf(z)
    /\ \A i, j \in DOMAIN r : i < j => r[i] # r[j] /\ ValueOf(z, r[i]) >= ValueOf(z, r[j])
    /\ \A c \in CellsOf(z) \ Range(r) : \A i \in DOMAIN r : ValueOf(z, r[i]) >= ValueOf(z, c)

(* A partition has left what the route has not visited.                    *)
HoldsRest(x, r) ==
    /\ Range(local[x]) = {k \in CellsAt(x) : <<x[1], k>> \notin Range(r)}
    /\ \A i, j \in DOMAIN local[x] : i # j => local[x][i] # local[x][j]

(* A route that has not started has no pieces, and no tasks.               *)
NotStarted(z, h) ==
    started[z] = "no" =>
        /\ h = <<>> /\ start[z] = NoPartition
        /\ \A t \in tasks : t.zone # z
        /\ \A p \in sorted : HoldsRest(<<p, z>>, <<>>)

(* The task that records the next piece, wherever it is, goes on where the *)
(* history ends.                                                           *)
FollowsOn(t, h, r) ==
    LET x == <<t.at, t.zone>>
    IN  /\ \A p \in Partitions : HoldsRest(<<p, t.zone>>, r)
        /\ t.hop = Len(h) + 1
        /\ t.at = IF h = <<>> THEN start[t.zone] ELSE h[Len(h)].next
        /\ Len(r) >= Len(h)
        /\ t.nr = Len(r) + Len(t.cells)
        /\ t.pc = "called" => t.cells = <<>>
        /\ t.next = NoPartition
        /\ t.pc = "read" /\ Len(r) < MaxNrCells => t.cells # <<>>
        /\ Len(t.cells) <= Len(local[x])
        /\ \A i \in DOMAIN t.cells :
            /\ t.cells[i] = local[x][i]
            /\ Value(x, t.cells[i]) >= NextMaximum(t.maxima)

GoesOn(z, h, r) == \A t \in tasks : Active(t) /\ t.zone = z => FollowsOn(t, h, r)

(* A route that no task goes on with is complete.                          *)
HasEnded(z, h, r) ==
    started[z] # "no" /\ (\A t \in tasks : Active(t) => t.zone # z) =>
        /\ sorted = Partitions
        /\ IF h = <<>> THEN start[z] = NoPartition /\ CellsOf(z) = {}
           ELSE start[z] = h[1].at /\ h[Len(h)].next = NoPartition
        /\ Len(r) = IF Cardinality(CellsOf(z)) < MaxNrCells THEN Cardinality(CellsOf(z))
                    ELSE MaxNrCells

(* A fragment, stored or on its way, is a piece of the history.            *)
IsPiece(h, p, f) ==
    /\ f.hop \in DOMAIN h
    /\ h[f.hop].at = p /\ h[f.hop].cells = f.cells /\ h[f.hop].next = f.next

(* All pieces are stored or on their way, in the order of the history.     *)
ArePieces(z, h) ==
    /\ \A t \in tasks : t.zone = z /\ t.pc = "updated" =>
        /\ IsPiece(h, t.at, t)
        /\ \A k \in DOMAIN Stored(<<t.at, z>>) : Stored(<<t.at, z>>)[k].hop < t.hop
    /\ \A p \in Partitions : \A k \in DOMAIN Stored(<<p, z>>) :
        /\ IsPiece(h, p, Stored(<<p, z>>)[k])
        /\ \A l \in 1 .. k - 1 : Stored(<<p, z>>)[l].hop < Stored(<<p, z>>)[k].hop
    /\ \A i \in DOMAIN h :
        \/ \E t \in tasks : t.zone = z /\ t.pc = "updated" /\ t.hop = i
        \/ \E k \in DOMAIN Stored(<<h[i].at, z>>) : Stored(<<h[i].at, z>>)[k].hop = i

Piece == [at : Partitions, cells : Seq(Nat), next : Partitions \cup {NoPartition}, from : Nat]

IsHistory(z, h, r) ==
    /\ AreChained(h, r)
    /\ InOrder(z, r)
    /\ h # <<>> => h[1].at = start[z] /\ CellsOf(z) # {}
    /\ NotStarted(z, h)
    /\ GoesOn(z, h, r)
    /\ HasEnded(z, h, r)
    /\ ArePieces(z, h)

HistoryInv ==
    \A z \in Zones : \E h \in Seq(Piece), r \in Seq(Partitions \X Nat) : IsHistory(z, h, r)

(* No value is lower than what stands for the lowest value: the code uses  *)
(* numeric_limits::min(), which is that for integers only.                 *)
NoLowerValue ==
    \A v \in Inputs : \A x \in Places : \A k \in DOMAIN v[x] : v[x][k] >= MinValue

-----------------------------------------------------------------------------
(* The parts of a piece.                                                   *)
LEMMA PieceFacts ==
    ASSUME NEW h \in Seq(Piece)
    PROVE  /\ Len(h) \in Nat
           /\ DOMAIN h = 1 .. Len(h)
           /\ h # <<>> <=> Len(h) \in DOMAIN h
           /\ h # <<>> <=> 1 \in DOMAIN h
           /\ \A i \in DOMAIN h :
                /\ h[i] \in Piece
                /\ h[i].at \in Partitions
                /\ h[i].cells \in Seq(Nat)
                /\ Len(h[i].cells) \in Nat
                /\ DOMAIN h[i].cells = 1 .. Len(h[i].cells)
                /\ h[i].next \in Partitions \cup {NoPartition}
                /\ h[i].from \in Nat
<1>1. Len(h) \in Nat /\ DOMAIN h = 1 .. Len(h) /\ \A i \in DOMAIN h : h[i] \in Piece
  BY LenProperties
<1>2. h # <<>> <=> Len(h) # 0
  BY EmptySeq
<1>3. ASSUME NEW i \in DOMAIN h
      PROVE  Len(h[i].cells) \in Nat /\ DOMAIN h[i].cells = 1 .. Len(h[i].cells)
  <2>1. h[i].cells \in Seq(Nat)
    BY <1>1 DEF Piece
  <2> QED BY <2>1, LenProperties
<1> QED BY <1>1, <1>2, <1>3 DEF Piece

(* What is stored at a place when a component finishes, or not.            *)
LEMMA StoredFacts ==
    ASSUME TypeOK, NEW p \in Partitions, NEW cells,
           NEW recorded \in [Places -> Seq(Fragment)], FinishIfDone(p, cells, recorded),
           finished[p] = 0, \A x \in Places : x[1] # p => recorded[x] = fragments[x]
    PROVE  \A x \in Places : Stored(x)' = IF x[1] = p THEN recorded[x] ELSE Stored(x)
<1>0. finished \in [Partitions -> Nat]
  BY DEF TypeOK
<1>1. CASE HasValues(cells, p)
  <2>1. fragments' = recorded /\ finished' = finished /\ result' = result
    BY <1>1 DEF FinishIfDone
  <2> QED BY <2>1 DEF Stored
<1>2. CASE ~HasValues(cells, p)
  <2>1. Finish(p, recorded)
    BY <1>2 DEF FinishIfDone
  <2>2. /\ finished' = [finished EXCEPT ![p] = @ + 1]
        /\ \A x \in Places : result'[x] = IF x[1] = p THEN recorded[x] ELSE result[x]
        /\ \A x \in Places : fragments'[x] = IF x[1] = p THEN <<>> ELSE recorded[x]
    BY <2>1 DEF Finish
  <2>3. finished'[p] # 0 /\ \A q \in Partitions : q # p => finished'[q] = finished[q]
    BY <1>0, <2>2
  <2> QED BY <2>2, <2>3 DEF Stored, Places
<1> QED BY <1>1, <1>2

(* The history of a zone depends on what belongs to the zone.              *)
LEMMA HistorySame ==
    ASSUME NEW z \in Zones, NEW h \in Seq(Piece), NEW r, IsHistory(z, h, r),
           TypeOK,
           values' = values, sorted' = sorted,
           started'[z] = started[z], start'[z] = start[z],
           \A p \in Partitions : local'[<<p, z>>] = local[<<p, z>>],
           \A p \in Partitions : Stored(<<p, z>>)' = Stored(<<p, z>>),
           \A t : t.zone = z => (t \in tasks' <=> t \in tasks)
    PROVE  IsHistory(z, h, r)'
<1>1. CellsOf(z)' = CellsOf(z)
  BY DEF CellsOf, CellsAt
<1>2. InOrder(z, r)'
  BY <1>1 DEF IsHistory, InOrder, ValueOf, Value
<1>3. \A s : \A p \in Partitions : HoldsRest(<<p, z>>, s)' <=> HoldsRest(<<p, z>>, s)
  BY DEF HoldsRest, CellsAt
<1>4. NotStarted(z, h)'
  <2>1. sorted \subseteq Partitions
    BY DEF TypeOK
  <2> QED BY <1>3, <2>1 DEF IsHistory, NotStarted
<1>5. GoesOn(z, h, r)'
  <2> SUFFICES ASSUME NEW t \in tasks', Active(t), t.zone = z
               PROVE  FollowsOn(t, h, r)'
    BY DEF GoesOn, Active
  <2>1. t \in tasks /\ t.at \in Partitions
    BY TaskFacts DEF TypeOK
  <2>2. FollowsOn(t, h, r)
    BY <2>1 DEF IsHistory, GoesOn
  <2> QED BY <1>3, <2>1, <2>2 DEF FollowsOn, Value
<1>6. HasEnded(z, h, r)'
  BY <1>1 DEF IsHistory, HasEnded, Active
<1>7. ArePieces(z, h)'
  <2>1. \A i \in DOMAIN h : h[i].at \in Partitions
    BY PieceFacts
  <2>2. \A t \in tasks' : t.zone = z => t \in tasks /\ t.at \in Partitions
    BY TaskFacts DEF TypeOK
  <2>3. ASSUME NEW t \in tasks', t.zone = z, t.pc = "updated"
        PROVE  /\ IsPiece(h, t.at, t)
               /\ \A k \in DOMAIN Stored(<<t.at, z>>)' : Stored(<<t.at, z>>)'[k].hop < t.hop
    BY <2>2, <2>3 DEF IsHistory, ArePieces
  <2>4. ASSUME NEW p \in Partitions, NEW k \in DOMAIN Stored(<<p, z>>)'
        PROVE  /\ IsPiece(h, p, Stored(<<p, z>>)'[k])
               /\ \A l \in 1 .. k - 1 : Stored(<<p, z>>)'[l].hop < Stored(<<p, z>>)'[k].hop
    BY <2>4 DEF IsHistory, ArePieces
  <2>5. ASSUME NEW i \in DOMAIN h
        PROVE  \/ \E t \in tasks' : t.zone = z /\ t.pc = "updated" /\ t.hop = i
               \/ \E k \in DOMAIN Stored(<<h[i].at, z>>)' : Stored(<<h[i].at, z>>)'[k].hop = i
    <3>1. Stored(<<h[i].at, z>>)' = Stored(<<h[i].at, z>>)
      BY <2>1
    <3>2. \/ \E t \in tasks : t.zone = z /\ t.pc = "updated" /\ t.hop = i
          \/ \E k \in DOMAIN Stored(<<h[i].at, z>>) : Stored(<<h[i].at, z>>)[k].hop = i
      BY DEF IsHistory, ArePieces
    <3> QED BY <3>1, <3>2
  <2> QED BY <2>3, <2>4, <2>5 DEF ArePieces
<1> QED BY <1>1, <1>2, <1>4, <1>5, <1>6, <1>7 DEF IsHistory

-----------------------------------------------------------------------------
(* A route that started did so after all values were sorted.               *)
LEMMA StartedIsSorted ==
    ASSUME RouteInv, NEW z \in Zones, NEW h, NEW r, HasEnded(z, h, r), started[z] # "no"
    PROVE  sorted = Partitions
<1>1. CASE \A t \in tasks : Active(t) => t.zone # z
  BY <1>1 DEF HasEnded
<1>2. CASE \E t \in tasks : t.zone = z
  BY <1>2 DEF RouteInv, CallsAfterStart
<1> QED BY <1>1, <1>2

(* Nothing was recorded by a route that has not started.                   *)
LEMMA HistoryIsEmpty ==
    ASSUME NEW z \in Zones, NEW h \in Seq(Piece), NEW r \in Seq(Partitions \X Nat),
           IsHistory(z, h, r), started[z] = "no"
    PROVE  h = <<>> /\ r = <<>> /\ start[z] = NoPartition
BY DEF IsHistory, NotStarted, AreChained

(* Nothing has been recorded at first.                                     *)
LEMMA HistoryInvInit == Init => HistoryInv
<1> SUFFICES ASSUME Init, NEW z \in Zones
             PROVE  \E h \in Seq(Piece), r \in Seq(Partitions \X Nat) : IsHistory(z, h, r)
  BY DEF HistoryInv
<1>1. <<>> \in Seq(Piece) /\ <<>> \in Seq(Partitions \X Nat) /\ DOMAIN <<>> = {}
  OBVIOUS
<1>2. tasks = {} /\ sorted = {} /\ started[z] = "no" /\ start[z] = NoPartition
  BY DEF Init
<1>3. \A p \in Partitions : Stored(<<p, z>>) = <<>>
  BY DEF Init, Stored, Places
<1>4. IsHistory(z, <<>>, <<>>)
  <2>1. AreChained(<<>>, <<>>) /\ InOrder(z, <<>>)
    BY <1>1 DEF AreChained, InOrder
  <2>2. NotStarted(z, <<>>) /\ GoesOn(z, <<>>, <<>>) /\ HasEnded(z, <<>>, <<>>)
    BY <1>2 DEF NotStarted, GoesOn, HasEnded
  <2>3. ArePieces(z, <<>>)
    BY <1>1, <1>2, <1>3 DEF ArePieces
  <2> QED BY <2>1, <2>2, <2>3 DEF IsHistory
<1> QED BY <1>1, <1>4

(* The steps that record nothing.                                          *)
LEMMA HistoryInvSame ==
    ASSUME RouteInv, HistoryInv,
           UNCHANGED <<values, sorted, local, started, start, tasks, fragments, result, finished>>
    PROVE  HistoryInv'
<1> SUFFICES ASSUME NEW z \in Zones
             PROVE  \E h \in Seq(Piece), r \in Seq(Partitions \X Nat) : IsHistory(z, h, r)'
  BY DEF HistoryInv
<1>1. PICK h \in Seq(Piece), r \in Seq(Partitions \X Nat) : IsHistory(z, h, r)
  BY DEF HistoryInv
<1>2. \A p \in Partitions : Stored(<<p, z>>)' = Stored(<<p, z>>)
  BY DEF Stored
<1>3. IsHistory(z, h, r)'
  BY <1>1, <1>2, HistorySame DEF RouteInv
<1> QED BY <1>3

(* Sorting the values of a partition.                                      *)
LEMMA HistoryInvSort ==
    ASSUME RouteInv, FinishInv, HistoryInv, NEW p \in Partitions, Sort(p)
    PROVE  HistoryInv'
<1> DEFINE orders == [z \in Zones |-> Arrangements(CellsAt(<<p, z>>), values[<<p, z>>])]
<1>1. tasks = {} /\ tasks' = {} /\ sorted # Partitions /\ finished[p] = 0
  BY DEF RouteInv, CallsAfterStart, Sort, FinishInv, FinishedExactly
<1>2. PICK order \in OnePerZone(orders) :
        local' = [x \in Places |-> IF x[1] = p THEN order[x[2]] ELSE local[x]]
  BY DEF Sort
<1>3. UNCHANGED <<values, started, start>> /\ sorted' = sorted \cup {p} /\ sorted \subseteq Partitions
  BY DEF Sort, RouteInv, TypeOK
<1>4. \A x \in Places : Stored(x)' = Stored(x)
  <2>1. fragments \in [Places -> Seq(Fragment)] /\ FinishIfDone(p, local', fragments) /\ TypeOK
    BY DEF RouteInv, TypeOK, Sort
  <2>2. \A x \in Places : Stored(x)' = IF x[1] = p THEN fragments[x] ELSE Stored(x)
    BY <1>1, <2>1, StoredFacts
  <2>3. \A x \in Places : x[1] = p => Stored(x) = fragments[x]
    BY <1>1 DEF Stored
  <2> QED BY <2>2, <2>3
<1> SUFFICES ASSUME NEW z \in Zones
             PROVE  \E h \in Seq(Piece), r \in Seq(Partitions \X Nat) : IsHistory(z, h, r)'
  BY DEF HistoryInv
<1>5. PICK h \in Seq(Piece), r \in Seq(Partitions \X Nat) : IsHistory(z, h, r)
  BY DEF HistoryInv
<1>6. started[z] = "no"
  BY <1>1, <1>5, StartedIsSorted DEF IsHistory
<1>7. h = <<>> /\ r = <<>> /\ start[z] = NoPartition
  BY <1>5, <1>6, HistoryIsEmpty
<1>8. ASSUME NEW q \in sorted' PROVE HoldsRest(<<q, z>>, <<>>)'
  <2>0. <<q, z>> \in Places /\ DOMAIN <<>> = {}
    BY <1>3 DEF Places
  <2>1. CASE q = p
    <3>1. order[z] \in Arrangements(CellsAt(<<p, z>>), values[<<p, z>>])
      BY <1>2 DEF OnePerZone
    <3>2. IsFiniteSet(CellsAt(<<p, z>>))
      BY <2>0, <2>1, CellFacts DEF RouteInv
    <3>3. /\ Range(order[z]) = CellsAt(<<p, z>>)
          /\ \A i, j \in DOMAIN order[z] : i # j => order[z][i] # order[z][j]
      BY <3>1, <3>2, ArrangementFacts
    <3>4. local'[<<q, z>>] = order[z]
      BY <1>2, <2>0, <2>1
    <3> QED BY <1>3, <2>0, <2>1, <3>3, <3>4 DEF HoldsRest, CellsAt, Range
  <2>2. CASE q # p
    <3>1. local'[<<q, z>>] = local[<<q, z>>] /\ q \in sorted
      BY <1>2, <1>3, <2>0, <2>2
    <3>2. HoldsRest(<<q, z>>, <<>>)
      BY <1>5, <1>6, <3>1 DEF IsHistory, NotStarted
    <3> QED BY <1>3, <3>1, <3>2 DEF HoldsRest, CellsAt
  <2> QED BY <2>1, <2>2
<1>9. NotStarted(z, h)'
  BY <1>1, <1>3, <1>7, <1>8 DEF NotStarted
<1>10. InOrder(z, r)' /\ GoesOn(z, h, r)' /\ HasEnded(z, h, r)'
  BY <1>1, <1>3, <1>6, <1>7 DEF InOrder, GoesOn, HasEnded
<1>11. ArePieces(z, h)'
  <2>1. \A q \in Partitions : Stored(<<q, z>>)' = Stored(<<q, z>>)
    BY <1>4 DEF Places
  <2> QED BY <1>1, <1>5, <1>7, <2>1 DEF IsHistory, ArePieces
<1>12. IsHistory(z, h, r)'
  BY <1>5, <1>7, <1>9, <1>10, <1>11 DEF IsHistory
<1> QED BY <1>12

(* The routes start where the highest values are.                          *)
LEMMA HistoryInvStart ==
    ASSUME RouteInv, HistoryInv, Start
    PROVE  HistoryInv'
<1> DEFINE orders == [z \in Zones |-> Arrangements(Maxima(z), [m \in Maxima(z) |-> m.value])]
           nonempty == {z \in Zones : Maxima(z) # {}}
<1>1. PICK order \in OnePerZone(orders) :
        /\ tasks' = {Call(z, order[z][1].at, order[z], 0, 1) : z \in nonempty}
        /\ start' = [z \in Zones |-> IF z \in nonempty THEN order[z][1].at ELSE NoPartition]
  BY DEF Start
<1> SUFFICES ASSUME NEW z \in Zones
             PROVE  \E h \in Seq(Piece), r \in Seq(Partitions \X Nat) : IsHistory(z, h, r)'
  BY DEF HistoryInv
<1>2. PICK h \in Seq(Piece), r \in Seq(Partitions \X Nat) : IsHistory(z, h, r)
  BY DEF HistoryInv
<1>3. /\ sorted = Partitions /\ started[z] = "no" /\ started'[z] # "no"
      /\ UNCHANGED <<values, sorted, local, fragments, result, finished>>
  BY DEF Start
<1>4. h = <<>> /\ r = <<>> /\ start[z] = NoPartition
  BY <1>2, <1>3, HistoryIsEmpty
<1>5. \A p \in Partitions : HoldsRest(<<p, z>>, <<>>) /\ HoldsRest(<<p, z>>, <<>>)'
  BY <1>2, <1>3 DEF IsHistory, NotStarted, HoldsRest, CellsAt
<1>6. ASSUME NEW t \in tasks', t.zone = z
      PROVE  /\ z \in nonempty
             /\ t = Call(z, order[z][1].at, order[z], 0, 1)
  BY <1>1, <1>6 DEF Call
<1>7. z \in nonempty => \E t \in tasks' : Active(t) /\ t.zone = z
  <2> DEFINE first == Call(z, order[z][1].at, order[z], 0, 1)
  <2>1. z \in nonempty => first \in tasks'
    BY <1>1
  <2>2. Active(first) /\ first.zone = z
    BY DEF Call, Active
  <2> HIDE DEF first, nonempty
  <2> QED BY <2>1, <2>2
<1> HIDE DEF nonempty, orders
<1>8. GoesOn(z, h, r)'
  <2> SUFFICES ASSUME NEW t \in tasks', t.zone = z PROVE FollowsOn(t, h, r)'
    BY DEF GoesOn, Active
  <2>1. /\ t.at = order[z][1].at /\ t.nr = 0 /\ t.hop = 1 /\ t.cells = <<>> /\ t.pc = "called"
        /\ t.next = NoPartition /\ start'[z] = t.at
    BY <1>1, <1>6 DEF Call
  <2>2. t.at \in Partitions
    <3>1. tasks' \subseteq Task
      BY RouteInvStart DEF RouteInv, TypeOK
    <3> QED BY <3>1, TaskFacts
  <2>3. Len(local[<<t.at, z>>]) \in Nat
    BY <2>2, CellFacts DEF RouteInv, Places
  <2>4. Len(<<>>) = 0 /\ DOMAIN <<>> = {}
    OBVIOUS
  <2> QED BY <1>3, <1>4, <1>5, <2>1, <2>3, <2>4 DEF FollowsOn
<1>9. HasEnded(z, h, r)'
  <2> SUFFICES ASSUME z \notin nonempty
               PROVE  /\ start'[z] = NoPartition
                      /\ CellsOf(z)' = {}
                      /\ Len(r) = IF Cardinality(CellsOf(z))' < MaxNrCells
                                  THEN Cardinality(CellsOf(z))' ELSE MaxNrCells
    BY <1>3, <1>4, <1>7 DEF HasEnded, Active
  <2>1. \A p \in Partitions : local[<<p, z>>] = <<>>
    BY MaximaFacts DEF nonempty, RouteInv
  <2>2. \A p \in Partitions : CellsAt(<<p, z>>) = {}
    <3>1. Range(<<>>) = {} /\ \A c : c \notin Range(<<>>)
      BY DEF Range
    <3> QED BY <1>5, <2>1, <3>1 DEF HoldsRest
  <2>3. CellsOf(z)' = {}
    BY <1>3, <2>2 DEF CellsOf, CellsAt
  <2>4. Cardinality({}) = 0 /\ MaxNrCells \in Nat
    BY FS_EmptySet, InputsAssumption
  <2> QED BY <1>1, <1>4, <2>3, <2>4
<1>10. InOrder(z, r)' /\ NotStarted(z, h)'
  BY <1>3, <1>4 DEF InOrder, NotStarted
<1>11. ArePieces(z, h)'
  <2>1. \A t \in tasks' : t.zone = z => t.pc # "updated"
    BY <1>6 DEF Call
  <2>2. \A q \in Partitions : Stored(<<q, z>>)' = Stored(<<q, z>>)
    BY <1>3 DEF Stored
  <2> QED BY <1>2, <1>4, <2>1, <2>2 DEF IsHistory, ArePieces
<1>12. IsHistory(z, h, r)'
  BY <1>2, <1>4, <1>8, <1>9, <1>10, <1>11 DEF IsHistory
<1> QED BY <1>12

(* Skipping a route that has ended.                                        *)
LEMMA HistoryInvSkip ==
    ASSUME RouteInv, FinishInv, HistoryInv, NEW x \in Places, Skip(x)
    PROVE  HistoryInv'
<1>1. /\ x \in skips /\ x[1] \in Partitions /\ x[2] \in Zones /\ x = <<x[1], x[2]>>
      /\ UNCHANGED <<values, sorted, started, start, tasks>>
      /\ local' = [local EXCEPT ![x] = <<>>]
  BY DEF Skip, Places
<1>2. finished[x[1]] = 0
  BY <1>1, CalledHasValues DEF FinishInv, FinishedExactly
<1>3. \A y \in Places : Stored(y)' = Stored(y)
  <2>1. fragments \in [Places -> Seq(Fragment)] /\ FinishIfDone(x[1], local', fragments) /\ TypeOK
    BY DEF RouteInv, TypeOK, Skip
  <2>2. \A y \in Places : Stored(y)' = IF y[1] = x[1] THEN fragments[y] ELSE Stored(y)
    BY <1>1, <1>2, <2>1, StoredFacts
  <2>3. \A y \in Places : y[1] = x[1] => Stored(y) = fragments[y]
    BY <1>2 DEF Stored
  <2> QED BY <2>2, <2>3
<1> SUFFICES ASSUME NEW z \in Zones
             PROVE  \E h \in Seq(Piece), r \in Seq(Partitions \X Nat) : IsHistory(z, h, r)'
  BY DEF HistoryInv
<1>4. PICK h \in Seq(Piece), r \in Seq(Partitions \X Nat) : IsHistory(z, h, r)
  BY DEF HistoryInv
<1>5. \A p \in Partitions : Stored(<<p, z>>)' = Stored(<<p, z>>)
  BY <1>3 DEF Places
<1>6. CASE z # x[2]
  <2>1. \A p \in Partitions : local'[<<p, z>>] = local[<<p, z>>]
    BY <1>1, <1>6 DEF RouteInv, Places
  <2>2. IsHistory(z, h, r)'
    BY <1>1, <1>4, <1>5, <2>1, HistorySame DEF RouteInv
  <2> QED BY <2>2
<1>7. CASE z = x[2]
  <2>1. /\ started[z] # "no"
        /\ \A t \in tasks : Active(t) => t.zone # z
    BY <1>1, <1>7 DEF RouteInv, CallsAfterStart, SkipsAfterEnd
  <2>2. CellsOf(z)' = CellsOf(z)
    BY <1>1 DEF CellsOf, CellsAt
  <2>3. InOrder(z, r)'
    BY <1>1, <1>4, <2>2 DEF IsHistory, InOrder, ValueOf, Value
  <2>4. NotStarted(z, h)' /\ GoesOn(z, h, r)'
    BY <1>1, <2>1 DEF NotStarted, GoesOn, Active
  <2>5. HasEnded(z, h, r)'
    BY <1>1, <1>4, <2>2 DEF IsHistory, HasEnded, Active
  <2>6. ArePieces(z, h)'
    <3>1. \A i \in DOMAIN h : h[i].at \in Partitions
      BY PieceFacts
    <3>2. \A t \in tasks : t.at \in Partitions
      BY TaskFacts DEF RouteInv, TypeOK
    <3> QED BY <1>1, <1>4, <1>5, <3>1, <3>2 DEF IsHistory, ArePieces
  <2>7. IsHistory(z, h, r)'
    BY <1>1, <1>4, <2>2, <2>3, <2>4, <2>5, <2>6 DEF IsHistory
  <2> QED BY <2>7
<1> QED BY <1>6, <1>7

-----------------------------------------------------------------------------
(* The next maximum is between what the partition that is called has and   *)
(* what the other partitions have.                                         *)
LEMMA NextMaximumFacts ==
    ASSUME RouteInv, NoLowerValue, NEW t \in tasks, Active(t)
    PROVE  /\ NextMaximum(t.maxima) \in Int
           /\ local[<<t.at, t.zone>>] # <<>>
           /\ Value(<<t.at, t.zone>>, local[<<t.at, t.zone>>][1]) >= NextMaximum(t.maxima)
           /\ \A p \in Partitions :
                p # t.at /\ local[<<p, t.zone>>] # <<>> =>
                    /\ Tail(t.maxima) # <<>>
                    /\ NextMaximum(t.maxima) >= Value(<<p, t.zone>>, local[<<p, t.zone>>][1])
<1> DEFINE z == t.zone
           x == <<t.at, z>>
           s == t.maxima
<1>1. t \in Task /\ z \in Zones /\ t.at \in Partitions /\ x \in Places /\ s \in Seq(MaximumRecord)
  BY TaskFacts DEF RouteInv, TypeOK
<1>2. s # <<>> /\ t.at = s[1].at /\ AreOrdered(s) /\ Range(s) = Maxima(z)
  BY DEF RouteInv, MaximaAreExact, AreOrdered, Active
<1>3. /\ Len(s) \in Nat /\ DOMAIN s = 1 .. Len(s) /\ 1 \in DOMAIN s
      /\ \A i \in DOMAIN s : s[i] \in MaximumRecord /\ s[i] \in Maxima(z) /\ s[i].value \in Int
  <2>1. Len(s) \in Nat /\ DOMAIN s = 1 .. Len(s) /\ \A i \in DOMAIN s : s[i] \in MaximumRecord
    BY <1>1, LenProperties
  <2>2. Len(s) # 0
    BY <1>1, <1>2, EmptySeq
  <2> QED BY <1>2, <2>1, <2>2 DEF Range, MaximumRecord
<1>4. /\ \A m \in Maxima(z) : /\ local[<<m.at, z>>] # <<>>
                              /\ m.value = Value(<<m.at, z>>, local[<<m.at, z>>][1])
      /\ \A p \in Partitions : local[<<p, z>>] # <<>> => Maximum(local, <<p, z>>) \in Maxima(z)
  BY <1>1, MaximaFacts DEF RouteInv
<1>5. local[x] # <<>> /\ s[1].value = Value(x, local[x][1])
  BY <1>2, <1>3, <1>4
<1>6. MinValue \in Int
  BY InputsAssumption
<1>7. Value(x, local[x][1]) >= MinValue
  <2>1. local[x] \in Seq(CellsAt(x)) /\ 1 \in DOMAIN local[x]
    BY <1>1, <1>5, CellFacts DEF RouteInv
  <2>2. local[x][1] \in CellsAt(x)
    BY <2>1, LenProperties
  <2> QED BY <1>1, <2>2 DEF NoLowerValue, RouteInv, TypeOK, CellsAt, Value
<1> HIDE DEF z, x, s
<1>8. NextMaximum(s) = IF Len(s) > 1 THEN s[2].value ELSE MinValue
  BY DEF NextMaximum
<1>9. NextMaximum(s) \in Int /\ s[1].value >= NextMaximum(s)
  <2>1. CASE Len(s) > 1
    <3>1. 2 \in DOMAIN s /\ 1 \in DOMAIN s
      BY <1>3, <2>1
    <3>2. s[1].value >= s[2].value
      BY <1>2, <3>1 DEF AreOrdered
    <3> QED BY <1>3, <1>8, <2>1, <3>1, <3>2
  <2>2. CASE ~(Len(s) > 1)
    BY <1>5, <1>6, <1>7, <1>8, <2>2
  <2> QED BY <2>1, <2>2
<1>10. ASSUME NEW p \in Partitions, p # t.at, local[<<p, z>>] # <<>>
       PROVE  Tail(s) # <<>> /\ NextMaximum(s) >= Value(<<p, z>>, local[<<p, z>>][1])
  <2>1. PICK i \in DOMAIN s : s[i] = Maximum(local, <<p, z>>)
    BY <1>2, <1>4, <1>10 DEF Range
  <2>2. s[i].at = p /\ s[i].value = Value(<<p, z>>, local[<<p, z>>][1])
    BY <2>1 DEF Maximum
  <2>3. i # 1
    BY <1>2, <1>10, <2>2
  <2>4. i \in Int /\ i > 1 /\ Len(s) > 1 /\ 2 \in DOMAIN s
    BY <1>3, <2>3
  <2>5. s[2].value >= s[i].value
    <3>1. CASE i = 2
      BY <1>3, <2>4, <3>1
    <3>2. CASE i # 2
      <4>1. 2 < i
        BY <2>4, <3>2
      <4> QED BY <1>2, <2>4, <4>1 DEF AreOrdered
    <3> QED BY <3>1, <3>2
  <2>6. Tail(s) # <<>>
    <3>1. s \in Seq(MaximumRecord)
      BY <1>1
    <3>2. Len(Tail(s)) = Len(s) - 1
      BY <1>2, <3>1, HeadTailProperties
    <3>3. Len(Tail(s)) # 0 /\ Len(<<>>) = 0
      BY <1>3, <2>4, <3>2
    <3> QED BY <3>3
  <2> QED BY <1>8, <2>2, <2>4, <2>5, <2>6
<1> QED BY <1>5, <1>9, <1>10 DEF z, x, s

(* The first cells of a place.                                             *)
LEMMA PrefixFacts ==
    ASSUME NEW S, NEW s \in Seq(S), NEW k \in 0 .. Len(s)
    PROVE  /\ SubSeq(s, 1, k) \in Seq(S)
           /\ Len(SubSeq(s, 1, k)) = k
           /\ DOMAIN SubSeq(s, 1, k) = 1 .. k
           /\ \A i \in 1 .. k : SubSeq(s, 1, k)[i] = s[i]
<1>1. Len(s) \in Nat /\ \A i \in 1 .. Len(s) : s[i] \in S
  BY LenProperties, ElementOfSeq
<1>2. 1 \in Int /\ k \in Int /\ \A i \in 1 .. k : s[i] \in S
  BY <1>1
<1>3. /\ SubSeq(s, 1, k) \in Seq(S)
      /\ Len(SubSeq(s, 1, k)) = IF 1 <= k THEN k - 1 + 1 ELSE 0
      /\ \A i \in 1 .. k - 1 + 1 : SubSeq(s, 1, k)[i] = s[1 + i - 1]
  BY <1>2, SubSeqProperties
<1>4. Len(SubSeq(s, 1, k)) = k
  BY <1>1, <1>3
<1>5. DOMAIN SubSeq(s, 1, k) = 1 .. k
  BY <1>3, <1>4, LenProperties
<1>6. \A i \in 1 .. k : SubSeq(s, 1, k)[i] = s[i]
  BY <1>1, <1>3
<1> QED BY <1>3, <1>4, <1>5, <1>6

(* Selecting cells.                                                        *)
LEMMA HistoryInvRead ==
    ASSUME RouteInv, NoLowerValue, HistoryInv, NEW t \in tasks, Read(t)
    PROVE  HistoryInv'
<1> DEFINE x == <<t.at, t.zone>>
           nr == NrToRecord(x, local[x], t.maxima, t.nr)
           selected == [t EXCEPT !.pc = "read", !.nr = @ + nr, !.cells = SubSeq(local[x], 1, nr)]
<1>1. /\ t \in Task /\ t.pc = "called" /\ x \in Places /\ t.zone \in Zones /\ t.at \in Partitions
      /\ t.nr \in Nat
  BY TaskFacts, InputsAssumption DEF RouteInv, TypeOK, Read
<1>2. Active(t)
  BY <1>1 DEF Active
<1>3. /\ nr \in 0 .. Len(local[x])
      /\ \A i \in 1 .. nr : Value(x, local[x][i]) >= NextMaximum(t.maxima)
      /\ (/\ t.nr < MaxNrCells /\ local[x] # <<>>
          /\ Value(x, local[x][1]) >= NextMaximum(t.maxima)) => nr > 0
  BY <1>1, NrToRecordFacts DEF RouteInv
<1>4. t.nr < MaxNrCells => nr > 0
  BY <1>2, <1>3, NextMaximumFacts
<1>6. /\ UNCHANGED <<values, sorted, local, started, start, fragments, result, finished>>
      /\ \A y : Stored(y)' = Stored(y)
  BY DEF Read, Stored
<1> HIDE DEF nr
<1>5. PICK u : u = selected
  OBVIOUS
<1>7. /\ tasks' = (tasks \ {t}) \cup {u}
      /\ u.pc = "read" /\ u.zone = t.zone /\ u.at = t.at /\ u.maxima = t.maxima
      /\ u.nr = t.nr + nr /\ u.cells = SubSeq(local[x], 1, nr)
      /\ u.next = t.next /\ u.hop = t.hop
  BY <1>1, <1>5 DEF Task, Read, nr
<1> HIDE DEF selected
<1>8. \A v \in tasks : Active(v) /\ v.zone = t.zone => v = t
  BY <1>2 DEF RouteInv, OneActive
<1> SUFFICES ASSUME NEW z \in Zones
             PROVE  \E h \in Seq(Piece), r \in Seq(Partitions \X Nat) : IsHistory(z, h, r)'
  BY DEF HistoryInv
<1>9. PICK h \in Seq(Piece), r \in Seq(Partitions \X Nat) : IsHistory(z, h, r)
  BY DEF HistoryInv
<1>10. CASE z # t.zone
  <2>1. \A v : v.zone = z => (v \in tasks' <=> v \in tasks)
    BY <1>7, <1>10
  <2>2. IsHistory(z, h, r)'
    BY <1>6, <1>9, <2>1, HistorySame DEF RouteInv
  <2> QED BY <2>2
<1>11. CASE z = t.zone
  <2>1. FollowsOn(t, h, r)
    BY <1>2, <1>9, <1>11 DEF IsHistory, GoesOn
  <2>2. /\ local[x] \in Seq(Nat) /\ Len(r) \in Nat
    BY <1>1, LenProperties DEF RouteInv
  <2>3. Len(u.cells) = nr /\ DOMAIN u.cells = 1 .. nr /\ \A i \in 1 .. nr : u.cells[i] = local[x][i]
    BY <1>3, <1>7, <2>2, PrefixFacts
  <2>4. FollowsOn(u, h, r)'
    <3>1. t.nr = Len(r) /\ u.nr = Len(r) + Len(u.cells)
      <4>1. t.cells = <<>> /\ Len(<<>>) = 0 /\ t.nr = Len(r) + Len(t.cells)
        BY <1>1, <2>1 DEF FollowsOn
      <4>2. nr \in Nat
        BY <1>3
      <4> QED BY <1>1, <1>7, <2>2, <2>3, <4>1, <4>2
    <3>2. Len(r) < MaxNrCells => u.cells # <<>>
      <4>1. ASSUME Len(r) < MaxNrCells PROVE Len(u.cells) # Len(<<>>)
        BY <1>4, <2>3, <3>1, <4>1
      <4> QED BY <4>1
    <3>3. \A p \in Partitions : HoldsRest(<<p, z>>, r)'
      BY <1>6, <1>11, <2>1 DEF FollowsOn, HoldsRest, CellsAt
    <3>4. nr <= Len(local[x])
      BY <1>3
    <3>5. \A i \in 1 .. nr : Value(x, u.cells[i]) >= NextMaximum(t.maxima)
      BY <1>3, <2>3
    <3>6. /\ u.hop = Len(h) + 1 /\ u.next = NoPartition /\ Len(r) >= Len(h)
          /\ u.at = IF h = <<>> THEN start'[u.zone] ELSE h[Len(h)].next
      BY <1>6, <1>7, <2>1 DEF FollowsOn
    <3>7. <<u.at, u.zone>> = x /\ u.zone = z
      BY <1>7, <1>11
    <3>8. \A i \in DOMAIN u.cells :
            u.cells[i] = local'[x][i] /\ Value(x, u.cells[i])' >= NextMaximum(u.maxima)
      BY <1>6, <1>7, <2>3, <3>5 DEF Value
    <3>9. Len(u.cells) <= Len(local'[x])
      BY <1>6, <2>3, <3>4
    <3> HIDE DEF x
    <3> QED BY <1>7, <3>1, <3>2, <3>3, <3>6, <3>7, <3>8, <3>9 DEF FollowsOn
  <2>5. GoesOn(z, h, r)'
    <3>1. ASSUME NEW v \in tasks', Active(v), v.zone = z PROVE v = u
      BY <1>7, <1>8, <1>11, <3>1
    <3> QED BY <2>4, <3>1 DEF GoesOn, Active
  <2>6. HasEnded(z, h, r)' /\ NotStarted(z, h)'
    <3>1. started[z] # "no"
      BY <1>11 DEF RouteInv, CallsAfterStart
    <3> QED BY <1>6, <1>7, <1>11, <3>1 DEF HasEnded, NotStarted, Active
  <2>7. InOrder(z, r)'
    BY <1>6, <1>9 DEF IsHistory, InOrder, ValueOf, Value, CellsOf, CellsAt
  <2>8. ArePieces(z, h)'
    <3>1. \A v \in tasks' : v.pc = "updated" => v \in tasks
      BY <1>7
    <3>2. \A v \in tasks : v.pc = "updated" => v \in tasks'
      BY <1>1, <1>7
    <3> QED BY <1>6, <1>9, <3>1, <3>2 DEF IsHistory, ArePieces
  <2>10. CellsOf(z)' = CellsOf(z)
    BY <1>6 DEF CellsOf, CellsAt
  <2>9. IsHistory(z, h, r)'
    BY <1>6, <1>9, <2>10, <2>5, <2>6, <2>7, <2>8 DEF IsHistory
  <2> QED BY <2>9
<1> QED BY <1>10, <1>11

(* Storing the fragment that was selected.                                 *)
LEMMA HistoryInvStore ==
    ASSUME RouteInv, FinishInv, HistoryInv, NEW t \in tasks, Store(t)
    PROVE  HistoryInv'
<1> DEFINE x == <<t.at, t.zone>>
<1>1. /\ t \in Task /\ t.pc = "updated" /\ x \in Places /\ t.zone \in Zones /\ t.at \in Partitions
  BY TaskFacts DEF RouteInv, TypeOK, Store
<1>2. finished[t.at] = 0
  BY <1>1 DEF FinishInv, LockIsHeld, FinishedExactly
<1>3. PICK f : f = [cells |-> t.cells, next |-> t.next, hop |-> t.hop]
  OBVIOUS
<1>4. f \in Fragment
  BY <1>1, <1>3, TaskFacts DEF Fragment
<1>5. \A y \in Places : Stored(y)' = IF y = x THEN Append(Stored(x), f) ELSE Stored(y)
  <2> DEFINE recorded == [fragments EXCEPT ![x] = Append(@, f)]
  <2>1. fragments \in [Places -> Seq(Fragment)] /\ TypeOK
    BY DEF RouteInv, TypeOK
  <2>2. recorded \in [Places -> Seq(Fragment)]
    BY <1>1, <1>4, <2>1
  <2>3. FinishIfDone(t.at, local, recorded)
    BY <1>3 DEF Store
  <2>4. \A y \in Places : recorded[y] = IF y = x THEN Append(fragments[x], f) ELSE fragments[y]
    BY <1>1, <2>1
  <2>5. \A y \in Places : y[1] # t.at => recorded[y] = fragments[y]
    BY <2>4
  <2> HIDE DEF recorded
  <2>6. \A y \in Places : Stored(y)' = IF y[1] = t.at THEN recorded[y] ELSE Stored(y)
    BY <1>1, <1>2, <2>1, <2>2, <2>3, <2>5, StoredFacts
  <2>7. \A y \in Places : y[1] = t.at => Stored(y) = fragments[y]
    BY <1>2 DEF Stored
  <2> QED BY <1>1, <2>4, <2>6, <2>7
<1>6. Stored(x) \in Seq(Fragment)
  BY <1>1 DEF Stored, RouteInv, TypeOK
<1>7. /\ tasks' = tasks \ {t}
      /\ UNCHANGED <<values, sorted, local, started, start>>
  BY DEF Store
<1> SUFFICES ASSUME NEW z \in Zones
             PROVE  \E h \in Seq(Piece), r \in Seq(Partitions \X Nat) : IsHistory(z, h, r)'
  BY DEF HistoryInv
<1>8. PICK h \in Seq(Piece), r \in Seq(Partitions \X Nat) : IsHistory(z, h, r)
  BY DEF HistoryInv
<1>9. CASE z # t.zone
  <2>1. \A v : v.zone = z => (v \in tasks' <=> v \in tasks)
    BY <1>7, <1>9
  <2>2. \A p \in Partitions : Stored(<<p, z>>)' = Stored(<<p, z>>)
    <3>1. \A p \in Partitions : <<p, z>> \in Places /\ <<p, z>> # x
      BY <1>9 DEF Places
    <3> QED BY <1>5, <3>1
  <2>3. IsHistory(z, h, r)'
    BY <1>7, <1>8, <2>1, <2>2, HistorySame DEF RouteInv
  <2> QED BY <2>3
<1>10. CASE z = t.zone
  <2>1. GoesOn(z, h, r)'
    <3> SUFFICES ASSUME NEW v \in tasks', Active(v), v.zone = z PROVE FollowsOn(v, h, r)'
      BY DEF GoesOn, Active
    <3>1. FollowsOn(v, h, r)
      BY <1>7, <1>8 DEF IsHistory, GoesOn
    <3> QED BY <1>7, <3>1 DEF FollowsOn, HoldsRest, CellsAt, Value
  <2>2. HasEnded(z, h, r)' /\ NotStarted(z, h)'
    <3>1. started[z] # "no"
      BY <1>10 DEF RouteInv, CallsAfterStart
    <3>2. CellsOf(z)' = CellsOf(z)
      BY <1>7 DEF CellsOf, CellsAt
    <3>3. ~Active(t)
      BY <1>1 DEF Active
    <3>4. \A v \in tasks : Active(v) => v \in tasks'
      BY <1>7, <3>3
    <3> QED BY <1>7, <1>8, <3>1, <3>2, <3>4 DEF IsHistory, HasEnded, NotStarted, Active
  <2>3. InOrder(z, r)'
    BY <1>7, <1>8 DEF IsHistory, InOrder, ValueOf, Value, CellsOf, CellsAt
  <2>4. ArePieces(z, h)'
    <3> DEFINE s == Stored(x)
               n == Len(s)
    <3>1. /\ n \in Nat /\ DOMAIN s = 1 .. n
          /\ Stored(x)' = Append(s, f)
          /\ Len(Append(s, f)) = n + 1 /\ DOMAIN Append(s, f) = 1 .. n + 1
          /\ \A k \in 1 .. n : Append(s, f)[k] = s[k]
          /\ Append(s, f)[n + 1] = f
      <4>1. Stored(x)' = Append(s, f)
        BY <1>1, <1>5
      <4>2. s \in Seq(Fragment)
        BY <1>6
      <4> HIDE DEF s
      <4>3. n \in Nat /\ DOMAIN s = 1 .. n
        BY <4>2, LenProperties
      <4>4. /\ Append(s, f) \in Seq(Fragment)
            /\ Len(Append(s, f)) = n + 1
            /\ \A k \in 1 .. n : Append(s, f)[k] = s[k]
            /\ Append(s, f)[n + 1] = f
        BY <1>4, <4>2, AppendProperties
      <4>5. DOMAIN Append(s, f) = 1 .. n + 1
        BY <4>4, LenProperties
      <4> QED BY <4>1, <4>3, <4>4, <4>5
    <3> HIDE DEF n, s
    <3>2. \A p \in Partitions : p # t.at => Stored(<<p, z>>)' = Stored(<<p, z>>)
      <4>1. \A p \in Partitions : p # t.at => <<p, z>> \in Places /\ <<p, z>> # x
        BY DEF Places
      <4> QED BY <1>5, <4>1
    <3>3. /\ IsPiece(h, t.at, t)
          /\ \A k \in DOMAIN s : s[k].hop < t.hop
      BY <1>1, <1>8, <1>10 DEF IsHistory, ArePieces, s
    <3>4. /\ \A k \in DOMAIN s :
                /\ IsPiece(h, t.at, s[k])
                /\ \A l \in 1 .. k - 1 : s[l].hop < s[k].hop
      BY <1>1, <1>8, <1>10 DEF IsHistory, ArePieces, s
    <3>5. ASSUME NEW v \in tasks', v.zone = z, v.pc = "updated"
          PROVE  /\ IsPiece(h, v.at, v)
                 /\ \A k \in DOMAIN Stored(<<v.at, z>>)' : Stored(<<v.at, z>>)'[k].hop < v.hop
      <4>1. v \in tasks /\ v # t /\ v.at \in Partitions
        BY <1>7, TaskFacts DEF RouteInv, TypeOK
      <4>2. v.at # t.at
        BY <1>1, <3>5, <4>1 DEF FinishInv, LockIsHeld
      <4> QED BY <1>8, <3>2, <3>5, <4>1, <4>2 DEF IsHistory, ArePieces
    <3>6. ASSUME NEW p \in Partitions, NEW k \in DOMAIN Stored(<<p, z>>)'
          PROVE  /\ IsPiece(h, p, Stored(<<p, z>>)'[k])
                 /\ \A l \in 1 .. k - 1 : Stored(<<p, z>>)'[l].hop < Stored(<<p, z>>)'[k].hop
      <4>1. CASE p # t.at
        BY <1>8, <3>2, <3>6, <4>1 DEF IsHistory, ArePieces
      <4>2. CASE p = t.at
        <5>1. Stored(<<p, z>>)' = Append(s, f) /\ k \in 1 .. n + 1
          BY <1>10, <3>1, <3>6, <4>2
        <5>2. CASE k \in 1 .. n
          <6>1. IsPiece(h, p, s[k])
            BY <3>1, <3>4, <4>2, <5>2
          <6>2. ASSUME NEW l \in 1 .. k - 1 PROVE s[l].hop < s[k].hop /\ l \in 1 .. n
            <7>1. l \in 1 .. n
              BY <3>1, <5>2
            <7> QED BY <3>1, <3>4, <5>2, <7>1
          <6> HIDE DEF x
          <6> QED BY <3>1, <5>1, <5>2, <6>1, <6>2
        <5>3. CASE k = n + 1
          <6>1. IsPiece(h, p, f)
            BY <1>3, <3>3, <4>2 DEF IsPiece
          <6>2. ASSUME NEW l \in 1 .. k - 1 PROVE s[l].hop < f.hop /\ l \in 1 .. n
            <7>1. l \in 1 .. n
              BY <3>1, <5>3
            <7> QED BY <1>3, <3>1, <3>3, <7>1
          <6>3. Append(s, f)[k] = f /\ \A l \in 1 .. k - 1 : Append(s, f)[l] = s[l]
            BY <3>1, <5>3, <6>2
          <6> QED BY <5>1, <6>1, <6>2, <6>3
        <5>4. k \in 1 .. n \/ k = n + 1
          BY <3>1, <5>1
        <5> QED BY <5>2, <5>3, <5>4
      <4> QED BY <4>1, <4>2
    <3>7. ASSUME NEW i \in DOMAIN h
          PROVE  \/ \E v \in tasks' : v.zone = z /\ v.pc = "updated" /\ v.hop = i
                 \/ \E k \in DOMAIN Stored(<<h[i].at, z>>)' : Stored(<<h[i].at, z>>)'[k].hop = i
      <4>0. h[i].at \in Partitions
        BY PieceFacts
      <4>1. CASE \E k \in DOMAIN Stored(<<h[i].at, z>>) : Stored(<<h[i].at, z>>)[k].hop = i
        <5>1. PICK k \in DOMAIN Stored(<<h[i].at, z>>) : Stored(<<h[i].at, z>>)[k].hop = i
          BY <4>1
        <5>2. CASE h[i].at = t.at
          <6>1. k \in 1 .. n /\ s[k].hop = i
            BY <1>10, <3>1, <5>1, <5>2 DEF s
          <6>2. k \in 1 .. n + 1 /\ Append(s, f)[k] = s[k]
            BY <3>1, <6>1
          <6>3. Stored(<<h[i].at, z>>)' = Append(s, f)
            BY <1>10, <3>1, <5>2
          <6> QED BY <3>1, <6>1, <6>2, <6>3
        <5>3. CASE h[i].at # t.at
          BY <3>2, <4>0, <5>1, <5>3
        <5> QED BY <5>2, <5>3
      <4>2. CASE \E v \in tasks : v.zone = z /\ v.pc = "updated" /\ v.hop = i
        <5>1. PICK v \in tasks : v.zone = z /\ v.pc = "updated" /\ v.hop = i
          BY <4>2
        <5>2. CASE v = t
          <6>1. h[i].at = t.at /\ f.hop = i
            BY <1>3, <3>3, <5>1, <5>2 DEF IsPiece
          <6>2. Stored(<<h[i].at, z>>)' = Append(s, f)
            BY <1>10, <3>1, <6>1
          <6>3. n + 1 \in 1 .. n + 1
            BY <3>1
          <6> QED BY <3>1, <6>1, <6>2, <6>3
        <5>3. CASE v # t
          BY <1>7, <5>1, <5>3
        <5> QED BY <5>2, <5>3
      <4> QED BY <1>8, <4>1, <4>2 DEF IsHistory, ArePieces
    <3> QED BY <3>5, <3>6, <3>7 DEF ArePieces
  <2>6. CellsOf(z)' = CellsOf(z)
    BY <1>7 DEF CellsOf, CellsAt
  <2>5. IsHistory(z, h, r)'
    BY <1>7, <1>8, <2>6, <2>1, <2>2, <2>3, <2>4 DEF IsHistory
  <2> QED BY <2>5
<1> QED BY <1>9, <1>10

-----------------------------------------------------------------------------
(* There are finitely many cells in a zone.                                *)
LEMMA CellsOfFacts ==
    ASSUME TypeOK, NEW z \in Zones
    PROVE  /\ IsFiniteSet(CellsOf(z))
           /\ Cardinality(CellsOf(z)) \in Nat
           /\ \A c : c \in CellsOf(z) <=> /\ c = <<c[1], c[2]>> /\ c[1] \in Partitions
                                          /\ c[2] \in CellsAt(<<c[1], z>>)
           /\ \A c \in CellsOf(z) : ValueOf(z, c) \in Int /\ c \in Partitions \X Nat
<1>1. \A c : c \in CellsOf(z) <=> /\ c = <<c[1], c[2]>> /\ c[1] \in Partitions
                                  /\ c[2] \in CellsAt(<<c[1], z>>)
  <2>1. ASSUME NEW c, c[1] \in Partitions, c[2] \in CellsAt(<<c[1], z>>), c = <<c[1], c[2]>>
        PROVE  c \in CellsOf(z)
    <3>1. c \in {c[1]} \X CellsAt(<<c[1], z>>)
      BY <2>1
    <3> QED BY <2>1, <3>1 DEF CellsOf
  <2>2. ASSUME NEW c \in CellsOf(z)
        PROVE  c = <<c[1], c[2]>> /\ c[1] \in Partitions /\ c[2] \in CellsAt(<<c[1], z>>)
    <3>1. PICK p \in Partitions : c \in {p} \X CellsAt(<<p, z>>)
      BY DEF CellsOf
    <3> QED BY <3>1
  <2> QED BY <2>1, <2>2
<1>2. \A p \in Partitions : <<p, z>> \in Places
  BY DEF Places
<1>3. \A c \in CellsOf(z) : ValueOf(z, c) \in Int /\ c \in Partitions \X Nat
  <2> SUFFICES ASSUME NEW c \in CellsOf(z)
               PROVE  ValueOf(z, c) \in Int /\ c \in Partitions \X Nat
    OBVIOUS
  <2>1. c = <<c[1], c[2]>> /\ c[1] \in Partitions /\ c[2] \in CellsAt(<<c[1], z>>)
    BY <1>1
  <2>2. c[2] \in Nat /\ Value(<<c[1], z>>, c[2]) \in Int
    BY <1>2, <2>1, CellFacts
  <2> QED BY <2>1, <2>2 DEF ValueOf
<1>4. IsFiniteSet(CellsOf(z))
  <2> DEFINE parts == {{p} \X CellsAt(<<p, z>>) : p \in Partitions}
             f == [p \in Partitions |-> {p} \X CellsAt(<<p, z>>)]
  <2>1. f \in Surjection(Partitions, parts)
    BY DEF Surjection
  <2>2. IsFiniteSet(parts)
    BY <2>1, FS_Surjection, InputsAssumption
  <2>3. ASSUME NEW p \in Partitions PROVE IsFiniteSet({p} \X CellsAt(<<p, z>>))
    <3>1. IsFiniteSet(CellsAt(<<p, z>>)) /\ IsFiniteSet({p})
      BY <1>2, CellFacts, FS_Singleton
    <3> QED BY <3>1, FS_Product
  <2>4. \A T \in parts : IsFiniteSet(T)
    BY <2>3
  <2> HIDE DEF parts
  <2>5. IsFiniteSet(UNION parts)
    BY <2>2, <2>4, FS_UNION
  <2> QED BY <2>5 DEF CellsOf, parts
<1>5. Cardinality(CellsOf(z)) \in Nat
  BY <1>4, FS_CardinalityType
<1> QED BY <1>1, <1>3, <1>4, <1>5

(* A route is not longer than there are cells, and as long when it visits  *)
(* them all.                                                               *)
LEMMA RouteLength ==
    ASSUME TypeOK, NEW z \in Zones, NEW r \in Seq(Partitions \X Nat), InOrder(z, r)
    PROVE  /\ Len(r) <= Cardinality(CellsOf(z))
           /\ CellsOf(z) \subseteq Range(r) => Len(r) = Cardinality(CellsOf(z))
<1> DEFINE n == Len(r)
           C == CellsOf(z)
<1>1. n \in Nat /\ DOMAIN r = 1 .. n
  BY LenProperties
<1>2. IsFiniteSet(C)
  BY CellsOfFacts
<1>3. \A i, j \in 1 .. n : i # j => r[i] # r[j]
  <2> SUFFICES ASSUME NEW i \in 1 .. n, NEW j \in 1 .. n, i # j PROVE r[i] # r[j]
    OBVIOUS
  <2>1. i < j \/ j < i
    BY <1>1
  <2>2. i < j => r[i] # r[j]
    BY <1>1 DEF InOrder
  <2>3. j < i => r[j] # r[i]
    BY <1>1 DEF InOrder
  <2> QED BY <2>1, <2>2, <2>3
<1>4. r \in [1 .. n -> C]
  <2>1. r = [i \in 1 .. n |-> r[i]]
    BY <1>1
  <2> QED BY <1>1, <2>1 DEF InOrder
<1>5. r \in Injection(1 .. n, C)
  BY <1>3, <1>4 DEF Injection, IsInjective
<1>6. Cardinality(1 .. n) = n
  <2>1. 1 \in Int /\ n \in Int
    BY <1>1
  <2> QED BY <1>1, <2>1, FS_Interval
<1> HIDE DEF n, C
<1>7. n <= Cardinality(C)
  BY <1>2, <1>5, <1>6, FS_Injection
<1>8. ASSUME C \subseteq Range(r) PROVE n = Cardinality(C)
  <2>1. r \in Surjection(1 .. n, C)
    BY <1>1, <1>4, <1>8 DEF Surjection, Range
  <2> QED BY <1>2, <1>5, <1>6, <2>1, FS_Injection
<1> QED BY <1>7, <1>8 DEF n, C

(* A function on the numbers up to n is a sequence of length n.            *)
LEMMA LengthOfSequence ==
    ASSUME NEW S, NEW n \in Nat, NEW s \in [1 .. n -> S]
    PROVE  s \in Seq(S) /\ Len(s) = n
<1>1. s \in Seq(S)
  BY SeqDef
<1>2. DOMAIN s = 1 .. n /\ DOMAIN s = 1 .. Len(s) /\ Len(s) \in Nat
  BY <1>1, LenProperties
<1>3. Len(s) = n
  BY <1>2
<1> QED BY <1>1, <1>3

(* A history with one more piece.                                          *)
IsLonger(h, r, piece, hh, rr) ==
    /\ Len(hh) = Len(h) + 1
    /\ hh[Len(h) + 1] = piece
    /\ \A i \in 1 .. Len(h) : hh[i] = h[i]
    /\ Len(rr) = Len(r) + Len(piece.cells)
    /\ \A i \in 1 .. Len(r) : rr[i] = r[i]
    /\ \A k \in DOMAIN piece.cells : rr[Len(r) + k] = <<piece.at, piece.cells[k]>>

(* Each history has one that is longer by a given piece.                   *)
LEMMA HistoryGrows ==
    ASSUME NEW h \in Seq(Piece), NEW r \in Seq(Partitions \X Nat), NEW piece \in Piece
    PROVE  \E hh \in Seq(Piece), rr \in Seq(Partitions \X Nat) : IsLonger(h, r, piece, hh, rr)
<1> DEFINE m == Len(piece.cells)
           new == [k \in 1 .. m |-> <<piece.at, piece.cells[k]>>]
           hh == Append(h, piece)
           rr == r \o new
<1>1. piece.at \in Partitions /\ piece.cells \in Seq(Nat)
  BY DEF Piece
<1>2. m \in Nat /\ DOMAIN piece.cells = 1 .. m /\ \A k \in 1 .. m : piece.cells[k] \in Nat
  BY <1>1, LenProperties
<1>3. hh \in Seq(Piece) /\ Len(hh) = Len(h) + 1 /\ hh[Len(h) + 1] = piece
      /\ \A i \in 1 .. Len(h) : hh[i] = h[i]
  BY AppendProperties
<1>4. new \in Seq(Partitions \X Nat) /\ Len(new) = m
  <2>1. new \in [1 .. m -> Partitions \X Nat]
    BY <1>1, <1>2
  <2> HIDE DEF new, m
  <2> QED BY <1>2, <2>1, LengthOfSequence
<1>5. \A k \in 1 .. m : new[k] = <<piece.at, piece.cells[k]>>
  OBVIOUS
<1>6. Len(r) \in Nat
  BY LenProperties
<1> DEFINE n == Len(r)
<1> HIDE DEF m, new, hh, n
<1>7. /\ rr \in Seq(Partitions \X Nat) /\ Len(rr) = n + m
      /\ \A i \in 1 .. n + m : rr[i] = IF i <= n THEN r[i] ELSE new[i - n]
  BY <1>4, ConcatProperties DEF n
<1>11. n \in Nat /\ m \in Nat
  BY <1>2, <1>6 DEF n
<1> HIDE DEF rr
<1>8. \A i \in 1 .. n : rr[i] = r[i]
  BY <1>7, <1>11
<1>9. ASSUME NEW k \in 1 .. m PROVE rr[n + k] = <<piece.at, piece.cells[k]>>
  <2>1. PICK i \in 1 .. n + m : i = n + k /\ ~(i <= n) /\ i - n = k
    BY <1>11
  <2>2. rr[i] = new[i - n]
    BY <1>7, <2>1
  <2> QED BY <1>5, <2>1, <2>2
<1>10. IsLonger(h, r, piece, hh, rr)
  BY <1>2, <1>3, <1>7, <1>8, <1>9 DEF IsLonger, m, n
<1> QED BY <1>3, <1>7, <1>10

(* A piece that goes on where the route ended keeps the pieces chained.    *)
LEMMA ChainGrows ==
    ASSUME NEW h \in Seq(Piece), NEW r \in Seq(Partitions \X Nat), NEW piece \in Piece,
           NEW hh \in Seq(Piece), NEW rr \in Seq(Partitions \X Nat),
           IsLonger(h, r, piece, hh, rr), AreChained(h, r),
           piece.from = Len(r), Len(r) >= Len(h), h # <<>> => h[Len(h)].next = piece.at
    PROVE  AreChained(hh, rr)
<1> DEFINE n == Len(h)
           m == Len(r)
<1>1. /\ n \in Nat /\ DOMAIN h = 1 .. n /\ DOMAIN hh = 1 .. n + 1 /\ Len(hh) = n + 1
      /\ m \in Nat /\ hh # <<>>
      /\ h # <<>> <=> n # 0
      /\ \A i \in 1 .. n : h[i].from \in Nat /\ Len(h[i].cells) \in Nat
                           /\ DOMAIN h[i].cells = 1 .. Len(h[i].cells)
  <2>1. /\ n \in Nat /\ DOMAIN h = 1 .. n
        /\ \A i \in 1 .. n : h[i].from \in Nat /\ Len(h[i].cells) \in Nat
                             /\ DOMAIN h[i].cells = 1 .. Len(h[i].cells)
    BY PieceFacts
  <2>2. DOMAIN hh = 1 .. n + 1 /\ Len(hh) = n + 1
    BY PieceFacts DEF IsLonger
  <2>3. m \in Nat
    BY LenProperties
  <2>4. hh # <<>>
    BY <2>1, <2>2
  <2>5. h # <<>> <=> n # 0
    BY EmptySeq
  <2> QED BY <2>1, <2>2, <2>3, <2>4, <2>5
<1>2. hh[n + 1] = piece /\ (\A i \in 1 .. n : hh[i] = h[i]) /\ Len(rr) = m + Len(piece.cells)
  BY DEF IsLonger
<1>3. \A i \in 1 .. m : rr[i] = r[i]
  BY DEF IsLonger
<1>4. h = <<>> => m = 0
  BY DEF AreChained
<1>chained. \A i \in 1 .. n :
                /\ h[i].from >= i - 1
                /\ i = 1 => h[i].from = 0
                /\ h[i].from + Len(h[i].cells) = IF i = n THEN m ELSE h[i + 1].from
                /\ h[i].from + Len(h[i].cells) <= m
                /\ i < n => h[i].next = h[i + 1].at
                /\ \A k \in DOMAIN h[i].cells : r[h[i].from + k] = <<h[i].at, h[i].cells[k]>>
  BY <1>1 DEF AreChained
<1>last. n # 0 => h[n].next = piece.at
  BY <1>1
<1>ends. /\ piece.from = m /\ m >= n
         /\ \A k \in DOMAIN piece.cells : rr[m + k] = <<piece.at, piece.cells[k]>>
         /\ Len(piece.cells) \in Nat
  BY LenProperties DEF IsLonger, Piece
<1> SUFFICES ASSUME NEW i \in 1 .. n + 1
             PROVE  /\ hh[i].from >= i - 1
                    /\ i = 1 => hh[i].from = 0
                    /\ hh[i].from + Len(hh[i].cells) = IF i = n + 1 THEN Len(rr) ELSE hh[i + 1].from
                    /\ hh[i].from + Len(hh[i].cells) <= Len(rr)
                    /\ i < n + 1 => hh[i].next = hh[i + 1].at
                    /\ \A k \in DOMAIN hh[i].cells :
                        rr[hh[i].from + k] = <<hh[i].at, hh[i].cells[k]>>
  BY <1>1 DEF AreChained
<1> HIDE DEF n, m
<1>5. CASE i = n + 1
  <2>1. hh[i] = piece
    BY <1>2, <1>5
  <2>2. piece.from >= i - 1 /\ (i = 1 => piece.from = 0)
    BY <1>1, <1>4, <1>5, <1>ends
  <2>3. m + Len(piece.cells) <= Len(rr) /\ ~(i < n + 1)
    BY <1>1, <1>2, <1>5, <1>ends
  <2> QED BY <1>2, <1>5, <1>ends, <2>1, <2>2, <2>3
<1>6. CASE i \in 1 .. n
  <2>1. hh[i] = h[i] /\ (i < n => hh[i + 1] = h[i + 1]) /\ (i = n => hh[i + 1] = piece)
    <3>1. i < n => i + 1 \in 1 .. n
      BY <1>1, <1>6
    <3> QED BY <1>2, <1>6, <3>1
  <2>2. i # n + 1 /\ (i = n \/ i < n) /\ (i < n => i # n)
    BY <1>1, <1>6
  <2>3. h[i].from + Len(h[i].cells) = hh[i + 1].from /\ h[i].next = hh[i + 1].at
    BY <1>6, <1>chained, <1>last, <1>ends, <2>1, <2>2
  <2> DEFINE a == h[i].from
             b == Len(h[i].cells)
  <2>6. /\ a \in Nat /\ b \in Nat /\ a + b <= m /\ DOMAIN h[i].cells = 1 .. b
        /\ \A k \in DOMAIN h[i].cells : r[a + k] = <<h[i].at, h[i].cells[k]>>
    BY <1>1, <1>6, <1>chained
  <2>4. ASSUME NEW k \in DOMAIN h[i].cells
        PROVE  rr[a + k] = <<h[i].at, h[i].cells[k]>>
    <3> HIDE DEF a, b
    <3>1. a + k \in 1 .. m
      BY <1>1, <2>6
    <3> QED BY <1>3, <2>6, <3>1
  <2>5. a + b <= Len(rr)
    <3> HIDE DEF a, b
    <3> QED BY <1>1, <1>2, <1>ends, <2>6
  <2> QED BY <1>6, <1>chained, <2>1, <2>2, <2>3, <2>4, <2>5
<1>7. i = n + 1 \/ i \in 1 .. n
  BY <1>1
<1> QED BY <1>5, <1>6, <1>7

(* A route goes on with the cells that are selected, and what is left.     *)
TakesCells(t, r, rr) ==
    /\ Len(rr) = Len(r) + Len(t.cells)
    /\ \A i \in 1 .. Len(r) : rr[i] = r[i]
    /\ \A k \in DOMAIN t.cells : rr[Len(r) + k] = <<t.at, t.cells[k]>>

LeavesRest(t, rr) ==
    \A p \in Partitions :
        {k \in CellsAt(<<p, t.zone>>) : <<p, k>> \notin Range(rr)} =
            IF p = t.at
            THEN {local[<<p, t.zone>>][i] :
                    i \in Len(t.cells) + 1 .. Len(local[<<p, t.zone>>])}
            ELSE Range(local[<<p, t.zone>>])

(* The cells that are selected come next.                                  *)
LEMMA OrderGrows ==
    ASSUME RouteInv, NoLowerValue, NEW t \in tasks, t.pc = "read",
           NEW h, NEW r \in Seq(Partitions \X Nat), FollowsOn(t, h, r), InOrder(t.zone, r),
           NEW rr \in Seq(Partitions \X Nat), TakesCells(t, r, rr)
    PROVE  /\ InOrder(t.zone, rr)
           /\ LeavesRest(t, rr)
<1> DEFINE z == t.zone
           x == <<t.at, z>>
           s == local[x]
           n == Len(r)
           m == Len(t.cells)
           l == Len(s)
           N == NextMaximum(t.maxima)
           v(k) == Value(x, s[k])
           cell(k) == <<t.at, s[k]>>
<1>0. /\ Len(rr) = n + m
      /\ \A i \in 1 .. n : rr[i] = r[i]
      /\ \A k \in DOMAIN t.cells : rr[n + k] = <<t.at, t.cells[k]>>
  BY DEF TakesCells
<1>1. /\ t \in Task /\ z \in Zones /\ t.at \in Partitions /\ x \in Places /\ m \in Nat
      /\ DOMAIN t.cells = 1 .. m /\ Active(t)
  <2>1. t \in Task /\ z \in Zones /\ t.at \in Partitions /\ x \in Places /\ m \in Nat
    BY TaskFacts DEF RouteInv, TypeOK
  <2>2. t.cells \in Seq(Nat)
    BY <2>1, TaskFacts
  <2> QED BY <2>1, <2>2, LenProperties DEF Active
<1>2. /\ l \in Nat /\ DOMAIN s = 1 .. l /\ m <= l
      /\ \A k \in 1 .. l : s[k] \in CellsAt(x) /\ v(k) \in Int
      /\ n \in Nat /\ DOMAIN r = 1 .. n
      /\ DOMAIN rr = 1 .. n + m
  <2>1. l \in Nat /\ DOMAIN s = 1 .. l /\ s \in Seq(CellsAt(x)) /\ \A k \in 1 .. l : v(k) \in Int
    BY <1>1, CellFacts DEF RouteInv
  <2>2. \A k \in 1 .. l : s[k] \in CellsAt(x)
    BY <2>1, LenProperties
  <2>3. n \in Nat /\ DOMAIN r = 1 .. n /\ DOMAIN rr = 1 .. n + m
    BY <1>0, LenProperties
  <2>4. m <= l
    BY DEF FollowsOn
  <2> QED BY <2>1, <2>2, <2>3, <2>4
<1>3. /\ \A k \in 1 .. m : t.cells[k] = s[k] /\ v(k) >= N
      /\ N \in Int
  BY <1>1, NextMaximumFacts DEF FollowsOn
<1>4. /\ \A i, j \in 1 .. l : i < j => v(i) >= v(j)
      /\ \A i, j \in 1 .. l : i # j => s[i] # s[j]
  <2>1. \A i, j \in 1 .. l : i < j => v(i) >= v(j)
    <3>1. \A i, j \in DOMAIN local[x] : i < j => Value(x, local[x][i]) >= Value(x, local[x][j])
      BY <1>1 DEF RouteInv, LocalIsOrdered
    <3> QED BY <1>2, <3>1
  <2>2. \A i, j \in 1 .. l : i # j => s[i] # s[j]
    <3>1. HoldsRest(<<t.at, t.zone>>, r)
      BY <1>1 DEF FollowsOn
    <3> QED BY <1>2, <3>1 DEF HoldsRest
  <2> QED BY <2>1, <2>2
<1>5. \A p \in Partitions : \A k \in CellsAt(<<p, z>>) :
        <<p, k>> \notin Range(r) <=> \E j \in DOMAIN local[<<p, z>>] : local[<<p, z>>][j] = k
  <2> SUFFICES ASSUME NEW p \in Partitions, NEW k \in CellsAt(<<p, z>>)
               PROVE  <<p, k>> \notin Range(r) <=>
                        \E j \in DOMAIN local[<<p, z>>] : local[<<p, z>>][j] = k
    OBVIOUS
  <2>1. Range(local[<<p, z>>]) = {c \in CellsAt(<<p, z>>) : <<p, c>> \notin Range(r)}
    BY DEF FollowsOn, HoldsRest
  <2>2. k \in Range(local[<<p, z>>]) <=> <<p, k>> \notin Range(r)
    BY <2>1
  <2> QED BY <2>2 DEF Range
<1>6. ASSUME NEW p \in Partitions, p # t.at, NEW j \in DOMAIN local[<<p, z>>]
      PROVE  /\ N >= Value(<<p, z>>, local[<<p, z>>][j])
             /\ Value(<<p, z>>, local[<<p, z>>][j]) \in Int
  <2> DEFINE y == <<p, z>>
  <2>1. y \in Places
    BY <1>1 DEF Places
  <2>2. /\ DOMAIN local[y] = 1 .. Len(local[y]) /\ Len(local[y]) \in Nat
        /\ \A i \in DOMAIN local[y] : Value(y, local[y][i]) \in Int
        /\ local[y] # <<>> <=> 1 \in DOMAIN local[y]
    BY <2>1, CellFacts DEF RouteInv
  <2>3. j \in Int /\ j >= 1 /\ 1 \in DOMAIN local[y]
    BY <2>2
  <2>4. N >= Value(y, local[y][1])
    BY <1>1, <1>6, <2>2, <2>3, NextMaximumFacts
  <2>5. j = 1 \/ 1 < j
    BY <2>3
  <2>6. j = 1 \/ Value(y, local[y][1]) >= Value(y, local[y][j])
    BY <2>1, <2>3, <2>5 DEF RouteInv, LocalIsOrdered
  <2> DEFINE a == Value(y, local[y][1])
             b == Value(y, local[y][j])
  <2>8. a \in Int /\ b \in Int /\ N >= a /\ (j = 1 \/ a >= b)
    BY <2>2, <2>3, <2>4, <2>6
  <2>9. j = 1 => a = b
    OBVIOUS
  <2> HIDE DEF N, a, b
  <2>7. N >= b
    BY <1>3, <2>8, <2>9
  <2> USE DEF a, b
  <2> QED BY <2>2, <2>7 DEF y
<1>7. /\ \A c : c \in CellsOf(z) <=> /\ c = <<c[1], c[2]>> /\ c[1] \in Partitions
                                     /\ c[2] \in CellsAt(<<c[1], z>>)
      /\ \A c \in CellsOf(z) : ValueOf(z, c) \in Int
  BY <1>1, CellsOfFacts DEF RouteInv
<1>8. ASSUME NEW k \in 1 .. l
      PROVE  cell(k) \in CellsOf(z) /\ cell(k) \notin Range(r) /\ ValueOf(z, cell(k)) = v(k)
  <2>1. s[k] \in CellsAt(x)
    BY <1>2
  <2>2. cell(k)[1] = t.at /\ cell(k)[2] = s[k]
    OBVIOUS
  <2> QED BY <1>1, <1>2, <1>5, <1>7, <2>1, <2>2 DEF ValueOf
<1>9. \A i \in 1 .. n : rr[i] = r[i]
  BY <1>0
<1>10. \A k \in 1 .. m : rr[n + k] = cell(k)
  BY <1>0, <1>1, <1>3
<1>11. \A i \in 1 .. n + m : i \in 1 .. n \/ \E k \in 1 .. m : i = n + k
  <2> SUFFICES ASSUME NEW i \in 1 .. n + m, i \notin 1 .. n PROVE \E k \in 1 .. m : i = n + k
    OBVIOUS
  <2>1. i - n \in 1 .. m /\ i = n + (i - n)
    BY <1>1, <1>2
  <2> QED BY <2>1
<1>12. /\ \A i \in 1 .. n : r[i] \in CellsOf(z) /\ r[i] \in Range(r)
       /\ \A i, j \in 1 .. n : i < j => r[i] # r[j] /\ ValueOf(z, r[i]) >= ValueOf(z, r[j])
       /\ \A c \in CellsOf(z) \ Range(r) : \A i \in 1 .. n : ValueOf(z, r[i]) >= ValueOf(z, c)
  BY <1>2 DEF InOrder, Range
<1>13. /\ \A c \in Range(r) : c \in Range(rr)
       /\ \A k \in 1 .. m : cell(k) \in Range(rr)
       /\ \A c \in Range(rr) : c \in Range(r) \/ \E k \in 1 .. m : c = cell(k)
  <2>1. \A i \in 1 .. n : i \in 1 .. n + m
    BY <1>1, <1>2
  <2>2. \A k \in 1 .. m : n + k \in 1 .. n + m
    BY <1>1, <1>2
  <2>3. \A c \in Range(r) : c \in Range(rr)
    BY <1>2, <1>9, <2>1 DEF Range
  <2>4. \A k \in 1 .. m : cell(k) \in Range(rr)
    BY <1>2, <1>10, <2>2 DEF Range
  <2>5. ASSUME NEW c \in Range(rr) PROVE c \in Range(r) \/ \E k \in 1 .. m : c = cell(k)
    <3>1. PICK i \in 1 .. n + m : c = rr[i]
      BY <1>2 DEF Range
    <3> QED BY <1>2, <1>9, <1>10, <1>11, <3>1 DEF Range
  <2> QED BY <2>3, <2>4, <2>5
<1> HIDE DEF z, x, s, n, m, l, N, v, cell
<1>14. \A k \in 1 .. m : k \in 1 .. l
  BY <1>1, <1>2
<1>15. ASSUME NEW i \in 1 .. n + m PROVE rr[i] \in CellsOf(z)
  <2>1. CASE i \in 1 .. n
    BY <1>9, <1>12, <2>1
  <2>2. CASE \E k \in 1 .. m : i = n + k
    BY <1>8, <1>10, <1>14, <2>2
  <2> QED BY <1>11, <2>1, <2>2
<1>16. ASSUME NEW i \in 1 .. n + m, NEW j \in 1 .. n + m, i < j
       PROVE  rr[i] # rr[j] /\ ValueOf(z, rr[i]) >= ValueOf(z, rr[j])
  <2>1. CASE i \in 1 .. n /\ j \in 1 .. n
    BY <1>9, <1>12, <1>16, <2>1
  <2>2. CASE i \in 1 .. n /\ \E k \in 1 .. m : j = n + k
    <3>1. PICK k \in 1 .. m : j = n + k
      BY <2>2
    <3>2. rr[j] = cell(k) /\ rr[j] \in CellsOf(z) \ Range(r) /\ rr[i] = r[i] /\ r[i] \in Range(r)
      BY <1>8, <1>9, <1>10, <1>12, <1>14, <2>2, <3>1
    <3> QED BY <1>12, <2>2, <3>2
  <2>3. CASE (\E k \in 1 .. m : i = n + k) /\ j \in 1 .. n
    BY <1>1, <1>2, <1>16, <2>3
  <2>4. CASE (\E k \in 1 .. m : i = n + k) /\ (\E k \in 1 .. m : j = n + k)
    <3>1. PICK a \in 1 .. m : i = n + a
      BY <2>4
    <3>2. PICK b \in 1 .. m : j = n + b
      BY <2>4
    <3>3. a < b /\ a # b /\ a \in 1 .. l /\ b \in 1 .. l
      <4>1. n \in Nat /\ m \in Nat
        BY <1>1, <1>2
      <4>2. a < b
        BY <1>16, <3>1, <3>2, <4>1
      <4> QED BY <1>14, <4>1, <4>2
    <3>4. rr[i] = cell(a) /\ rr[j] = cell(b) /\ v(a) >= v(b) /\ s[a] # s[b]
      BY <1>4, <1>10, <3>1, <3>2, <3>3
    <3>5. cell(a) # cell(b)
      BY <3>4 DEF cell
    <3> QED BY <1>8, <3>3, <3>4, <3>5
  <2> QED BY <1>11, <2>1, <2>2, <2>3, <2>4
<1>17. ASSUME NEW c \in CellsOf(z) \ Range(rr)
       PROVE  IF c[1] = t.at THEN \E j \in m + 1 .. l : c[2] = s[j] /\ ValueOf(z, c) = v(j)
              ELSE ValueOf(z, c) <= N
  <2>1. /\ c = <<c[1], c[2]>> /\ c[1] \in Partitions /\ c[2] \in CellsAt(<<c[1], z>>)
        /\ c \notin Range(r)
    BY <1>7, <1>13
  <2>2. PICK j \in DOMAIN local[<<c[1], z>>] : local[<<c[1], z>>][j] = c[2]
    BY <1>5, <2>1
  <2>3. ValueOf(z, c) = Value(<<c[1], z>>, c[2])
    BY DEF ValueOf
  <2>4. CASE c[1] = t.at
    <3>1. j \in 1 .. l /\ s[j] = c[2] /\ c = cell(j)
      BY <1>2, <2>1, <2>2, <2>4 DEF s, x, cell
    <3>2. j \notin 1 .. m
      BY <1>13, <3>1
    <3>3. j \in m + 1 .. l
      BY <1>1, <1>2, <3>1, <3>2
    <3> QED BY <1>8, <2>4, <3>1, <3>3
  <2>5. CASE c[1] # t.at
    <3>1. N >= Value(<<c[1], z>>, c[2]) /\ Value(<<c[1], z>>, c[2]) \in Int
      BY <1>6, <2>1, <2>2, <2>5
    <3> QED BY <1>3, <2>3, <2>5, <3>1
  <2> QED BY <2>4, <2>5
<1>18. ASSUME NEW c \in CellsOf(z) \ Range(rr), NEW i \in 1 .. n + m
       PROVE  ValueOf(z, rr[i]) >= ValueOf(z, c)
  <2>1. CASE i \in 1 .. n
    BY <1>9, <1>12, <1>13, <2>1
  <2>2. CASE \E k \in 1 .. m : i = n + k
    <3>1. PICK k \in 1 .. m : i = n + k
      BY <2>2
    <3>2. ValueOf(z, rr[i]) = v(k) /\ k \in 1 .. l /\ v(k) \in Int /\ v(k) >= N
      BY <1>2, <1>3, <1>8, <1>10, <1>14, <3>1
    <3>3. CASE c[1] = t.at
      <4>1. PICK j \in m + 1 .. l : ValueOf(z, c) = v(j)
        BY <1>17, <3>3
      <4>2. k < j /\ j \in 1 .. l
        BY <1>1, <1>2
      <4> QED BY <1>4, <3>2, <4>1, <4>2
    <3>4. CASE c[1] # t.at
      <4>1. ValueOf(z, c) <= N /\ ValueOf(z, c) \in Int
        BY <1>7, <1>17, <3>4
      <4> QED BY <1>3, <3>2, <4>1
    <3> QED BY <3>3, <3>4
  <2> QED BY <1>11, <2>1, <2>2
<1>19. InOrder(z, rr)
  BY <1>2, <1>15, <1>16, <1>18 DEF InOrder
<1>20. ASSUME NEW p \in Partitions
       PROVE  {k \in CellsAt(<<p, z>>) : <<p, k>> \notin Range(rr)} =
                 IF p = t.at THEN {s[i] : i \in m + 1 .. l} ELSE Range(local[<<p, z>>])
  <2>1. CASE p = t.at
    <3>1. ASSUME NEW k \in CellsAt(<<p, z>>), <<p, k>> \notin Range(rr)
          PROVE  \E i \in m + 1 .. l : k = s[i]
      <4> DEFINE c == <<p, k>>
      <4>1. c \in CellsOf(z) \ Range(rr) /\ c[1] = t.at /\ c[2] = k
        BY <1>7, <2>1, <3>1
      <4> QED BY <1>17, <4>1
    <3>2. ASSUME NEW i \in m + 1 .. l
          PROVE  s[i] \in CellsAt(<<p, z>>) /\ <<p, s[i]>> \notin Range(rr)
      <4>1. i \in 1 .. l /\ \A k \in 1 .. m : k # i
        BY <1>1, <1>2
      <4>2. cell(i) \notin Range(r) /\ \A k \in 1 .. m : s[k] # s[i]
        BY <1>4, <1>8, <1>14, <4>1
      <4>3. \A k \in 1 .. m : cell(k) # cell(i)
        BY <4>2 DEF cell
      <4>4. cell(i) \notin Range(rr)
        BY <1>13, <4>2, <4>3
      <4> QED BY <1>2, <2>1, <4>1, <4>4 DEF cell, x
    <3> QED BY <2>1, <3>1, <3>2
  <2>2. CASE p # t.at
    <3>1. \A k : \A i \in 1 .. m : <<p, k>> # cell(i)
      BY <2>2 DEF cell
    <3>2. \A k : <<p, k>> \in Range(rr) <=> <<p, k>> \in Range(r)
      BY <1>13, <3>1
    <3>3. Range(local[<<p, z>>]) = {k \in CellsAt(<<p, z>>) : <<p, k>> \notin Range(r)}
      BY DEF FollowsOn, HoldsRest, z
    <3> QED BY <2>2, <3>2, <3>3
  <2> QED BY <2>1, <2>2
<1>21. \A p \in Partitions :
          p = t.at => s = local[<<p, z>>] /\ l = Len(local[<<p, z>>])
  BY DEF s, x, l
<1>22. LeavesRest(t, rr)
  BY <1>20, <1>21 DEF LeavesRest, z, m
<1> QED BY <1>19, <1>22 DEF z

(* What a component that has updated knows of the tasks and cells.         *)
LEMMA UpdateFacts ==
    ASSUME RouteInv, NEW t \in tasks, Update(t)
    PROVE  \E u, c :
            LET x == <<t.at, t.zone>>
                rest == Tail(t.maxima)
                continue == t.nr < MaxNrCells /\ rest # <<>>
            IN  /\ tasks' = (tasks \ {t}) \cup (IF continue THEN {u, c} ELSE {u})
                /\ local' = [local EXCEPT ![x] =
                        IF continue THEN SubSeq(local[x], Len(t.cells) + 1, Len(local[x]))
                        ELSE <<>>]
                /\ u.pc = "updated" /\ u.zone = t.zone /\ u.at = t.at /\ u.hop = t.hop
                /\ u.cells = t.cells
                /\ u.next = IF continue THEN rest[1].at ELSE t.next
                /\ c.pc = "called" /\ c.zone = t.zone /\ c.at = rest[1].at
                /\ c.hop = t.hop + 1 /\ c.nr = t.nr /\ c.cells = <<>> /\ c.next = NoPartition
                /\ continue => rest[1].at \in Partitions
<1> DEFINE z == t.zone
           x == <<t.at, z>>
           left == SubSeq(local[x], Len(t.cells) + 1, Len(local[x]))
           rest == Tail(t.maxima)
           maxima == IF left = <<>> THEN rest
                     ELSE InsertMaximum(rest, [value |-> Value(x, left[1]), at |-> t.at])
           continue == t.nr < MaxNrCells /\ rest # <<>>
           ended == [t EXCEPT !.pc = "updated"]
           passed == [t EXCEPT !.pc = "updated", !.next = rest[1].at]
           c == Call(z, rest[1].at, maxima, t.nr, t.hop + 1)
           u == IF continue THEN passed ELSE ended
<1>1. t \in Task /\ t.pc = "read" /\ z \in Zones
  BY TaskFacts DEF RouteInv, TypeOK, Update
<1>2. t.maxima \in Seq(MaximumRecord) /\ t.maxima # <<>> /\ AreOrdered(t.maxima)
      /\ Range(t.maxima) = Maxima(z)
  BY <1>1, TaskFacts DEF RouteInv, MaximaAreExact, AreOrdered
<1>3. rest # <<>> => rest[1].at \in Partitions
  <2>1. rest # <<>> => rest[1] \in Range(rest)
    BY <1>2, RestFacts
  <2>2. Range(rest) \subseteq Maxima(z)
    BY <1>2, RestFacts
  <2>3. Maxima(z) \in SUBSET MaximumRecord
    BY <1>1, MaximaFacts DEF RouteInv
  <2> QED BY <2>1, <2>2, <2>3 DEF MaximumRecord
<1>4. /\ tasks' = (tasks \ {t}) \cup (IF continue THEN {u, c} ELSE {u})
      /\ local' = [local EXCEPT ![x] = IF continue THEN left ELSE <<>>]
  <2>1. CASE continue
    BY <2>1 DEF Update
  <2>2. CASE ~continue
    BY <2>2 DEF Update
  <2> QED BY <2>1, <2>2
<1> HIDE DEF left, rest, maxima
<1>5. /\ u.pc = "updated" /\ u.zone = z /\ u.at = t.at /\ u.hop = t.hop
      /\ u.cells = t.cells
      /\ u.next = IF continue THEN rest[1].at ELSE t.next
  <2>1. /\ ended.pc = "updated" /\ ended.zone = z /\ ended.at = t.at /\ ended.hop = t.hop
        /\ ended.cells = t.cells /\ ended.next = t.next
    BY <1>1 DEF Task
  <2>2. /\ passed.pc = "updated" /\ passed.zone = z /\ passed.at = t.at /\ passed.hop = t.hop
        /\ passed.cells = t.cells /\ passed.next = rest[1].at
    BY <1>1 DEF Task
  <2> HIDE DEF ended, passed, continue
  <2> QED BY <2>1, <2>2
<1>6. /\ c.pc = "called" /\ c.zone = z /\ c.at = rest[1].at
      /\ c.hop = t.hop + 1 /\ c.nr = t.nr /\ c.cells = <<>> /\ c.next = NoPartition
  BY DEF Call
<1> HIDE DEF u, c
<1> QED BY <1>3, <1>4, <1>5, <1>6 DEF left, rest

(* Cells that were selected are removed, and the route goes on or ends.    *)
LEMMA HistoryInvUpdate ==
    ASSUME RouteInv, NoLowerValue, HistoryInv, NEW t \in tasks, Update(t)
    PROVE  HistoryInv'
<1> DEFINE z == t.zone
           x == <<t.at, z>>
           s == local[x]
           m == Len(t.cells)
           left == SubSeq(s, m + 1, Len(s))
           rest == Tail(t.maxima)
           continue == t.nr < MaxNrCells /\ rest # <<>>
<1>1. /\ t \in Task /\ z \in Zones /\ t.at \in Partitions /\ x \in Places /\ m \in Nat
      /\ t.cells \in Seq(Nat) /\ t.pc = "read" /\ Active(t) /\ t.nr \in 0 .. MaxNrCells
      /\ t.hop \in Nat
  BY TaskFacts DEF RouteInv, TypeOK, Update, Active
<1>2. PICK u, c :
            /\ tasks' = (tasks \ {t}) \cup (IF continue THEN {u, c} ELSE {u})
            /\ local' = [local EXCEPT ![x] = IF continue THEN left ELSE <<>>]
            /\ u.pc = "updated" /\ u.zone = z /\ u.at = t.at /\ u.hop = t.hop
            /\ u.cells = t.cells
            /\ u.next = IF continue THEN rest[1].at ELSE t.next
            /\ c.pc = "called" /\ c.zone = z /\ c.at = rest[1].at
            /\ c.hop = t.hop + 1 /\ c.nr = t.nr /\ c.cells = <<>> /\ c.next = NoPartition
            /\ continue => rest[1].at \in Partitions
  BY UpdateFacts
<1>3. UNCHANGED <<values, sorted, started, start, fragments, result, finished>>
  BY DEF Update
<1>4. \A y : Stored(y)' = Stored(y)
  BY <1>3 DEF Stored
<1>5. \A y \in Places : y # x => local'[y] = local[y]
  BY <1>2 DEF RouteInv
<1>6. local'[x] = IF continue THEN left ELSE <<>>
  BY <1>1, <1>2 DEF RouteInv
<1>7. sorted = Partitions /\ started[z] # "no"
  BY DEF RouteInv, CallsAfterStart
<1>8. \A v \in tasks : Active(v) /\ v.zone = z => v = t
  BY <1>1 DEF RouteInv, OneActive
<1> HIDE DEF left, rest, continue
<1> SUFFICES ASSUME NEW zz \in Zones
             PROVE  \E h \in Seq(Piece), r \in Seq(Partitions \X Nat) : IsHistory(zz, h, r)'
  BY DEF HistoryInv
<1>9. CASE zz # z
  <2>1. PICK h \in Seq(Piece), r \in Seq(Partitions \X Nat) : IsHistory(zz, h, r)
    BY DEF HistoryInv
  <2>2. \A v : v.zone = zz => (v \in tasks' <=> v \in tasks)
    BY <1>2, <1>9
  <2>3. \A p \in Partitions : local'[<<p, zz>>] = local[<<p, zz>>]
    <3>1. \A p \in Partitions : <<p, zz>> \in Places /\ <<p, zz>> # x
      BY <1>9 DEF Places
    <3> QED BY <1>5, <3>1
  <2>4. IsHistory(zz, h, r)'
    BY <1>3, <1>4, <2>1, <2>2, <2>3, HistorySame DEF RouteInv
  <2> QED BY <2>4
<1>10. CASE zz = z
  <2>1. PICK h \in Seq(Piece), r \in Seq(Partitions \X Nat) : IsHistory(z, h, r)
    BY <1>1 DEF HistoryInv
  <2>2. FollowsOn(t, h, r)
    BY <1>1, <2>1 DEF IsHistory, GoesOn
  <2> DEFINE n == Len(h)
  <2>3. PICK piece : piece = [at |-> t.at, cells |-> t.cells, next |-> u.next, from |-> Len(r)]
    OBVIOUS
  <2>4. piece \in Piece
    <3>1. Len(r) \in Nat
      BY LenProperties
    <3>2. u.next \in Partitions \cup {NoPartition}
      BY <1>2, <2>2 DEF FollowsOn
    <3> QED BY <1>1, <2>3, <3>1, <3>2 DEF Piece
  <2>5. PICK hh \in Seq(Piece), rr \in Seq(Partitions \X Nat) : IsLonger(h, r, piece, hh, rr)
    BY <2>4, HistoryGrows
  <2>6. AreChained(hh, rr)
    <3>1. h # <<>> => h[Len(h)].next = piece.at
      BY <2>2, <2>3 DEF FollowsOn
    <3>2. piece.from = Len(r) /\ Len(r) >= Len(h)
      BY <2>2, <2>3 DEF FollowsOn
    <3> QED BY <2>1, <2>4, <2>5, <3>1, <3>2, ChainGrows DEF IsHistory
  <2>7. /\ Len(rr) = Len(r) + m
        /\ \A i \in 1 .. Len(r) : rr[i] = r[i]
        /\ \A k \in DOMAIN t.cells : rr[Len(r) + k] = <<t.at, t.cells[k]>>
        /\ Len(hh) = n + 1 /\ hh[n + 1] = piece /\ \A i \in 1 .. n : hh[i] = h[i]
    BY <2>3, <2>5 DEF IsLonger
  <2>8. /\ n \in Nat /\ DOMAIN h = 1 .. n /\ DOMAIN hh = 1 .. n + 1 /\ hh # <<>>
        /\ h = <<>> <=> n = 0
        /\ Len(r) \in Nat /\ Len(rr) \in Nat
    <3>1. n \in Nat /\ DOMAIN h = 1 .. n /\ DOMAIN hh = 1 .. n + 1
      BY <2>7, PieceFacts
    <3>2. Len(<<>>) = 0 /\ n + 1 # 0
      BY <3>1
    <3> QED BY <2>7, <3>1, <3>2, EmptySeq, LenProperties
  <2>9. /\ InOrder(z, rr)
        /\ \A p \in Partitions :
                {k \in CellsAt(<<p, z>>) : <<p, k>> \notin Range(rr)} =
                    IF p = t.at THEN {s[i] : i \in m + 1 .. Len(s)}
                    ELSE Range(local[<<p, z>>])
    <3>1. InOrder(t.zone, r)
      BY <2>1 DEF IsHistory
    <3>0. TakesCells(t, r, rr)
      BY <2>7 DEF TakesCells
    <3>4. LeavesRest(t, rr)
      BY <1>1, <2>2, <3>0, <3>1, OrderGrows
    <3>2. InOrder(t.zone, rr)
      BY <1>1, <2>2, <3>0, <3>1, OrderGrows
    <3>3. \A p \in Partitions :
                {k \in CellsAt(<<p, t.zone>>) : <<p, k>> \notin Range(rr)} =
                    IF p = t.at
                    THEN {local[<<p, t.zone>>][i] :
                            i \in Len(t.cells) + 1 .. Len(local[<<p, t.zone>>])}
                    ELSE Range(local[<<p, t.zone>>])
      BY <3>4 DEF LeavesRest
    <3> QED BY <3>2, <3>3
  <2>10. InOrder(z, rr)'
    BY <1>3, <2>9 DEF InOrder, CellsOf, CellsAt, ValueOf, Value
  <2>11. t.nr = Len(r) + m /\ t.next = NoPartition /\ t.hop = n + 1
         /\ t.at = (IF h = <<>> THEN start[z] ELSE h[n].next)
    BY <2>2 DEF FollowsOn
  <2>12. hh[1].at = start'[z]
    <3>1. CASE h = <<>>
      BY <1>3, <2>3, <2>7, <2>8, <2>11, <3>1
    <3>2. CASE h # <<>>
      BY <1>3, <2>1, <2>7, <2>8, <3>2 DEF IsHistory
    <3> QED BY <3>1, <3>2
  <2>13. NotStarted(z, hh)'
    BY <1>3, <1>7 DEF NotStarted
  <2>14. \A v \in tasks' : Active(v) /\ v.zone = z => continue /\ v = c
    BY <1>2, <1>8 DEF Active
  <2>15. ASSUME continue PROVE FollowsOn(c, hh, rr)'
    <3>1. local'[x] = left
      BY <1>6, <2>15
    <3>2. s \in Seq(Nat)
      BY <1>1 DEF RouteInv
    <3>3. /\ Len(s) \in Nat /\ DOMAIN s = 1 .. Len(s)
          /\ \A i, j \in DOMAIN s : i # j => s[i] # s[j]
      BY <1>1, <2>2, <3>2, LenProperties DEF FollowsOn, HoldsRest
    <3> DEFINE l == Len(s)
    <3>4. /\ left \in Seq(Nat) /\ Len(left) \in Nat /\ DOMAIN left = 1 .. Len(left)
          /\ Len(left) = IF m + 1 <= l THEN l - (m + 1) + 1 ELSE 0
          /\ \A i \in DOMAIN left : m + i \in DOMAIN s /\ left[i] = s[m + i]
      <4>1. /\ left \in Seq(Nat)
            /\ \A i \in DOMAIN left : m + i \in DOMAIN s /\ left[i] = s[m + i]
        BY <1>1, <3>2, SuffixFacts DEF left
      <4>2. Len(left) = IF m + 1 <= l THEN l - (m + 1) + 1 ELSE 0
        BY <1>1, <3>2, SuffixFacts DEF left
      <4> QED BY <4>1, <4>2, LenProperties
    <3> HIDE DEF m, l, s
    <3>5. HoldsRest(x, rr)'
      <4>1. ASSUME NEW i \in DOMAIN left PROVE \E j \in m + 1 .. l : left[i] = s[j]
        <5>1. m + i \in 1 .. l /\ i \in Nat /\ i >= 1
          BY <3>3, <3>4 DEF l
        <5>2. m + i \in m + 1 .. l
          BY <1>1, <5>1 DEF m
        <5> QED BY <3>4, <5>2
      <4>2. ASSUME NEW j \in m + 1 .. l PROVE \E i \in DOMAIN left : left[i] = s[j]
        <5>1. m \in Nat /\ l \in Nat
          BY <1>1, <3>3 DEF m, l
        <5>2. PICK i \in Nat : i = j - m /\ i >= 1 /\ i <= l - (m + 1) + 1 /\ m + 1 <= l
                               /\ m + i = j
          BY <5>1
        <5>3. i \in DOMAIN left
          BY <3>4, <5>1, <5>2
        <5> QED BY <3>4, <5>2, <5>3
      <4>3. Range(left) = {s[j] : j \in m + 1 .. l}
        <5> HIDE DEF left
        <5>1. Range(left) = {left[i] : i \in DOMAIN left}
          BY DEF Range
        <5>2. Range(left) \subseteq {s[j] : j \in m + 1 .. l}
          BY <4>1, <5>1
        <5>3. {s[j] : j \in m + 1 .. l} \subseteq Range(left)
          BY <4>2, <5>1
        <5> QED BY <5>2, <5>3
      <4>4. {k \in CellsAt(x) : <<t.at, k>> \notin Range(rr)} = {s[j] : j \in m + 1 .. l}
        BY <1>1, <2>9 DEF s, m, l
      <4>5. CellsAt(x)' = CellsAt(x) /\ x[1] = t.at
        BY <1>3 DEF CellsAt
      <4>6. ASSUME NEW i \in DOMAIN left, NEW j \in DOMAIN left, i # j
            PROVE  left[i] # left[j]
        <5>1. m \in Nat /\ i \in Nat /\ j \in Nat
          BY <1>1, <3>4 DEF m
        <5>2. m + i # m + j
          BY <4>6, <5>1
        <5> QED BY <3>3, <3>4, <5>2
      <4> HIDE DEF x
      <4> QED BY <3>1, <4>3, <4>4, <4>5, <4>6 DEF HoldsRest
    <3>6. ASSUME NEW p \in Partitions PROVE HoldsRest(<<p, z>>, rr)'
      <4>1. CASE p = t.at
        BY <3>5, <4>1
      <4>2. CASE p # t.at
        <5>1. HoldsRest(<<p, z>>, r)
          BY <2>2 DEF FollowsOn
        <5>2. local'[<<p, z>>] = local[<<p, z>>]
          <6>1. <<p, z>> \in Places /\ <<p, z>> # x
            BY <1>1, <4>2 DEF Places
          <6> QED BY <1>5, <6>1
        <5>3. CellsAt(<<p, z>>)' = CellsAt(<<p, z>>) /\ <<p, z>>[1] = p
          BY <1>3 DEF CellsAt
        <5>4. {k \in CellsAt(<<p, z>>) : <<p, k>> \notin Range(rr)} = Range(local[<<p, z>>])
          BY <2>9, <4>2
        <5> QED BY <5>1, <5>2, <5>3, <5>4 DEF HoldsRest
      <4> QED BY <4>1, <4>2
    <3>7. c.hop = Len(hh) + 1
      BY <1>2, <2>7, <2>11
    <3>8. c.at = hh[Len(hh)].next
      BY <1>2, <2>3, <2>7, <2>15
    <3>9. Len(rr) >= Len(hh) /\ c.nr = Len(rr) + Len(c.cells)
      <4>1. t.nr < MaxNrCells
        BY <2>15 DEF continue
      <4>2. MaxNrCells \in Nat /\ m \in Nat
        BY <1>1, InputsAssumption DEF m
      <4>3. Len(r) < MaxNrCells
        BY <2>8, <2>11, <4>1, <4>2
      <4>4. t.cells # <<>>
        BY <1>1, <2>2, <4>3 DEF FollowsOn
      <4>5. m # 0
        BY <1>1, <4>4, EmptySeq DEF m
      <4>6. Len(r) >= n
        BY <2>2 DEF FollowsOn
      <4>7. Len(c.cells) = 0
        BY <1>2
      <4> HIDE DEF n
      <4> QED BY <1>2, <2>7, <2>8, <2>11, <4>2, <4>5, <4>6, <4>7
    <3>10. Len(c.cells) <= Len(local'[x]) /\ DOMAIN c.cells = {} /\ Len(c.cells) = 0
      BY <1>2, <3>1, <3>4
    <3>11. c.zone = z /\ c.pc = "called" /\ c.cells = <<>> /\ c.next = NoPartition
      BY <1>2
    <3>12. <<c.at, z>> \in Places /\ Len(c.cells) <= Len(local'[<<c.at, z>>])
      <4>1. c.at \in Partitions
        BY <1>2, <2>15
      <4>2. <<c.at, z>> \in Places
        BY <1>1, <4>1 DEF Places
      <4>3. local' \in [Places -> Seq(Nat)]
        BY RouteInvUpdate DEF RouteInv
      <4>4. Len(local'[<<c.at, z>>]) \in Nat
        BY <4>2, <4>3, LenProperties
      <4> QED BY <3>10, <4>2, <4>4
    <3> QED BY <2>8, <3>6, <3>7, <3>8, <3>9, <3>10, <3>11, <3>12 DEF FollowsOn
  <2>16. GoesOn(z, hh, rr)'
    BY <2>14, <2>15 DEF GoesOn, Active
  <2>17. ASSUME ~continue
         PROVE  Len(rr) = IF Cardinality(CellsOf(z)) < MaxNrCells THEN Cardinality(CellsOf(z))
                          ELSE MaxNrCells
    <3>1. Len(rr) = t.nr
      BY <2>7, <2>11
    <3>2. /\ Len(rr) <= Cardinality(CellsOf(z))
          /\ CellsOf(z) \subseteq Range(rr) => Len(rr) = Cardinality(CellsOf(z))
      BY <1>1, <2>9, RouteLength DEF RouteInv
    <3>3. MaxNrCells \in Nat /\ Cardinality(CellsOf(z)) \in Nat
      BY <1>1, InputsAssumption, CellsOfFacts DEF RouteInv
    <3>4. CASE t.nr = MaxNrCells
      BY <3>1, <3>2, <3>3, <3>4
    <3>5. CASE t.nr # MaxNrCells
      <4>1. t.nr < MaxNrCells /\ rest = <<>>
        BY <1>1, <2>17, <3>3, <3>5 DEF continue
      <4>2. \A p \in Partitions : p # t.at => local[<<p, z>>] = <<>>
        BY <1>1, <4>1, NextMaximumFacts DEF rest
      <4>3. NextMaximum(t.maxima) = MinValue
        <5>1. t.maxima \in Seq(MaximumRecord) /\ t.maxima # <<>> /\ AreOrdered(t.maxima)
          BY <1>1, TaskFacts DEF RouteInv, MaximaAreExact, AreOrdered
        <5>2. Len(Tail(t.maxima)) = Len(t.maxima) - 1 /\ Len(t.maxima) \in Nat
          BY <5>1, HeadTailProperties, LenProperties
        <5>3. Tail(t.maxima) = <<>> /\ Len(<<>>) = 0
          BY <4>1 DEF rest
        <5>4. ~(Len(t.maxima) > 1)
          <6> DEFINE a == Len(t.maxima)
                     b == Len(Tail(t.maxima))
          <6>1. b = a - 1 /\ a \in Nat /\ b = 0
            BY <5>2, <5>3
          <6> HIDE DEF a, b
          <6>2. ~(a > 1)
            BY <6>1
          <6> QED BY <6>2 DEF a
        <5> QED BY <5>4 DEF NextMaximum
      <4>4. /\ s \in Seq(CellsAt(x)) /\ Len(s) \in Nat /\ DOMAIN s = 1 .. Len(s)
            /\ CellsAt(x) = DOMAIN values[x]
            /\ \A i \in DOMAIN s : s[i] \in CellsAt(x) /\ Value(x, s[i]) \in Int
        <5>1. /\ s \in Seq(CellsAt(x)) /\ Len(s) \in Nat /\ DOMAIN s = 1 .. Len(s)
              /\ \A i \in DOMAIN s : Value(x, s[i]) \in Int
          BY <1>1, CellFacts DEF RouteInv
        <5> HIDE DEF s
        <5> QED BY <5>1, LenProperties DEF CellsAt
      <4>5. ASSUME NEW i \in m + 1 .. Len(s) PROVE FALSE
        <5>1. i \in DOMAIN s /\ i > m
          <6> HIDE DEF s, m
          <6>1. m \in Nat
            BY <1>1 DEF m
          <6> QED BY <4>4, <6>1
        <5>2. Value(x, s[i]) < NextMaximum(t.maxima)
          BY <1>1, <4>1, <5>1 DEF RouteInv, SelectsAll
        <5>3. Value(x, s[i]) >= MinValue /\ Value(x, s[i]) \in Int /\ MinValue \in Int
          <6>1. s[i] \in DOMAIN values[x] /\ values \in Inputs
            BY <4>4, <5>1 DEF RouteInv, TypeOK
          <6>2. Value(x, s[i]) >= MinValue
            BY <1>1, <6>1 DEF NoLowerValue, Value
          <6> QED BY <4>4, <5>1, <6>2, InputsAssumption
        <5>4. Value(x, s[i]) < MinValue
          BY <4>3, <5>2
        <5> HIDE DEF x, s
        <5> QED BY <5>3, <5>4
      <4>6. ASSUME NEW cell \in CellsOf(z), cell \notin Range(rr) PROVE FALSE
        <5>1. /\ cell = <<cell[1], cell[2]>> /\ cell[1] \in Partitions
              /\ cell[2] \in CellsAt(<<cell[1], z>>)
          BY <1>1, CellsOfFacts DEF RouteInv
        <5>2. cell[2] \in {k \in CellsAt(<<cell[1], z>>) : <<cell[1], k>> \notin Range(rr)}
          BY <4>6, <5>1
        <5>3. CASE cell[1] = t.at
          <6>1. cell[2] \in {s[i] : i \in m + 1 .. Len(s)}
            BY <2>9, <5>1, <5>2, <5>3
          <6> QED BY <4>5, <6>1
        <5>4. CASE cell[1] # t.at
          <6>1. cell[2] \in Range(local[<<cell[1], z>>])
            BY <2>9, <5>1, <5>2, <5>4
          <6>2. local[<<cell[1], z>>] = <<>>
            BY <4>2, <5>1, <5>4
          <6> QED BY <6>1, <6>2 DEF Range
        <5> QED BY <5>3, <5>4
      <4>7. Len(rr) = Cardinality(CellsOf(z))
        BY <3>2, <4>6
      <4> QED BY <3>1, <3>3, <4>1, <4>7
    <3> QED BY <3>4, <3>5
  <2>18. HasEnded(z, hh, rr)'
    <3>1. CASE continue
      <4>1. c \in tasks' /\ Active(c) /\ c.zone = z
        BY <1>2, <3>1 DEF Active
      <4> QED BY <4>1 DEF HasEnded, Active
    <3>2. CASE ~continue
      <4>1. CellsOf(z)' = CellsOf(z)
        BY <1>3 DEF CellsOf, CellsAt
      <4>2. hh[Len(hh)].next = NoPartition
        BY <1>2, <2>3, <2>7, <2>11, <3>2
      <4> QED BY <1>3, <1>7, <2>8, <2>12, <2>17, <3>2, <4>1, <4>2 DEF HasEnded
    <3> QED BY <3>1, <3>2
  <2>19. ArePieces(z, hh)'
    <3>1. \A p, f : IsPiece(h, p, f) => /\ IsPiece(hh, p, f) /\ f.hop \in Nat /\ f.hop < n + 1
      <4>1. \A i \in 1 .. n : i \in 1 .. n + 1 /\ i \in Nat /\ i < n + 1
        BY <2>8
      <4> QED BY <2>7, <2>8, <4>1 DEF IsPiece
    <3>2. IsPiece(hh, u.at, u) /\ u.hop = n + 1
      <4>1. n + 1 \in 1 .. n + 1
        BY <2>8
      <4> QED BY <1>2, <2>3, <2>7, <2>8, <2>11, <4>1 DEF IsPiece
    <3>3. \A v \in tasks' : v.zone = z /\ v.pc = "updated" => v = u \/ v \in tasks
      BY <1>2
    <3>4. ASSUME NEW v \in tasks', v.zone = z, v.pc = "updated"
          PROVE  /\ IsPiece(hh, v.at, v)
                 /\ \A k \in DOMAIN Stored(<<v.at, z>>) : Stored(<<v.at, z>>)[k].hop < v.hop
      <4>1. CASE v = u
        <5>1. \A k \in DOMAIN Stored(<<t.at, z>>) : IsPiece(h, t.at, Stored(<<t.at, z>>)[k])
          BY <1>1, <2>1 DEF IsHistory, ArePieces
        <5> QED BY <1>2, <3>1, <3>2, <4>1, <5>1
      <4>2. CASE v # u
        BY <2>1, <3>1, <3>3, <3>4, <4>2 DEF IsHistory, ArePieces
      <4> QED BY <4>1, <4>2
    <3>5. ASSUME NEW p \in Partitions, NEW k \in DOMAIN Stored(<<p, z>>)
          PROVE  /\ IsPiece(hh, p, Stored(<<p, z>>)[k])
                 /\ \A l \in 1 .. k - 1 : Stored(<<p, z>>)[l].hop < Stored(<<p, z>>)[k].hop
      BY <2>1, <3>1 DEF IsHistory, ArePieces
    <3>6. ASSUME NEW i \in 1 .. n + 1
          PROVE  \/ \E v \in tasks' : v.zone = z /\ v.pc = "updated" /\ v.hop = i
                 \/ \E k \in DOMAIN Stored(<<hh[i].at, z>>) : Stored(<<hh[i].at, z>>)[k].hop = i
      <4>1. i \in 1 .. n \/ i = n + 1
        BY <2>8
      <4>2. CASE i = n + 1
        BY <1>2, <3>2, <4>2
      <4>3. CASE i \in 1 .. n
        <5>1. hh[i] = h[i]
          BY <2>7, <4>3
        <5>2. \/ \E v \in tasks : v.zone = z /\ v.pc = "updated" /\ v.hop = i
              \/ \E k \in DOMAIN Stored(<<h[i].at, z>>) : Stored(<<h[i].at, z>>)[k].hop = i
          BY <2>1, <2>8, <4>3 DEF IsHistory, ArePieces
        <5>3. \A v \in tasks : v.pc = "updated" => v \in tasks'
          BY <1>1, <1>2
        <5> QED BY <5>1, <5>2, <5>3
      <4> QED BY <4>1, <4>2, <4>3
    <3> QED BY <1>4, <2>8, <3>4, <3>5, <3>6 DEF ArePieces
  <2>21. CellsOf(z)' # {}
    <3>1. s \in Seq(CellsAt(x)) /\ 1 \in DOMAIN s
      BY <1>1, CellFacts, NextMaximumFacts DEF RouteInv
    <3>2. s[1] \in CellsAt(x)
      <4> HIDE DEF s
      <4> QED BY <3>1, LenProperties
    <3>3. <<t.at, s[1]>> \in {t.at} \X CellsAt(<<t.at, z>>)
      BY <3>2
    <3>4. <<t.at, s[1]>> \in CellsOf(z)
      BY <1>1, <3>3 DEF CellsOf
    <3>5. CellsOf(z)' = CellsOf(z)
      BY <1>3 DEF CellsOf, CellsAt
    <3> QED BY <3>4, <3>5
  <2>20. IsHistory(z, hh, rr)'
    BY <2>21, <2>6, <2>10, <2>12, <2>13, <2>16, <2>18, <2>19 DEF IsHistory
  <2> QED BY <1>10, <2>20
<1> QED BY <1>9, <1>10

(* Every step preserves the invariant about what routes have visited.      *)
LEMMA HistoryInvNext ==
    ASSUME Zonal, NoLowerValue
    PROVE  RouteInv /\ FinishInv /\ HistoryInv /\ [Next]_vars => HistoryInv'
<1> SUFFICES ASSUME RouteInv, FinishInv, HistoryInv, [Next]_vars PROVE HistoryInv'
  OBVIOUS
<1>1. CASE Start
  BY <1>1, HistoryInvStart
<1>2. ASSUME NEW p \in Partitions, Sort(p) PROVE HistoryInv'
  BY <1>2, HistoryInvSort
<1>3. ASSUME NEW p \in Partitions, AskRoutePartition(p) PROVE HistoryInv'
  BY <1>3, HistoryInvSame DEF AskRoutePartition
<1>4. ASSUME NEW p \in Partitions, Publish(p) PROVE HistoryInv'
  BY <1>4, HistoryInvSame DEF Publish
<1>5. ASSUME NEW t \in tasks, Read(t) PROVE HistoryInv'
  BY <1>5, HistoryInvRead
<1>6. ASSUME NEW t \in tasks, Update(t) PROVE HistoryInv'
  BY <1>6, HistoryInvUpdate
<1>7. ASSUME NEW t \in tasks, Store(t) PROVE HistoryInv'
  BY <1>7, HistoryInvStore
<1>8. ASSUME NEW x \in Places, Skip(x) PROVE HistoryInv'
  BY <1>8, HistoryInvSkip
<1>9. CASE UNCHANGED vars
  BY <1>9, HistoryInvSame DEF vars
<1> QED BY <1>1, <1>2, <1>3, <1>4, <1>5, <1>6, <1>7, <1>8, <1>9 DEF Next, Step, Terminated

-----------------------------------------------------------------------------
(* A set of natural numbers has a smallest element.                        *)
LEMMA SmallestElement ==
    ASSUME NEW S, S \subseteq Nat, S # {}
    PROVE  \E n \in S : \A m \in S : n <= m
<1> DEFINE R == OpToRel(<, Nat)
<1>1. IsWellFoundedOn(R, Nat)
  BY NatLessThanWellFounded
<1>2. \A m, n \in Nat : m < n => <<m, n>> \in R
  BY DEF OpToRel
<1> HIDE DEF R
<1>3. PICK n \in S : \A m \in S : ~(<<m, n>> \in R)
  BY <1>1, WFMin
<1>4. ASSUME NEW m \in S PROVE n <= m
  <2>1. m \in Nat /\ n \in Nat
    OBVIOUS
  <2>2. ~(m < n)
    BY <1>2, <1>3, <2>1
  <2> QED BY <2>1, <2>2
<1> QED BY <1>4

(* All fragments of a route are in the result.                             *)
IsRecorded(z, h) ==
    /\ \A p \in Partitions : \A k \in DOMAIN result[<<p, z>>] :
        /\ IsPiece(h, p, result[<<p, z>>][k])
        /\ \A l \in 1 .. k - 1 : result[<<p, z>>][l].hop < result[<<p, z>>][k].hop
    /\ \A i \in DOMAIN h : \E k \in DOMAIN result[<<h[i].at, z>>] :
        result[<<h[i].at, z>>][k].hop = i
    /\ IF h = <<>> THEN start[z] = NoPartition
       ELSE start[z] = h[1].at /\ h[Len(h)].next = NoPartition
    /\ \A i \in 1 .. Len(h) - 1 : h[i].next = h[i + 1].at

(* The pieces of a route that are at a partition, up to one of them, are   *)
(* as many as the place of its fragment there.                             *)
LEMMA PlaceOfPiece ==
    ASSUME TypeOK, NEW z \in Zones, NEW h \in Seq(Piece), IsRecorded(z, h), NEW i \in DOMAIN h
    PROVE  \E k \in DOMAIN result[<<h[i].at, z>>] :
                /\ result[<<h[i].at, z>>][k] = [cells |-> h[i].cells, next |-> h[i].next, hop |-> i]
                /\ Cardinality({j \in 1 .. i - 1 : h[j].at = h[i].at}) = k - 1
                /\ k \in Nat /\ k <= Len(result[<<h[i].at, z>>])
<1> DEFINE p == h[i].at
           s == result[<<p, z>>]
           T == {j \in 1 .. i - 1 : h[j].at = p}
<1>1. /\ p \in Partitions /\ Len(h) \in Nat /\ DOMAIN h = 1 .. Len(h)
      /\ i \in Nat /\ i \in 1 .. Len(h)
  BY PieceFacts
<1>2. s \in Seq(Fragment)
  BY <1>1 DEF TypeOK, Places
<1>3. /\ Len(s) \in Nat /\ DOMAIN s = 1 .. Len(s)
      /\ \A k \in DOMAIN s : s[k] \in Fragment /\ s[k].hop \in Nat
  <2> HIDE DEF s
  <2>1. Len(s) \in Nat /\ DOMAIN s = 1 .. Len(s) /\ \A k \in DOMAIN s : s[k] \in Fragment
    BY <1>2, LenProperties
  <2>2. \A x \in Fragment : x.hop \in Nat
    BY DEF Fragment
  <2> QED BY <2>1, <2>2
<1>4. /\ \A k \in DOMAIN s : IsPiece(h, p, s[k])
      /\ \A k \in DOMAIN s : \A l \in 1 .. k - 1 : s[l].hop < s[k].hop
  BY <1>1 DEF IsRecorded
<1>5. PICK k \in DOMAIN s : s[k].hop = i
  BY DEF IsRecorded
<1>6. \A j \in T : \E l \in DOMAIN s : s[l].hop = j
  <2> SUFFICES ASSUME NEW j \in T PROVE \E l \in DOMAIN s : s[l].hop = j
    OBVIOUS
  <2>1. j \in DOMAIN h /\ h[j].at = p
    BY <1>1
  <2> QED BY <2>1 DEF IsRecorded
<1> HIDE DEF s, p
<1>7. s[k] = [cells |-> h[i].cells, next |-> h[i].next, hop |-> i]
  BY <1>3, <1>4, <1>5 DEF IsPiece, Fragment
<1> DEFINE n == k - 1
           f == [l \in 1 .. n |-> s[l].hop]
<1>8. k \in Nat /\ n \in Nat /\ k <= Len(s) /\ \A l \in 1 .. n : l \in DOMAIN s
  BY <1>3
<1>9. ASSUME NEW l \in 1 .. n PROVE s[l].hop \in T
  <2>1. s[l].hop < i /\ IsPiece(h, p, s[l])
    BY <1>4, <1>5, <1>8
  <2>2. s[l].hop \in 1 .. Len(h) /\ h[s[l].hop].at = p
    BY <1>1, <2>1 DEF IsPiece
  <2> QED BY <1>1, <2>1, <2>2
<1>10. \A l, m \in 1 .. n : l # m => s[l].hop # s[m].hop
  <2> SUFFICES ASSUME NEW l \in 1 .. n, NEW m \in 1 .. n, l # m PROVE s[l].hop # s[m].hop
    OBVIOUS
  <2>1. l \in DOMAIN s /\ m \in DOMAIN s /\ s[l].hop \in Nat /\ s[m].hop \in Nat
    BY <1>3, <1>8
  <2>2. l \in 1 .. m - 1 \/ m \in 1 .. l - 1
    BY <1>8
  <2>3. s[l].hop < s[m].hop \/ s[m].hop < s[l].hop
    BY <1>4, <2>1, <2>2
  <2> QED BY <2>1, <2>3
<1>11. ASSUME NEW j \in T PROVE \E l \in 1 .. n : s[l].hop = j
  <2>1. PICK l \in DOMAIN s : s[l].hop = j
    BY <1>6
  <2>2. j < i /\ j \in Nat
    BY <1>1
  <2>3. l # k
    BY <1>1, <1>5, <2>1, <2>2
  <2>4. ~(k \in 1 .. l - 1)
    <3> SUFFICES ASSUME k \in 1 .. l - 1 PROVE FALSE
      OBVIOUS
    <3>1. i < j
      BY <1>4, <1>5, <2>1
    <3> QED BY <1>1, <2>2, <3>1
  <2>5. l \in 1 .. n
    BY <1>3, <1>8, <2>1, <2>3, <2>4
  <2> QED BY <2>1, <2>5
<1> HIDE DEF n, T
<1>12. f \in Bijection(1 .. n, T)
  <2>1. f \in [1 .. n -> T]
    BY <1>9
  <2>2. f \in Injection(1 .. n, T)
    BY <1>10, <2>1 DEF Injection, IsInjective
  <2>3. f \in Surjection(1 .. n, T)
    BY <1>11, <2>1 DEF Surjection
  <2> QED BY <2>2, <2>3 DEF Bijection
<1>13. Cardinality(T) = n
  <2>1. ExistsBijection(1 .. n, T)
    BY <1>12 DEF ExistsBijection
  <2>2. IsFiniteSet(1 .. n) /\ Cardinality(1 .. n) = n
    <3>1. 1 \in Int /\ n \in Int /\ n - 1 + 1 = n /\ (1 > n => n = 0)
      BY <1>8
    <3>2. IsFiniteSet(1 .. n) /\ Cardinality(1 .. n) = IF 1 > n THEN 0 ELSE n - 1 + 1
      BY <3>1, FS_Interval
    <3> QED BY <3>1, <3>2
  <2> QED BY <2>1, <2>2, FS_Bijection
<1> QED BY <1>7, <1>8, <1>13 DEF p, s, T, n

(* What a traversal has visited after n fragments.                         *)
Visited(h, n) ==
    [i \in 1 .. n |-> [at |-> h[i].at,
                       fragment |-> [cells |-> h[i].cells, next |-> h[i].next, hop |-> i]]]

(* The recursion of RouteFragments.                                        *)
NextVisit(z, before) ==
    LET p == IF before = <<>> THEN start[z] ELSE Last(before).fragment.next
        k == Cardinality({j \in DOMAIN before : before[j].at = p}) + 1
    IN  IF p = NoPartition \/ k > Len(result[<<p, z>>])
        THEN before
        ELSE Append(before, [at |-> p, fragment |-> result[<<p, z>>][k]])

AreVisits(z, g, n) ==
    g = [i \in 0 .. n |-> IF i = 0 THEN <<>> ELSE NextVisit(z, g[i - 1])]

RouteVisit == [at : Partitions, fragment : Fragment]

(* The parts of what a traversal has visited.                              *)
LEMMA VisitedFacts ==
    ASSUME NEW h \in Seq(Piece), NEW n \in 0 .. Len(h)
    PROVE  /\ Visited(h, n) \in Seq(RouteVisit)
           /\ Len(Visited(h, n)) = n
           /\ DOMAIN Visited(h, n) = 1 .. n
           /\ Visited(h, n) = <<>> <=> n = 0
           /\ \A i \in 1 .. n :
                Visited(h, n)[i] = [at |-> h[i].at, fragment |->
                                    [cells |-> h[i].cells, next |-> h[i].next, hop |-> i]]
<1> DEFINE v == Visited(h, n)
<1>1. Len(h) \in Nat /\ DOMAIN h = 1 .. Len(h) /\ n \in Nat /\ \A i \in 1 .. n : i \in DOMAIN h
  BY PieceFacts
<1>2. \A i \in 1 .. n : v[i] = [at |-> h[i].at, fragment |->
                                [cells |-> h[i].cells, next |-> h[i].next, hop |-> i]]
  BY DEF Visited
<1>3. \A i \in 1 .. n : v[i] \in RouteVisit
  <2> SUFFICES ASSUME NEW i \in 1 .. n PROVE v[i] \in RouteVisit
    OBVIOUS
  <2>1. /\ h[i].at \in Partitions /\ h[i].cells \in Seq(Nat)
        /\ h[i].next \in Partitions \cup {NoPartition} /\ i \in Nat
    BY <1>1, PieceFacts
  <2>2. [cells |-> h[i].cells, next |-> h[i].next, hop |-> i] \in Fragment
    BY <2>1 DEF Fragment
  <2>3. [at |-> h[i].at, fragment |-> [cells |-> h[i].cells, next |-> h[i].next, hop |-> i]]
            \in RouteVisit
    BY <2>1, <2>2 DEF RouteVisit
  <2> HIDE DEF v
  <2> QED BY <1>2, <2>3
<1>4. v \in [1 .. n -> RouteVisit]
  BY <1>3 DEF Visited
<1> HIDE DEF v
<1>5. v \in Seq(RouteVisit)
  BY <1>1, <1>4, SeqDef
<1>6. DOMAIN v = 1 .. n /\ DOMAIN v = 1 .. Len(v) /\ Len(v) \in Nat
  BY <1>4, <1>5, LenProperties
<1>7. Len(v) = n
  BY <1>1, <1>6
<1>8. v = <<>> <=> n = 0
  BY <1>1, <1>5, <1>7, EmptySeq
<1> QED BY <1>2, <1>5, <1>6, <1>7, <1>8 DEF v

(* A traversal goes on to the next fragment, and stops after the last.     *)
LEMMA NextVisitFacts ==
    ASSUME TypeOK, NEW z \in Zones, NEW h \in Seq(Piece), IsRecorded(z, h),
           NEW n \in 0 .. Len(h)
    PROVE  /\ n < Len(h) => NextVisit(z, Visited(h, n)) = Visited(h, n + 1)
           /\ n = Len(h) => NextVisit(z, Visited(h, n)) = Visited(h, n)
<1> DEFINE before == Visited(h, n)
           p == IF before = <<>> THEN start[z] ELSE Last(before).fragment.next
           T == {j \in DOMAIN before : before[j].at = p}
           k == Cardinality(T) + 1
<1>1. /\ Len(h) \in Nat /\ DOMAIN h = 1 .. Len(h) /\ n \in Nat
      /\ h # <<>> <=> Len(h) \in DOMAIN h
  BY PieceFacts
<1>2. /\ before \in Seq(RouteVisit) /\ Len(before) = n /\ DOMAIN before = 1 .. n
      /\ before = <<>> <=> n = 0
      /\ \A i \in 1 .. n : before[i] = [at |-> h[i].at, fragment |->
                                [cells |-> h[i].cells, next |-> h[i].next, hop |-> i]]
  BY VisitedFacts
<1>3. NextVisit(z, before) = IF p = NoPartition \/ k > Len(result[<<p, z>>]) THEN before
                             ELSE Append(before, [at |-> p, fragment |-> result[<<p, z>>][k]])
  BY DEF NextVisit
<1>4. p = IF n = 0 THEN start[z] ELSE h[n].next
  <2>1. n # 0 => n \in 1 .. n
    BY <1>1
  <2>2. n # 0 => Last(before) = before[n]
    BY <1>2 DEF Last
  <2> QED BY <1>2, <2>1, <2>2
<1> HIDE DEF before, p
<1>5. CASE n = Len(h)
  <2>1. p = NoPartition
    BY <1>1, <1>4, <1>5 DEF IsRecorded
  <2> QED BY <1>3, <1>5, <2>1 DEF before
<1>6. CASE n < Len(h)
  <2> DEFINE i == n + 1
  <2>1. i \in DOMAIN h /\ i - 1 = n /\ h # <<>> /\ (n # 0 => n \in 1 .. Len(h) - 1)
    BY <1>1, <1>6
  <2>2. p = h[i].at
    BY <1>4, <2>1 DEF IsRecorded
  <2>3. p \in Partitions /\ p # NoPartition
    BY <2>1, <2>2, PieceFacts, InputsAssumption
  <2>4. T = {j \in 1 .. i - 1 : h[j].at = h[i].at}
    BY <1>2, <2>1, <2>2
  <2> HIDE DEF i, T
  <2>5. PICK m \in DOMAIN result[<<h[i].at, z>>] :
                /\ result[<<h[i].at, z>>][m] = [cells |-> h[i].cells, next |-> h[i].next, hop |-> i]
                /\ Cardinality({j \in 1 .. i - 1 : h[j].at = h[i].at}) = m - 1
                /\ m \in Nat /\ m <= Len(result[<<h[i].at, z>>])
    BY <2>1, PlaceOfPiece
  <2>6. k = m
    BY <2>4, <2>5
  <2>7. Len(result[<<p, z>>]) \in Nat
    <3>1. result[<<p, z>>] \in Seq(Fragment)
      BY <2>3 DEF TypeOK, Places
    <3> QED BY <3>1, LenProperties
  <2> DEFINE v == [at |-> h[i].at, fragment |->
                    [cells |-> h[i].cells, next |-> h[i].next, hop |-> i]]
  <2>8. NextVisit(z, before) = Append(before, v)
    <3> HIDE DEF k
    <3>1. ~(k > Len(result[<<p, z>>]))
      BY <2>2, <2>5, <2>6, <2>7
    <3> QED BY <1>3, <2>2, <2>3, <2>5, <2>6, <3>1
  <2>9. /\ Visited(h, i) \in Seq(RouteVisit) /\ Len(Visited(h, i)) = i
        /\ \A j \in 1 .. i : Visited(h, i)[j] = [at |-> h[j].at, fragment |->
                                [cells |-> h[j].cells, next |-> h[j].next, hop |-> j]]
    <3>1. i \in 0 .. Len(h)
      BY <1>1, <2>1
    <3> QED BY <3>1, VisitedFacts
  <2>10. i \in 1 .. i
    BY <1>1, <2>1
  <2>11. Visited(h, i)[i] = v
    BY <2>9, <2>10
  <2>12. v \in RouteVisit
    <3>1. Visited(h, i)[i] \in RouteVisit
      BY <2>9, <2>10, ElementOfSeq
    <3> QED BY <2>11, <3>1
  <2> HIDE DEF v
  <2>13. /\ Append(before, v) \in Seq(RouteVisit) /\ Len(Append(before, v)) = n + 1
         /\ \A j \in 1 .. n : Append(before, v)[j] = before[j]
         /\ Append(before, v)[n + 1] = v
    BY <1>2, <2>12, AppendProperties
  <2>14. ASSUME NEW j \in 1 .. i PROVE Append(before, v)[j] = Visited(h, i)[j]
    <3>1. j \in 1 .. n \/ j = n + 1
      BY <1>1 DEF i
    <3>2. CASE j \in 1 .. n
      BY <1>2, <2>9, <2>13, <3>2
    <3>3. CASE j = n + 1
      BY <2>11, <2>13, <3>3 DEF i
    <3> QED BY <3>1, <3>2, <3>3
  <2>15. Append(before, v) = Visited(h, i)
    <3>1. Len(Append(before, v)) = i
      BY <2>13 DEF i
    <3> QED BY <2>9, <2>13, <2>14, <3>1, SeqEqual
  <2> QED BY <1>6, <2>8, <2>15 DEF before, i
<1> QED BY <1>5, <1>6

(* What a traversal visits is determined by its recursion.                 *)
LEMMA VisitsUnique ==
    ASSUME NEW z, NEW n \in Nat, NEW f, NEW g, AreVisits(z, f, n), AreVisits(z, g, n)
    PROVE  \A i \in 0 .. n : f[i] = g[i]
<1> DEFINE S == {i \in 0 .. n : f[i] # g[i]}
<1> SUFFICES ASSUME S # {} PROVE FALSE
  OBVIOUS
<1>1. PICK k \in S : \A i \in S : k <= i
  <2>1. S \subseteq Nat
    OBVIOUS
  <2> HIDE DEF S
  <2> QED BY <2>1, SmallestElement
<1>2. /\ f[k] = IF k = 0 THEN <<>> ELSE NextVisit(z, f[k - 1])
      /\ g[k] = IF k = 0 THEN <<>> ELSE NextVisit(z, g[k - 1])
  BY DEF AreVisits
<1>3. k # 0
  BY <1>2
<1>4. k - 1 \in 0 .. n /\ k - 1 \notin S
  BY <1>1, <1>3
<1> QED BY <1>2, <1>3, <1>4

(* Following the locations from the start yields all fragments in order.   *)
LEMMA RouteFragmentsFacts ==
    ASSUME TypeOK, NEW z \in Zones, NEW h \in Seq(Piece), IsRecorded(z, h),
           Len(h) <= Cardinality(CellsOf(z)) + 1
    PROVE  RouteFragments(z) = Visited(h, Len(h))
<1> DEFINE cells == UNION {{x} \X CellsAt(x) : x \in Partitions \X {z}}
           hops == Cardinality(cells) + 1
           n == Len(h)
<1>1. Cardinality(cells) = Cardinality(CellsOf(z))
  <2> DEFINE f == [c \in CellsOf(z) |-> <<<<c[1], z>>, c[2]>>]
  <2>1. \A c : c \in CellsOf(z) <=> /\ c = <<c[1], c[2]>> /\ c[1] \in Partitions
                                    /\ c[2] \in CellsAt(<<c[1], z>>)
    BY CellsOfFacts
  <2>2. ASSUME NEW p \in Partitions, NEW c \in CellsAt(<<p, z>>)
        PROVE  <<<<p, z>>, c>> \in cells
    <3>1. <<<<p, z>>, c>> \in {<<p, z>>} \X CellsAt(<<p, z>>)
      OBVIOUS
    <3> QED BY <3>1
  <2>3. ASSUME NEW y \in cells
        PROVE  \E p \in Partitions : \E c \in CellsAt(<<p, z>>) : y = <<<<p, z>>, c>>
    <3>1. PICK x \in Partitions \X {z} : y \in {x} \X CellsAt(x)
      OBVIOUS
    <3>2. PICK p \in Partitions : x = <<p, z>>
      OBVIOUS
    <3> QED BY <3>1, <3>2
  <2> HIDE DEF cells
  <2>4. f \in [CellsOf(z) -> cells]
    <3>1. \A c \in CellsOf(z) : <<<<c[1], z>>, c[2]>> \in cells
      BY <2>1, <2>2
    <3> QED BY <3>1
  <2>5. f \in Injection(CellsOf(z), cells)
    <3>1. ASSUME NEW c \in CellsOf(z), NEW d \in CellsOf(z), f[c] = f[d] PROVE c = d
      <4>1. c[1] = d[1] /\ c[2] = d[2]
        BY <3>1
      <4>2. c = <<c[1], c[2]>> /\ d = <<d[1], d[2]>>
        BY <2>1
      <4>3. <<c[1], c[2]>> = <<d[1], d[2]>>
        BY <4>1
      <4> QED BY <4>2, <4>3
    <3> QED BY <2>4, <3>1 DEF Injection, IsInjective
  <2>6. f \in Surjection(CellsOf(z), cells)
    <3>1. ASSUME NEW y \in cells PROVE \E c \in CellsOf(z) : f[c] = y
      <4>1. PICK p \in Partitions : \E c \in CellsAt(<<p, z>>) : y = <<<<p, z>>, c>>
        BY <2>3
      <4>2. PICK c \in CellsAt(<<p, z>>) : y = <<<<p, z>>, c>>
        BY <4>1
      <4>3. <<p, c>> \in CellsOf(z)
        BY <2>1
      <4> QED BY <4>2, <4>3
    <3> QED BY <2>4, <3>1 DEF Surjection
  <2> HIDE DEF f
  <2>7. f \in Bijection(CellsOf(z), cells)
    BY <2>5, <2>6 DEF Bijection
  <2>8. ExistsBijection(CellsOf(z), cells)
    BY <2>7 DEF ExistsBijection
  <2> QED BY <2>8, CellsOfFacts, FS_Bijection
<1>2. n \in Nat /\ hops \in Nat /\ n <= hops
  <2>1. n \in Nat
    BY PieceFacts
  <2>2. Cardinality(CellsOf(z)) \in Nat
    BY CellsOfFacts
  <2> HIDE DEF cells, n
  <2> QED BY <1>1, <2>1, <2>2 DEF n
<1> DEFINE f == CHOOSE f : f = [i \in 0 .. hops |-> IF i = 0 THEN <<>> ELSE NextVisit(z, f[i - 1])]
           g == [i \in 0 .. hops |-> Visited(h, IF i < n THEN i ELSE n)]
<1>3. RouteFragments(z) = f[hops]
  BY Zenon DEF RouteFragments, NextVisit
<1> HIDE DEF hops, cells
<1>4. AreVisits(z, g, hops)
  <2> SUFFICES ASSUME NEW i \in 0 .. hops
               PROVE  g[i] = IF i = 0 THEN <<>> ELSE NextVisit(z, g[i - 1])
    BY Zenon DEF AreVisits
  <2> DEFINE at(j) == Visited(h, IF j < n THEN j ELSE n)
  <2>1. CASE i = 0
    <3>1. g[i] = Visited(h, 0)
      BY <1>2, <2>1
    <3>2. 0 \in 0 .. Len(h)
      BY <1>2
    <3> HIDE DEF g
    <3> QED BY <2>1, <3>1, <3>2, VisitedFacts
  <2>2. CASE i # 0
    <3> DEFINE j == i - 1
    <3>1. j \in 0 .. hops /\ j \in Nat /\ i = j + 1
      BY <1>2, <2>2
    <3>2. g[i] = at(i) /\ g[i - 1] = at(j)
      BY <3>1
    <3>3. CASE j < n
      <4>1. at(i) = Visited(h, j + 1) /\ at(j) = Visited(h, j) /\ j \in 0 .. Len(h) /\ j < Len(h)
        <5>1. i < n \/ i = n
          BY <1>2, <3>1, <3>3
        <5> HIDE DEF j
        <5>2. at(i) = Visited(h, i) /\ at(j) = Visited(h, j)
          BY <3>3, <5>1
        <5> QED BY <1>2, <3>1, <3>3, <5>2
      <4> HIDE DEF g, j, at
      <4> QED BY <2>2, <3>2, <4>1, NextVisitFacts DEF j
    <3>4. CASE ~(j < n)
      <4>1. at(i) = Visited(h, n) /\ at(j) = Visited(h, n)
        <5>1. ~(i < n)
          BY <1>2, <3>1, <3>4
        <5> QED BY <3>4, <5>1
      <4>2. n \in 0 .. Len(h)
        BY <1>2
      <4> HIDE DEF g, j, at
      <4> QED BY <2>2, <3>2, <4>1, <4>2, NextVisitFacts DEF j
    <3> QED BY <3>3, <3>4
  <2> QED BY <2>1, <2>2
<1>5. AreVisits(z, f, hops)
  BY <1>4, Zenon DEF AreVisits
<1>6. g[hops] = Visited(h, n)
  <2>1. hops \in 0 .. hops /\ (IF hops < n THEN hops ELSE n) = n
    BY <1>2
  <2> QED BY <2>1
<1> HIDE DEF f, g
<1>7. hops \in 0 .. hops
  BY <1>2
<1>8. f[hops] = g[hops]
  BY <1>2, <1>4, <1>5, <1>7, VisitsUnique
<1> QED BY <1>3, <1>6, <1>8

(* A sequence that is part of another one, after its first a elements.     *)
IsPartAfter(r, a, b, s) == Len(s) = b /\ \A k \in 1 .. b : s[k] = r[a + k]

(* Two parts of a sequence, one after the other, are a part of it.         *)
LEMMA PartsConcat ==
    ASSUME NEW S, NEW r \in Seq(S), NEW a \in Nat, NEW b \in Nat, a + b <= Len(r),
           NEW s \in Seq(S), IsPartAfter(r, a, b, s)
    PROVE  /\ SubSeq(r, 1, a) \o s = SubSeq(r, 1, a + b)
           /\ a = 0 => s = SubSeq(r, 1, b)
           /\ SubSeq(r, 1, a) \in Seq(S)
<1>0. Len(s) = b /\ \A k \in 1 .. b : s[k] = r[a + k]
  BY DEF IsPartAfter
<1>1. Len(r) \in Nat /\ \A i \in 1 .. Len(r) : r[i] \in S
  BY LenProperties
<1>2. ASSUME NEW n \in Nat, n <= Len(r)
      PROVE  /\ SubSeq(r, 1, n) \in Seq(S) /\ Len(SubSeq(r, 1, n)) = n
             /\ \A i \in 1 .. n : SubSeq(r, 1, n)[i] = r[i]
  <2>1. \A i \in 1 .. n : r[i] \in S
    BY <1>1, <1>2
  <2>2. 1 \in Int /\ n \in Int
    OBVIOUS
  <2>3. /\ SubSeq(r, 1, n) \in Seq(S) /\ Len(SubSeq(r, 1, n)) = IF 1 <= n THEN n - 1 + 1 ELSE 0
        /\ \A i \in 1 .. n - 1 + 1 : SubSeq(r, 1, n)[i] = r[1 + i - 1]
    BY <2>1, <2>2, SubSeqProperties
  <2>4. n - 1 + 1 = n /\ (~(1 <= n) => n = 0) /\ \A i \in 1 .. n : 1 + i - 1 = i
    OBVIOUS
  <2> QED BY <2>3, <2>4
<1> DEFINE t == SubSeq(r, 1, a)
           u == SubSeq(r, 1, a + b)
           v == t \o s
<1>3. a <= Len(r) /\ a + b \in Nat
  BY <1>1
<1>4. /\ t \in Seq(S) /\ Len(t) = a /\ \A i \in 1 .. a : t[i] = r[i]
      /\ u \in Seq(S) /\ Len(u) = a + b /\ \A i \in 1 .. a + b : u[i] = r[i]
  BY <1>2, <1>3
<1> HIDE DEF t, u
<1>5. /\ v \in Seq(S) /\ Len(v) = a + b
      /\ \A i \in 1 .. a + b : v[i] = IF i <= a THEN t[i] ELSE s[i - a]
  <2>1. /\ t \o s \in Seq(S) /\ Len(t \o s) = Len(t) + Len(s)
        /\ \A i \in 1 .. Len(t) + Len(s) :
                (t \o s)[i] = IF i <= Len(t) THEN t[i] ELSE s[i - Len(t)]
    BY <1>4, ConcatProperties
  <2> HIDE DEF v
  <2>2. v = t \o s
    BY DEF v
  <2> QED BY <1>0, <1>4, <2>1, <2>2
<1> HIDE DEF v
<1>6. ASSUME NEW i \in 1 .. a + b PROVE v[i] = u[i]
  <2>1. CASE i <= a
    <3>1. i \in 1 .. a
      BY <2>1
    <3> QED BY <1>4, <1>5, <2>1, <3>1
  <2>2. CASE ~(i <= a)
    <3>1. PICK k \in 1 .. b : i = a + k /\ i - a = k
      BY <2>2
    <3> QED BY <1>0, <1>4, <1>5, <2>2, <3>1
  <2> QED BY <2>1, <2>2
<1>7. v = u
  BY <1>4, <1>5, <1>6, SeqEqual
<1>8. ASSUME a = 0 PROVE s = SubSeq(r, 1, b)
  <2>1. b <= Len(r) /\ \A k \in 1 .. b : a + k = k
    BY <1>8
  <2>2. /\ SubSeq(r, 1, b) \in Seq(S) /\ Len(SubSeq(r, 1, b)) = b
        /\ \A i \in 1 .. b : SubSeq(r, 1, b)[i] = r[i]
    BY <1>2, <2>1
  <2>3. \A i \in 1 .. b : SubSeq(r, 1, b)[i] = s[i]
    BY <1>0, <2>1, <2>2
  <2> QED BY <1>0, <2>2, <2>3, SeqEqual
<1> QED BY <1>4, <1>7, <1>8 DEF t, u, v

(* The recursion of FlattenSeq.                                            *)
IsFlattened(f, seqs, n) ==
    f = [i \in 1 .. n |-> IF i = 1 THEN seqs[i] ELSE f[i - 1] \o seqs[i]]

(* What FlattenSeq yields is determined by its recursion.                  *)
LEMMA FlattenedUnique ==
    ASSUME NEW seqs, NEW n \in Nat, NEW f, NEW g,
           IsFlattened(f, seqs, n), IsFlattened(g, seqs, n)
    PROVE  \A i \in 1 .. n : f[i] = g[i]
<1> DEFINE S == {i \in 1 .. n : f[i] # g[i]}
<1> SUFFICES ASSUME S # {} PROVE FALSE
  OBVIOUS
<1>1. PICK k \in S : \A i \in S : k <= i
  <2>1. S \subseteq Nat
    OBVIOUS
  <2> HIDE DEF S
  <2> QED BY <2>1, SmallestElement
<1>2. /\ f[k] = IF k = 1 THEN seqs[k] ELSE f[k - 1] \o seqs[k]
      /\ g[k] = IF k = 1 THEN seqs[k] ELSE g[k - 1] \o seqs[k]
  BY DEF IsFlattened
<1>3. k # 1
  BY <1>2
<1>4. k - 1 \in 1 .. n /\ k - 1 \notin S
  BY <1>1, <1>3
<1> QED BY <1>2, <1>3, <1>4

(* The cells of the pieces of a history, one after the other, are the      *)
(* route.                                                                  *)
LEMMA FlattenHistory ==
    ASSUME NEW h \in Seq(Piece), NEW r \in Seq(Partitions \X Nat), AreChained(h, r),
           NEW seqs \in Seq(Seq(Partitions \X Nat)), Len(seqs) = Len(h),
           \A i \in DOMAIN h :
                /\ Len(seqs[i]) = Len(h[i].cells)
                /\ \A k \in DOMAIN h[i].cells : seqs[i][k] = <<h[i].at, h[i].cells[k]>>
    PROVE  FlattenSeq(seqs) = r
<1> DEFINE n == Len(h)
           S == Partitions \X Nat
           E(i) == h[i].from + Len(h[i].cells)
<1>1. /\ n \in Nat /\ DOMAIN h = 1 .. n /\ (h = <<>> <=> n = 0)
      /\ \A i \in 1 .. n : h[i].from \in Nat /\ Len(h[i].cells) \in Nat
                           /\ DOMAIN h[i].cells = 1 .. Len(h[i].cells)
  BY PieceFacts, EmptySeq
<1>2. Len(r) \in Nat /\ DOMAIN r = 1 .. Len(r)
  BY LenProperties
<1>3. CASE n = 0
  <2>1. seqs = <<>>
    BY <1>3, EmptySeq
  <2>2. r = <<>>
    BY <1>1, <1>3 DEF AreChained
  <2>3. FlattenSeq(seqs) = seqs
    BY <1>3, Zenon DEF FlattenSeq
  <2> QED BY <2>1, <2>2, <2>3
<1>4. CASE n # 0
  <2> DEFINE f == CHOOSE f : f = [i \in 1 .. Len(seqs) |-> IF i = 1 THEN seqs[i] ELSE f[i - 1] \o seqs[i]]
             g == [i \in 1 .. n |-> SubSeq(r, 1, E(i))]
  <2>1. FlattenSeq(seqs) = f[Len(seqs)]
    BY <1>4, Zenon DEF FlattenSeq
  <2>2. ASSUME NEW i \in 1 .. n
        PROVE  /\ i = 1 => seqs[i] = SubSeq(r, 1, E(i))
               /\ SubSeq(r, 1, h[i].from) \o seqs[i] = SubSeq(r, 1, E(i))
               /\ i # 1 => E(i - 1) = h[i].from
    <3> DEFINE a == h[i].from
               b == Len(h[i].cells)
               s == seqs[i]
    <3>1. /\ a \in Nat /\ b \in Nat /\ a + b <= Len(r) /\ (i = 1 => a = 0)
          /\ \A k \in 1 .. b : r[a + k] = <<h[i].at, h[i].cells[k]>>
      <4>1. i \in DOMAIN h
        BY <1>1
      <4>2. /\ h[i].from + Len(h[i].cells) <= Len(r) /\ (i = 1 => h[i].from = 0)
            /\ \A k \in DOMAIN h[i].cells : r[h[i].from + k] = <<h[i].at, h[i].cells[k]>>
        BY <4>1 DEF AreChained
      <4> QED BY <1>1, <4>2
    <3>2. s \in Seq(S) /\ Len(s) = b /\ \A k \in 1 .. b : s[k] = <<h[i].at, h[i].cells[k]>>
      <4>1. s \in Seq(S)
        BY <1>1, ElementOfSeq
      <4> QED BY <1>1, <4>1
    <3>3. i # 1 => E(i - 1) = h[i].from
      <4> SUFFICES ASSUME i # 1 PROVE E(i - 1) = h[i].from
        OBVIOUS
      <4>1. i - 1 \in 1 .. n /\ i - 1 # n /\ i - 1 + 1 = i
        BY <1>1
      <4>2. E(i - 1) = IF i - 1 = n THEN Len(r) ELSE h[i - 1 + 1].from
        BY <1>1, <4>1 DEF AreChained
      <4> QED BY <4>1, <4>2
    <3> HIDE DEF a, b, s, S
    <3>4. /\ SubSeq(r, 1, a) \o s = SubSeq(r, 1, a + b)
          /\ a = 0 => s = SubSeq(r, 1, b)
      <4>1. r \in Seq(S)
        BY DEF S
      <4>2. IsPartAfter(r, a, b, s)
        BY <3>1, <3>2 DEF IsPartAfter
      <4>3. a \in Nat /\ b \in Nat /\ a + b <= Len(r) /\ s \in Seq(S)
        BY <3>1, <3>2
      <4>4. SubSeq(r, 1, a) \o s = SubSeq(r, 1, a + b)
        BY <4>1, <4>2, <4>3, PartsConcat
      <4>5. a = 0 => s = SubSeq(r, 1, b)
        BY <4>1, <4>2, <4>3, PartsConcat
      <4> QED BY <4>4, <4>5
    <3>5. a = 0 => a + b = b
      BY <3>1
    <3> QED BY <3>1, <3>3, <3>4, <3>5 DEF a, b, s
  <2> HIDE DEF E
  <2>3. IsFlattened(g, seqs, n)
    <3> SUFFICES ASSUME NEW i \in 1 .. n
                 PROVE  g[i] = IF i = 1 THEN seqs[i] ELSE g[i - 1] \o seqs[i]
      BY Zenon DEF IsFlattened
    <3>1. CASE i = 1
      BY <2>2, <3>1
    <3>2. CASE i # 1
      <4>1. i - 1 \in 1 .. n
        BY <1>1, <3>2
      <4>2. g[i - 1] = SubSeq(r, 1, h[i].from)
        BY <2>2, <3>2, <4>1
      <4>3. g[i] = SubSeq(r, 1, E(i))
        OBVIOUS
      <4> HIDE DEF g
      <4> QED BY <2>2, <3>2, <4>2, <4>3
    <3> QED BY <3>1, <3>2
  <2>4. IsFlattened(f, seqs, n)
    BY <2>3, Zenon DEF IsFlattened
  <2>5. n \in 1 .. n
    BY <1>1, <1>4
  <2>6. g[n] = r
    <3>1. E(n) = Len(r)
      BY <1>1, <2>5 DEF E, AreChained
    <3>2. SubSeq(r, 1, Len(r)) = r
      BY SubSeqFull
    <3> QED BY <2>5, <3>1, <3>2
  <2> HIDE DEF f, g, n
  <2>7. f[n] = g[n]
    <3>1. n \in Nat
      BY <1>1
    <3>2. \A i \in 1 .. n : f[i] = g[i]
      BY <2>3, <2>4, <3>1, FlattenedUnique
    <3> QED BY <2>5, <3>2
  <2> QED BY <2>1, <2>6, <2>7 DEF n
<1> QED BY <1>3, <1>4

(* When a route is done, its history is recorded in the result.            *)
LEMMA HistoryIsRecorded ==
    ASSUME RouteInv, tasks = {}, published = Partitions,
           NEW z \in Zones, started[z] # "no", NEW h \in Seq(Piece), NEW r, IsHistory(z, h, r)
    PROVE  IsRecorded(z, h)
<1>1. tasks = {} /\ published = Partitions /\ started[z] # "no"
  OBVIOUS
<1>2. \A p \in Partitions : Stored(<<p, z>>) = result[<<p, z>>]
  <2>1. \A p \in Partitions : finished[p] > 0 /\ finished[p] \in Nat
    BY <1>1 DEF RouteInv, TypeOK
  <2>2. \A p \in Partitions : finished[p] # 0
    BY <2>1
  <2> QED BY <2>2 DEF Stored
<1>3. IF h = <<>> THEN start[z] = NoPartition
      ELSE start[z] = h[1].at /\ h[Len(h)].next = NoPartition
  BY <1>1 DEF IsHistory, HasEnded
<1>4. ASSUME NEW i \in 1 .. Len(h) - 1 PROVE h[i].next = h[i + 1].at
  <2>1. i \in DOMAIN h /\ i < Len(h)
    BY PieceFacts
  <2> QED BY <2>1 DEF IsHistory, AreChained
<1>5. \A p \in Partitions : \A k \in DOMAIN result[<<p, z>>] :
        /\ IsPiece(h, p, result[<<p, z>>][k])
        /\ \A l \in 1 .. k - 1 : result[<<p, z>>][l].hop < result[<<p, z>>][k].hop
  BY <1>2 DEF IsHistory, ArePieces
<1>6. \A i \in DOMAIN h : \E k \in DOMAIN result[<<h[i].at, z>>] :
        result[<<h[i].at, z>>][k].hop = i
  <2> SUFFICES ASSUME NEW i \in DOMAIN h
               PROVE  \E k \in DOMAIN result[<<h[i].at, z>>] : result[<<h[i].at, z>>][k].hop = i
    OBVIOUS
  <2>1. Stored(<<h[i].at, z>>) = result[<<h[i].at, z>>]
    BY <1>2, PieceFacts
  <2> QED BY <1>1, <2>1 DEF IsHistory, ArePieces
<1> QED BY <1>3, <1>4, <1>5, <1>6 DEF IsRecorded

(* Following the fragments of the result yields what the history says.     *)
LEMMA RouteIsHistory ==
    ASSUME RouteInv, NEW z \in Zones, NEW h \in Seq(Piece), NEW r \in Seq(Partitions \X Nat),
           IsRecorded(z, h), AreChained(h, r), InOrder(z, r)
    PROVE  Route(z) = r
<1> DEFINE n == Len(h)
           cellsOf(v) == [k \in DOMAIN v.fragment.cells |-> <<v.at, v.fragment.cells[k]>>]
           seqs == [i \in DOMAIN RouteFragments(z) |-> cellsOf(RouteFragments(z)[i])]
           parts == [i \in 1 .. n |-> [k \in DOMAIN h[i].cells |-> <<h[i].at, h[i].cells[k]>>]]
<1>1. /\ n \in Nat /\ DOMAIN h = 1 .. n
      /\ \A i \in 1 .. n : /\ h[i].at \in Partitions /\ h[i].cells \in Seq(Nat)
                           /\ Len(h[i].cells) \in Nat
                           /\ DOMAIN h[i].cells = 1 .. Len(h[i].cells)
  BY PieceFacts
<1>2. n <= Cardinality(CellsOf(z)) + 1
  <2>1. Len(r) \in Nat /\ Cardinality(CellsOf(z)) \in Nat /\ Len(r) <= Cardinality(CellsOf(z))
    BY LenProperties, CellsOfFacts, RouteLength DEF RouteInv
  <2>2. n # 0 => n - 1 <= Len(r)
    <3> SUFFICES ASSUME n # 0 PROVE n - 1 <= Len(r)
      OBVIOUS
    <3>1. n \in DOMAIN h
      BY <1>1
    <3> DEFINE a == h[n].from
               b == Len(h[n].cells)
    <3>2. a >= n - 1 /\ a + b <= Len(r) /\ a \in Nat /\ b \in Nat
      BY <3>1, PieceFacts DEF AreChained
    <3> HIDE DEF a, b, n
    <3> QED BY <1>1, <2>1, <3>2
  <2> HIDE DEF n
  <2> QED BY <1>1, <2>1, <2>2
<1>3. RouteFragments(z) = Visited(h, n)
  BY <1>2, RouteFragmentsFacts DEF RouteInv
<1>4. seqs = parts
  <2>1. n \in 0 .. Len(h)
    BY <1>1
  <2>2. DOMAIN Visited(h, n) = 1 .. n
        /\ \A i \in 1 .. n : Visited(h, n)[i] = [at |-> h[i].at, fragment |->
                                [cells |-> h[i].cells, next |-> h[i].next, hop |-> i]]
    BY <2>1, VisitedFacts
  <2>3. seqs = [i \in 1 .. n |-> cellsOf(Visited(h, n)[i])]
    BY <1>3, <2>2
  <2>4. \A i \in 1 .. n : cellsOf(Visited(h, n)[i]) =
                            [k \in DOMAIN h[i].cells |-> <<h[i].at, h[i].cells[k]>>]
    BY <2>2
  <2> HIDE DEF seqs, cellsOf
  <2> QED BY <2>3, <2>4
<1>5. Route(z) = FlattenSeq(seqs)
  BY Zenon DEF Route
<1>6. ASSUME NEW i \in 1 .. n
      PROVE  /\ parts[i] \in Seq(Partitions \X Nat)
             /\ Len(parts[i]) = Len(h[i].cells)
             /\ \A k \in DOMAIN h[i].cells : parts[i][k] = <<h[i].at, h[i].cells[k]>>
  <2> DEFINE m == Len(h[i].cells)
             s == [k \in 1 .. m |-> <<h[i].at, h[i].cells[k]>>]
  <2>1. /\ h[i].at \in Partitions /\ m \in Nat /\ DOMAIN h[i].cells = 1 .. m
        /\ \A k \in 1 .. m : h[i].cells[k] \in Nat
    BY <1>1, LenProperties
  <2>2. parts[i] = s
    BY <2>1
  <2>3. s \in [1 .. m -> Partitions \X Nat]
    BY <2>1
  <2>4. \A k \in 1 .. m : s[k] = <<h[i].at, h[i].cells[k]>>
    OBVIOUS
  <2> HIDE DEF s, parts, m
  <2>5. s \in Seq(Partitions \X Nat) /\ Len(s) = m
    BY <2>1, <2>3, LengthOfSequence
  <2> QED BY <2>1, <2>2, <2>4, <2>5 DEF m
<1>7. parts \in Seq(Seq(Partitions \X Nat)) /\ Len(parts) = n
  <2>1. parts \in [1 .. n -> Seq(Partitions \X Nat)]
    BY <1>6
  <2> HIDE DEF parts, n
  <2> QED BY <1>1, <2>1, LengthOfSequence
<1> HIDE DEF parts, seqs
<1>8. \A i \in DOMAIN h :
        /\ Len(parts[i]) = Len(h[i].cells)
        /\ \A k \in DOMAIN h[i].cells : parts[i][k] = <<h[i].at, h[i].cells[k]>>
  BY <1>1, <1>6
<1>9. FlattenSeq(parts) = r
  BY <1>7, <1>8, FlattenHistory
<1> QED BY <1>4, <1>5, <1>9

(* Routes that are done are complete.                                      *)
LEMMA HistoryImpliesComplete ==
    RouteInv /\ HistoryInv => RouteComplete
<1> SUFFICES ASSUME RouteInv, HistoryInv, Done, NEW z \in Zones
             PROVE  LET cells == UNION {{p} \X CellsAt(<<p, z>>) : p \in Partitions}
                        route == Route(z)
                        value(c) == Value(<<c[1], z>>, c[2])
                    IN  /\ start[z] = NoPartition <=> cells = {}
                        /\ Len(route) = IF Cardinality(cells) < MaxNrCells
                                        THEN Cardinality(cells) ELSE MaxNrCells
                        /\ \A i, j \in DOMAIN route :
                            i < j => route[i] # route[j] /\ value(route[i]) >= value(route[j])
                        /\ \A c \in cells \ Range(route) : \A i \in DOMAIN route :
                            value(route[i]) >= value(c)
  BY DEF RouteComplete
<1>1. PICK h \in Seq(Piece), r \in Seq(Partitions \X Nat) : IsHistory(z, h, r)
  BY DEF HistoryInv
<1>2. IsRecorded(z, h)
  BY <1>1, HistoryIsRecorded DEF Done
<1>3. Route(z) = r
  BY <1>1, <1>2, RouteIsHistory DEF IsHistory
<1>4. tasks = {} /\ started[z] # "no"
  BY DEF Done
<1>5. /\ IF h = <<>> THEN start[z] = NoPartition /\ CellsOf(z) = {}
         ELSE start[z] = h[1].at /\ h[Len(h)].next = NoPartition
      /\ Len(r) = IF Cardinality(CellsOf(z)) < MaxNrCells THEN Cardinality(CellsOf(z))
                  ELSE MaxNrCells
  BY <1>1, <1>4 DEF IsHistory, HasEnded
<1>6. start[z] = NoPartition <=> CellsOf(z) = {}
  <2>1. CASE h = <<>>
    BY <1>5, <2>1
  <2>2. CASE h # <<>>
    <3>1. CellsOf(z) # {}
      BY <1>1, <2>2 DEF IsHistory
    <3>2. h[1].at \in Partitions
      BY <2>2, PieceFacts
    <3> QED BY <1>5, <2>2, <3>1, <3>2, InputsAssumption
  <2> QED BY <2>1, <2>2
<1>7. /\ \A i, j \in DOMAIN r : i < j => r[i] # r[j] /\ ValueOf(z, r[i]) >= ValueOf(z, r[j])
      /\ \A c \in CellsOf(z) \ Range(r) : \A i \in DOMAIN r :
            ValueOf(z, r[i]) >= ValueOf(z, c)
  BY <1>1 DEF IsHistory, InOrder
<1> QED BY <1>3, <1>5, <1>6, <1>7 DEF CellsOf, ValueOf

(* With zones, and when no value is lower than the one that stands for     *)
(* the lowest, each route visits the cells of its zone in decreasing       *)
(* order, each once, from the highest to the lowest value, and is as long  *)
(* as there are cells, or as it may be.  record_route_fragment and         *)
(* finish_partition leave the fragments such that they yield the route     *)
(* when their locations are followed.                                      *)
THEOREM RoutesAreComplete ==
    ASSUME Zonal, NoLowerValue
    PROVE  Spec => []RouteComplete
<1>1. Init => RouteInv /\ FinishInv /\ HistoryInv
  BY RouteInvInit, FinishInvInit, HistoryInvInit
<1>2. (RouteInv /\ FinishInv /\ HistoryInv) /\ [Next]_vars
        => (RouteInv /\ FinishInv /\ HistoryInv)'
  BY RouteInvNext, FinishInvNext, HistoryInvNext
<1>3. RouteInv /\ FinishInv /\ HistoryInv => RouteComplete
  BY HistoryImpliesComplete
<1> QED BY <1>1, <1>2, <1>3, PTL DEF Spec

-----------------------------------------------------------------------------
(***************************************************************************)
(* The walks along the routes.  A walk starts when all fragments are in    *)
(* the result, so that the history of the route tells which fragments the  *)
(* calls are for.  WalkInv says of every route up to which fragment it is  *)
(* walked, and which calls, which next fragments and which cells of the    *)
(* output follow from that.                                                *)
(***************************************************************************)

(* A call that walks or skips a fragment.                                  *)
Walk == [zone : Zones, at : Partitions, kind : {"walk", "skip"}, nr : Nat, hop : Nat,
         pc : {"called", "visited"}]

WalkTypeOK ==
    /\ max_nr_cells \in Nat
    /\ downstream_components \in [Partitions -> SUBSET Partitions]
    /\ configured \subseteq Partitions
    /\ DOMAIN fragment_idxs \subseteq Places
    /\ fragment_idxs = [x \in DOMAIN fragment_idxs |-> fragment_idxs[x]]
    /\ walks \subseteq Walk
    /\ walking \in BOOLEAN
    /\ output \in [Places -> SUBSET Nat]
    /\ requested \in [Partitions -> {"no", "yes", "late"}]
    /\ output_finished \in [Partitions -> Nat]

(* Components are created for partitions that are ready, and walk when all *)
(* are there and all routes have started.                                  *)
WalksAfterRoutes ==
    /\ created \subseteq published
    /\ configured # {} => created = Partitions
    /\ walking => /\ created = Partitions /\ configured = Partitions
                  /\ \A z \in Zones : started[z] # "no"
    /\ ~walking => walks = {} /\ \A x \in Places : output[x] = {}

(* Before the walks, every component is to visit its first fragments.      *)
FirstIsNext ==
    ~walking => \A x \in Places :
        /\ x \in DOMAIN fragment_idxs <=> x[1] \in created /\ result[x] # <<>>
        /\ x \in DOMAIN fragment_idxs => fragment_idxs[x] = 1

(* A call that has visited its fragment holds the lock.                    *)
WalkLockIsHeld ==
    /\ \A w \in walks : w.pc = "visited" => w.at \in write_locked
    /\ \A w, v \in walks : w.pc = "visited" /\ v.pc = "visited" /\ w.at = v.at => w = v

(* A component that expects fragments knows the ones downstream of it.     *)
DownstreamIsKnown ==
    \A x \in DOMAIN fragment_idxs :
        /\ x[1] \in created
        /\ x[1] \in configured => downstream_components[x[1]] = Downstream(x[1])

(* A component whose output is finished expects no fragments.              *)
NothingLeftWhenFinished ==
    \A p \in Partitions :
        output_finished[p] > 0 =>
            /\ p \in created
            /\ NothingLeft(fragment_idxs, p)
            /\ requested[p] = "late" \/ output_finished[p] = 1

(* A history of a route whose fragments are all in the result.             *)
IsRoute(z, h, r) == IsRecorded(z, h) /\ AreChained(h, r) /\ InOrder(z, r)

(* The calls of a route that is walked up to a fragment: a call for that   *)
(* fragment, unless it is past the last one, and calls that are about to   *)
(* leave earlier ones.                                                     *)
CallsUpTo(z, h, f) ==
    /\ \A w \in walks : w.zone = z =>
        /\ w.hop \in DOMAIN h /\ w.at = h[w.hop].at /\ w.hop <= f
        /\ w.pc = "called" <=> w.hop = f
    /\ \A w, v \in walks : w.zone = z /\ v.zone = z /\ w.hop = v.hop => w = v
    /\ f \in DOMAIN h => \E w \in walks : w.zone = z /\ w.hop = f

(* The fragments that calls of a route are for.                            *)
CalledHops(z) == {w.hop : w \in {w \in walks : w.zone = z}}

(* The next fragment of a place when the route is walked up to a fragment: *)
(* the fragments before it were left, those after it are not visited yet,  *)
(* and it is about to be left itself if it is visited.                     *)
IsNext(s, idxs, x, f, called) ==
    IF x \in DOMAIN idxs
    THEN /\ idxs[x] \in DOMAIN s
         /\ \A k \in DOMAIN s :
            /\ k < idxs[x] => s[k].hop < f /\ s[k].hop \notin called
            /\ k > idxs[x] => s[k].hop >= f
         /\ s[idxs[x]].hop < f => s[idxs[x]].hop \in called
    ELSE \A k \in DOMAIN s : s[k].hop < f /\ s[k].hop \notin called

(* The next fragments of all places of a route.                            *)
IdxsUpTo(z, f) ==
    \A p \in Partitions :
        IsNext(result[<<p, z>>], fragment_idxs, <<p, z>>, f, CalledHops(z))

(* The number of cells of the fragments before one.                        *)
NrBefore(h, r, f) == IF f \in DOMAIN h THEN h[f].from ELSE Len(r)

(* The number of them that may be marked.                                  *)
NrMarked(h, r, f) ==
    IF NrBefore(h, r, f) < max_nr_cells THEN NrBefore(h, r, f) ELSE max_nr_cells

(* The cells that are marked for a route that is walked up to a fragment,  *)
(* and what the call for that fragment knows about them.                   *)
MarkedUpTo(z, h, r, f) ==
    /\ \A p \in Partitions : \A c :
        c \in output[<<p, z>>] <=> \E i \in 1 .. NrMarked(h, r, f) : r[i] = <<p, c>>
    /\ \A w \in walks : w.zone = z /\ w.hop = f =>
        /\ w.nr = NrMarked(h, r, f)
        /\ w.kind = "walk" => w.nr = NrBefore(h, r, f)
        /\ w.kind = "skip" => w.nr = max_nr_cells

(* A route is walked up to a fragment.                                     *)
WalkedUpTo(z, h, r, f) ==
    /\ IsRoute(z, h, r)
    /\ f \in 1 .. Len(h) + 1
    /\ CallsUpTo(z, h, f)
    /\ IdxsUpTo(z, f)
    /\ MarkedUpTo(z, h, r, f)

RoutesAreWalked ==
    walking => \A z \in Zones :
        \E h \in Seq(Piece), r \in Seq(Partitions \X Nat), f \in Nat : WalkedUpTo(z, h, r, f)

WalkInv ==
    /\ WalkTypeOK
    /\ WalksAfterRoutes
    /\ FirstIsNext
    /\ WalkLockIsHeld
    /\ DownstreamIsKnown
    /\ NothingLeftWhenFinished
    /\ RoutesAreWalked

(* What the walks rest on.                                                 *)
OrderInv == RouteInv /\ FinishInv /\ HistoryInv

(* What a step of the routes leaves alone.                                 *)
LEMMA ResultStays ==
    ASSUME TypeOK, [Next]_vars
    PROVE  /\ values' = values
           /\ published \subseteq published'
           /\ \A x \in Places : x[1] \in published => result'[x] = result[x]
           /\ \A z \in Zones : started[z] # "no" =>
                started'[z] # "no" /\ start'[z] = start[z]
<1>1. \A p \in Partitions : p \in published => finished[p] # 0
  BY DEF TypeOK
<1>2. \A x \in Places : x[1] \in Partitions
  BY DEF Places
<1>3. ASSUME NEW p, NEW recorded, Finish(p, recorded)
      PROVE  \A x \in Places : x[1] \in published => result'[x] = result[x]
  BY <1>1, <1>2, <1>3 DEF Finish
<1>4. ASSUME NEW p, NEW cells, NEW recorded, FinishIfDone(p, cells, recorded)
      PROVE  \A x \in Places : x[1] \in published => result'[x] = result[x]
  BY <1>3, <1>4 DEF FinishIfDone
<1>5. ASSUME NEW p \in Partitions, Sort(p)
      PROVE  /\ values' = values /\ published' = published /\ started' = started /\ start' = start
             /\ FinishIfDone(p, local', fragments)
  BY <1>5 DEF Sort
<1>6. ASSUME NEW t \in tasks, Store(t)
      PROVE  /\ values' = values /\ published' = published /\ started' = started /\ start' = start
             /\ FinishIfDone(t.at, local, [fragments EXCEPT ![<<t.at, t.zone>>] =
                    Append(@, [cells |-> t.cells, next |-> t.next, hop |-> t.hop])])
  BY <1>6 DEF Store
<1>7. ASSUME NEW x \in Places, Skip(x)
      PROVE  /\ values' = values /\ published' = published /\ started' = started /\ start' = start
             /\ FinishIfDone(x[1], local', fragments)
  BY <1>7 DEF Skip
<1>8. ASSUME Start
      PROVE  /\ values' = values /\ published' = published /\ result' = result
             /\ \A z \in Zones : started[z] = "no"
  BY <1>8 DEF Start
<1>9. ASSUME NEW t \in tasks, Read(t) \/ Update(t)
      PROVE  /\ values' = values /\ published' = published /\ started' = started /\ start' = start
             /\ result' = result
  BY <1>9 DEF Read, Update
<1>10. ASSUME NEW p \in Partitions, AskRoutePartition(p) \/ Publish(p)
       PROVE  /\ values' = values /\ published \subseteq published' /\ started' = started
              /\ start' = start /\ result' = result
  BY <1>10 DEF AskRoutePartition, Publish
<1>11. CASE UNCHANGED vars
  BY <1>11 DEF vars
<1> QED BY <1>4, <1>5, <1>6, <1>7, <1>8, <1>9, <1>10, <1>11 DEF Next, Step, Terminated

(* When all partitions are ready and all routes have started, each route   *)
(* has a history that is recorded in the result.                           *)
LEMMA RoutesAreReady ==
    ASSUME OrderInv, Zonal, published = Partitions, NEW z \in Zones, started[z] # "no"
    PROVE  \E h \in Seq(Piece), r \in Seq(Partitions \X Nat) : IsRoute(z, h, r)
<1>1. FinishIsLast
  BY InvImpliesFinishIsLast DEF OrderInv
<1>2. TypeOK
  BY DEF OrderInv, RouteInv
<1>3. tasks = {}
  <2>1. \A p \in Partitions : finished[p] > 0
    BY <1>2 DEF TypeOK
  <2>2. \A t \in tasks : t.at \in Partitions
    BY <1>2 DEF TypeOK, Task
  <2> QED BY <1>1, <2>1, <2>2 DEF FinishIsLast
<1>4. PICK h \in Seq(Piece), r \in Seq(Partitions \X Nat) : IsHistory(z, h, r)
  BY DEF OrderInv, HistoryInv
<1>5. IsRecorded(z, h)
  BY <1>3, <1>4, HistoryIsRecorded DEF OrderInv
<1> QED BY <1>4, <1>5 DEF IsRoute, IsHistory

(* How far a route is walked depends on what belongs to its zone.          *)
SameWalk(z) ==
    /\ values' = values /\ max_nr_cells' = max_nr_cells
    /\ start'[z] = start[z]
    /\ \A p \in Partitions : result'[<<p, z>>] = result[<<p, z>>]
    /\ \A p \in Partitions : output'[<<p, z>>] = output[<<p, z>>]
    /\ \A p \in Partitions :
        /\ <<p, z>> \in DOMAIN fragment_idxs' <=> <<p, z>> \in DOMAIN fragment_idxs
        /\ <<p, z>> \in DOMAIN fragment_idxs => fragment_idxs'[<<p, z>>] = fragment_idxs[<<p, z>>]
    /\ \A w : w.zone = z => (w \in walks' <=> w \in walks)

(* The history of a route depends on even less.                            *)
SameRoute(z) ==
    /\ values' = values
    /\ start'[z] = start[z]
    /\ \A p \in Partitions : result'[<<p, z>>] = result[<<p, z>>]

(* A route stays what it is when the walks go on.                          *)
LEMMA RouteStays ==
    ASSUME NEW z \in Zones, NEW h \in Seq(Piece), NEW r, IsRoute(z, h, r), SameRoute(z)
    PROVE  IsRoute(z, h, r)'
<1>1. InOrder(z, r)'
  BY DEF IsRoute, InOrder, SameRoute, CellsOf, CellsAt, ValueOf, Value
<1>2. AreChained(h, r)'
  BY DEF IsRoute, AreChained
<1>3. IsRecorded(z, h)'
  <2>1. \A i \in DOMAIN h : h[i].at \in Partitions
    BY PieceFacts
  <2> QED BY <2>1 DEF IsRoute, IsRecorded, SameRoute, IsPiece
<1> QED BY <1>1, <1>2, <1>3 DEF IsRoute

(* A route is walked as far when steps are about other routes.             *)
LEMMA WalkStays ==
    ASSUME NEW z \in Zones, NEW h \in Seq(Piece), NEW r, NEW f, WalkedUpTo(z, h, r, f), SameWalk(z)
    PROVE  WalkedUpTo(z, h, r, f)'
<1>1. IsRoute(z, h, r)'
  BY RouteStays DEF WalkedUpTo, SameWalk, SameRoute
<1>2. CallsUpTo(z, h, f)'
  BY DEF WalkedUpTo, SameWalk, CallsUpTo
<1>3. IdxsUpTo(z, f)'
  <2>1. CalledHops(z)' = CalledHops(z)
    BY DEF CalledHops, SameWalk
  <2>2. ASSUME NEW p \in Partitions
        PROVE  IsNext(result[<<p, z>>], fragment_idxs', <<p, z>>, f, CalledHops(z))
    BY DEF WalkedUpTo, SameWalk, IdxsUpTo, IsNext
  <2>3. \A p \in Partitions : result'[<<p, z>>] = result[<<p, z>>]
    BY DEF SameWalk
  <2> QED BY <2>1, <2>2, <2>3 DEF IdxsUpTo
<1>4. MarkedUpTo(z, h, r, f)'
  <2>1. NrMarked(h, r, f)' = NrMarked(h, r, f) /\ NrBefore(h, r, f)' = NrBefore(h, r, f)
    BY DEF NrMarked, NrBefore, SameWalk
  <2> QED BY <2>1 DEF WalkedUpTo, SameWalk, MarkedUpTo
<1> QED BY <1>1, <1>2, <1>3, <1>4 DEF WalkedUpTo

(* The partitions downstream depend on the fragments of the partition.     *)
LEMMA DownstreamStays ==
    ASSUME NEW p, \A z \in Zones : result'[<<p, z>>] = result[<<p, z>>]
    PROVE  Downstream(p)' = Downstream(p)
BY Zenon DEF Downstream

(* A step of the routes does not disturb the walks.                        *)
LEMMA WalkInvOrder ==
    ASSUME OrderInv, WalkInv, [Next]_vars, UNCHANGED walk_vars
    PROVE  WalkInv'
<1>1. TypeOK
  BY DEF OrderInv, RouteInv
<1>2. /\ values' = values
      /\ published \subseteq published'
      /\ \A x \in Places : x[1] \in published => result'[x] = result[x]
      /\ \A z \in Zones : started[z] # "no" => started'[z] # "no" /\ start'[z] = start[z]
  BY <1>1, ResultStays
<1>3. /\ max_nr_cells' = max_nr_cells /\ created' = created
      /\ downstream_components' = downstream_components /\ configured' = configured
      /\ fragment_idxs' = fragment_idxs /\ walks' = walks /\ walking' = walking
      /\ write_locked' = write_locked /\ output' = output /\ requested' = requested
      /\ output_finished' = output_finished
  BY DEF walk_vars
<1>4. WalkTypeOK' /\ WalkLockIsHeld' /\ NothingLeftWhenFinished'
  BY <1>3 DEF WalkInv, WalkTypeOK, WalkLockIsHeld, NothingLeftWhenFinished, NothingLeft
<1>5. WalksAfterRoutes'
  BY <1>2, <1>3 DEF WalkInv, WalksAfterRoutes
<1>6. FirstIsNext'
  BY <1>2, <1>3 DEF WalkInv, FirstIsNext, WalksAfterRoutes
<1>7. DownstreamIsKnown'
  <2> SUFFICES ASSUME NEW x \in DOMAIN fragment_idxs, x[1] \in configured
               PROVE  downstream_components[x[1]] = Downstream(x[1])'
    BY <1>3 DEF WalkInv, DownstreamIsKnown
  <2>1. x[1] \in published /\ x[1] \in Partitions
    BY <1>1 DEF WalkInv, DownstreamIsKnown, WalksAfterRoutes, TypeOK
  <2>2. \A z \in Zones : result'[<<x[1], z>>] = result[<<x[1], z>>]
    BY <1>2, <2>1 DEF Places
  <2>3. Downstream(x[1])' = Downstream(x[1])
    BY <2>2, DownstreamStays
  <2> QED BY <2>3 DEF WalkInv, DownstreamIsKnown
<1>8. RoutesAreWalked'
  <2> SUFFICES ASSUME walking, NEW z \in Zones
               PROVE  \E h \in Seq(Piece), r \in Seq(Partitions \X Nat), f \in Nat :
                        WalkedUpTo(z, h, r, f)'
    BY <1>3 DEF RoutesAreWalked
  <2>1. PICK h \in Seq(Piece), r \in Seq(Partitions \X Nat), f \in Nat : WalkedUpTo(z, h, r, f)
    BY DEF WalkInv, RoutesAreWalked
  <2>2. SameWalk(z)
    <3>1. created = Partitions /\ started[z] # "no" /\ created \subseteq published
      BY DEF WalkInv, WalksAfterRoutes
    <3>2. \A p \in Partitions : result'[<<p, z>>] = result[<<p, z>>]
      BY <1>2, <3>1 DEF Places
    <3> QED BY <1>2, <1>3, <3>1, <3>2 DEF SameWalk
  <2> QED BY <2>1, <2>2, WalkStays
<1> QED BY <1>4, <1>5, <1>6, <1>7, <1>8 DEF WalkInv

(* Nothing is walked initially.                                            *)
LEMMA WalkInvInit ==
    FirstNInit => WalkInv
<1> SUFFICES ASSUME FirstNInit PROVE WalkInv
  OBVIOUS
<1>1. WalkTypeOK
  BY FirstNAssumption DEF FirstNInit, WalkTypeOK
<1>2. \A x \in Places : result[x] = <<>>
  BY DEF FirstNInit, Init
<1> QED BY <1>1, <1>2 DEF FirstNInit, WalkInv, WalksAfterRoutes, FirstIsNext, WalkLockIsHeld,
                DownstreamIsKnown, NothingLeftWhenFinished, RoutesAreWalked

(* A component is created before the walks start.                          *)
LEMMA WalkInvCreate ==
    ASSUME OrderInv, WalkInv, UNCHANGED vars, NEW p \in Partitions, CreateWalk(p)
    PROVE  WalkInv'
<1> DEFINE R == {z \in Zones : result[<<p, z>>] # <<>>}
           new == DOMAIN fragment_idxs \cup ({p} \X R)
<1>1. /\ p \in published /\ p \notin created /\ created' = created \cup {p}
      /\ fragment_idxs' = [x \in new |-> IF x \in DOMAIN fragment_idxs THEN fragment_idxs[x] ELSE 1]
      /\ UNCHANGED <<max_nr_cells, downstream_components, configured, walks, walking,
                     write_locked, output, requested, output_finished>>
  BY DEF CreateWalk
<1>2. ~walking
  BY <1>1 DEF WalkInv, WalksAfterRoutes
<1>3. /\ result' = result /\ published' = published /\ started' = started
  BY DEF vars
<1>4. {p} \X R \subseteq Places /\ \A x \in {p} \X R : x[1] = p
  BY DEF Places
<1>5. \A x \in Places : x \in {p} \X R <=> x[1] = p /\ result[x] # <<>>
  BY DEF Places
<1> HIDE DEF R
<1>6. DOMAIN fragment_idxs' = new
  BY <1>1
<1>7. \A x \in new : fragment_idxs'[x] = IF x \in DOMAIN fragment_idxs THEN fragment_idxs[x] ELSE 1
  BY <1>1
<1>8. WalkTypeOK'
  <2>1. WalkTypeOK
    BY DEF WalkInv
  <2>2. fragment_idxs' = [x \in DOMAIN fragment_idxs' |-> fragment_idxs'[x]]
    BY <1>1, Zenon
  <2>3. DOMAIN fragment_idxs' \subseteq Places
    BY <1>4, <1>6, <2>1 DEF WalkTypeOK
  <2> QED BY <1>1, <2>1, <2>2, <2>3 DEF WalkTypeOK
<1> HIDE DEF new
<1>9. WalksAfterRoutes'
  BY <1>1, <1>2, <1>3 DEF WalkInv, WalksAfterRoutes
<1>10. FirstIsNext'
  <2> SUFFICES ASSUME NEW x \in Places
               PROVE  /\ x \in DOMAIN fragment_idxs' <=> x[1] \in created' /\ result[x] # <<>>
                      /\ x \in DOMAIN fragment_idxs' => fragment_idxs'[x] = 1
    BY <1>3 DEF FirstIsNext
  <2>1. /\ x \in DOMAIN fragment_idxs <=> x[1] \in created /\ result[x] # <<>>
        /\ x \in DOMAIN fragment_idxs => fragment_idxs[x] = 1
    BY <1>2 DEF WalkInv, FirstIsNext
  <2> QED BY <1>1, <1>5, <1>6, <1>7, <2>1 DEF new
<1>11. WalkLockIsHeld'
  BY <1>1 DEF WalkInv, WalkLockIsHeld
<1>12. DownstreamIsKnown'
  <2>1. configured = {}
    BY <1>1 DEF WalkInv, WalksAfterRoutes
  <2>2. ASSUME NEW x \in DOMAIN fragment_idxs' PROVE x[1] \in created'
    BY <1>1, <1>4, <1>6, <2>2 DEF new, WalkInv, DownstreamIsKnown
  <2> QED BY <1>1, <2>1, <2>2 DEF DownstreamIsKnown
<1>13. NothingLeftWhenFinished'
  <2>1. ASSUME NEW q \in Partitions, output_finished[q] > 0
        PROVE  /\ q \in created'
               /\ NothingLeft(fragment_idxs', q)
               /\ requested[q] = "late" \/ output_finished[q] = 1
    <3>1. /\ q \in created /\ NothingLeft(fragment_idxs, q)
          /\ requested[q] = "late" \/ output_finished[q] = 1
      BY <2>1 DEF WalkInv, NothingLeftWhenFinished
    <3> QED BY <1>1, <1>4, <1>6, <3>1 DEF NothingLeft, new
  <2> QED BY <1>1, <2>1 DEF NothingLeftWhenFinished
<1>14. RoutesAreWalked'
  BY <1>1, <1>2 DEF RoutesAreWalked
<1> QED BY <1>8, <1>9, <1>10, <1>11, <1>12, <1>13, <1>14 DEF WalkInv

(* Steps that neither create components nor walk leave the walks alone.    *)
LEMMA WalkPartsStay ==
    ASSUME WalkInv, UNCHANGED vars, \A z \in Zones : walking => SameWalk(z),
           UNCHANGED <<created, fragment_idxs, walks, walking, write_locked, output>>
    PROVE  /\ created \subseteq published
           /\ walking => created = Partitions /\ \A z \in Zones : started[z] # "no"
           /\ FirstIsNext' /\ WalkLockIsHeld' /\ RoutesAreWalked'
<1>1. /\ result' = result /\ published' = published /\ started' = started
  BY DEF vars
<1>2. FirstIsNext' /\ WalkLockIsHeld'
  BY <1>1 DEF WalkInv, FirstIsNext, WalkLockIsHeld
<1>3. RoutesAreWalked'
  <2> SUFFICES ASSUME walking, NEW z \in Zones
               PROVE  \E h \in Seq(Piece), r \in Seq(Partitions \X Nat), f \in Nat :
                        WalkedUpTo(z, h, r, f)'
    BY DEF RoutesAreWalked
  <2>1. PICK h \in Seq(Piece), r \in Seq(Partitions \X Nat), f \in Nat : WalkedUpTo(z, h, r, f)
    BY DEF WalkInv, RoutesAreWalked
  <2> QED BY <2>1, WalkStays
<1> QED BY <1>2, <1>3 DEF WalkInv, WalksAfterRoutes

(* Asking for the result finishes a component that has nothing to visit.   *)
LEMMA WalkInvAsk ==
    ASSUME OrderInv, WalkInv, UNCHANGED vars, NEW p \in Partitions, AskOutputPartition(p)
    PROVE  WalkInv'
<1>1. /\ p \in created /\ requested[p] = "no"
      /\ requested' = [requested EXCEPT ![p] = IF output_finished[p] = 0 THEN "yes" ELSE "late"]
      /\ UNCHANGED <<max_nr_cells, created, configured, fragment_idxs, walks, walking,
                     write_locked, output>>
  BY DEF AskOutputPartition
<1>2. CASE NothingLeft(fragment_idxs, p)
  <2>1. /\ output_finished' = [output_finished EXCEPT ![p] = @ + 1]
        /\ downstream_components' = [downstream_components EXCEPT ![p] = {}]
    BY <1>2 DEF AskOutputPartition, FinishOutput
  <2>2. WalkTypeOK'
    BY <1>1, <2>1 DEF WalkInv, WalkTypeOK
  <2>3. \A z \in Zones : SameWalk(z)
    BY <1>1 DEF SameWalk, vars
  <2>4. FirstIsNext' /\ WalkLockIsHeld' /\ RoutesAreWalked'
    BY <1>1, <2>3, WalkPartsStay
  <2>5. WalksAfterRoutes'
    BY <1>1 DEF WalkInv, WalksAfterRoutes, vars
  <2>6. DownstreamIsKnown'
    <3>1. \A x \in DOMAIN fragment_idxs : x[1] # p /\ x[1] \in Partitions
      BY <1>2 DEF NothingLeft, WalkInv, WalkTypeOK, Places
    <3>2. \A x \in DOMAIN fragment_idxs : downstream_components'[x[1]] = downstream_components[x[1]]
      BY <2>1, <3>1 DEF WalkInv, WalkTypeOK
    <3>3. \A q : Downstream(q)' = Downstream(q)
      BY DownstreamStays DEF vars
    <3> QED BY <1>1, <3>2, <3>3 DEF WalkInv, DownstreamIsKnown
  <2>7. NothingLeftWhenFinished'
    <3> SUFFICES ASSUME NEW q \in Partitions, output_finished'[q] > 0
                 PROVE  /\ q \in created
                        /\ NothingLeft(fragment_idxs, q)
                        /\ requested'[q] = "late" \/ output_finished'[q] = 1
      BY <1>1 DEF NothingLeftWhenFinished, NothingLeft
    <3>1. WalkTypeOK
      BY DEF WalkInv
    <3>2. CASE q = p
      <4>1. output_finished[p] \in Nat
        BY <3>1 DEF WalkTypeOK
      <4>2. CASE output_finished[p] = 0
        BY <1>1, <1>2, <2>1, <3>1, <3>2, <4>2 DEF WalkTypeOK
      <4>3. CASE output_finished[p] # 0
        <5>1. requested'[q] = "late"
          BY <1>1, <3>1, <3>2, <4>3 DEF WalkTypeOK
        <5> QED BY <1>1, <1>2, <3>2, <5>1
      <4> QED BY <4>2, <4>3
    <3>3. CASE q # p
      <4>1. output_finished'[q] = output_finished[q] /\ requested'[q] = requested[q]
        BY <1>1, <2>1, <3>1, <3>3 DEF WalkTypeOK
      <4> QED BY <4>1 DEF WalkInv, NothingLeftWhenFinished
    <3> QED BY <3>2, <3>3
  <2> QED BY <2>2, <2>4, <2>5, <2>6, <2>7 DEF WalkInv
<1>3. CASE ~NothingLeft(fragment_idxs, p)
  <2>1. /\ output_finished' = output_finished
        /\ downstream_components' = downstream_components
    BY <1>3 DEF AskOutputPartition
  <2>2. WalkTypeOK'
    BY <1>1, <2>1 DEF WalkInv, WalkTypeOK
  <2>3. \A z \in Zones : SameWalk(z)
    BY <1>1 DEF SameWalk, vars
  <2>4. FirstIsNext' /\ WalkLockIsHeld' /\ RoutesAreWalked'
    BY <1>1, <2>3, WalkPartsStay
  <2>5. WalksAfterRoutes'
    BY <1>1 DEF WalkInv, WalksAfterRoutes, vars
  <2>6. DownstreamIsKnown'
    <3>1. \A q : Downstream(q)' = Downstream(q)
      BY DownstreamStays DEF vars
    <3> QED BY <1>1, <2>1, <3>1 DEF WalkInv, DownstreamIsKnown
  <2>7. NothingLeftWhenFinished'
    <3>1. \A q \in Partitions : output_finished[q] > 0 => q # p
      BY <1>3 DEF WalkInv, NothingLeftWhenFinished
    <3>2. \A q \in Partitions : q # p => requested'[q] = requested[q]
      BY <1>1 DEF WalkInv, WalkTypeOK
    <3> QED BY <1>1, <2>1, <3>1, <3>2 DEF WalkInv, NothingLeftWhenFinished, NothingLeft
  <2> QED BY <2>2, <2>4, <2>5, <2>6, <2>7 DEF WalkInv
<1> QED BY <1>2, <1>3

(* A component learns about the ones downstream of it.                     *)
LEMMA WalkInvSetDownstream ==
    ASSUME OrderInv, WalkInv, UNCHANGED vars, NEW p \in Partitions, SetDownstreamComponents(p)
    PROVE  WalkInv'
<1>1. /\ created = Partitions
      /\ configured' = configured \cup {p}
      /\ downstream_components' = [downstream_components EXCEPT ![p] = Downstream(p)]
      /\ UNCHANGED <<max_nr_cells, created, fragment_idxs, walks, walking, write_locked, output,
                     requested, output_finished>>
  BY DEF SetDownstreamComponents
<1>2. Downstream(p) \subseteq Partitions
  <2>1. \A z \in Zones : result[<<p, z>>] \in Seq(Fragment)
    BY DEF OrderInv, RouteInv, TypeOK, Places
  <2>2. \A z \in Zones : \A fragment \in Range(result[<<p, z>>]) :
            fragment.next \in Partitions \cup {NoPartition}
    <3> SUFFICES ASSUME NEW z \in Zones, NEW k \in DOMAIN result[<<p, z>>]
                 PROVE  result[<<p, z>>][k].next \in Partitions \cup {NoPartition}
      BY DEF Range
    <3>1. result[<<p, z>>][k] \in Fragment
      BY <2>1, LenProperties
    <3> QED BY <3>1 DEF Fragment
  <2> QED BY <2>2 DEF Downstream
<1>3. WalkTypeOK'
  BY <1>1, <1>2 DEF WalkInv, WalkTypeOK
<1>4. \A z \in Zones : SameWalk(z)
  BY <1>1 DEF SameWalk, vars
<1>5. FirstIsNext' /\ WalkLockIsHeld' /\ RoutesAreWalked'
  BY <1>1, <1>4, WalkPartsStay
<1>6. WalksAfterRoutes'
  <2>1. walking => configured' = Partitions
    BY <1>1 DEF WalkInv, WalksAfterRoutes
  <2> QED BY <1>1, <2>1 DEF WalkInv, WalksAfterRoutes, vars
<1>7. DownstreamIsKnown'
  <2>1. \A q : Downstream(q)' = Downstream(q)
    BY DownstreamStays DEF vars
  <2>2. \A q \in Partitions : downstream_components'[q] =
            IF q = p THEN Downstream(p) ELSE downstream_components[q]
    BY <1>1 DEF WalkInv, WalkTypeOK
  <2>3. \A x \in DOMAIN fragment_idxs : x[1] \in Partitions
    BY DEF WalkInv, WalkTypeOK, Places
  <2> QED BY <1>1, <2>1, <2>2, <2>3 DEF WalkInv, DownstreamIsKnown
<1>8. NothingLeftWhenFinished'
  BY <1>1 DEF WalkInv, NothingLeftWhenFinished, NothingLeft
<1> QED BY <1>3, <1>5, <1>6, <1>7, <1>8 DEF WalkInv

(* Nothing comes before the first fragment.                                *)
LEMMA NothingBeforeFirst ==
    ASSUME WalkTypeOK, NEW h \in Seq(Piece), NEW r \in Seq(Partitions \X Nat), AreChained(h, r)
    PROVE  NrBefore(h, r, 1) = 0 /\ NrMarked(h, r, 1) = 0
<1>1. 1 \in DOMAIN h => h[1].from = 0
  BY DEF AreChained
<1>2. 1 \notin DOMAIN h => Len(r) = 0
  <2>1. 1 \notin DOMAIN h => r = <<>>
    BY PieceFacts DEF AreChained
  <2> QED BY <2>1
<1>3. max_nr_cells \in Nat
  BY DEF WalkTypeOK
<1>4. NrBefore(h, r, 1) = 0
  BY <1>1, <1>2 DEF NrBefore
<1> QED BY <1>3, <1>4 DEF NrMarked

(* Walks start with a call for the first fragment of every route.          *)
LEMMA WalkInvStart ==
    ASSUME OrderInv, WalkInv, Zonal, UNCHANGED vars, StartWalks
    PROVE  WalkInv'
<1>1. /\ configured = Partitions /\ ~walking /\ walking' = TRUE
      /\ \A z \in Zones : started[z] # "no"
      /\ walks' = {WalkCall(z, start[z], 0, 1) : z \in {z \in Zones : start[z] # NoPartition}}
      /\ UNCHANGED <<max_nr_cells, created, downstream_components, configured, fragment_idxs,
                     write_locked, output, requested, output_finished>>
  BY DEF StartWalks, AllConfigured
<1>2. /\ values' = values /\ start' = start /\ result' = result /\ started' = started
      /\ published' = published
  BY DEF vars
<1>3. published \subseteq Partitions /\ start \in [Zones -> Partitions \cup {NoPartition}]
      /\ TypeOK
  BY DEF OrderInv, RouteInv, TypeOK
<1>4. created = Partitions /\ published = Partitions
  <2>1. created \subseteq published /\ (configured # {} => created = Partitions)
    BY DEF WalkInv, WalksAfterRoutes
  <2> QED BY <1>1, <1>3, <2>1
<1>5. \A w \in walks' : /\ w.zone \in Zones /\ start[w.zone] # NoPartition
                        /\ w = WalkCall(w.zone, start[w.zone], 0, 1)
  BY <1>1 DEF WalkCall
<1>6. \A z \in Zones : start[z] # NoPartition => WalkCall(z, start[z], 0, 1) \in walks'
  BY <1>1
<1>7. \A w \in walks' : /\ w.kind = "walk" /\ w.pc = "called" /\ w.nr = 0 /\ w.hop = 1
                        /\ w.at = start[w.zone] /\ w.at # NoPartition /\ w \in Walk
  <2> SUFFICES ASSUME NEW w \in walks'
               PROVE  /\ w.kind = "walk" /\ w.pc = "called" /\ w.nr = 0 /\ w.hop = 1
                      /\ w.at = start[w.zone] /\ w.at # NoPartition /\ w \in Walk
    OBVIOUS
  <2>1. w.zone \in Zones /\ start[w.zone] \in Partitions
    BY <1>3, <1>5
  <2>2. w = [zone |-> w.zone, at |-> start[w.zone], kind |-> "walk", nr |-> 0, hop |-> 1,
             pc |-> "called"]
    BY <1>5 DEF WalkCall
  <2>3. w \in Walk
    BY <2>1, <2>2 DEF Walk
  <2> QED BY <1>5, <2>2, <2>3
<1>8. WalkTypeOK'
  BY <1>1, <1>7 DEF WalkInv, WalkTypeOK
<1>9. WalksAfterRoutes'
  BY <1>1, <1>2, <1>4 DEF WalkInv, WalksAfterRoutes
<1>10. FirstIsNext'
  BY <1>1 DEF FirstIsNext
<1>11. WalkLockIsHeld'
  BY <1>7 DEF WalkLockIsHeld
<1>12. DownstreamIsKnown'
  <2>1. \A q : Downstream(q)' = Downstream(q)
    BY <1>2, DownstreamStays
  <2> QED BY <1>1, <2>1 DEF WalkInv, DownstreamIsKnown
<1>13. NothingLeftWhenFinished'
  BY <1>1 DEF WalkInv, NothingLeftWhenFinished, NothingLeft
<1>14. RoutesAreWalked'
  <2> SUFFICES ASSUME NEW z \in Zones
               PROVE  \E h \in Seq(Piece), r \in Seq(Partitions \X Nat), f \in Nat :
                        WalkedUpTo(z, h, r, f)'
    BY DEF RoutesAreWalked
  <2>1. PICK h \in Seq(Piece), r \in Seq(Partitions \X Nat) : IsRoute(z, h, r)
    BY <1>1, <1>4, RoutesAreReady
  <2>2. IsRoute(z, h, r)'
    BY <1>2, <2>1, RouteStays DEF SameRoute
  <2>3. /\ start[z] # NoPartition <=> h # <<>>
        /\ h # <<>> => start[z] = h[1].at
        /\ h # <<>> <=> 1 \in DOMAIN h
        /\ Len(h) \in Nat /\ DOMAIN h = 1 .. Len(h)
    <3>1. IF h = <<>> THEN start[z] = NoPartition ELSE start[z] = h[1].at
      BY <2>1 DEF IsRoute, IsRecorded
    <3>2. h # <<>> => h[1].at \in Partitions
      BY PieceFacts
    <3> QED BY <3>1, <3>2, PieceFacts, InputsAssumption
  <2>4. CallsUpTo(z, h, 1)'
    <3>1. ASSUME NEW w \in walks', w.zone = z
          PROVE  /\ w.hop \in DOMAIN h /\ w.at = h[w.hop].at /\ w.hop <= 1
                 /\ w.pc = "called" <=> w.hop = 1
      BY <1>7, <2>3, <3>1
    <3>2. \A w, v \in walks' : w.zone = z /\ v.zone = z => w = v
      BY <1>5
    <3>3. 1 \in DOMAIN h => \E w \in walks' : w.zone = z /\ w.hop = 1
      BY <1>6, <2>3 DEF WalkCall
    <3> QED BY <3>1, <3>2, <3>3 DEF CallsUpTo
  <2>5. IdxsUpTo(z, 1)'
    <3> SUFFICES ASSUME NEW p \in Partitions
                 PROVE  IsNext(result[<<p, z>>], fragment_idxs, <<p, z>>, 1, CalledHops(z)')
      BY <1>1, <1>2 DEF IdxsUpTo
    <3> DEFINE x == <<p, z>>
    <3>1. x \in Places /\ result[x] \in Seq(Fragment)
      BY <1>3 DEF Places, TypeOK
    <3>2. /\ x \in DOMAIN fragment_idxs <=> result[x] # <<>>
          /\ x \in DOMAIN fragment_idxs => fragment_idxs[x] = 1
      BY <1>1, <1>4, <3>1 DEF WalkInv, FirstIsNext
    <3>3. \A k \in DOMAIN result[x] : k \in Nat /\ k >= 1 /\ result[x][k].hop \in Nat
                                      /\ result[x][k].hop >= 1
      <4> SUFFICES ASSUME NEW k \in DOMAIN result[x]
                   PROVE  k \in Nat /\ k >= 1 /\ result[x][k].hop \in Nat /\ result[x][k].hop >= 1
        OBVIOUS
      <4>1. k \in Nat /\ k >= 1
        BY <3>1, LenProperties
      <4>2. result[x][k].hop \in DOMAIN h
        BY <2>1 DEF IsRoute, IsRecorded, IsPiece
      <4> QED BY <2>3, <4>1, <4>2
    <3>4. CASE result[x] = <<>>
      BY <3>2, <3>4 DEF IsNext
    <3>5. CASE result[x] # <<>>
      <4>1. 1 \in DOMAIN result[x]
        BY <3>1, <3>5, EmptySeq, LenProperties
      <4> HIDE DEF x
      <4> QED BY <3>2, <3>3, <3>5, <4>1 DEF x, IsNext
    <3> QED BY <3>4, <3>5
  <2>6. MarkedUpTo(z, h, r, 1)'
    <3>1. NrBefore(h, r, 1) = 0 /\ NrMarked(h, r, 1) = 0
      BY <2>1, NothingBeforeFirst DEF WalkInv, IsRoute
    <3>2. NrBefore(h, r, 1)' = 0 /\ NrMarked(h, r, 1)' = 0
      BY <1>1, <3>1 DEF NrBefore, NrMarked
    <3>3. \A p \in Partitions : output'[<<p, z>>] = {}
      BY <1>1 DEF WalkInv, WalksAfterRoutes, Places
    <3>4. 1 .. 0 = {}
      OBVIOUS
    <3> QED BY <1>7, <3>2, <3>3, <3>4 DEF MarkedUpTo
  <2>7. 1 \in 1 .. Len(h) + 1 /\ 1 \in Nat
    BY <2>3
  <2> QED BY <2>2, <2>4, <2>5, <2>6, <2>7 DEF WalkedUpTo
<1> QED BY <1>8, <1>9, <1>10, <1>11, <1>12, <1>13, <1>14 DEF WalkInv

(* The fragments of a place are pieces of the history, in its order.       *)
LEMMA RecordedFacts ==
    ASSUME TypeOK, NEW z \in Zones, NEW h \in Seq(Piece), IsRecorded(z, h), NEW p \in Partitions
    PROVE  /\ result[<<p, z>>] \in Seq(Fragment)
           /\ Len(result[<<p, z>>]) \in Nat
           /\ DOMAIN result[<<p, z>>] = 1 .. Len(result[<<p, z>>])
           /\ \A k \in DOMAIN result[<<p, z>>] :
                /\ k \in Nat
                /\ result[<<p, z>>][k].hop \in DOMAIN h
                /\ result[<<p, z>>][k].hop \in Nat
                /\ IsPiece(h, p, result[<<p, z>>][k])
           /\ \A k, l \in DOMAIN result[<<p, z>>] :
                l < k <=> result[<<p, z>>][l].hop < result[<<p, z>>][k].hop
<1> DEFINE s == result[<<p, z>>]
<1>1. s \in Seq(Fragment)
  BY DEF TypeOK, Places
<1>2. Len(s) \in Nat /\ DOMAIN s = 1 .. Len(s)
  BY <1>1, LenProperties
<1>3. \A k \in DOMAIN s : IsPiece(h, p, s[k]) /\ \A l \in 1 .. k - 1 : s[l].hop < s[k].hop
  BY DEF IsRecorded
<1>4. \A k \in DOMAIN s : k \in Nat /\ s[k].hop \in DOMAIN h /\ s[k].hop \in Nat
  BY <1>2, <1>3, PieceFacts DEF IsPiece
<1> HIDE DEF s
<1>5. \A k, l \in DOMAIN s : l < k => s[l].hop < s[k].hop
  <2> SUFFICES ASSUME NEW k \in DOMAIN s, NEW l \in DOMAIN s, l < k PROVE s[l].hop < s[k].hop
    OBVIOUS
  <2>1. l \in 1 .. k - 1
    BY <1>2
  <2> QED BY <1>3, <2>1
<1>6. \A k, l \in DOMAIN s : s[l].hop < s[k].hop => l < k
  <2> SUFFICES ASSUME NEW k \in DOMAIN s, NEW l \in DOMAIN s, s[l].hop < s[k].hop, ~(l < k)
               PROVE  FALSE
    OBVIOUS
  <2>1. k = l \/ k < l
    BY <1>4
  <2>2. s[l].hop \in Nat /\ s[k].hop \in Nat
    BY <1>4
  <2> QED BY <1>5, <2>1, <2>2
<1> QED BY <1>1, <1>2, <1>3, <1>4, <1>5, <1>6 DEF s

(* The next fragment of the component that is called: the one the call is  *)
(* for, or the one before it, when that has still to be left.              *)
LEMMA CallPlace ==
    ASSUME TypeOK, NEW z \in Zones, NEW h \in Seq(Piece), NEW r, NEW f \in Nat,
           WalkedUpTo(z, h, r, f), NEW w \in walks, w.zone = z,
           NEW x, x = <<w.at, z>>, NEW idx, idx = fragment_idxs[x]
    PROVE  /\ w.at \in Partitions /\ x \in DOMAIN fragment_idxs
           /\ idx \in DOMAIN result[x] /\ idx \in Nat
           /\ IsPiece(h, w.at, result[x][idx])
           /\ w.pc # "called" => result[x][idx].hop = w.hop /\ w.hop < f
           /\ w.pc = "called" =>
                /\ w.hop = f /\ f \in DOMAIN h
                /\ \/ result[x][idx].hop = f
                   \/ /\ idx + 1 \in DOMAIN result[x]
                      /\ result[x][idx + 1].hop = f
                      /\ \E v \in walks : /\ v.zone = z /\ v.at = w.at /\ v.pc # "called"
                                          /\ v.hop = result[x][idx].hop /\ v.hop < f
<1>1. /\ w.hop \in DOMAIN h /\ w.at = h[w.hop].at /\ w.hop <= f
      /\ w.pc = "called" <=> w.hop = f
  BY DEF WalkedUpTo, CallsUpTo
<1>2. w.at \in Partitions /\ w.hop \in Nat
  BY <1>1, PieceFacts
<1>3. IsRecorded(z, h)
  BY DEF WalkedUpTo, IsRoute
<1>4. /\ result[x] \in Seq(Fragment)
      /\ Len(result[x]) \in Nat
      /\ DOMAIN result[x] = 1 .. Len(result[x])
      /\ \A k \in DOMAIN result[x] :
            /\ k \in Nat
            /\ result[x][k].hop \in DOMAIN h
            /\ result[x][k].hop \in Nat
            /\ IsPiece(h, w.at, result[x][k])
      /\ \A k, l \in DOMAIN result[x] : l < k <=> result[x][l].hop < result[x][k].hop
  BY <1>2, <1>3, RecordedFacts
<1>5. PICK k \in DOMAIN result[x] : result[x][k].hop = w.hop
  BY <1>1, <1>3 DEF IsRecorded
<1>6. w.hop \in CalledHops(z)
  BY DEF CalledHops
<1>7. /\ x \in DOMAIN fragment_idxs
      /\ idx \in DOMAIN result[x]
      /\ k >= idx
      /\ \A l \in DOMAIN result[x] : l > idx => result[x][l].hop >= f
      /\ result[x][idx].hop < f => result[x][idx].hop \in CalledHops(z)
  <2>1. IdxsUpTo(z, f)
    BY DEF WalkedUpTo
  <2>2. IF x \in DOMAIN fragment_idxs
        THEN /\ idx \in DOMAIN result[x]
             /\ \A l \in DOMAIN result[x] :
                /\ l < idx => result[x][l].hop < f /\ result[x][l].hop \notin CalledHops(z)
                /\ l > idx => result[x][l].hop >= f
             /\ result[x][idx].hop < f => result[x][idx].hop \in CalledHops(z)
        ELSE \A l \in DOMAIN result[x] :
                result[x][l].hop < f /\ result[x][l].hop \notin CalledHops(z)
    BY <1>2, <2>1 DEF IdxsUpTo, IsNext
  <2>3. x \in DOMAIN fragment_idxs
    BY <1>5, <1>6, <2>2
  <2>4. ~(k < idx)
    BY <1>5, <1>6, <2>2, <2>3
  <2>5. idx \in DOMAIN result[x] /\ idx \in Nat /\ k \in Nat
    BY <1>4, <2>2, <2>3
  <2>6. k >= idx
    BY <2>4, <2>5
  <2> QED BY <2>2, <2>3, <2>5, <2>6
<1>8. w.pc # "called" => result[x][idx].hop = w.hop /\ w.hop < f
  <2> SUFFICES ASSUME w.pc # "called" PROVE result[x][idx].hop = w.hop /\ w.hop < f
    OBVIOUS
  <2>1. w.hop < f
    BY <1>1, <1>2
  <2>2. ~(k > idx)
    BY <1>2, <1>5, <1>7, <2>1
  <2>3. k = idx
    BY <1>4, <1>7, <2>2
  <2> QED BY <1>5, <2>1, <2>3
<1>9. ASSUME w.pc = "called", result[x][idx].hop # f
      PROVE  /\ idx + 1 \in DOMAIN result[x]
             /\ result[x][idx + 1].hop = f
             /\ \E v \in walks : /\ v.zone = z /\ v.at = w.at /\ v.pc # "called"
                                 /\ v.hop = result[x][idx].hop /\ v.hop < f
  <2>1. w.hop = f /\ k # idx
    BY <1>1, <1>5, <1>9
  <2>0. idx \in Nat /\ k \in Nat /\ idx \in DOMAIN result[x]
    BY <1>4, <1>7
  <2>2. idx < k
    BY <1>7, <2>0, <2>1
  <2>2a. result[x][idx].hop < f
    BY <1>4, <1>5, <2>0, <2>1, <2>2
  <2>3. idx + 1 \in DOMAIN result[x] /\ idx + 1 <= k /\ idx + 1 > idx
    BY <1>4, <2>0, <2>2
  <2>4. result[x][idx + 1].hop >= f
    BY <1>7, <2>3
  <2>5. ~(idx + 1 < k)
    <3>1. idx + 1 < k <=> result[x][idx + 1].hop < result[x][k].hop
      BY <1>4, <2>3
    <3>2. result[x][idx + 1].hop \in Nat /\ result[x][k].hop = f
      BY <1>4, <1>5, <2>1, <2>3
    <3> QED BY <2>4, <3>1, <3>2
  <2>6. k = idx + 1
    BY <1>4, <2>3, <2>5
  <2>7. PICK v \in walks : v.zone = z /\ v.hop = result[x][idx].hop
    BY <1>7, <2>2a DEF CalledHops
  <2>8. /\ v.at = h[v.hop].at /\ (v.pc = "called" <=> v.hop = f)
    BY <2>7 DEF WalkedUpTo, CallsUpTo
  <2>9. h[v.hop].at = w.at
    BY <1>4, <1>7, <2>7 DEF IsPiece
  <2>10. v.hop # f
    BY <1>9, <2>7
  <2> QED BY <1>5, <2>1, <2>2a, <2>3, <2>6, <2>7, <2>8, <2>9, <2>10
<1> QED BY <1>1, <1>2, <1>4, <1>7, <1>8, <1>9

(* No two calls are about to leave fragments of the same place.            *)
LEMMA LeavesAlone ==
    ASSUME WalkInv, NEW z, NEW h, NEW r, NEW f, WalkedUpTo(z, h, r, f),
           NEW w \in walks, NEW v \in walks, w.zone = z, v.zone = z, w.at = v.at,
           w.pc # "called", v.pc # "called"
    PROVE  w = v
<1>1. w.pc = "visited" /\ v.pc = "visited"
  BY DEF WalkInv, WalkTypeOK, Walk
<1> QED BY <1>1 DEF WalkInv, WalkLockIsHeld

(* The assertions about the calls follow from how far routes are walked.   *)
LEMMA WalkInvImpliesExpected ==
    OrderInv /\ WalkInv => CallsAreExpected
<1> SUFFICES ASSUME OrderInv, WalkInv, NEW w \in walks
             PROVE  LET place == <<w.at, w.zone>>
                        earlier == {other \in walks : other.at = w.at /\ other.zone = w.zone
                                                      /\ other.hop < w.hop}
                    IN  /\ place \in DOMAIN fragment_idxs
                        /\ LET idx == fragment_idxs[place] + Cardinality(earlier)
                           IN  /\ idx <= Len(result[place])
                               /\ result[place][idx].hop = w.hop
                               /\ result[place][idx].next \in
                                    downstream_components[w.at] \cup {NoPartition}
  BY DEF CallsAreExpected
<1> DEFINE z == w.zone
           x == <<w.at, z>>
           idx == fragment_idxs[x]
           earlier == {other \in walks : other.at = w.at /\ other.zone = w.zone
                                         /\ other.hop < w.hop}
<1>1. TypeOK /\ WalkTypeOK /\ w \in Walk
  BY DEF OrderInv, RouteInv, WalkInv, WalkTypeOK
<1>2. walking /\ z \in Zones /\ w.at \in Partitions /\ w.hop \in Nat
  BY <1>1 DEF WalkInv, WalksAfterRoutes, Walk
<1>3. PICK h \in Seq(Piece), r \in Seq(Partitions \X Nat), f \in Nat : WalkedUpTo(z, h, r, f)
  BY <1>2 DEF WalkInv, RoutesAreWalked
<1>4. /\ x \in DOMAIN fragment_idxs
      /\ idx \in DOMAIN result[x] /\ idx \in Nat
      /\ w.pc # "called" => result[x][idx].hop = w.hop /\ w.hop < f
      /\ w.pc = "called" =>
            /\ w.hop = f
            /\ \/ result[x][idx].hop = f
               \/ /\ idx + 1 \in DOMAIN result[x]
                  /\ result[x][idx + 1].hop = f
                  /\ \E v \in walks : /\ v.zone = z /\ v.at = w.at /\ v.pc # "called"
                                      /\ v.hop = result[x][idx].hop /\ v.hop < f
  <2>1. x = <<w.at, z>> /\ idx = fragment_idxs[x] /\ w.zone = z
    OBVIOUS
  <2> HIDE DEF x, idx, z
  <2> QED BY <1>1, <1>2, <1>3, <2>1, CallPlace
<1>5. ASSUME NEW other \in earlier
      PROVE  /\ other \in walks /\ other.zone = z /\ other.at = w.at /\ other.hop < w.hop
             /\ other.pc # "called" /\ result[x][idx].hop = other.hop
  <2>1. other \in walks /\ other.zone = z /\ other.at = w.at /\ other.hop < w.hop
    OBVIOUS
  <2>2. w.hop <= f /\ (other.pc = "called" <=> other.hop = f)
    BY <1>3, <2>1 DEF WalkedUpTo, CallsUpTo
  <2>3. other.hop \in Nat
    BY <1>1, <2>1 DEF WalkTypeOK, Walk
  <2>4. other.pc # "called"
    BY <1>2, <2>1, <2>2, <2>3
  <2>5. x = <<other.at, z>>
    BY <2>1
  <2> HIDE DEF x, idx, earlier, z
  <2>6. result[x][idx].hop = other.hop
    BY <1>1, <1>2, <1>3, <2>1, <2>4, <2>5, CallPlace DEF idx
  <2> QED BY <2>1, <2>4, <2>6
<1>6. PICK k : /\ k = idx + Cardinality(earlier)
               /\ k \in DOMAIN result[x] /\ result[x][k].hop = w.hop
  <2>1. CASE earlier = {}
    <3>1. Cardinality(earlier) = 0
      BY <2>1, FS_EmptySet
    <3>2. ~\E v \in walks : /\ v.zone = z /\ v.at = w.at /\ v.pc # "called"
                            /\ v.hop = result[x][idx].hop /\ v.hop < w.hop
      BY <2>1
    <3>3. result[x][idx].hop = w.hop
      BY <1>4, <3>2
    <3> HIDE DEF idx, earlier
    <3>4. idx + Cardinality(earlier) = idx
      BY <1>4, <3>1
    <3> QED BY <1>4, <3>3, <3>4
  <2>2. CASE earlier # {}
    <3>1. PICK v : v \in earlier
      BY <2>2
    <3>2. /\ v \in walks /\ v.zone = z /\ v.at = w.at /\ v.hop < w.hop
          /\ v.pc # "called" /\ result[x][idx].hop = v.hop
      BY <1>5, <3>1
    <3>3. \A other \in earlier : other = v
      BY <1>3, <1>5, <3>2, LeavesAlone
    <3>4. earlier = {v}
      BY <3>1, <3>3
    <3>5. Cardinality(earlier) = 1
      BY <3>4, FS_Singleton
    <3>6. v.hop \in Nat
      BY <1>1, <3>2 DEF WalkTypeOK, Walk
    <3> HIDE DEF idx, earlier
    <3>7. result[x][idx].hop # w.hop
      BY <1>2, <3>2, <3>6
    <3>8. idx + 1 \in DOMAIN result[x] /\ result[x][idx + 1].hop = w.hop
      BY <1>4, <3>7
    <3> QED BY <3>5, <3>8
  <2> QED BY <2>1, <2>2
<1>7. result[x] \in Seq(Fragment)
  BY <1>1, <1>2 DEF TypeOK, Places
<1>8. k <= Len(result[x])
  BY <1>6, <1>7, LenProperties
<1>9. result[x][k].next \in downstream_components[w.at] \cup {NoPartition}
  <2>1. downstream_components[w.at] = Downstream(w.at)
    BY <1>2, <1>4 DEF WalkInv, WalksAfterRoutes, DownstreamIsKnown
  <2>2. result[x][k] \in Range(result[x])
    BY <1>6 DEF Range
  <2>3. result[x][k] \in UNION {Range(result[<<w.at, y>>]) : y \in Zones}
    BY <1>2, <2>2
  <2>4. result[x][k].next = NoPartition \/ result[x][k].next \in Downstream(w.at)
    BY <2>3 DEF Downstream
  <2> QED BY <2>1, <2>4
<1> QED BY <1>4, <1>6, <1>8, <1>9

(* No call is under way to a component that expects no fragments.          *)
LEMMA WalkInvImpliesFinal ==
    OrderInv /\ WalkInv => OutputIsFinal
<1> SUFFICES ASSUME OrderInv, WalkInv, NEW p \in Partitions, output_finished[p] > 0
             PROVE  /\ \A w \in walks : w.at # p
                    /\ \A z \in Zones : <<p, z>> \notin DOMAIN fragment_idxs
                    /\ requested[p] = "late" \/ output_finished[p] = 1
  BY DEF OutputIsFinal
<1>1. NothingLeft(fragment_idxs, p) /\ (requested[p] = "late" \/ output_finished[p] = 1)
  BY DEF WalkInv, NothingLeftWhenFinished
<1>2. \A z \in Zones : <<p, z>> \notin DOMAIN fragment_idxs
  BY <1>1 DEF NothingLeft
<1>3. ASSUME NEW w \in walks, w.at = p PROVE FALSE
  <2>1. CallsAreExpected
    BY WalkInvImpliesExpected
  <2>2. <<w.at, w.zone>> \in DOMAIN fragment_idxs
    BY <2>1 DEF CallsAreExpected
  <2>3. w.zone \in Zones
    BY DEF WalkInv, WalkTypeOK, Walk
  <2> QED BY <1>2, <1>3, <2>2, <2>3
<1> QED BY <1>1, <1>2, <1>3

(* The next fragments after one was left.                                  *)
NextIdxs(x) ==
    IF fragment_idxs[x] = Len(result[x])
    THEN Restrict(fragment_idxs, DOMAIN fragment_idxs \ {x})
    ELSE [fragment_idxs EXCEPT ![x] = @ + 1]

(* The next fragment of one place changes, or is there no longer.          *)
LEMMA NextIdxsFacts ==
    ASSUME WalkTypeOK, NEW x \in DOMAIN fragment_idxs
    PROVE  /\ DOMAIN NextIdxs(x) = IF fragment_idxs[x] = Len(result[x])
                                   THEN DOMAIN fragment_idxs \ {x} ELSE DOMAIN fragment_idxs
           /\ \A y \in DOMAIN NextIdxs(x) : NextIdxs(x)[y] =
                IF y = x THEN fragment_idxs[x] + 1 ELSE fragment_idxs[y]
           /\ NextIdxs(x) = [y \in DOMAIN NextIdxs(x) |-> NextIdxs(x)[y]]
<1>1. fragment_idxs = [y \in DOMAIN fragment_idxs |-> fragment_idxs[y]]
  BY DEF WalkTypeOK
<1>2. CASE fragment_idxs[x] = Len(result[x])
  <2>1. NextIdxs(x) = [y \in DOMAIN fragment_idxs \ {x} |-> fragment_idxs[y]]
    BY <1>2 DEF NextIdxs, Restrict
  <2>2. DOMAIN NextIdxs(x) = DOMAIN fragment_idxs \ {x}
    BY <2>1
  <2>3. \A y \in DOMAIN NextIdxs(x) : NextIdxs(x)[y] = fragment_idxs[y]
    BY <2>1
  <2>4. NextIdxs(x) = [y \in DOMAIN NextIdxs(x) |-> NextIdxs(x)[y]]
    BY <2>1, <2>2, <2>3
  <2> QED BY <1>2, <2>2, <2>3, <2>4
<1>3. CASE fragment_idxs[x] # Len(result[x])
  <2>1. NextIdxs(x) = [fragment_idxs EXCEPT ![x] = fragment_idxs[x] + 1]
    BY <1>3 DEF NextIdxs
  <2>2. NextIdxs(x) = [y \in DOMAIN fragment_idxs |->
                        IF y = x THEN fragment_idxs[x] + 1 ELSE fragment_idxs[y]]
    BY <1>1, <2>1
  <2>3. DOMAIN NextIdxs(x) = DOMAIN fragment_idxs
    BY <2>2
  <2>4. \A y \in DOMAIN NextIdxs(x) : NextIdxs(x)[y] =
            IF y = x THEN fragment_idxs[x] + 1 ELSE fragment_idxs[y]
    BY <2>2
  <2>5. NextIdxs(x) = [y \in DOMAIN NextIdxs(x) |-> NextIdxs(x)[y]]
    BY <2>2, <2>3, <2>4
  <2> QED BY <1>3, <2>3, <2>4, <2>5
<1> QED BY <1>2, <1>3

(* A route is walked as far when a fragment is left.                       *)
LEMMA LeaveKeepsWalk ==
    ASSUME TypeOK, WalkInv, NEW w \in walks, w.pc = "visited", NEW z \in Zones, z = w.zone,
           NEW h \in Seq(Piece), NEW r \in Seq(Partitions \X Nat), NEW f \in Nat,
           WalkedUpTo(z, h, r, f), UNCHANGED vars, max_nr_cells' = max_nr_cells,
           output' = output, walks' = walks \ {w}, fragment_idxs' = NextIdxs(<<w.at, z>>)
    PROVE  WalkedUpTo(z, h, r, f)'
<1> DEFINE x == <<w.at, z>>
           idx == fragment_idxs[x]
<1>0. /\ w.at \in Partitions /\ x \in DOMAIN fragment_idxs
      /\ idx \in DOMAIN result[x] /\ idx \in Nat
      /\ result[x][idx].hop = w.hop /\ w.hop < f
  <2>1. x = <<w.at, z>> /\ idx = fragment_idxs[x] /\ w.zone = z /\ w.pc # "called"
    OBVIOUS
  <2> HIDE DEF x, idx
  <2> QED BY <2>1, CallPlace
<1>1. IsRoute(z, h, r)'
  BY RouteStays DEF WalkedUpTo, SameRoute, vars
<1>2. CallsUpTo(z, h, f)'
  <2>1. CallsUpTo(z, h, f) /\ w.hop # f
    BY DEF WalkedUpTo, CallsUpTo
  <2> QED BY <2>1 DEF CallsUpTo
<1>3. MarkedUpTo(z, h, r, f)'
  <2>1. NrMarked(h, r, f)' = NrMarked(h, r, f) /\ NrBefore(h, r, f)' = NrBefore(h, r, f)
    BY DEF NrMarked, NrBefore
  <2> QED BY <2>1 DEF WalkedUpTo, MarkedUpTo
<1>4. IdxsUpTo(z, f)'
  <2> SUFFICES ASSUME NEW p \in Partitions
               PROVE  IsNext(result[<<p, z>>], NextIdxs(x), <<p, z>>, f, CalledHops(z)')
    BY DEF IdxsUpTo, vars
  <2> DEFINE y == <<p, z>>
             s == result[y]
             S == CalledHops(z)
             T == CalledHops(z)'
             idxs == NextIdxs(x)
  <2>1. IsNext(s, fragment_idxs, y, f, S)
    BY DEF WalkedUpTo, IdxsUpTo
  <2>2. /\ DOMAIN s = 1 .. Len(s) /\ Len(s) \in Nat
        /\ \A k \in DOMAIN s : k \in Nat /\ s[k].hop \in Nat /\ IsPiece(h, p, s[k])
        /\ \A k, l \in DOMAIN s : l < k <=> s[l].hop < s[k].hop
    BY RecordedFacts DEF WalkedUpTo, IsRoute
  <2>3. T = S \ {w.hop}
    BY DEF CalledHops, WalkedUpTo, CallsUpTo
  <2>4. /\ DOMAIN idxs = IF idx = Len(result[x])
                         THEN DOMAIN fragment_idxs \ {x} ELSE DOMAIN fragment_idxs
        /\ \A u \in DOMAIN idxs : idxs[u] = IF u = x THEN idx + 1 ELSE fragment_idxs[u]
    BY <1>0, NextIdxsFacts DEF WalkInv
  <2>5. CASE p # w.at
    <3>1. y # x
      BY <2>5
    <3>2. \A k \in DOMAIN s : s[k].hop # w.hop
      BY <2>2, <2>5 DEF IsPiece, WalkedUpTo, CallsUpTo
    <3> HIDE DEF y, s, S, T, idxs, x, idx
    <3>3. /\ y \in DOMAIN idxs <=> y \in DOMAIN fragment_idxs
          /\ y \in DOMAIN fragment_idxs => idxs[y] = fragment_idxs[y]
      BY <2>4, <3>1
    <3>4. IsNext(s, idxs, y, f, T)
      BY <2>1, <2>3, <3>2, <3>3 DEF IsNext
    <3> QED BY <3>4 DEF y, s, S, T, idxs, x
  <2>6. CASE p = w.at
    <3>1. y = x /\ s = result[x]
      BY <2>6
    <3>2. /\ idx \in DOMAIN s /\ idx \in Nat /\ s[idx].hop = w.hop /\ w.hop < f
          /\ x \in DOMAIN fragment_idxs /\ idx = fragment_idxs[x]
      BY <1>0, <3>1
    <3> HIDE DEF y, s, S, T, idxs, x, idx
    <3>3. /\ \A k \in DOMAIN s : k < idx => s[k].hop < f /\ s[k].hop \notin S
          /\ \A k \in DOMAIN s : k > idx => s[k].hop >= f
      BY <2>1, <3>1, <3>2 DEF IsNext
    <3>4. ASSUME NEW k \in DOMAIN s, k <= idx PROVE s[k].hop < f /\ s[k].hop \notin T
      <4>1. CASE k = idx
        BY <2>3, <3>2, <4>1
      <4>2. CASE k # idx
        <5>1. k < idx
          BY <2>2, <3>2, <3>4, <4>2
        <5> QED BY <2>3, <3>3, <5>1
      <4> QED BY <4>1, <4>2
    <3>5. CASE idx = Len(s)
      <4>1. y \notin DOMAIN idxs
        BY <2>4, <3>1, <3>5
      <4>2. \A k \in DOMAIN s : k <= idx
        BY <2>2, <3>5
      <4>3. IsNext(s, idxs, y, f, T)
        BY <3>4, <4>1, <4>2 DEF IsNext
      <4> QED BY <4>3 DEF y, s, S, T, idxs, x
    <3>6. CASE idx # Len(s)
      <4>1. y \in DOMAIN idxs /\ idxs[y] = idx + 1
        BY <2>4, <3>1, <3>2, <3>6
      <4>2. idx + 1 \in DOMAIN s /\ idx + 1 > idx
        BY <2>2, <3>2, <3>6
      <4>3. \A k \in DOMAIN s : /\ k < idx + 1 => k <= idx
                                /\ k > idx + 1 => k > idx
        BY <2>2, <3>2
      <4>4. s[idx + 1].hop >= f /\ s[idx + 1].hop \in Nat
        BY <2>2, <3>3, <4>2
      <4>5. ~(s[idx + 1].hop < f)
        BY <4>4
      <4>6. \A k \in DOMAIN s : /\ k < idx + 1 => s[k].hop < f /\ s[k].hop \notin T
                                /\ k > idx + 1 => s[k].hop >= f
        <5> SUFFICES ASSUME NEW k \in DOMAIN s
                     PROVE  /\ k < idx + 1 => s[k].hop < f /\ s[k].hop \notin T
                            /\ k > idx + 1 => s[k].hop >= f
          OBVIOUS
        <5>1. k <= idx => s[k].hop < f /\ s[k].hop \notin T
          BY <3>4
        <5>2. k > idx => s[k].hop >= f
          BY <3>3
        <5>3. (k < idx + 1 => k <= idx) /\ (k > idx + 1 => k > idx)
          BY <4>3
        <5> QED BY <5>1, <5>2, <5>3
      <4>7. IsNext(s, idxs, y, f, T)
        BY <4>1, <4>2, <4>5, <4>6, Zenon DEF IsNext
      <4> QED BY <4>7 DEF y, s, S, T, idxs, x
    <3> QED BY <3>5, <3>6
  <2> QED BY <2>5, <2>6
<1> QED BY <1>1, <1>2, <1>3, <1>4 DEF WalkedUpTo

(* Leaving a fragment.                                                     *)
LEMMA WalkInvLeave ==
    ASSUME OrderInv, WalkInv, UNCHANGED vars, NEW w \in walks, Leave(w)
    PROVE  WalkInv'
<1> DEFINE x == <<w.at, w.zone>>
<1>1. /\ w.pc = "visited" /\ fragment_idxs' = NextIdxs(x)
      /\ walks' = walks \ {w} /\ write_locked' = write_locked \ {w.at}
      /\ IF NothingLeft(NextIdxs(x), w.at) THEN FinishOutput(w.at)
         ELSE UNCHANGED <<output_finished, downstream_components>>
      /\ UNCHANGED <<max_nr_cells, created, configured, walking, output, requested>>
  BY DEF Leave, NextIdxs
<1>2. TypeOK /\ WalkTypeOK /\ w \in Walk
  BY DEF OrderInv, RouteInv, WalkInv, WalkTypeOK
<1>3. walking /\ w.zone \in Zones /\ w.at \in Partitions
  BY <1>2 DEF WalkInv, WalksAfterRoutes, Walk
<1>4. x \in DOMAIN fragment_idxs
  <2>1. CallsAreExpected
    BY WalkInvImpliesExpected
  <2> QED BY <2>1 DEF CallsAreExpected
<1>5. /\ DOMAIN fragment_idxs' \subseteq DOMAIN fragment_idxs
      /\ fragment_idxs' = [y \in DOMAIN fragment_idxs' |-> fragment_idxs'[y]]
      /\ \A y \in DOMAIN fragment_idxs' : y # x => fragment_idxs'[y] = fragment_idxs[y]
      /\ \A y \in DOMAIN fragment_idxs : y # x => y \in DOMAIN fragment_idxs'
  <2>1. /\ DOMAIN NextIdxs(x) = IF fragment_idxs[x] = Len(result[x])
                                THEN DOMAIN fragment_idxs \ {x} ELSE DOMAIN fragment_idxs
        /\ \A y \in DOMAIN NextIdxs(x) : NextIdxs(x)[y] =
                IF y = x THEN fragment_idxs[x] + 1 ELSE fragment_idxs[y]
        /\ NextIdxs(x) = [y \in DOMAIN NextIdxs(x) |-> NextIdxs(x)[y]]
    BY <1>2, <1>4, NextIdxsFacts
  <2> HIDE DEF x
  <2> QED BY <1>1, <2>1
<1>6. output_finished[w.at] = 0
  <2>1. OutputIsFinal
    BY WalkInvImpliesFinal
  <2>2. ~(output_finished[w.at] > 0)
    BY <1>3, <2>1 DEF OutputIsFinal
  <2>3. output_finished[w.at] \in Nat
    BY <1>2, <1>3 DEF WalkTypeOK
  <2> QED BY <2>2, <2>3
<1> HIDE DEF x
<1>7. /\ \A q \in Partitions : output_finished'[q] =
            IF q = w.at /\ NothingLeft(fragment_idxs', q) THEN 1 ELSE output_finished[q]
      /\ \A q \in Partitions : q # w.at \/ ~NothingLeft(fragment_idxs', q) =>
            downstream_components'[q] = downstream_components[q]
      /\ output_finished' \in [Partitions -> Nat]
      /\ downstream_components' \in [Partitions -> SUBSET Partitions]
  <2>1. CASE NothingLeft(fragment_idxs', w.at)
    <3>1. /\ output_finished' = [output_finished EXCEPT ![w.at] = 0 + 1]
          /\ downstream_components' = [downstream_components EXCEPT ![w.at] = {}]
      BY <1>1, <1>6, <2>1 DEF FinishOutput
    <3> QED BY <1>2, <1>3, <2>1, <3>1 DEF WalkTypeOK
  <2>2. CASE ~NothingLeft(fragment_idxs', w.at)
    <3>1. /\ output_finished' = output_finished
          /\ downstream_components' = downstream_components
      BY <1>1, <2>2
    <3> QED BY <1>2, <2>2, <3>1 DEF WalkTypeOK
  <2> QED BY <2>1, <2>2
<1>8. WalkTypeOK'
  <2>1. DOMAIN fragment_idxs' \subseteq Places
    BY <1>2, <1>5 DEF WalkTypeOK
  <2> QED BY <1>1, <1>2, <1>5, <1>7, <2>1 DEF WalkTypeOK
<1>9. WalksAfterRoutes'
  BY <1>1, <1>3 DEF WalkInv, WalksAfterRoutes, vars
<1>10. FirstIsNext'
  BY <1>1, <1>3 DEF FirstIsNext
<1>11. WalkLockIsHeld'
  BY <1>1 DEF WalkInv, WalkLockIsHeld
<1>12. DownstreamIsKnown'
  <2> SUFFICES ASSUME NEW y \in DOMAIN fragment_idxs'
               PROVE  /\ y[1] \in created
                      /\ y[1] \in configured => downstream_components'[y[1]] = Downstream(y[1])'
    BY <1>1 DEF DownstreamIsKnown
  <2>1. y \in DOMAIN fragment_idxs /\ y[1] \in Partitions
    BY <1>2, <1>5 DEF WalkTypeOK, Places
  <2>2. ~NothingLeft(fragment_idxs', y[1])
    BY DEF NothingLeft
  <2>3. downstream_components'[y[1]] = downstream_components[y[1]]
    BY <1>7, <2>1, <2>2
  <2>4. Downstream(y[1])' = Downstream(y[1])
    BY DownstreamStays DEF vars
  <2> QED BY <2>1, <2>3, <2>4 DEF WalkInv, DownstreamIsKnown
<1>13. NothingLeftWhenFinished'
  <2> SUFFICES ASSUME NEW q \in Partitions, output_finished'[q] > 0
               PROVE  /\ q \in created
                      /\ NothingLeft(fragment_idxs', q)
                      /\ requested[q] = "late" \/ output_finished'[q] = 1
    BY <1>1 DEF NothingLeftWhenFinished
  <2>1. CASE q = w.at
    <3>1. created = Partitions
      BY <1>3 DEF WalkInv, WalksAfterRoutes
    <3>2. NothingLeft(fragment_idxs', q)
      BY <1>6, <1>7, <2>1
    <3> QED BY <1>7, <2>1, <3>1, <3>2
  <2>2. CASE q # w.at
    <3>1. output_finished'[q] = output_finished[q]
      BY <1>7, <2>2
    <3>2. NothingLeft(fragment_idxs, q) => NothingLeft(fragment_idxs', q)
      BY <1>5 DEF NothingLeft
    <3> QED BY <3>1, <3>2 DEF WalkInv, NothingLeftWhenFinished
  <2> QED BY <2>1, <2>2
<1>14. RoutesAreWalked'
  <2> SUFFICES ASSUME NEW z \in Zones
               PROVE  \E h \in Seq(Piece), r \in Seq(Partitions \X Nat), f \in Nat :
                        WalkedUpTo(z, h, r, f)'
    BY DEF RoutesAreWalked
  <2>1. PICK h \in Seq(Piece), r \in Seq(Partitions \X Nat), f \in Nat : WalkedUpTo(z, h, r, f)
    BY <1>3 DEF WalkInv, RoutesAreWalked
  <2>2. CASE z = w.zone
    <3>1. WalkedUpTo(z, h, r, f)'
      BY <1>1, <1>2, <2>1, <2>2, LeaveKeepsWalk DEF x
    <3> QED BY <3>1
  <2>3. CASE z # w.zone
    <3>1. \A p \in Partitions : <<p, z>> # x
      BY <2>3 DEF x
    <3>2. SameWalk(z)
      BY <1>1, <1>5, <2>3, <3>1 DEF SameWalk, vars
    <3> QED BY <2>1, <3>2, WalkStays
  <2> QED BY <2>2, <2>3
<1> QED BY <1>8, <1>9, <1>10, <1>11, <1>12, <1>13, <1>14 DEF WalkInv

(* The number of cells that a call visits.                                 *)
NrVisited(w) == IF w.kind = "walk" THEN NrToVisit(w) ELSE 0

(* A call for the next fragment of a route, that may visit it.             *)
IsVisiting(w, z, h, r, f) ==
    /\ OrderInv /\ WalkInv /\ UNCHANGED vars
    /\ w \in walks /\ w.zone = z /\ Visit(w)
    /\ z \in Zones /\ h \in Seq(Piece) /\ r \in Seq(Partitions \X Nat) /\ f \in Nat
    /\ WalkedUpTo(z, h, r, f)

(* A call for a piece of the history, whose fragment is the next one.      *)
IsForPiece(w, z, h, f) ==
    /\ w.at \in Partitions /\ w.hop = f /\ f \in DOMAIN h /\ h[f].at = w.at
    /\ <<w.at, z>> \in DOMAIN fragment_idxs
    /\ fragment_idxs[<<w.at, z>>] \in DOMAIN result[<<w.at, z>>]
    /\ result[<<w.at, z>>][fragment_idxs[<<w.at, z>>]].hop = f
    /\ FragmentOf(w).cells = h[f].cells /\ FragmentOf(w).next = h[f].next

(* The call is for the piece of the history up to which the route is       *)
(* walked, and the component has its fragment next.                        *)
LEMMA VisitedFragment ==
    ASSUME NEW w, NEW z, NEW h, NEW r, NEW f, IsVisiting(w, z, h, r, f)
    PROVE  IsForPiece(w, z, h, f)
<1> DEFINE x == <<w.at, z>>
           idx == fragment_idxs[x]
<1>1. /\ TypeOK /\ WalkInv /\ w \in walks /\ w.zone = z /\ z \in Zones /\ h \in Seq(Piece)
      /\ f \in Nat /\ WalkedUpTo(z, h, r, f) /\ w.pc = "called" /\ w.at \notin write_locked
  BY DEF IsVisiting, OrderInv, RouteInv, Visit, MayEnter
<1>2. x = <<w.at, z>> /\ idx = fragment_idxs[x]
  OBVIOUS
<1> HIDE DEF x, idx
<1>3. /\ w.at \in Partitions /\ x \in DOMAIN fragment_idxs
      /\ idx \in DOMAIN result[x]
      /\ IsPiece(h, w.at, result[x][idx])
      /\ w.hop = f /\ f \in DOMAIN h
      /\ \/ result[x][idx].hop = f
         \/ \E v \in walks : v.at = w.at /\ v.pc # "called"
  BY <1>1, <1>2, CallPlace
<1>4. \A v \in walks : v.at = w.at => v.pc = "called"
  BY <1>1 DEF WalkInv, WalkLockIsHeld, WalkTypeOK, Walk
<1>5. result[x][idx].hop = f
  BY <1>3, <1>4
<1>6. FragmentOf(w) = result[x][idx]
  BY <1>1, <1>2 DEF FragmentOf
<1> QED BY <1>2, <1>3, <1>5, <1>6 DEF IsPiece, IsForPiece

(* The cells before a fragment and those before the next one.              *)
LEMMA NrBeforeNext ==
    ASSUME NEW h \in Seq(Piece), NEW r \in Seq(Partitions \X Nat), AreChained(h, r),
           NEW f \in DOMAIN h
    PROVE  /\ NrBefore(h, r, f) = h[f].from /\ h[f].from \in Nat
           /\ Len(h[f].cells) \in Nat
           /\ NrBefore(h, r, f + 1) = h[f].from + Len(h[f].cells)
           /\ h[f].from + Len(h[f].cells) <= Len(r)
           /\ \A k \in 1 .. Len(h[f].cells) : r[h[f].from + k] = <<h[f].at, h[f].cells[k]>>
<1>1. /\ Len(h) \in Nat /\ DOMAIN h = 1 .. Len(h)
      /\ h[f].from \in Nat /\ Len(h[f].cells) \in Nat
      /\ DOMAIN h[f].cells = 1 .. Len(h[f].cells)
  BY PieceFacts
<1>2. /\ h[f].from + Len(h[f].cells) = IF f = Len(h) THEN Len(r) ELSE h[f + 1].from
      /\ h[f].from + Len(h[f].cells) <= Len(r)
      /\ \A k \in DOMAIN h[f].cells : r[h[f].from + k] = <<h[f].at, h[f].cells[k]>>
  BY DEF AreChained
<1>3. f + 1 \in DOMAIN h <=> f # Len(h)
  BY <1>1
<1>4. NrBefore(h, r, f + 1) = IF f = Len(h) THEN Len(r) ELSE h[f + 1].from
  BY <1>3 DEF NrBefore
<1>5. NrBefore(h, r, f) = h[f].from
  BY DEF NrBefore
<1> QED BY <1>1, <1>2, <1>4, <1>5

(* The number of cells that are visited adds up with those marked before.  *)
IsCounted(w, h, r, f) ==
    /\ NrVisited(w) \in 0 .. Len(h[f].cells)
    /\ NrMarked(h, r, f) \in Nat
    /\ NrMarked(h, r, f + 1) = NrMarked(h, r, f) + NrVisited(w)
    /\ w.nr = NrMarked(h, r, f)
    /\ NrVisited(w) # 0 => NrMarked(h, r, f) = h[f].from
    /\ w.kind = "walk" /\ NrMarked(h, r, f + 1) < max_nr_cells =>
        NrMarked(h, r, f + 1) = NrBefore(h, r, f + 1)
    /\ w.kind # "walk" \/ ~(NrMarked(h, r, f + 1) < max_nr_cells) =>
        NrMarked(h, r, f + 1) = max_nr_cells

(* A call visits the cells of its fragment that may still be marked.       *)
LEMMA VisitedNumbers ==
    ASSUME NEW w, NEW z, NEW h, NEW r, NEW f, IsVisiting(w, z, h, r, f)
    PROVE  IsCounted(w, h, r, f)
<1>1. /\ h \in Seq(Piece) /\ r \in Seq(Partitions \X Nat) /\ AreChained(h, r)
      /\ MarkedUpTo(z, h, r, f) /\ max_nr_cells \in Nat /\ w \in walks /\ w.zone = z
      /\ w.kind \in {"walk", "skip"}
  BY DEF IsVisiting, WalkedUpTo, IsRoute, WalkInv, WalkTypeOK, Walk
<1>2. w.hop = f /\ f \in DOMAIN h /\ FragmentOf(w).cells = h[f].cells
  <2>1. IsForPiece(w, z, h, f)
    BY VisitedFragment
  <2> QED BY <2>1 DEF IsForPiece
<1> DEFINE b == h[f].from
           l == Len(h[f].cells)
           m == max_nr_cells
           n == NrMarked(h, r, f)
           e == NrMarked(h, r, f + 1)
           v == NrVisited(w)
<1>3. /\ NrBefore(h, r, f) = b /\ b \in Nat /\ l \in Nat
      /\ NrBefore(h, r, f + 1) = b + l
  BY <1>1, <1>2, NrBeforeNext
<1>4. /\ w.nr = n
      /\ w.kind = "walk" => n = b
      /\ w.kind = "skip" => n = m
  BY <1>1, <1>2, <1>3 DEF MarkedUpTo
<1>5. n = (IF b < m THEN b ELSE m) /\ e = IF b + l < m THEN b + l ELSE m
  BY <1>3 DEF NrMarked
<1>6. v = IF w.kind = "walk" THEN (IF w.nr + l <= m THEN l ELSE m - w.nr) ELSE 0
  BY <1>2 DEF NrVisited, NrToVisit
<1>7. m \in Nat
  BY <1>1
<1> HIDE DEF b, l, m, n, e, v, IsCounted
<1>8. CASE w.kind = "walk"
  <2>1. n = b /\ b <= m
    BY <1>3, <1>4, <1>5, <1>7, <1>8
  <2>2. v = IF b + l <= m THEN l ELSE m - b
    BY <1>4, <1>6, <1>8, <2>1
  <2>3. v \in 0 .. l /\ e = n + v /\ (e < m => e = b + l) /\ (~(e < m) => e = m)
    BY <1>3, <1>5, <1>7, <2>1, <2>2
  <2>4. n \in Nat
    BY <1>3, <2>1
  <2> QED BY <1>3, <1>4, <1>8, <2>1, <2>3, <2>4 DEF b, l, m, n, e, v, IsCounted
<1>9. CASE w.kind = "skip"
  <2>1. n = m /\ m <= b /\ v = 0
    BY <1>3, <1>4, <1>5, <1>6, <1>7, <1>9
  <2>2. e = m /\ e = n + v /\ v \in 0 .. l /\ n \in Nat
    BY <1>3, <1>5, <1>7, <2>1
  <2> QED BY <1>4, <1>9, <2>1, <2>2 DEF b, l, m, n, e, v, IsCounted
<1> QED BY <1>1, <1>8, <1>9

(* What a call that has visited its fragment leaves behind.                *)
HasVisited(w, v) ==
    /\ w.pc = "called" /\ w.at \notin write_locked
    /\ v \in Walk /\ v.zone = w.zone /\ v.at = w.at /\ v.hop = w.hop /\ v.pc = "visited"
    /\ walks' = (walks \ {w}) \cup {v} \cup CallsAfter(w, w.nr + NrVisited(w))
    /\ write_locked' = write_locked \cup {w.at}
    /\ output' = [output EXCEPT ![<<w.at, w.zone>>] =
                    @ \cup Range(SubSeq(FragmentOf(w).cells, 1, NrVisited(w)))]
    /\ UNCHANGED <<max_nr_cells, created, downstream_components, configured, fragment_idxs,
                   walking, requested, output_finished>>

(* The parts of a visit.                                                   *)
LEMMA VisitFacts ==
    ASSUME NEW w \in Walk, Visit(w)
    PROVE  \E v : HasVisited(w, v)
<1> DEFINE v == [w EXCEPT !.pc = "visited"]
<1>1. v \in Walk /\ v.zone = w.zone /\ v.at = w.at /\ v.hop = w.hop /\ v.pc = "visited"
  BY DEF Walk
<1>2. /\ w.pc = "called" /\ w.at \notin write_locked
      /\ walks' = (walks \ {w}) \cup {v} \cup CallsAfter(w, w.nr + NrVisited(w))
  BY Zenon DEF Visit, MayEnter, NrVisited
<1>3. /\ write_locked' = write_locked \cup {w.at}
      /\ output' = [output EXCEPT ![<<w.at, w.zone>>] =
                    @ \cup Range(SubSeq(FragmentOf(w).cells, 1, NrVisited(w)))]
      /\ UNCHANGED <<max_nr_cells, created, downstream_components, configured, fragment_idxs,
                     walking, requested, output_finished>>
  BY Zenon DEF Visit, NrVisited
<1> HIDE DEF v
<1>4. HasVisited(w, v)
  BY <1>1, <1>2, <1>3, Zenon DEF HasVisited
<1> QED BY <1>4

(* The calls for a fragment: one, unless it is past the last one.          *)
AreNextCalls(calls, z, h, r, f) ==
    /\ \A c \in calls :
        /\ c \in Walk /\ c.zone = z /\ c.pc = "called"
        /\ c.hop = f /\ f \in DOMAIN h /\ c.at = h[f].at
        /\ c.nr = NrMarked(h, r, f)
        /\ c.kind = "walk" => c.nr = NrBefore(h, r, f)
        /\ c.kind = "skip" => c.nr = max_nr_cells
    /\ \A c, d \in calls : c = d
    /\ f \in DOMAIN h => calls # {}

(* A visit makes the call for the next fragment.                           *)
LEMMA NextCallsFacts ==
    ASSUME NEW w, NEW z, NEW h, NEW r, NEW f, IsVisiting(w, z, h, r, f)
    PROVE  AreNextCalls(CallsAfter(w, w.nr + NrVisited(w)), z, h, r, f + 1)
<1> DEFINE nr == w.nr + NrVisited(w)
           next == FragmentOf(w).next
           calls == CallsAfter(w, nr)
           walk == WalkCall(z, next, nr, f + 1)
           skip == SkipCall(z, next, nr, f + 1)
<1>1. /\ w.zone = z /\ z \in Zones /\ h \in Seq(Piece) /\ f \in Nat
      /\ IsRecorded(z, h) /\ max_nr_cells \in Nat
  BY DEF IsVisiting, WalkedUpTo, IsRoute, WalkInv, WalkTypeOK
<1>2. w.hop = f /\ f \in DOMAIN h /\ next = h[f].next
  <2>1. IsForPiece(w, z, h, f)
    BY VisitedFragment
  <2> QED BY <2>1 DEF IsForPiece
<1>3. /\ Len(h) \in Nat /\ DOMAIN h = 1 .. Len(h)
      /\ \A i \in DOMAIN h : h[i].at \in Partitions
  BY <1>1, PieceFacts
<1>4. /\ f + 1 \in DOMAIN h => next = h[f + 1].at /\ next \in Partitions /\ next # NoPartition
      /\ f + 1 \notin DOMAIN h => next = NoPartition
  <2>1. CASE f = Len(h)
    <3>1. h # <<>>
      BY <1>2
    <3>2. next = NoPartition
      BY <1>1, <1>2, <2>1, <3>1 DEF IsRecorded
    <3>3. f + 1 \notin DOMAIN h
      BY <1>3, <2>1
    <3> QED BY <3>2, <3>3
  <2>2. CASE f # Len(h)
    <3>1. f \in 1 .. Len(h) - 1 /\ f + 1 \in DOMAIN h
      BY <1>2, <1>3, <2>2
    <3>2. next = h[f + 1].at
      BY <1>1, <1>2, <3>1 DEF IsRecorded
    <3> QED BY <1>3, <3>1, <3>2, InputsAssumption
  <2> QED BY <2>1, <2>2
<1>5. /\ nr = NrMarked(h, r, f + 1) /\ nr \in Nat
      /\ w.kind = "walk" /\ nr < max_nr_cells => nr = NrBefore(h, r, f + 1)
      /\ w.kind # "walk" \/ ~(nr < max_nr_cells) => nr = max_nr_cells
  <2>1. IsCounted(w, h, r, f)
    BY VisitedNumbers
  <2> QED BY <1>1, <2>1 DEF IsCounted
<1>6. calls = IF next = NoPartition THEN {}
              ELSE IF w.kind = "walk" /\ nr < max_nr_cells THEN {walk} ELSE {skip}
  <2>1. w.hop + 1 = f + 1
    BY <1>2
  <2> HIDE DEF nr
  <2> QED BY <1>1, <1>2, <2>1, Zenon DEF CallsAfter
<1> HIDE DEF nr, next, calls
<1>7. CASE f + 1 \in DOMAIN h
  <2>1. f + 1 \in Nat /\ next \in Partitions /\ next = h[f + 1].at /\ next # NoPartition
    BY <1>1, <1>4, <1>7
  <2>2. /\ walk.zone = z /\ walk.at = next /\ walk.kind = "walk" /\ walk.nr = nr
        /\ walk.hop = f + 1 /\ walk.pc = "called"
        /\ skip.zone = z /\ skip.at = next /\ skip.kind = "skip" /\ skip.nr = nr
        /\ skip.hop = f + 1 /\ skip.pc = "called"
    BY DEF WalkCall, SkipCall
  <2>3. walk \in Walk /\ skip \in Walk
    BY <1>1, <1>5, <2>1 DEF WalkCall, SkipCall, Walk
  <2> HIDE DEF walk, skip
  <2>4. CASE w.kind = "walk" /\ nr < max_nr_cells
    <3>1. calls = {walk}
      BY <1>6, <2>1, <2>4
    <3> QED BY <1>5, <1>7, <2>1, <2>2, <2>3, <2>4, <3>1 DEF AreNextCalls, calls, nr
  <2>5. CASE ~(w.kind = "walk" /\ nr < max_nr_cells)
    <3>1. calls = {skip}
      BY <1>6, <2>1, <2>5
    <3> QED BY <1>5, <1>7, <2>1, <2>2, <2>3, <2>5, <3>1 DEF AreNextCalls, calls, nr
  <2> QED BY <2>4, <2>5
<1>8. CASE f + 1 \notin DOMAIN h
  <2>1. calls = {}
    BY <1>4, <1>6, <1>8
  <2> QED BY <1>8, <2>1 DEF AreNextCalls, calls, nr
<1> QED BY <1>7, <1>8

(* After a visit the route is walked up to the next fragment: the calls.   *)
LEMMA VisitKeepsCalls ==
    ASSUME NEW w, NEW z, NEW h, NEW r, NEW f, IsVisiting(w, z, h, r, f), NEW v, HasVisited(w, v)
    PROVE  CallsUpTo(z, h, f + 1)'
<1> DEFINE C == CallsAfter(w, w.nr + NrVisited(w))
<1>1. AreNextCalls(C, z, h, r, f + 1)
  BY NextCallsFacts
<1>2. w.hop = f /\ f \in DOMAIN h /\ h[f].at = w.at
  <2>1. IsForPiece(w, z, h, f)
    BY VisitedFragment
  <2> QED BY <2>1 DEF IsForPiece
<1>3. /\ v.zone = z /\ v.at = w.at /\ v.hop = f /\ v.pc = "visited"
      /\ walks' = (walks \ {w}) \cup {v} \cup C
  BY <1>2 DEF HasVisited, IsVisiting
<1>4. CallsUpTo(z, h, f) /\ w \in walks /\ w.zone = z /\ f \in Nat /\ walks \subseteq Walk
  BY DEF IsVisiting, WalkedUpTo, WalkInv, WalkTypeOK
<1> HIDE DEF C
<1>5. \A u \in walks \ {w} : u.zone = z =>
        /\ u.hop \in DOMAIN h /\ u.at = h[u.hop].at /\ u.hop <= f /\ u.hop # f
        /\ u.pc # "called" /\ u.hop \in Nat
  BY <1>2, <1>4 DEF CallsUpTo, Walk
<1>6. \A u \in C : u.zone = z /\ u.hop = f + 1 /\ u.pc = "called" /\ f + 1 \in DOMAIN h
                   /\ u.at = h[f + 1].at
  BY <1>1 DEF AreNextCalls
<1>7. f + 1 # f /\ f <= f + 1 /\ f + 1 <= f + 1 /\ \A n \in Nat : n <= f => n <= f + 1 /\ n # f + 1
  BY <1>4
<1>8. ASSUME NEW u \in walks', u.zone = z
      PROVE  /\ u.hop \in DOMAIN h /\ u.at = h[u.hop].at /\ u.hop <= f + 1
             /\ u.pc = "called" <=> u.hop = f + 1
  <2>1. CASE u \in walks \ {w}
    BY <1>5, <1>7, <1>8, <2>1
  <2>2. CASE u = v
    BY <1>2, <1>3, <1>7, <2>2
  <2>3. CASE u \in C
    BY <1>6, <1>7, <2>3
  <2> QED BY <1>3, <2>1, <2>2, <2>3
<1>9. ASSUME NEW u \in walks', NEW s \in walks', u.zone = z, s.zone = z, u.hop = s.hop
      PROVE  u = s
  <2>1. CASE u.hop = f
    <3>1. u \notin C /\ s \notin C /\ u \notin walks \ {w} /\ s \notin walks \ {w}
      BY <1>5, <1>6, <1>7, <1>9, <2>1
    <3> QED BY <1>3, <3>1
  <2>2. CASE u.hop = f + 1
    <3>1. u \in C /\ s \in C
      BY <1>3, <1>5, <1>7, <1>9, <2>2
    <3> QED BY <1>1, <3>1 DEF AreNextCalls
  <2>3. CASE u.hop # f /\ u.hop # f + 1
    <3>1. u \in walks /\ s \in walks
      BY <1>3, <1>6, <1>9, <2>3
    <3> QED BY <1>4, <1>9, <3>1 DEF CallsUpTo
  <2> QED BY <2>1, <2>2, <2>3
<1>10. f + 1 \in DOMAIN h => \E u \in walks' : u.zone = z /\ u.hop = f + 1
  BY <1>1, <1>3, <1>6 DEF AreNextCalls
<1> QED BY <1>8, <1>9, <1>10 DEF CallsUpTo

(* The next fragments after a visit.                                       *)
LEMMA VisitKeepsIdxs ==
    ASSUME NEW w, NEW z, NEW h, NEW r, NEW f, IsVisiting(w, z, h, r, f), NEW v, HasVisited(w, v)
    PROVE  IdxsUpTo(z, f + 1)'
<1> DEFINE C == CallsAfter(w, w.nr + NrVisited(w))
           S == CalledHops(z)
           T == CalledHops(z)'
           x == <<w.at, z>>
<1>1. AreNextCalls(C, z, h, r, f + 1)
  BY NextCallsFacts
<1>2. /\ w.hop = f /\ f \in DOMAIN h /\ h[f].at = w.at /\ x \in DOMAIN fragment_idxs
      /\ fragment_idxs[x] \in DOMAIN result[x] /\ result[x][fragment_idxs[x]].hop = f
  <2>1. IsForPiece(w, z, h, f)
    BY VisitedFragment
  <2> QED BY <2>1 DEF IsForPiece
<1>3. /\ v.zone = z /\ v.hop = f
      /\ walks' = (walks \ {w}) \cup {v} \cup C
      /\ fragment_idxs' = fragment_idxs
  BY <1>2 DEF HasVisited, IsVisiting
<1>4. /\ IdxsUpTo(z, f) /\ w \in walks /\ w.zone = z /\ f \in Nat /\ TypeOK
      /\ z \in Zones /\ h \in Seq(Piece) /\ IsRecorded(z, h) /\ result' = result
  BY DEF IsVisiting, WalkedUpTo, IsRoute, OrderInv, RouteInv, vars
<1> HIDE DEF C
<1>5. S \subseteq T /\ T \subseteq S \cup {f + 1} /\ f \in S
  <2>1. \A u \in C : u.zone = z /\ u.hop = f + 1
    BY <1>1 DEF AreNextCalls
  <2>2. ASSUME NEW u \in walks, u.zone = z PROVE \E s \in walks' : s.zone = z /\ s.hop = u.hop
    BY <1>2, <1>3, <2>2
  <2>3. ASSUME NEW s \in walks', s.zone = z
        PROVE  s.hop = f + 1 \/ \E u \in walks : u.zone = z /\ u.hop = s.hop
    BY <1>2, <1>3, <1>4, <2>1, <2>3
  <2> QED BY <1>2, <1>4, <2>2, <2>3 DEF CalledHops
<1> SUFFICES ASSUME NEW p \in Partitions
             PROVE  IsNext(result[<<p, z>>], fragment_idxs, <<p, z>>, f + 1, T)
  BY <1>3, <1>4 DEF IdxsUpTo
<1> DEFINE y == <<p, z>>
           s == result[y]
           idx == fragment_idxs[y]
           g == f + 1
<1>6. IsNext(s, fragment_idxs, y, f, S)
  BY <1>4 DEF IdxsUpTo
<1>7. /\ \A k \in DOMAIN s : k \in Nat /\ s[k].hop \in Nat /\ IsPiece(h, p, s[k])
      /\ \A k, l \in DOMAIN s : l < k <=> s[l].hop < s[k].hop
  BY <1>4, RecordedFacts
<1>8. ASSUME NEW k \in DOMAIN s, y \in DOMAIN fragment_idxs, k > idx PROVE s[k].hop # f
  <2>1. idx \in DOMAIN s
    BY <1>6, <1>8 DEF IsNext
  <2>2. CASE p = w.at
    <3>1. s[idx].hop = f
      BY <1>2, <2>2
    <3>2. idx < k /\ s[k].hop \in Nat
      BY <1>7, <1>8, <2>1
    <3>3. s[idx].hop < s[k].hop
      BY <1>7, <2>1, <3>2
    <3> HIDE DEF s, idx, y
    <3> QED BY <1>4, <3>1, <3>2, <3>3
  <2>3. CASE p # w.at
    <3>1. s[k].hop = f => h[f].at = p
      BY <1>7 DEF IsPiece
    <3> QED BY <1>2, <2>3, <3>1
  <2> QED BY <2>2, <2>3
<1>9. \A n \in Nat :
        /\ n < f => n < g /\ n # g
        /\ n >= f /\ n # f => n >= g
        /\ n < g => n < f \/ n = f
  BY <1>4
<1> HIDE DEF s, idx, y, S, T, g
<1>10. CASE y \in DOMAIN fragment_idxs
  <2>1. /\ idx \in DOMAIN s
        /\ \A k \in DOMAIN s : k < idx => s[k].hop < f /\ s[k].hop \notin S
        /\ \A k \in DOMAIN s : k > idx => s[k].hop >= f
        /\ s[idx].hop < f => s[idx].hop \in S
    BY <1>6, <1>10 DEF IsNext, idx
  <2>2. \A k \in DOMAIN s : k < idx => s[k].hop < g /\ s[k].hop \notin T
    BY <1>5, <1>7, <1>9, <2>1 DEF g
  <2>3. \A k \in DOMAIN s : k > idx => s[k].hop >= g
    BY <1>7, <1>8, <1>9, <1>10, <2>1
  <2>4. s[idx].hop < g => s[idx].hop \in T
    BY <1>5, <1>7, <1>9, <2>1
  <2>5. IsNext(s, fragment_idxs, y, g, T)
    BY <1>10, <2>1, <2>2, <2>3, <2>4, Zenon DEF IsNext, idx
  <2> QED BY <2>5 DEF s, y, g
<1>11. CASE y \notin DOMAIN fragment_idxs
  <2>1. \A k \in DOMAIN s : s[k].hop < f /\ s[k].hop \notin S
    BY <1>6, <1>11 DEF IsNext
  <2>2. \A k \in DOMAIN s : s[k].hop < g /\ s[k].hop \notin T
    BY <1>5, <1>7, <1>9, <2>1 DEF g
  <2>3. IsNext(s, fragment_idxs, y, g, T)
    BY <1>11, <2>2, Zenon DEF IsNext
  <2> QED BY <2>3 DEF s, y, g
<1> QED BY <1>10, <1>11 DEF T

(* The cells that are marked after a visit.                                *)
LEMMA VisitKeepsMarks ==
    ASSUME NEW w, NEW z, NEW h, NEW r, NEW f, IsVisiting(w, z, h, r, f), NEW v, HasVisited(w, v)
    PROVE  MarkedUpTo(z, h, r, f + 1)'
<1> DEFINE C == CallsAfter(w, w.nr + NrVisited(w))
           x == <<w.at, z>>
           cells == h[f].cells
           b == h[f].from
           n == NrMarked(h, r, f)
           e == NrMarked(h, r, f + 1)
           nv == NrVisited(w)
           marks == Range(SubSeq(cells, 1, nv))
<1>1. AreNextCalls(C, z, h, r, f + 1)
  BY NextCallsFacts
<1>2. /\ w.hop = f /\ f \in DOMAIN h /\ h[f].at = w.at /\ w.at \in Partitions
      /\ FragmentOf(w).cells = cells
  <2>1. IsForPiece(w, z, h, f)
    BY VisitedFragment
  <2> QED BY <2>1 DEF IsForPiece
<1>3. nv \in 0 .. Len(cells) /\ n \in Nat /\ e = n + nv /\ (nv # 0 => n = b)
  <2>1. IsCounted(w, h, r, f)
    BY VisitedNumbers
  <2> QED BY <2>1 DEF IsCounted
<1>4. /\ v.zone = z /\ v.hop = f
      /\ walks' = (walks \ {w}) \cup {v} \cup C
      /\ output' = [output EXCEPT ![x] = @ \cup marks]
      /\ max_nr_cells' = max_nr_cells
  BY <1>2 DEF HasVisited, IsVisiting
<1>5. /\ MarkedUpTo(z, h, r, f) /\ CallsUpTo(z, h, f) /\ z \in Zones /\ f \in Nat
      /\ h \in Seq(Piece) /\ r \in Seq(Partitions \X Nat) /\ AreChained(h, r)
      /\ output \in [Places -> SUBSET Nat] /\ walks \subseteq Walk
  BY DEF IsVisiting, WalkedUpTo, IsRoute, WalkInv, WalkTypeOK
<1>6. /\ b \in Nat /\ Len(cells) \in Nat
      /\ \A k \in 1 .. Len(cells) : r[b + k] = <<w.at, cells[k]>>
  BY <1>2, <1>5, NrBeforeNext
<1>7. cells \in Seq(Nat)
  BY <1>2, <1>5, PieceFacts
<1>8. \A c : c \in marks <=> \E k \in 1 .. nv : cells[k] = c
  <2>1. /\ DOMAIN SubSeq(cells, 1, nv) = 1 .. nv
        /\ \A i \in 1 .. nv : SubSeq(cells, 1, nv)[i] = cells[i]
    BY <1>3, <1>7, PrefixFacts
  <2> QED BY <2>1 DEF Range
<1>9. /\ NrMarked(h, r, f + 1)' = e
      /\ NrBefore(h, r, f + 1)' = NrBefore(h, r, f + 1)
  BY <1>4 DEF NrMarked, NrBefore
<1> HIDE DEF C, x, cells, b, n, e, nv, marks
<1>10. \A i \in 1 .. e : i \in 1 .. n \/ \E k \in 1 .. nv : i = b + k
  <2> SUFFICES ASSUME NEW i \in 1 .. e, i \notin 1 .. n PROVE \E k \in 1 .. nv : i = b + k
    OBVIOUS
  <2>1. nv # 0
    BY <1>3
  <2>2. i - b \in 1 .. nv /\ i = b + (i - b)
    BY <1>3, <1>6, <2>1
  <2> QED BY <2>2
<1>11. 1 .. n \subseteq 1 .. e /\ \A k \in 1 .. nv : b + k \in 1 .. e /\ k \in 1 .. Len(cells)
  BY <1>3, <1>6
<1>12. ASSUME NEW p \in Partitions, NEW c
       PROVE  c \in output'[<<p, z>>] <=> \E i \in 1 .. e : r[i] = <<p, c>>
  <2>1. c \in output[<<p, z>>] <=> \E i \in 1 .. n : r[i] = <<p, c>>
    BY <1>5 DEF MarkedUpTo, n
  <2>2. <<p, z>> \in Places
    BY <1>5 DEF Places
  <2>3. CASE p = w.at
    <3>1. output'[<<p, z>>] = output[<<p, z>>] \cup marks
      BY <1>4, <1>5, <2>2, <2>3 DEF x
    <3>2. c \in marks => \E i \in 1 .. e : r[i] = <<p, c>>
      BY <1>6, <1>8, <1>11, <2>3
    <3>3. ASSUME NEW i \in 1 .. e, r[i] = <<p, c>>, i \notin 1 .. n PROVE c \in marks
      <4>1. PICK k \in 1 .. nv : i = b + k
        BY <1>10, <3>3
      <4>2. <<p, c>> = <<w.at, cells[k]>>
        BY <1>6, <1>11, <3>3, <4>1
      <4> QED BY <1>8, <4>2
    <3> QED BY <1>11, <2>1, <3>1, <3>2, <3>3
  <2>4. CASE p # w.at
    <3>1. output'[<<p, z>>] = output[<<p, z>>]
      BY <1>4, <1>5, <2>2, <2>4 DEF x
    <3>2. ASSUME NEW i \in 1 .. e, r[i] = <<p, c>> PROVE i \in 1 .. n
      <4> SUFFICES ASSUME i \notin 1 .. n PROVE FALSE
        OBVIOUS
      <4>1. PICK k \in 1 .. nv : i = b + k
        BY <1>10
      <4>2. <<p, c>> = <<w.at, cells[k]>>
        BY <1>6, <1>11, <3>2, <4>1
      <4> QED BY <2>4, <4>2
    <3> QED BY <1>11, <2>1, <3>1, <3>2
  <2> QED BY <2>3, <2>4
<1>13. ASSUME NEW u \in walks', u.zone = z, u.hop = f + 1
       PROVE  /\ u.nr = e
              /\ u.kind = "walk" => u.nr = NrBefore(h, r, f + 1)
              /\ u.kind = "skip" => u.nr = max_nr_cells
  <2>1. f + 1 # f
    BY <1>5
  <2>2. u \notin walks
    <3> SUFFICES ASSUME u \in walks PROVE FALSE
      OBVIOUS
    <3>1. u.hop <= f /\ u.hop \in Nat
      BY <1>5, <1>13 DEF CallsUpTo, Walk
    <3> QED BY <1>5, <1>13, <3>1
  <2>3. u \in C
    BY <1>4, <1>13, <2>1, <2>2
  <2> QED BY <1>1, <2>3 DEF AreNextCalls, C, e
<1> QED BY <1>4, <1>9, <1>12, <1>13 DEF MarkedUpTo

(* Visiting a fragment.                                                    *)
LEMMA WalkInvVisit ==
    ASSUME OrderInv, WalkInv, UNCHANGED vars, NEW w \in walks, Visit(w)
    PROVE  WalkInv'
<1> DEFINE x == <<w.at, w.zone>>
           C == CallsAfter(w, w.nr + NrVisited(w))
<1>1. TypeOK /\ WalkTypeOK /\ w \in Walk
  BY DEF OrderInv, RouteInv, WalkInv, WalkTypeOK
<1>2. walking /\ w.zone \in Zones /\ w.at \in Partitions
  BY <1>1 DEF WalkInv, WalksAfterRoutes, Walk
<1>3. PICK v : HasVisited(w, v)
  BY <1>1, VisitFacts
<1>4. /\ w.pc = "called" /\ w.at \notin write_locked
      /\ v \in Walk /\ v.zone = w.zone /\ v.at = w.at /\ v.hop = w.hop /\ v.pc = "visited"
      /\ walks' = (walks \ {w}) \cup {v} \cup C
      /\ write_locked' = write_locked \cup {w.at}
      /\ output' = [output EXCEPT ![x] =
                    @ \cup Range(SubSeq(FragmentOf(w).cells, 1, NrVisited(w)))]
      /\ UNCHANGED <<max_nr_cells, created, downstream_components, configured, fragment_idxs,
                     walking, requested, output_finished>>
  BY <1>3 DEF HasVisited
<1>5. PICK h \in Seq(Piece), r \in Seq(Partitions \X Nat), f \in Nat :
            WalkedUpTo(w.zone, h, r, f)
  BY <1>2 DEF WalkInv, RoutesAreWalked
<1>6. IsVisiting(w, w.zone, h, r, f)
  BY <1>2, <1>5 DEF IsVisiting
<1>7. AreNextCalls(C, w.zone, h, r, f + 1)
  BY <1>6, NextCallsFacts
<1>8. \A c \in C : c \in Walk /\ c.zone = w.zone /\ c.pc = "called"
  BY <1>7 DEF AreNextCalls
<1>9. WalkTypeOK'
  <2>1. walks' \subseteq Walk
    BY <1>1, <1>4, <1>8 DEF WalkTypeOK
  <2>2. Range(SubSeq(FragmentOf(w).cells, 1, NrVisited(w))) \subseteq Nat
    <3>1. IsForPiece(w, w.zone, h, f)
      BY <1>6, VisitedFragment
    <3>2. IsCounted(w, h, r, f)
      BY <1>6, VisitedNumbers
    <3>3. FragmentOf(w).cells = h[f].cells /\ f \in DOMAIN h
      BY <3>1 DEF IsForPiece
    <3>4. h[f].cells \in Seq(Nat) /\ NrVisited(w) \in 0 .. Len(h[f].cells)
      BY <3>2, <3>3, PieceFacts DEF IsCounted
    <3>5. SubSeq(h[f].cells, 1, NrVisited(w)) \in Seq(Nat)
      BY <3>4, PrefixFacts
    <3> QED BY <3>3, <3>5, LenProperties, ElementOfSeq DEF Range
  <2>3. output' \in [Places -> SUBSET Nat]
    BY <1>1, <1>4, <2>2 DEF WalkTypeOK
  <2> QED BY <1>1, <1>4, <2>1, <2>3 DEF WalkTypeOK
<1>10. WalksAfterRoutes'
  BY <1>2, <1>4 DEF WalkInv, WalksAfterRoutes, vars
<1>11. FirstIsNext'
  BY <1>2, <1>4 DEF FirstIsNext
<1>12. WalkLockIsHeld'
  <2>1. \A u \in walks : u.pc = "visited" => u.at \in write_locked /\ u.at # w.at
    BY <1>4 DEF WalkInv, WalkLockIsHeld
  <2>2. \A u \in walks' : u.pc = "visited" => u = v \/ u \in walks
    BY <1>4, <1>8
  <2> QED BY <1>4, <2>1, <2>2 DEF WalkInv, WalkLockIsHeld
<1>13. DownstreamIsKnown'
  <2>1. \A q : Downstream(q)' = Downstream(q)
    BY DownstreamStays DEF vars
  <2> QED BY <1>4, <2>1 DEF WalkInv, DownstreamIsKnown
<1>14. NothingLeftWhenFinished'
  BY <1>4 DEF WalkInv, NothingLeftWhenFinished, NothingLeft
<1>15. RoutesAreWalked'
  <2> SUFFICES ASSUME NEW z \in Zones
               PROVE  \E hh \in Seq(Piece), rr \in Seq(Partitions \X Nat), ff \in Nat :
                        WalkedUpTo(z, hh, rr, ff)'
    BY DEF RoutesAreWalked
  <2>1. CASE z = w.zone
    <3>1. IsRoute(z, h, r)'
      BY <1>5, <2>1, RouteStays DEF WalkedUpTo, SameRoute, vars
    <3>2. /\ CallsUpTo(w.zone, h, f + 1)' /\ IdxsUpTo(w.zone, f + 1)'
          /\ MarkedUpTo(w.zone, h, r, f + 1)'
      BY <1>3, <1>6, VisitKeepsCalls, VisitKeepsIdxs, VisitKeepsMarks
    <3>3. f + 1 \in 1 .. Len(h) + 1 /\ f + 1 \in Nat
      <4>1. IsForPiece(w, w.zone, h, f)
        BY <1>6, VisitedFragment
      <4>2. f \in 1 .. Len(h) /\ Len(h) \in Nat
        BY <4>1, PieceFacts DEF IsForPiece
      <4> QED BY <4>2
    <3>4. WalkedUpTo(z, h, r, f + 1)'
      BY <2>1, <3>1, <3>2, <3>3 DEF WalkedUpTo
    <3> QED BY <3>3, <3>4
  <2>2. CASE z # w.zone
    <3>1. PICK hh \in Seq(Piece), rr \in Seq(Partitions \X Nat), ff \in Nat :
                WalkedUpTo(z, hh, rr, ff)
      BY <1>2 DEF WalkInv, RoutesAreWalked
    <3>2. SameWalk(z)
      <4>1. \A p \in Partitions : output'[<<p, z>>] = output[<<p, z>>]
        BY <1>1, <1>4, <2>2 DEF WalkTypeOK, Places
      <4>2. \A u : u.zone = z => (u \in walks' <=> u \in walks)
        BY <1>4, <1>8, <2>2
      <4> QED BY <1>4, <4>1, <4>2 DEF SameWalk, vars
    <3> QED BY <3>1, <3>2, WalkStays
  <2> QED BY <2>1, <2>2
<1> QED BY <1>9, <1>10, <1>11, <1>12, <1>13, <1>14, <1>15 DEF WalkInv

(* The walks leave the routes alone.                                       *)
LEMMA OrderInvInit == FirstNInit => OrderInv
BY RouteInvInit, FinishInvInit, HistoryInvInit DEF FirstNInit, OrderInv

(* Every step of the routes preserves what the walks rest on.              *)
LEMMA OrderInvNext ==
    ASSUME Zonal, NoLowerValue, OrderInv, [Next]_vars
    PROVE  OrderInv'
BY RouteInvNext, FinishInvNext, HistoryInvNext DEF OrderInv

(* Every step preserves the invariant of the walks.                        *)
LEMMA WalkInvNext ==
    ASSUME Zonal, NoLowerValue, OrderInv, WalkInv, [FirstNNext]_<<vars, walk_vars>>
    PROVE  OrderInv' /\ WalkInv'
<1>1. CASE OrderStep \/ FirstNTerminated \/ UNCHANGED <<vars, walk_vars>>
  <2>1. [Next]_vars /\ UNCHANGED walk_vars
    <3>1. CASE OrderStep
      BY <3>1 DEF OrderStep, Next
    <3>2. CASE FirstNTerminated \/ UNCHANGED <<vars, walk_vars>>
      BY <3>2 DEF FirstNTerminated
    <3> QED BY <1>1, <3>1, <3>2
  <2>2. OrderInv'
    BY <2>1, OrderInvNext
  <2>3. WalkInv'
    BY <2>1, WalkInvOrder
  <2> QED BY <2>2, <2>3
<1>2. CASE WalkStep
  <2>1. UNCHANGED vars
    BY <1>2 DEF WalkStep
  <2>2. OrderInv'
    BY <2>1, OrderInvNext
  <2>3. ASSUME StartWalks PROVE WalkInv'
    BY <2>1, <2>3, WalkInvStart
  <2>4. ASSUME NEW p \in Partitions, CreateWalk(p) PROVE WalkInv'
    BY <2>1, <2>4, WalkInvCreate
  <2>5. ASSUME NEW p \in Partitions, AskOutputPartition(p) PROVE WalkInv'
    BY <2>1, <2>5, WalkInvAsk
  <2>6. ASSUME NEW p \in Partitions, SetDownstreamComponents(p) PROVE WalkInv'
    BY <2>1, <2>6, WalkInvSetDownstream
  <2>7. ASSUME NEW w \in walks, Visit(w) PROVE WalkInv'
    BY <2>1, <2>7, WalkInvVisit
  <2>8. ASSUME NEW w \in walks, Leave(w) PROVE WalkInv'
    BY <2>1, <2>8, WalkInvLeave
  <2> QED BY <1>2, <2>2, <2>3, <2>4, <2>5, <2>6, <2>7, <2>8 DEF WalkStep
<1> QED BY <1>1, <1>2 DEF FirstNNext

(* When the walks are over every route is walked up to its end.            *)
LEMMA WalkInvImpliesMarked ==
    OrderInv /\ WalkInv => FirstCellsMarked
<1> SUFFICES ASSUME OrderInv, WalkInv, WalksAreOver, NEW z \in Zones
             PROVE  LET route == Route(z)
                        n == IF Len(route) < max_nr_cells THEN Len(route) ELSE max_nr_cells
                    IN  UNION {{p} \X output[<<p, z>>] : p \in Partitions}
                            = Range(SubSeq(route, 1, n))
  BY DEF FirstCellsMarked
<1>1. walking /\ walks = {} /\ max_nr_cells \in Nat
  BY DEF WalksAreOver, WalkInv, WalkTypeOK
<1>2. PICK h \in Seq(Piece), r \in Seq(Partitions \X Nat), f \in Nat : WalkedUpTo(z, h, r, f)
  BY <1>1 DEF WalkInv, RoutesAreWalked
<1>3. Route(z) = r
  BY <1>2, RouteIsHistory DEF WalkedUpTo, IsRoute, OrderInv
<1>4. f \notin DOMAIN h
  BY <1>1, <1>2 DEF WalkedUpTo, CallsUpTo
<1> DEFINE n == IF Len(r) < max_nr_cells THEN Len(r) ELSE max_nr_cells
<1>5. NrMarked(h, r, f) = n
  BY <1>4 DEF NrMarked, NrBefore
<1>6. Len(r) \in Nat /\ DOMAIN r = 1 .. Len(r) /\ n \in 0 .. Len(r)
  BY <1>1, LenProperties
<1> HIDE DEF n
<1>7. /\ DOMAIN SubSeq(r, 1, n) = 1 .. n
      /\ \A i \in 1 .. n : SubSeq(r, 1, n)[i] = r[i]
  BY <1>6, PrefixFacts
<1>8. \A u : u \in Range(SubSeq(r, 1, n)) <=> \E i \in 1 .. n : r[i] = u
  BY <1>7 DEF Range
<1>9. \A p \in Partitions : \A c :
        c \in output[<<p, z>>] <=> \E i \in 1 .. n : r[i] = <<p, c>>
  BY <1>2, <1>5 DEF WalkedUpTo, MarkedUpTo
<1>10. \A i \in 1 .. n : r[i] \in Partitions \X Nat
  BY <1>6, ElementOfSeq
<1>11. ASSUME NEW u
       PROVE  u \in UNION {{p} \X output[<<p, z>>] : p \in Partitions}
                <=> u \in Range(SubSeq(r, 1, n))
  <2>1. ASSUME NEW p \in Partitions, u \in {p} \X output[<<p, z>>]
        PROVE  u \in Range(SubSeq(r, 1, n))
    <3>1. PICK c \in output[<<p, z>>] : u = <<p, c>>
      BY <2>1
    <3> QED BY <1>8, <1>9, <3>1
  <2>2. ASSUME u \in Range(SubSeq(r, 1, n))
        PROVE  \E p \in Partitions : u \in {p} \X output[<<p, z>>]
    <3>1. PICK i \in 1 .. n : r[i] = u
      BY <1>8, <2>2
    <3>2. PICK p \in Partitions, c \in Nat : u = <<p, c>>
      BY <1>10, <3>1
    <3>3. c \in output[<<p, z>>]
      BY <1>9, <3>1, <3>2
    <3> QED BY <3>2, <3>3
  <2> QED BY <2>1, <2>2
<1>12. UNION {{p} \X output[<<p, z>>] : p \in Partitions} = Range(SubSeq(r, 1, n))
  BY <1>11
<1> QED BY <1>3, <1>12 DEF n

(* The walk components are only called for fragments they expect, in their *)
(* order, and while they know the component of the fragment that follows:  *)
(* the assertions of walk and skip_walking_route_fragments.                *)
THEOREM CallsAlwaysExpected ==
    ASSUME Zonal, NoLowerValue
    PROVE  FirstNSpec => []CallsAreExpected
<1>1. FirstNInit => OrderInv /\ WalkInv
  BY OrderInvInit, WalkInvInit
<1>2. (OrderInv /\ WalkInv) /\ [FirstNNext]_<<vars, walk_vars>> => (OrderInv /\ WalkInv)'
  BY WalkInvNext
<1>3. OrderInv /\ WalkInv => CallsAreExpected
  BY WalkInvImpliesExpected
<1> QED BY <1>1, <1>2, <1>3, PTL DEF FirstNSpec

(* An output partition of first_n that is asked for in time is finished    *)
(* once, after all calls to its component, and when the walks are over     *)
(* exactly the first cells of every route are marked, as many as asked     *)
(* for.                                                                    *)
THEOREM OutputAlwaysComplete ==
    ASSUME Zonal, NoLowerValue
    PROVE  FirstNSpec => []OutputComplete
<1>1. FirstNInit => OrderInv /\ WalkInv
  BY OrderInvInit, WalkInvInit
<1>2. (OrderInv /\ WalkInv) /\ [FirstNNext]_<<vars, walk_vars>> => (OrderInv /\ WalkInv)'
  BY WalkInvNext
<1>3. OrderInv /\ WalkInv => OutputComplete
  BY WalkInvImpliesFinal, WalkInvImpliesMarked DEF OutputComplete
<1> QED BY <1>1, <1>2, <1>3, PTL DEF FirstNSpec

=============================================================================
