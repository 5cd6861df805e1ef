--------------------------- MODULE UniqueId_proofs ---------------------------
(***************************************************************************)
(* That the ids of a partitioned array are unique, for every array, every  *)
(* order in which partitions become ready, and every order of tasks.       *)
(*                                                                         *)
(* Uniqueness rests on two arguments.  The sequences of sizes and indices  *)
(* agree in their front part, which holds the partitions to handle once    *)
(* each (IndexInv); so every partition is handled once, with its own size. *)
(* The ranges of ids that are given out are then disjoint (StartsInv), and *)
(* counting the cells of a partition stays within its range.               *)
(***************************************************************************)
EXTENDS UniqueId, FiniteSetTheorems, TLAPS

-----------------------------------------------------------------------------
(* The front parts of both sequences.                                      *)
IndexInv ==
    /\ condition \in Conditions
    /\ ready \subseteq Partitions
    /\ idxs \in [Partitions -> Partitions]
    /\ to_handle \in 0 .. Len(condition)
    /\ sizes \in Seq(Partitions) /\ to_handle <= Len(sizes)
    /\ \A k \in 1 .. to_handle : sizes[k] = idxs[k]
    /\ \A j, k \in 1 .. to_handle : idxs[j] = idxs[k] => j = k
    /\ promises = {idxs[k] : k \in 1 .. to_handle}
    /\ IsFiniteSet(promises) /\ Cardinality(promises) = to_handle

(* Every partition has a promise, a task or a result.                      *)
TaskInv ==
    /\ start_value \in Nat \ {0}
    /\ tasks \subseteq Partitions \X (Nat \ {0})
    /\ DOMAIN ids \subseteq Partitions
    /\ \A p \in DOMAIN ids : ids[p] \in [1 .. Size(p) -> Int]
    /\ \A p \in Partitions :
        p \in promises <=> p \notin DOMAIN ids /\ \A task \in tasks : task[1] # p

(* The ranges of ids of the partitions that were handled are disjoint.     *)
Handled == Partitions \ promises

StartsInv(starts) ==
    /\ starts \in [Handled -> Nat \ {0}]
    /\ \A task \in tasks : task[2] = starts[task[1]]
    /\ \A p \in DOMAIN ids : ids[p] = [i \in 1 .. Size(p) |-> IdOf(p, starts[p], i)]
    /\ \A p \in Handled : starts[p] + Size(p) <= start_value
    /\ \A p, q \in Handled :
        p # q => starts[p] + Size(p) <= starts[q] \/ starts[q] + Size(q) <= starts[p]

RangeInv == \E starts : StartsInv(starts)

IInv == IndexInv /\ TaskInv /\ RangeInv

-----------------------------------------------------------------------------
(* What is known of the input.                                             *)
LEMMA InputFacts ==
    ASSUME condition \in Conditions
    PROVE  /\ Len(condition) \in Nat
           /\ Partitions = 1 .. Len(condition)
           /\ \A p \in Partitions : Size(p) \in Nat /\ Size(p) > 0
<1>1. condition \in Seq(Seq({"true", "false", "no_data"}))
  BY UniqueIdAssumption
<1>2. Len(condition) \in Nat /\ Partitions = 1 .. Len(condition)
  BY <1>1 DEF Partitions
<1>3. ASSUME NEW p \in Partitions PROVE Size(p) \in Nat /\ Size(p) > 0
  <2>1. condition[p] \in Seq({"true", "false", "no_data"}) /\ condition[p] # <<>>
    BY <1>1, <1>2, UniqueIdAssumption DEF Partitions
  <2> QED BY <2>1 DEF Size
<1> QED BY <1>2, <1>3

(* The number of cells counted before a cell is below its index.           *)
LEMMA NrTrueBefore ==
    ASSUME NEW p, NEW i \in Nat \ {0}
    PROVE  /\ IsFiniteSet(TrueBefore(p, i))
           /\ Cardinality(TrueBefore(p, i)) \in 0 .. i - 1
<1>1. IsFiniteSet(1 .. i - 1) /\ Cardinality(1 .. i - 1) = i - 1
  BY FS_Interval
<1>2. TrueBefore(p, i) \subseteq 1 .. i - 1
  BY DEF TrueBefore
<1>3. /\ IsFiniteSet(TrueBefore(p, i))
      /\ Cardinality(TrueBefore(p, i)) <= i - 1
  BY <1>1, <1>2, FS_Subset
<1>4. Cardinality(TrueBefore(p, i)) \in Nat
  BY <1>3, FS_CardinalityType
<1> QED BY <1>3, <1>4

(* A cell for which the condition holds is counted by all that follow.     *)
LEMMA TrueBeforeGrows ==
    ASSUME NEW p, NEW i \in Nat \ {0}, NEW j \in Nat \ {0}, i < j,
           condition[p][i] = "true"
    PROVE  Cardinality(TrueBefore(p, i)) < Cardinality(TrueBefore(p, j))
<1>1. /\ IsFiniteSet(TrueBefore(p, i)) /\ Cardinality(TrueBefore(p, i)) \in Nat
      /\ IsFiniteSet(TrueBefore(p, j)) /\ Cardinality(TrueBefore(p, j)) \in Nat
  BY NrTrueBefore
<1>2. i \notin TrueBefore(p, i)
  BY DEF TrueBefore
<1>3. TrueBefore(p, i) \cup {i} \subseteq TrueBefore(p, j)
  BY DEF TrueBefore
<1>4. Cardinality(TrueBefore(p, i) \cup {i}) = Cardinality(TrueBefore(p, i)) + 1
  BY <1>1, <1>2, FS_AddElement
<1>5. Cardinality(TrueBefore(p, i) \cup {i}) <= Cardinality(TrueBefore(p, j))
  BY <1>1, <1>3, FS_Subset
<1> QED BY <1>1, <1>4, <1>5

(* Ids are integers.                                                       *)
LEMMA IdType ==
    ASSUME NEW p, NEW start \in Nat, NEW i \in Nat \ {0}
    PROVE  IdOf(p, start, i) \in Int
<1>1. start + Cardinality(TrueBefore(p, i)) \in Nat
  BY NrTrueBefore
<1>2. Wrapped(start + Cardinality(TrueBefore(p, i))) \in Int
  BY <1>1, UniqueIdAssumption DEF Wrapped
<1> QED BY <1>2 DEF IdOf

-----------------------------------------------------------------------------
(* Initially all partitions are to be handled, in their own order.         *)
LEMMA InitInv == Init => IInv
<1> SUFFICES ASSUME Init PROVE IInv
  OBVIOUS
<1>1. /\ Len(condition) \in Nat
      /\ Partitions = 1 .. Len(condition)
  BY InputFacts DEF Init
<1>2. IndexInv
  <2>1. \A k \in 1 .. to_handle : idxs[k] = k /\ sizes[k] = k
    BY <1>1 DEF Init
  <2>2. idxs \in [Partitions -> Partitions]
    BY DEF Init
  <2>3. sizes \in Seq(Partitions) /\ Len(sizes) = to_handle
    BY <1>1 DEF Init
  <2>4. promises = {idxs[k] : k \in 1 .. to_handle}
    BY <1>1 DEF Init
  <2>5. IsFiniteSet(promises) /\ Cardinality(promises) = to_handle
    <3>1. promises = 1 .. Len(condition) /\ to_handle = Len(condition)
      BY <1>1 DEF Init
    <3>2. IsFiniteSet(1 .. Len(condition)) /\ Cardinality(1 .. Len(condition)) = Len(condition)
      BY <1>1, FS_Interval
    <3> QED BY <3>1, <3>2
  <2> QED BY <1>1, <2>1, <2>2, <2>3, <2>4, <2>5 DEF Init, IndexInv
<1>3. TaskInv
  BY DEF Init, TaskInv
<1>4. StartsInv([p \in {} |-> 1])
  BY DEF Init, StartsInv, Handled
<1> QED BY <1>2, <1>3, <1>4 DEF IInv, RangeInv

(* A handled place is rotated out of the front part of both sequences.     *)
LEMMA HandleKeepsIndexInv ==
    ASSUME IndexInv, HandleAny
    PROVE  IndexInv'
<1>1. /\ Len(condition) \in Nat
      /\ Partitions = 1 .. Len(condition)
  BY InputFacts DEF IndexInv
<1>2. PICK place \in 1 .. to_handle :
        /\ promises' = promises \ {idxs[place]}
        /\ sizes' = RotatedSizes(sizes, place)
        /\ idxs' = RotatedIdxs(idxs, place)
        /\ to_handle' = to_handle - 1
        /\ UNCHANGED <<condition, ready>>
  BY DEF HandleAny
<1>3. to_handle \in Nat /\ to_handle <= Len(condition) /\ place \in Nat /\ to_handle' \in Nat
  BY <1>1, <1>2 DEF IndexInv
<1>4. Partitions' = Partitions
  BY <1>2 DEF Partitions
<1> DEFINE From(k) == IF k < place THEN k ELSE k + 1
<1>5. \A k \in 1 .. to_handle' : From(k) \in 1 .. to_handle /\ From(k) # place
  BY <1>2, <1>3
<1>6. \A k \in 1 .. to_handle' : idxs'[k] = idxs[From(k)]
  <2>1. 1 .. to_handle' \subseteq DOMAIN idxs
    BY <1>1, <1>2, <1>3 DEF IndexInv
  <2> QED BY <1>2, <1>3, <2>1 DEF RotatedIdxs
<1>7. \A k \in 1 .. to_handle' : sizes'[k] = sizes[From(k)]
  BY <1>2, <1>3 DEF RotatedSizes
<1>8. idxs' \in [Partitions -> Partitions]
  <2>1. idxs \in [Partitions -> Partitions]
    BY DEF IndexInv
  <2>2. \A k \in Partitions : ~(k < place \/ k > to_handle) /\ k # to_handle => k + 1 \in Partitions
    BY <1>1, <1>2, <1>3
  <2>3. place \in Partitions
    BY <1>1, <1>2, <1>3
  <2> QED BY <1>2, <2>1, <2>2, <2>3 DEF RotatedIdxs
<1>9. sizes' \in Seq(Partitions) /\ Len(sizes') = to_handle
  <2>1. \A k \in 1 .. to_handle : sizes[k] \in Partitions
    BY <1>1, <1>3 DEF IndexInv
  <2>2. \A k \in 1 .. to_handle : ~(k < place) /\ k # to_handle => k + 1 \in 1 .. to_handle
    BY <1>2, <1>3
  <2>3. sizes' \in [1 .. to_handle -> Partitions]
    BY <1>2, <2>1, <2>2 DEF RotatedSizes
  <2> QED BY <1>3, <2>3
<1>10. \A k \in 1 .. to_handle' : sizes'[k] = idxs'[k]
  BY <1>5, <1>6, <1>7 DEF IndexInv
<1>11. \A j, k \in 1 .. to_handle' : idxs'[j] = idxs'[k] => j = k
  <2>1. \A j, k \in 1 .. to_handle' : From(j) = From(k) => j = k
    BY <1>2, <1>3
  <2> HIDE DEF From
  <2> QED BY <1>5, <1>6, <2>1 DEF IndexInv
<1>12. promises' = {idxs'[k] : k \in 1 .. to_handle'}
  <2>1. \A j \in 1 .. to_handle : j # place => \E k \in 1 .. to_handle' : From(k) = j
    <3> SUFFICES ASSUME NEW j \in 1 .. to_handle, j # place
                 PROVE  \E k \in 1 .. to_handle' : From(k) = j
      OBVIOUS
    <3>1. CASE j < place
      BY <1>2, <1>3, <3>1
    <3>2. CASE j > place
      <4>1. j - 1 \in 1 .. to_handle' /\ From(j - 1) = j
        BY <1>2, <1>3, <3>2
      <4> QED BY <4>1
    <3> QED BY <1>3, <3>1, <3>2
  <2> HIDE DEF From
  <2>2. promises = {idxs[k] : k \in 1 .. to_handle}
    BY DEF IndexInv
  <2>3. \A k \in 1 .. to_handle : idxs[k] = idxs[place] => k = place
    BY DEF IndexInv
  <2>4. ASSUME NEW q \in promises' PROVE q \in {idxs'[k] : k \in 1 .. to_handle'}
    <3>1. PICK j \in 1 .. to_handle : q = idxs[j] /\ j # place
      BY <1>2, <2>2
    <3>2. PICK k \in 1 .. to_handle' : From(k) = j
      BY <2>1, <3>1
    <3> QED BY <1>6, <3>1, <3>2
  <2>5. ASSUME NEW k \in 1 .. to_handle' PROVE idxs'[k] \in promises'
    BY <1>2, <1>5, <1>6, <2>2, <2>3
  <2> QED BY <2>4, <2>5
<1>13. IsFiniteSet(promises') /\ Cardinality(promises') = to_handle'
  <2>1. idxs[place] \in promises
    BY DEF IndexInv
  <2>2. IsFiniteSet(promises) /\ Cardinality(promises) = to_handle
    BY DEF IndexInv
  <2>3. /\ IsFiniteSet(promises \ {idxs[place]})
        /\ Cardinality(promises \ {idxs[place]}) = Cardinality(promises) - 1
    BY <2>1, <2>2, FS_RemoveElement
  <2> QED BY <1>2, <2>2, <2>3
<1>14. to_handle' \in 0 .. Len(condition') /\ to_handle' <= Len(sizes')
  BY <1>2, <1>3, <1>9
<1>15. condition' \in Conditions /\ ready' \subseteq Partitions'
  BY <1>2, <1>4 DEF IndexInv
<1> QED BY <1>4, <1>8, <1>9, <1>10, <1>11, <1>12, <1>13, <1>14, <1>15 DEF IndexInv

(* What the step does for the tasks: a partition with a promise gets the   *)
(* range that starts at the start value.                                   *)
LEMMA HandleFacts ==
    ASSUME IndexInv, HandleAny
    PROVE  \E p \in promises :
            /\ p \in Partitions
            /\ tasks' = tasks \cup {<<p, start_value>>}
            /\ promises' = promises \ {p}
            /\ start_value' = start_value + Size(p)
            /\ UNCHANGED <<condition, ids>>
<1>1. PICK place \in 1 .. to_handle :
        /\ tasks' = tasks \cup {<<idxs[place], start_value>>}
        /\ promises' = promises \ {idxs[place]}
        /\ start_value' = start_value + Size(sizes[place])
        /\ UNCHANGED <<condition, ids>>
  BY DEF HandleAny
<1>2. idxs[place] \in promises /\ sizes[place] = idxs[place]
  BY DEF IndexInv
<1>3. place \in Partitions /\ idxs[place] \in Partitions
  <2>1. /\ Len(condition) \in Nat
        /\ Partitions = 1 .. Len(condition)
    BY InputFacts DEF IndexInv
  <2> QED BY <2>1 DEF IndexInv
<1> QED BY <1>1, <1>2, <1>3

(* A partition that is handled has a task from then on.                    *)
LEMMA HandleKeepsTaskInv ==
    ASSUME IndexInv, TaskInv, HandleAny
    PROVE  TaskInv'
<1>1. PICK p \in promises :
        /\ p \in Partitions
        /\ tasks' = tasks \cup {<<p, start_value>>}
        /\ promises' = promises \ {p}
        /\ start_value' = start_value + Size(p)
        /\ UNCHANGED <<condition, ids>>
  BY HandleFacts
<1>2. Partitions' = Partitions /\ \A q : Size(q)' = Size(q)
  BY <1>1 DEF Partitions, Size
<1>3. start_value \in Nat \ {0} /\ start_value' \in Nat \ {0}
  BY <1>1, InputFacts DEF IndexInv, TaskInv
<1>4. tasks' \subseteq Partitions \X (Nat \ {0})
  BY <1>1, <1>3 DEF TaskInv
<1>5. ASSUME NEW q \in Partitions
      PROVE  q \in promises' <=> q \notin DOMAIN ids /\ \A task \in tasks' : task[1] # q
  <2>1. CASE q = p
    <3>1. <<p, start_value>> \in tasks' /\ q \notin promises'
      BY <1>1, <2>1
    <3> QED BY <2>1, <3>1
  <2>2. CASE q # p
    <3>1. (\A task \in tasks' : task[1] # q) <=> (\A task \in tasks : task[1] # q)
      BY <1>1, <2>2
    <3>2. q \in promises' <=> q \in promises
      BY <1>1, <2>2
    <3> QED BY <3>1, <3>2 DEF TaskInv
  <2> QED BY <2>1, <2>2
<1> QED BY <1>1, <1>2, <1>3, <1>4, <1>5 DEF TaskInv

(* The new range comes after all ranges that were given out.               *)
LEMMA HandleKeepsRangeInv ==
    ASSUME IInv, HandleAny
    PROVE  RangeInv'
<1>1. PICK p \in promises :
        /\ p \in Partitions
        /\ tasks' = tasks \cup {<<p, start_value>>}
        /\ promises' = promises \ {p}
        /\ start_value' = start_value + Size(p)
        /\ UNCHANGED <<condition, ids>>
  BY HandleFacts DEF IInv
<1>2. PICK starts : StartsInv(starts)
  BY DEF IInv, RangeInv
<1>3. PICK s : s = [q \in Handled' |-> IF q = p THEN start_value ELSE starts[q]]
  OBVIOUS
<1>4. /\ Partitions' = Partitions
      /\ \A q : Size(q)' = Size(q)
      /\ \A q, v, i : IdOf(q, v, i)' = IdOf(q, v, i)
      /\ Handled' = Handled \cup {p}
      /\ p \notin Handled
  BY <1>1 DEF Partitions, Size, Handled, IdOf, TrueBefore
<1>5. /\ start_value \in Nat \ {0}
      /\ \A q \in Partitions : Size(q) \in Nat /\ Size(q) > 0
      /\ Handled \subseteq Partitions
  BY InputFacts DEF IInv, IndexInv, TaskInv, Handled
<1>6. s[p] = start_value /\ \A q \in Handled : s[q] = starts[q] /\ s[q] \in Nat \ {0}
  BY <1>3, <1>4, <1>2 DEF StartsInv
<1>7. s \in [Handled' -> Nat \ {0}]
  BY <1>3, <1>4, <1>5, <1>2 DEF StartsInv
<1>8. \A task \in tasks : task[1] \in Handled
  BY DEF IInv, TaskInv, Handled
<1>9. \A task \in tasks' : task[2] = s[task[1]]
  BY <1>1, <1>2, <1>6, <1>8 DEF StartsInv
<1>10. \A q \in DOMAIN ids' : ids'[q] = [i \in 1 .. Size(q)' |-> IdOf(q, s[q], i)']
  <2>1. DOMAIN ids \subseteq Handled
    BY DEF IInv, TaskInv, Handled
  <2> QED BY <1>1, <1>2, <1>4, <1>6, <2>1 DEF StartsInv
<1>11. \A q \in Handled' : s[q] + Size(q)' <= start_value'
  <2>1. \A q \in Handled : s[q] + Size(q) <= start_value
    BY <1>2, <1>6 DEF StartsInv
  <2> QED BY <1>1, <1>4, <1>5, <1>6, <2>1
<1>12. \A q, r \in Handled' :
        q # r => s[q] + Size(q)' <= s[r] \/ s[r] + Size(r)' <= s[q]
  <2>1. \A q, r \in Handled : q # r => s[q] + Size(q) <= s[r] \/ s[r] + Size(r) <= s[q]
    BY <1>2, <1>6 DEF StartsInv
  <2>2. \A q \in Handled : s[q] + Size(q) <= s[p]
    BY <1>2, <1>6 DEF StartsInv
  <2> QED BY <1>4, <2>1, <2>2
<1>13. StartsInv(s)'
  BY <1>4, <1>7, <1>9, <1>10, <1>11, <1>12 DEF StartsInv
<1> QED BY <1>13 DEF RangeInv

-----------------------------------------------------------------------------
(* A task turns its range into the ids of its partition.                   *)
LEMMA NumberKeepsInv ==
    ASSUME IInv, NEW task \in tasks, Number(task[1], task[2])
    PROVE  IInv'
<1>1. PICK p \in Partitions, start \in Nat \ {0} :
        /\ task = <<p, start>>
        /\ tasks' = tasks \ {<<p, start>>}
        /\ ids' = [q \in DOMAIN ids \cup {p} |->
                    IF q = p THEN [i \in 1 .. Size(p) |-> IdOf(p, start, i)] ELSE ids[q]]
        /\ UNCHANGED <<condition, ready, sizes, idxs, to_handle, start_value, promises>>
  <2>1. task \in Partitions \X (Nat \ {0})
    BY DEF IInv, TaskInv
  <2>2. PICK p \in Partitions, start \in Nat \ {0} : task = <<p, start>>
    BY <2>1
  <2>3. Number(p, start)
    BY <2>2
  <2> QED BY <2>2, <2>3 DEF Number
<1>2. PICK starts : StartsInv(starts)
  BY DEF IInv, RangeInv
<1>3. /\ Partitions' = Partitions /\ Handled' = Handled
      /\ \A q : Size(q)' = Size(q)
      /\ \A q, v, i : IdOf(q, v, i)' = IdOf(q, v, i)
  BY <1>1 DEF Partitions, Size, Handled, IdOf, TrueBefore
<1>4. IndexInv'
  BY <1>1, <1>3 DEF IInv, IndexInv
<1>5. p \in Handled /\ starts[p] = start
  <2>1. p \notin promises
    BY <1>1 DEF IInv, TaskInv
  <2> QED BY <1>1, <1>2, <2>1 DEF StartsInv, Handled
<1>6. TaskInv'
  <2>1. tasks' \subseteq Partitions \X (Nat \ {0}) /\ start_value' \in Nat \ {0}
    BY <1>1 DEF IInv, TaskInv
  <2>2. DOMAIN ids' = DOMAIN ids \cup {p} /\ DOMAIN ids' \subseteq Partitions
    BY <1>1 DEF IInv, TaskInv
  <2>3. [i \in 1 .. Size(p) |-> IdOf(p, start, i)] \in [1 .. Size(p) -> Int]
    <3>1. Size(p) \in Nat
      BY InputFacts DEF IInv, IndexInv
    <3>2. \A i \in 1 .. Size(p) : IdOf(p, start, i) \in Int
      BY <3>1, IdType
    <3> QED BY <3>2
  <2>4. \A q \in DOMAIN ids' : ids'[q] \in [1 .. Size(q) -> Int]
    BY <1>1, <2>2, <2>3 DEF IInv, TaskInv
  <2>5. ASSUME NEW q \in Partitions
        PROVE  q \in promises <=> q \notin DOMAIN ids' /\ \A t \in tasks' : t[1] # q
    <3>1. CASE q = p
      BY <1>5, <2>2, <3>1 DEF Handled
    <3>2. CASE q # p
      <4>1. (\A t \in tasks' : t[1] # q) <=> (\A t \in tasks : t[1] # q)
        BY <1>1, <3>2
      <4>2. q \in DOMAIN ids' <=> q \in DOMAIN ids
        BY <2>2, <3>2
      <4> QED BY <4>1, <4>2 DEF IInv, TaskInv
    <3> QED BY <3>1, <3>2
  <2> QED BY <1>1, <1>3, <2>1, <2>2, <2>4, <2>5 DEF TaskInv
<1>7. StartsInv(starts)'
  <2>1. \A q \in DOMAIN ids' : ids'[q] = [i \in 1 .. Size(q) |-> IdOf(q, starts[q], i)]
    <3>1. \A q \in DOMAIN ids : ids[q] = [i \in 1 .. Size(q) |-> IdOf(q, starts[q], i)]
      BY <1>2 DEF StartsInv
    <3> QED BY <1>1, <1>5, <3>1
  <2>2. \A t \in tasks' : t[2] = starts[t[1]]
    BY <1>1, <1>2 DEF StartsInv
  <2>3. /\ starts \in [Handled' -> Nat \ {0}]
        /\ \A q \in Handled' : starts[q] + Size(q)' <= start_value'
        /\ \A q, r \in Handled' :
            q # r => starts[q] + Size(q)' <= starts[r] \/ starts[r] + Size(r)' <= starts[q]
    BY <1>1, <1>2, <1>3 DEF StartsInv
  <2>4. \A q \in DOMAIN ids' : ids'[q] = [i \in 1 .. Size(q)' |-> IdOf(q, starts[q], i)']
    BY <1>3, <2>1
  <2> QED BY <2>2, <2>3, <2>4 DEF StartsInv
<1>8. RangeInv'
  BY <1>7 DEF RangeInv
<1> QED BY <1>4, <1>6, <1>8 DEF IInv

(* Nothing else the steps do matters.                                      *)
LEMMA Stuttering ==
    ASSUME IInv,
           UNCHANGED <<condition, sizes, idxs, to_handle, start_value, tasks, promises, ids>>,
           ready' \subseteq Partitions
    PROVE  IInv'
<1>1. /\ Partitions' = Partitions /\ Handled' = Handled
      /\ \A q : Size(q)' = Size(q)
      /\ \A q, v, i : IdOf(q, v, i)' = IdOf(q, v, i)
  BY DEF Partitions, Size, Handled, IdOf, TrueBefore
<1>2. IndexInv'
  BY <1>1 DEF IInv, IndexInv
<1>3. TaskInv'
  BY <1>1 DEF IInv, TaskInv
<1>4. PICK starts : StartsInv(starts)
  BY DEF IInv, RangeInv
<1>5. StartsInv(starts)'
  <2>1. \A q \in DOMAIN ids' : ids'[q] = [i \in 1 .. Size(q)' |-> IdOf(q, starts[q], i)']
    BY <1>1, <1>4 DEF StartsInv
  <2> QED BY <1>1, <1>4, <2>1 DEF StartsInv
<1> QED BY <1>2, <1>3, <1>5 DEF IInv, RangeInv

(* Every step preserves the invariant.                                     *)
LEMMA NextInv == IInv /\ [Next]_vars => IInv'
<1> SUFFICES ASSUME IInv, [Next]_vars PROVE IInv'
  OBVIOUS
<1>1. ASSUME NEW p \in Partitions, BecomeReady(p) PROVE IInv'
  <2>1. ready \subseteq Partitions
    BY DEF IInv, IndexInv
  <2> QED BY <1>1, <2>1, Stuttering DEF BecomeReady
<1>2. CASE HandleAny
  <2>1. IndexInv'
    BY <1>2, HandleKeepsIndexInv DEF IInv
  <2>2. TaskInv'
    BY <1>2, HandleKeepsTaskInv DEF IInv
  <2>3. RangeInv'
    BY <1>2, HandleKeepsRangeInv
  <2> QED BY <2>1, <2>2, <2>3 DEF IInv
<1>3. ASSUME NEW task \in tasks, Number(task[1], task[2]) PROVE IInv'
  BY <1>3, NumberKeepsInv
<1>4. CASE UNCHANGED vars
  <2>1. ready \subseteq Partitions
    BY DEF IInv, IndexInv
  <2> QED BY <1>4, <2>1, Stuttering DEF vars
<1> QED BY <1>1, <1>2, <1>3, <1>4 DEF Next, Terminated

(* The invariant holds in every state.                                     *)
LEMMA Invariant == Spec => []IInv
BY InitInv, NextInv, PTL DEF Spec

-----------------------------------------------------------------------------
(* Every partition has its promise, its task or its result, and there are  *)
(* as many promises left as the two sequences have places.                 *)
THEOREM TypeCorrect == Spec => []TypeOK
<1>1. IInv => TypeOK
  BY DEF IInv, IndexInv, TaskInv, TypeOK
<1> QED BY Invariant, <1>1, PTL

(* An id that fits is the next one of the range of its partition.          *)
LEMMA IdInRange ==
    ASSUME IInv, NEW starts, StartsInv(starts), start_value <= NrIdValues,
           NEW p \in Partitions, NEW i \in 1 .. Size(p), IsNumbered(p, i)
    PROVE  /\ p \in Handled
           /\ starts[p] \in Nat \ {0}
           /\ Cardinality(TrueBefore(p, i)) \in Nat
           /\ ids[p][i] = starts[p] + Cardinality(TrueBefore(p, i))
           /\ ids[p][i] < starts[p] + Size(p)
<1>1. p \in DOMAIN ids /\ condition[p][i] = "true"
  BY DEF IsNumbered
<1>2. p \in Handled
  BY <1>1 DEF IInv, TaskInv, Handled
<1>3. starts[p] \in Nat \ {0} /\ starts[p] + Size(p) <= start_value
  BY <1>2 DEF StartsInv
<1>4. Size(p) \in Nat /\ i \in Nat \ {0} /\ i <= Size(p)
  BY InputFacts DEF IInv, IndexInv
<1>5. Cardinality(TrueBefore(p, i)) \in 0 .. i - 1
  BY <1>4, NrTrueBefore
<1>6. ids[p][i] = Wrapped(starts[p] + Cardinality(TrueBefore(p, i)))
  BY <1>1 DEF StartsInv, IdOf
<1> DEFINE value == starts[p] + Cardinality(TrueBefore(p, i))
<1>7. value \in Nat /\ value < starts[p] + Size(p) /\ value < NrIdValues
  BY <1>3, <1>4, <1>5, UniqueIdAssumption DEF IInv, TaskInv
<1>8. Wrapped(value) = value
  <2> HIDE DEF value
  <2>1. NrIdValues \in Nat \ {0}
    BY UniqueIdAssumption
  <2> QED BY <1>7, <2>1 DEF Wrapped
<1> QED BY <1>2, <1>3, <1>5, <1>6, <1>7, <1>8

(* As long as the ids fit in their type they are positive and unique, for  *)
(* every array and in every order of partitions and tasks.                 *)
THEOREM IdsUnique == Spec => []IdsAreUnique
<1>1. IInv => IdsAreUnique
  <2> SUFFICES ASSUME IInv, start_value <= NrIdValues,
                      NEW p \in Partitions, NEW q \in Partitions,
                      NEW i \in 1 .. Size(p), NEW j \in 1 .. Size(q),
                      IsNumbered(p, i), IsNumbered(q, j)
               PROVE  ids[p][i] > 0 /\ (ids[p][i] = ids[q][j] => p = q /\ i = j)
    BY DEF IdsAreUnique
  <2>1. PICK starts : StartsInv(starts)
    BY DEF IInv, RangeInv
  <2>2. /\ p \in Handled /\ starts[p] \in Nat \ {0}
        /\ Cardinality(TrueBefore(p, i)) \in Nat
        /\ ids[p][i] = starts[p] + Cardinality(TrueBefore(p, i))
        /\ ids[p][i] < starts[p] + Size(p)
    BY <2>1, IdInRange
  <2>3. /\ q \in Handled /\ starts[q] \in Nat \ {0}
        /\ Cardinality(TrueBefore(q, j)) \in Nat
        /\ ids[q][j] = starts[q] + Cardinality(TrueBefore(q, j))
        /\ ids[q][j] < starts[q] + Size(q)
    BY <2>1, IdInRange
  <2>4. Size(p) \in Nat /\ Size(q) \in Nat
    BY InputFacts DEF IInv, IndexInv
  <2>5. CASE p # q
    <3>1. starts[p] + Size(p) <= starts[q] \/ starts[q] + Size(q) <= starts[p]
      BY <2>1, <2>2, <2>3, <2>5 DEF StartsInv
    <3> QED BY <2>2, <2>3, <2>4, <3>1
  <2>6. CASE p = q /\ i # j
    <3>1. i \in Nat \ {0} /\ j \in Nat \ {0} /\ (i < j \/ j < i)
      BY <2>4, <2>6
    <3>2. condition[p][i] = "true" /\ condition[p][j] = "true"
      BY <2>6 DEF IsNumbered
    <3>3. Cardinality(TrueBefore(p, i)) # Cardinality(TrueBefore(p, j))
      <4>1. /\ i < j => Cardinality(TrueBefore(p, i)) < Cardinality(TrueBefore(p, j))
            /\ j < i => Cardinality(TrueBefore(p, j)) < Cardinality(TrueBefore(p, i))
        BY <3>1, <3>2, TrueBeforeGrows
      <4> QED BY <2>2, <2>3, <2>6, <3>1, <4>1
    <3> QED BY <2>2, <2>3, <2>6, <3>3
  <2> QED BY <2>2, <2>5, <2>6
<1> QED BY Invariant, <1>1, PTL
=============================================================================
