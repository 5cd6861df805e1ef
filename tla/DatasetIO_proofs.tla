-------------------------- MODULE DatasetIO_proofs --------------------------
(***************************************************************************)
(* Without a thread-safe HDF5 library, the reads and writes of a dataset   *)
(* are done one call at a time, whatever the calls, the processes they are *)
(* spread over and the order in which tasks are run.  From that it follows *)
(* what the tasks assert instead of waiting for it.                        *)
(***************************************************************************)
EXTENDS DatasetIO, FiniteSetTheorems, WellFoundedInduction, TLAPS

Started(t) == stage[t] # "none"

(* The stages are what they should be.                                     *)
StageOK == stage \in [Tasks -> Stages]

(* When a task of a call has started, all earlier calls are finished.      *)
OneCallAtATime ==
    \A t \in Tasks : \A j \in CallIdxs : Started(t) /\ j < t[1] => Finished(j)

(* When a task has started, those that write before it are finished.       *)
OneLocalityAtATime ==
    \A t \in Tasks : Started(t) =>
        \A m \in BeforeLocality(t[1], t[2]) : stage[<<t[1], m>>] = "closed"

IInv == StageOK /\ OneCallAtATime /\ OneLocalityAtATime

(* Calls have a number and an operation, and at least one locality.        *)
LEMMA CallFacts ==
    /\ CallIdxs = 1 .. Len(Calls)
    /\ Len(Calls) \in Nat
    /\ \A i \in CallIdxs :
        /\ Calls[i].op \in {"from", "to"}
        /\ Calls[i].at \in Seq(Localities)
        /\ At(i) # {}
<1>1. /\ Len(Calls) \in Nat
      /\ CallIdxs = 1 .. Len(Calls)
  BY CallsAssumption DEF CallIdxs
<1>2. ASSUME NEW i \in CallIdxs
      PROVE  /\ Calls[i].op \in {"from", "to"}
             /\ Calls[i].at \in Seq(Localities)
             /\ At(i) # {}
  <2>0. Calls[i] \in [op : {"from", "to"}, kind : {"constant", "variable"},
                      at : Seq(Localities)]
    <3> DEFINE C == [op : {"from", "to"}, kind : {"constant", "variable"},
                     at : Seq(Localities)]
    <3>1. Calls \in Seq(C)
      BY CallsAssumption
    <3> HIDE DEF C
    <3>2. Calls[i] \in C
      BY <1>1, <3>1
    <3> QED BY <3>2 DEF C
  <2>1. /\ Calls[i].op \in {"from", "to"}
        /\ Calls[i].at \in Seq(Localities)
        /\ Calls[i].at # <<>>
    BY <2>0, CallsAssumption DEF CallIdxs
  <2>2. 1 \in DOMAIN Calls[i].at
    BY <2>1
  <2>3. Calls[i].at[1] \in At(i)
    BY <2>2 DEF At
  <2> QED BY <2>1, <2>3
<1> QED BY <1>1, <1>2

(* The call before a call is one of those it waits for.                    *)
LEMMA WaitsForPredecessor ==
    ASSUME ~ThreadSafe, NEW i \in CallIdxs, i # 1
    PROVE  i - 1 \in CallIdxs /\ i - 1 \in DependsOn(i)
<1>1. i \in Int /\ i - 1 \in CallIdxs /\ i - 1 < i
  BY CallFacts
<1>2. PICK op \in {"from", "to"} : Calls[i - 1].op = op
  BY <1>1, CallFacts
<1>3. i - 1 \in Earlier(op, i)
  BY <1>1, <1>2 DEF Earlier
<1>4. \A k \in Earlier(op, i) : k <= i - 1
  BY <1>1, CallFacts DEF Earlier
<1>5. i - 1 \in LastEarlier(op, i)
  BY <1>3, <1>4 DEF LastEarlier
<1> QED BY <1>1, <1>2, <1>5 DEF DependsOn

(* The tasks of a call are known by the call and the locality.             *)
LEMMA TaskFacts ==
    /\ \A t \in Tasks : t = <<t[1], t[2]>> /\ t[1] \in CallIdxs /\ t[2] \in At(t[1])
    /\ \A i \in CallIdxs : \A l \in At(i) : <<i, l>> \in Tasks
    /\ \A i \in CallIdxs : \A l \in At(i) :
            BeforeLocality(i, l) \subseteq At(i)
<1>1. \A t \in Tasks : t = <<t[1], t[2]>> /\ t[1] \in CallIdxs /\ t[2] \in At(t[1])
  BY DEF Tasks
<1>2. \A i \in CallIdxs : \A l \in At(i) : <<i, l>> \in Tasks
  BY CallFacts DEF Tasks
<1>3. \A i \in CallIdxs : \A l \in At(i) : BeforeLocality(i, l) \subseteq At(i)
  BY DEF BeforeLocality, At
<1> QED BY <1>1, <1>2, <1>3

(* No task has started at first.                                           *)
LEMMA InvInit == Init => IInv
<1> SUFFICES ASSUME Init PROVE IInv
  OBVIOUS
<1>1. \A t \in Tasks : stage[t] = "none"
  BY DEF Init
<1>2. StageOK
  BY DEF Init, StageOK, Stages
<1> QED BY <1>1, <1>2 DEF IInv, OneCallAtATime, OneLocalityAtATime, Started

(* A step leaves the tasks that are finished alone, and starts only the    *)
(* task that it spawns.                                                    *)
LEMMA StepFacts ==
    ASSUME StageOK, [Next]_vars
    PROVE  /\ StageOK'
           /\ \A t \in Tasks : stage[t] = "closed" => stage'[t] = "closed"
           /\ \A t \in Tasks : Started(t)' /\ ~Started(t) => Spawn(t[1], t[2])
<1>1. CASE UNCHANGED stage
  BY <1>1 DEF StageOK, Started
<1>2. ASSUME NEW u \in Tasks, Step(u[1], u[2])
      PROVE  /\ StageOK'
             /\ \A t \in Tasks : stage[t] = "closed" => stage'[t] = "closed"
             /\ \A t \in Tasks : Started(t)' /\ ~Started(t) => Spawn(t[1], t[2])
  <2>1. u = <<u[1], u[2]>>
    BY TaskFacts
  <2>2. PICK s \in Stages \ {"none"} : stage' = [stage EXCEPT ![u] = s]
    BY <1>2, <2>1 DEF Step, Spawn, Open, Transfer, Close, Stages
  <2>3. StageOK'
    BY <2>2 DEF StageOK
  <2>4. stage[u] # "closed"
    BY <1>2, <2>1 DEF Step, Spawn, Open, Transfer, Close
  <2>5. \A t \in Tasks : stage[t] = "closed" => stage'[t] = "closed"
    BY <2>2, <2>4 DEF StageOK
  <2>6. \A t \in Tasks : t # u => stage'[t] = stage[t]
    BY <2>2 DEF StageOK
  <2>7. stage[u] = "none" => Spawn(u[1], u[2])
    BY <1>2, <2>1 DEF Step, Open, Transfer, Close
  <2> QED BY <2>3, <2>5, <2>6, <2>7 DEF Started
<1> QED BY <1>1, <1>2 DEF Next, Call, Terminated, vars

(* A task starts after the call before it has finished, and so after all.  *)
LEMMA InvNext ==
    ASSUME ~ThreadSafe, IInv, [Next]_vars
    PROVE  IInv'
<1>1. /\ StageOK'
      /\ \A t \in Tasks : stage[t] = "closed" => stage'[t] = "closed"
      /\ \A t \in Tasks : Started(t)' /\ ~Started(t) => Spawn(t[1], t[2])
  BY StepFacts DEF IInv
<1>2. \A j \in CallIdxs : Finished(j) => Finished(j)'
  BY <1>1, TaskFacts DEF Finished
<1>3. ASSUME NEW t \in Tasks, NEW j \in CallIdxs, Started(t)', j < t[1]
      PROVE  Finished(j)'
  <2>1. CASE Started(t)
    BY <1>2, <1>3, <2>1 DEF IInv, OneCallAtATime
  <2>2. CASE ~Started(t)
    <3>1. Spawn(t[1], t[2])
      BY <1>1, <1>3, <2>2
    <3>2. t[1] \in CallIdxs /\ t[1] # 1 /\ t[1] \in Int /\ j \in Int /\ j >= 1
      BY <1>3, TaskFacts, CallFacts
    <3> DEFINE p == t[1] - 1
    <3>3. p \in CallIdxs /\ p \in DependsOn(t[1])
      BY <3>2, WaitsForPredecessor
    <3>4. Finished(p)
      BY <3>1, <3>3 DEF Spawn
    <3>5. CASE j = p
      BY <1>2, <3>4, <3>5
    <3>6. CASE j < p
      <4>1. PICK l \in At(p) : TRUE
        BY <3>3, CallFacts
      <4>2. <<p, l>> \in Tasks /\ Started(<<p, l>>)
        BY <3>3, <3>4, <4>1, TaskFacts DEF Finished, Started
      <4>3. j < <<p, l>>[1]
        BY <3>6
      <4>4. Finished(j)
        BY <4>2, <4>3 DEF IInv, OneCallAtATime
      <4> QED BY <1>2, <4>4
    <3>7. j = p \/ j < p
      BY <1>3, <3>2
    <3> QED BY <3>5, <3>6, <3>7
  <2> QED BY <2>1, <2>2
<1>4. ASSUME NEW t \in Tasks, Started(t)', NEW m \in BeforeLocality(t[1], t[2])
      PROVE  stage'[<<t[1], m>>] = "closed"
  <2>1. stage[<<t[1], m>>] = "closed"
    <3>1. CASE Started(t)
      BY <1>4, <3>1 DEF IInv, OneLocalityAtATime
    <3>2. CASE ~Started(t)
      BY <1>1, <1>4, <3>2 DEF Spawn
    <3> QED BY <3>1, <3>2
  <2>2. <<t[1], m>> \in Tasks
    BY <1>4, TaskFacts
  <2> QED BY <1>1, <2>1, <2>2
<1> QED BY <1>1, <1>3, <1>4 DEF IInv, OneCallAtATime, OneLocalityAtATime, Started

(* The inductive invariant holds at any time.                              *)
LEMMA Invariant == ASSUME ~ThreadSafe PROVE Spec => []IInv
<1>1. IInv /\ [Next]_vars => IInv'
  BY InvNext
<1> QED BY InvInit, <1>1, PTL DEF Spec

(* A write starts when all earlier reads and writes are finished, a read   *)
(* when all earlier writes are, in every process.                          *)
THEOREM CallsAreInOrder == ASSUME ~ThreadSafe PROVE Spec => []CallsInOrder
<1>1. IInv => CallsInOrder
  BY DEF IInv, OneCallAtATime, Started, CallsInOrder
<1> QED BY Invariant, <1>1, PTL

(* While a process has the dataset open for writing, no other process and  *)
(* no other call has it open.                                              *)
THEOREM WritersAreAlone == ASSUME ~ThreadSafe PROVE Spec => []WriterIsAlone
<1>1. IInv => WriterIsAlone
  <2> SUFFICES ASSUME IInv, NEW t \in Tasks, NEW u \in Tasks,
                      IsOpen(t[1], t[2]), IsOpen(u[1], u[2]), Calls[t[1]].op = "to"
               PROVE  t = u
    BY DEF WriterIsAlone
  <2>1. /\ t = <<t[1], t[2]>> /\ t[1] \in CallIdxs /\ t[2] \in At(t[1]) /\ t[1] \in Int
        /\ u = <<u[1], u[2]>> /\ u[1] \in CallIdxs /\ u[2] \in At(u[1]) /\ u[1] \in Int
    BY TaskFacts, CallFacts
  <2>2. /\ Started(t) /\ Started(u)
        /\ stage[t] # "closed" /\ stage[u] # "closed"
    BY <2>1 DEF IsOpen, Started
  <2>3. ~(t[1] < u[1]) /\ ~(u[1] < t[1])
    BY <2>1, <2>2 DEF IInv, OneCallAtATime, Finished
  <2>4. t[1] = u[1]
    BY <2>1, <2>3
  <2>5. t[2] \notin BeforeLocality(u[1], u[2]) /\ u[2] \notin BeforeLocality(t[1], t[2])
    BY <2>1, <2>2, <2>4 DEF IInv, OneLocalityAtATime
  <2>6. PICK m \in DOMAIN Calls[t[1]].at, n \in DOMAIN Calls[t[1]].at :
            t[2] = Calls[t[1]].at[m] /\ u[2] = Calls[t[1]].at[n]
    BY <2>1, <2>4 DEF At
  <2>7. m \in Int /\ n \in Int
    <3>1. Calls[t[1]].at \in Seq(Localities)
      BY <2>1, CallFacts
    <3>2. DOMAIN Calls[t[1]].at = 1 .. Len(Calls[t[1]].at)
      BY <3>1
    <3> QED BY <2>6, <3>2
  <2>8. ~(m < n) /\ ~(n < m)
    BY <2>1, <2>4, <2>5, <2>6 DEF BeforeLocality
  <2>9. m = n
    BY <2>7, <2>8
  <2> QED BY <2>1, <2>4, <2>6, <2>9
<1> QED BY Invariant, <1>1, PTL

(* A process has the dataset open for one call at a time, which is what an *)
(* HDF5 library that is not thread-safe requires.                          *)
THEOREM ProcessesDoOneTask == ASSUME ~ThreadSafe PROVE Spec => []OneTaskPerProcess
<1>1. IInv => OneTaskPerProcess
  <2> SUFFICES ASSUME IInv, NEW t \in Tasks, NEW u \in Tasks,
                      IsOpen(t[1], t[2]), IsOpen(u[1], u[2]), t[2] = u[2]
               PROVE  t = u
    BY DEF OneTaskPerProcess
  <2>1. /\ t = <<t[1], t[2]>> /\ t[1] \in CallIdxs /\ t[2] \in At(t[1]) /\ t[1] \in Int
        /\ u = <<u[1], u[2]>> /\ u[1] \in CallIdxs /\ u[2] \in At(u[1]) /\ u[1] \in Int
    BY TaskFacts, CallFacts
  <2>2. /\ Started(t) /\ Started(u)
        /\ stage[t] # "closed" /\ stage[u] # "closed"
    BY <2>1 DEF IsOpen, Started
  <2>3. ~(t[1] < u[1]) /\ ~(u[1] < t[1])
    BY <2>1, <2>2 DEF IInv, OneCallAtATime, Finished
  <2> QED BY <2>1, <2>3
<1> QED BY Invariant, <1>1, PTL

(* Both together: what the HDF5 library may expect of its callers.         *)
THEOREM AccessesAreExclusive == ASSUME ~ThreadSafe PROVE Spec => []AccessIsExclusive
BY WritersAreAlone, ProcessesDoOneTask, PTL DEF AccessIsExclusive

-----------------------------------------------------------------------------
(* Calls are counted per operation.                                        *)

(* A set of natural numbers has a smallest element.                        *)
LEMMA SmallestElement ==
    ASSUME NEW S, S \subseteq Nat, S # {}
    PROVE  \E n \in S : \A m \in S : n <= m
<1> DEFINE R == OpToRel(<, Nat)
<1>1. IsWellFoundedOn(R, Nat)
  BY NatLessThanWellFounded
<1>2. \A m, n \in Nat : m < n => <<m, n>> \in R
  BY DEF OpToRel
<1> HIDE DEF R
<1>3. PICK n \in S : \A m \in S : ~(<<m, n>> \in R)
  BY <1>1, WFMin
<1>4. ASSUME NEW m \in S PROVE n <= m
  <2>1. m \in Nat /\ n \in Nat
    OBVIOUS
  <2>2. ~(m < n)
    BY <1>2, <1>3, <2>1
  <2> QED BY <2>1, <2>2
<1> QED BY <1>4

(* Earlier calls can be counted, and are fewer than all calls.             *)
LEMMA EarlierFacts ==
    ASSUME NEW op, NEW i \in CallIdxs
    PROVE  /\ Earlier(op, i) \subseteq CallIdxs
           /\ IsFiniteSet(Earlier(op, i))
           /\ CurrentOrder(op, i) \in Nat
           /\ CurrentOrder(op, i) = 0 <=> Earlier(op, i) = {}
           /\ Calls[i].op = op =>
                CurrentOrder(op, i) + 1 <= NrCalls(op) /\ CurrentOrder(op, i) + 1 <= Len(Calls)
<1>1. IsFiniteSet(CallIdxs) /\ Cardinality(CallIdxs) = Len(Calls)
  <2> DEFINE n == Len(Calls)
  <2>1. n \in Nat /\ CallIdxs = 1 .. n
    BY CallsAssumption, CallFacts DEF CallIdxs
  <2> HIDE DEF n
  <2>2. 1 \in Int /\ n \in Int /\ n - 1 + 1 = n /\ (1 > n => n = 0)
    BY <2>1
  <2>3. IsFiniteSet(1 .. n) /\ Cardinality(1 .. n) = IF 1 > n THEN 0 ELSE n - 1 + 1
    BY <2>2, FS_Interval
  <2>4. Cardinality(1 .. n) = n
    BY <2>2, <2>3
  <2> QED BY <2>1, <2>3, <2>4 DEF n
<1> DEFINE E == Earlier(op, i)
           Same == {j \in CallIdxs : Calls[j].op = op}
<1>2. E \in SUBSET CallIdxs /\ Same \in SUBSET CallIdxs
  BY DEF Earlier
<1>3. IsFiniteSet(E) /\ IsFiniteSet(Same) /\ Cardinality(Same) <= Cardinality(CallIdxs)
  BY <1>1, <1>2, FS_Subset
<1>4. Cardinality(E) \in Nat /\ Cardinality(Same) \in Nat /\ (Cardinality(E) = 0 <=> E = {})
  BY <1>3, FS_CardinalityType, FS_EmptySet
<1>5. ASSUME Calls[i].op = op PROVE Cardinality(E) + 1 <= Cardinality(Same)
  <2>1. i \notin E
    BY CallFacts DEF Earlier
  <2>2. E \cup {i} \in SUBSET Same
    BY <1>5 DEF Earlier
  <2>3. Cardinality(E \cup {i}) = Cardinality(E) + 1
    BY <1>3, <2>1, FS_AddElement
  <2>4. Cardinality(E \cup {i}) <= Cardinality(Same)
    BY <1>3, <2>2, FS_Subset
  <2> QED BY <2>3, <2>4
<1> QED BY <1>1, <1>2, <1>3, <1>4, <1>5, CallFacts DEF CurrentOrder, NrCalls

(* Calls of the same operation have orders that count them.                *)
LEMMA OrderFacts ==
    ASSUME NEW i \in CallIdxs
    PROVE  /\ Order(i) = CurrentOrder(Calls[i].op, i) + 1
           /\ Order(i) \in 1 .. Len(Calls)
           /\ Order(i) <= NrCalls(Calls[i].op)
<1>1. Order(i) = CurrentOrder(Calls[i].op, i) + 1
  BY DEF Order, CurrentOrder
<1> QED BY <1>1, EarlierFacts, CallFacts

(* The last of the earlier calls of an operation has the order that says   *)
(* how many there were.                                                    *)
LEMMA LastHasOrder ==
    ASSUME NEW op, NEW i \in CallIdxs, CurrentOrder(op, i) # 0
    PROVE  \E j \in CallIdxs : j < i /\ Calls[j].op = op /\ Order(j) = CurrentOrder(op, i)
<1> DEFINE E == Earlier(op, i)
           Bounds == {n \in Nat : \A k \in E : k <= n}
<1>0. i \in Nat /\ E \subseteq Nat /\ \A k \in E : k >= 1 /\ k < i
  BY CallFacts DEF Earlier
<1>1. E # {} /\ IsFiniteSet(E) /\ E \subseteq CallIdxs
  BY EarlierFacts
<1>2. i \in Bounds
  BY <1>0
<1>3. PICK n \in Bounds : \A m \in Bounds : n <= m
  <2>1. Bounds \subseteq Nat /\ Bounds # {}
    BY <1>2
  <2> HIDE DEF Bounds
  <2> QED BY <2>1, SmallestElement
<1>4. n \in E
  <2> SUFFICES ASSUME n \notin E PROVE FALSE
    OBVIOUS
  <2>1. n \in Nat /\ \A k \in E : k <= n /\ k # n
    BY <1>3
  <2>2. \A k \in E : k <= n - 1
    BY <1>0, <2>1
  <2>3. n - 1 \in Nat
    BY <1>0, <1>1, <2>1, <2>2
  <2>4. n - 1 \in Bounds
    BY <2>2, <2>3
  <2> QED BY <1>3, <2>1, <2>4
<1>5. n \in CallIdxs /\ n < i /\ Calls[n].op = op
  BY <1>4 DEF Earlier
<1>6. E = Earlier(op, n) \cup {n} /\ n \notin Earlier(op, n)
  <2>1. \A k \in E : k <= n /\ k \in Int /\ n \in Int
    BY <1>0, <1>3
  <2> QED BY <1>0, <1>4, <1>5, <2>1, CallFacts DEF Earlier
<1>7. Cardinality(E) = Cardinality(Earlier(op, n)) + 1
  <2>1. IsFiniteSet(Earlier(op, n))
    BY <1>5, EarlierFacts
  <2> QED BY <1>6, <2>1, FS_AddElement
<1>8. Order(n) = CurrentOrder(op, i)
  BY <1>5, <1>7 DEF Order, CurrentOrder
<1> QED BY <1>5, <1>8

(* Localities of calls are localities.                                     *)
LEMMA AtFacts == \A i \in CallIdxs : At(i) \subseteq Localities
<1> SUFFICES ASSUME NEW i \in CallIdxs, NEW n \in DOMAIN Calls[i].at
             PROVE  Calls[i].at[n] \in Localities
  BY DEF At
<1>1. Calls[i].at \in Seq(Localities)
  BY CallFacts
<1> QED BY <1>1

-----------------------------------------------------------------------------
(* The types of the serializers.                                           *)
SerializersOK ==
    /\ issued \in 0 .. Len(Calls)
    /\ created \in [Serializers \X Localities -> Nat]
    /\ \A x \in Serializers \X Localities : created[x] <= NrCalls(x[1][1])
    /\ kept \subseteq Serializers \X Localities \X (1 .. Len(Calls))

(* Promises are made for generations that calls have.                      *)
LEMMA PromiseForFacts ==
    ASSUME SerializersOK, NEW i \in CallIdxs, NEW l \in Localities, NEW way \in {"open", "close"}
    PROVE  LET s == <<Calls[i].op, way>>
               made == PromiseFor(s, l, Order(i))
           IN  /\ <<s, l>> \in Serializers \X Localities
               /\ <<s, l, Order(i)>> \in Serializers \X Localities \X (1 .. Len(Calls))
               /\ made \in [Serializers \X Localities -> Nat]
               /\ \A x \in Serializers \X Localities :
                    made[x] <= NrCalls(x[1][1]) /\ made[x] >= created[x]
               /\ made[<<s, l>>] >= Order(i)
<1> DEFINE s == <<Calls[i].op, way>>
           made == PromiseFor(s, l, Order(i))
           D == Serializers \X Localities
<1>1. s \in Serializers /\ <<s, l>> \in D /\ s[1] = Calls[i].op
  BY CallFacts DEF Serializers
<1>2. Order(i) \in 1 .. Len(Calls) /\ Order(i) \in Nat /\ Len(Calls) \in Nat
      /\ Order(i) <= NrCalls(Calls[i].op)
  BY OrderFacts, CallFacts
<1>3. <<s, l, Order(i)>> \in Serializers \X Localities \X (1 .. Len(Calls))
  BY <1>1, <1>2
<1>4. /\ created \in [D -> Nat]
      /\ \A x \in D : created[x] \in Nat /\ created[x] <= NrCalls(x[1][1])
  BY DEF SerializersOK
<1> DEFINE v == IF Order(i) > created[<<s, l>>] THEN Order(i) ELSE created[<<s, l>>]
<1>5. made = [created EXCEPT ![<<s, l>>] = v]
  BY DEF PromiseFor
<1>6. v \in Nat /\ v >= Order(i) /\ v >= created[<<s, l>>] /\ v <= NrCalls(Calls[i].op)
  BY <1>1, <1>2, <1>4
<1> HIDE DEF s, D, v, made
<1>7. made \in [D -> Nat] /\ made[<<s, l>>] = v /\ \A x \in D : x # <<s, l>> => made[x] = created[x]
  BY <1>1, <1>4, <1>5, <1>6
<1>8. ASSUME NEW x \in D PROVE made[x] <= NrCalls(x[1][1]) /\ made[x] >= created[x]
  <2>1. CASE x = <<s, l>>
    <3>1. x[1][1] = Calls[i].op
      BY <1>1, <2>1
    <3> QED BY <1>6, <1>7, <2>1, <3>1
  <2>2. CASE x # <<s, l>>
    BY <1>4, <1>7, <2>2
  <2> QED BY <2>1, <2>2
<1>9. /\ <<s, l>> \in D /\ made[<<s, l>>] >= Order(i)
  BY <1>1, <1>6, <1>7
<1> QED BY <1>3, <1>7, <1>8, <1>9 DEF s, D, made

(* There are no promises at first.                                         *)
LEMMA SerializersInit == Init => SerializersOK
<1> SUFFICES ASSUME Init PROVE SerializersOK
  OBVIOUS
<1>1. ASSUME NEW op PROVE NrCalls(op) \in Nat
  <2>1. IsFiniteSet(CallIdxs)
    BY CallFacts, FS_Interval
  <2>2. {i \in CallIdxs : Calls[i].op = op} \in SUBSET CallIdxs
    OBVIOUS
  <2> QED BY <2>1, <2>2, FS_Subset, FS_CardinalityType DEF NrCalls
<1> QED BY <1>1, CallFacts DEF Init, SerializersOK

(* A step makes promises or keeps some, and takes none back.               *)
LEMMA SerializersNext ==
    ASSUME SerializersOK, [Next]_vars
    PROVE  /\ SerializersOK'
           /\ kept \subseteq kept'
           /\ \A x \in Serializers \X Localities : created'[x] >= created[x]
<1>0. \A x \in Serializers \X Localities : created[x] \in Nat
  BY DEF SerializersOK
<1>1. CASE Call
  BY <1>0, <1>1, CallFacts DEF Call, SerializersOK
<1>2. ASSUME NEW u \in Tasks, Step(u[1], u[2])
      PROVE  /\ SerializersOK'
             /\ kept \subseteq kept'
             /\ \A x \in Serializers \X Localities : created'[x] >= created[x]
  <2>1. u[1] \in CallIdxs /\ u[2] \in Localities
    BY TaskFacts, AtFacts
  <2>2. CASE Spawn(u[1], u[2])
    <3>1. /\ created' = PromiseFor(<<Calls[u[1]].op, "open">>, u[2], Order(u[1]))
          /\ issued' = issued /\ kept' = kept
      BY <2>2 DEF Spawn
    <3>2. /\ created' \in [Serializers \X Localities -> Nat]
          /\ \A x \in Serializers \X Localities :
                created'[x] <= NrCalls(x[1][1]) /\ created'[x] >= created[x]
      BY <2>1, <3>1, PromiseForFacts
    <3> QED BY <3>1, <3>2 DEF SerializersOK
  <2>3. CASE Open(u[1], u[2])
    <3>1. /\ created' = created /\ issued' = issued
          /\ kept' = kept \cup {<< <<Calls[u[1]].op, "open">>, u[2], Order(u[1])>>}
      BY <2>3 DEF Open
    <3>2. << <<Calls[u[1]].op, "open">>, u[2], Order(u[1])>> \in
                Serializers \X Localities \X (1 .. Len(Calls))
      BY <2>1, PromiseForFacts
    <3>3. kept' \subseteq Serializers \X Localities \X (1 .. Len(Calls)) /\ kept \subseteq kept'
      BY <3>1, <3>2 DEF SerializersOK
    <3>4. SerializersOK'
      BY <3>1, <3>3 DEF SerializersOK
    <3> QED BY <1>0, <3>1, <3>3, <3>4
  <2>4. CASE Transfer(u[1], u[2])
    <3>1. /\ created' = PromiseFor(<<Calls[u[1]].op, "close">>, u[2], Order(u[1]))
          /\ issued' = issued /\ kept' = kept
      BY <2>4 DEF Transfer
    <3>2. /\ created' \in [Serializers \X Localities -> Nat]
          /\ \A x \in Serializers \X Localities :
                created'[x] <= NrCalls(x[1][1]) /\ created'[x] >= created[x]
      BY <2>1, <3>1, PromiseForFacts
    <3> QED BY <3>1, <3>2 DEF SerializersOK
  <2>5. CASE Close(u[1], u[2])
    <3>1. /\ created' = created /\ issued' = issued
          /\ kept' = kept \cup {<< <<Calls[u[1]].op, "close">>, u[2], Order(u[1])>>}
      BY <2>5 DEF Close
    <3>2. << <<Calls[u[1]].op, "close">>, u[2], Order(u[1])>> \in
                Serializers \X Localities \X (1 .. Len(Calls))
      BY <2>1, PromiseForFacts
    <3>3. kept' \subseteq Serializers \X Localities \X (1 .. Len(Calls)) /\ kept \subseteq kept'
      BY <3>1, <3>2 DEF SerializersOK
    <3>4. SerializersOK'
      BY <3>1, <3>3 DEF SerializersOK
    <3> QED BY <1>0, <3>1, <3>3, <3>4
  <2> QED BY <1>2, <2>2, <2>3, <2>4, <2>5 DEF Step
<1>3. CASE UNCHANGED vars
  BY <1>0, <1>3 DEF vars, SerializersOK
<1> QED BY <1>1, <1>2, <1>3 DEF Next, Terminated

(* The variables keep their types; no process makes promises for more      *)
(* generations than there are calls.                                       *)
THEOREM TypeCorrect == Spec => []TypeOK
<1> DEFINE I == StageOK /\ SerializersOK
<1>1. Init => I
  BY SerializersInit, InvInit DEF IInv
<1>2. I /\ [Next]_vars => I'
  BY SerializersNext, StepFacts
<1>3. I => TypeOK
  BY DEF StageOK, SerializersOK, TypeOK
<1> QED BY <1>1, <1>2, <1>3, PTL DEF Spec

-----------------------------------------------------------------------------
(* What a task did to the promises of its generation.                      *)
OpenKept ==
    \A t \in Tasks : stage[t] \in {"open", "transferred", "closed"} =>
        << <<Calls[t[1]].op, "open">>, t[2], Order(t[1])>> \in kept

CloseMade ==
    \A t \in Tasks : stage[t] \in {"transferred", "closed"} =>
        Contains(<<Calls[t[1]].op, "close">>, t[2], Order(t[1]))

CloseKept ==
    \A t \in Tasks : stage[t] = "closed" =>
        << <<Calls[t[1]].op, "close">>, t[2], Order(t[1])>> \in kept

PromiseInv == OpenKept /\ CloseMade /\ CloseKept

(* Every locality a call visits was visited by the calls before it.        *)
CallsAreNested == \A i, j \in CallIdxs : j < i => At(i) \subseteq At(j)

(* Tasks have done nothing at first.                                       *)
LEMMA PromiseInit == Init => PromiseInv
<1> SUFFICES ASSUME Init PROVE PromiseInv
  OBVIOUS
<1>1. \A t \in Tasks : stage[t] = "none"
  BY DEF Init
<1> QED BY <1>1 DEF PromiseInv, OpenKept, CloseMade, CloseKept

(* A task makes and keeps the promises of its own generation.              *)
LEMMA PromiseNext ==
    ASSUME StageOK, SerializersOK, PromiseInv, [Next]_vars
    PROVE  PromiseInv'
<1>0. /\ kept \subseteq kept'
      /\ \A x \in Serializers \X Localities :
            created'[x] >= created[x] /\ created[x] \in Nat /\ created'[x] \in Nat
  BY SerializersNext DEF SerializersOK
<1>1. ASSUME NEW t \in Tasks
      PROVE  /\ <<t[1], t[2]>> = t /\ t[1] \in CallIdxs /\ t[2] \in Localities
             /\ Order(t[1]) \in Nat
             /\ \A way \in {"open", "close"} :
                    << <<Calls[t[1]].op, way>>, t[2]>> \in Serializers \X Localities
  BY TaskFacts, AtFacts, OrderFacts, CallFacts DEF Serializers
<1>2. ASSUME NEW t \in Tasks, stage'[t] = stage[t]
      PROVE  /\ stage'[t] \in {"open", "transferred", "closed"} =>
                    << <<Calls[t[1]].op, "open">>, t[2], Order(t[1])>> \in kept'
             /\ stage'[t] \in {"transferred", "closed"} =>
                    Contains(<<Calls[t[1]].op, "close">>, t[2], Order(t[1]))'
             /\ stage'[t] = "closed" =>
                    << <<Calls[t[1]].op, "close">>, t[2], Order(t[1])>> \in kept'
  <2>1. Contains(<<Calls[t[1]].op, "close">>, t[2], Order(t[1])) =>
            Contains(<<Calls[t[1]].op, "close">>, t[2], Order(t[1]))'
    <3> DEFINE x == << <<Calls[t[1]].op, "close">>, t[2]>>
    <3>1. created'[x] >= created[x] /\ created[x] \in Nat /\ created'[x] \in Nat
      <4>1. x \in Serializers \X Localities
        BY <1>1
      <4> HIDE DEF x
      <4> QED BY <1>0, <4>1
    <3>2. Order(t[1]) <= created[x] => Order(t[1]) <= created'[x]
      <4>1. Order(t[1]) \in Nat
        BY <1>1
      <4> HIDE DEF x
      <4> QED BY <3>1, <4>1
    <3> QED BY <3>2, Zenon DEF Contains
  <2> QED BY <1>0, <1>2, <2>1 DEF PromiseInv, OpenKept, CloseMade, CloseKept
<1>3. ASSUME NEW u \in Tasks, Step(u[1], u[2])
      PROVE  /\ \A t \in Tasks : t # u => stage'[t] = stage[t]
             /\ stage'[u] \in {"open", "transferred", "closed"} =>
                    << <<Calls[u[1]].op, "open">>, u[2], Order(u[1])>> \in kept'
             /\ stage'[u] \in {"transferred", "closed"} =>
                    Contains(<<Calls[u[1]].op, "close">>, u[2], Order(u[1]))'
             /\ stage'[u] = "closed" =>
                    << <<Calls[u[1]].op, "close">>, u[2], Order(u[1])>> \in kept'
  <2>0. <<u[1], u[2]>> = u
    BY <1>1
  <2>1. CASE Spawn(u[1], u[2])
    BY <2>0, <2>1 DEF Spawn, StageOK
  <2>2. CASE Open(u[1], u[2])
    BY <2>0, <2>2 DEF Open, StageOK
  <2>3. CASE Transfer(u[1], u[2])
    <3>1. /\ stage' = [stage EXCEPT ![u] = "transferred"] /\ stage[u] = "open" /\ kept' = kept
          /\ created' = PromiseFor(<<Calls[u[1]].op, "close">>, u[2], Order(u[1]))
      BY <2>0, <2>3 DEF Transfer
    <3>2. created'[<< <<Calls[u[1]].op, "close">>, u[2]>>] >= Order(u[1])
      BY <1>1, <3>1, PromiseForFacts
    <3>3. Contains(<<Calls[u[1]].op, "close">>, u[2], Order(u[1]))'
      BY <1>0, <1>1, <3>2 DEF Contains
    <3>4. stage'[u] = "transferred" /\ \A t \in Tasks : t # u => stage'[t] = stage[t]
      BY <3>1 DEF StageOK
    <3> QED BY <3>1, <3>3, <3>4 DEF PromiseInv, OpenKept
  <2>4. CASE Close(u[1], u[2])
    <3>1. /\ stage' = [stage EXCEPT ![u] = "closed"] /\ stage[u] = "transferred" /\ created' = created
          /\ kept' = kept \cup {<< <<Calls[u[1]].op, "close">>, u[2], Order(u[1])>>}
      BY <2>0, <2>4 DEF Close
    <3>2. Contains(<<Calls[u[1]].op, "close">>, u[2], Order(u[1]))'
      BY <3>1 DEF PromiseInv, CloseMade, Contains
    <3>3. \A t \in Tasks : t # u => stage'[t] = stage[t]
      BY <3>1 DEF StageOK
    <3> QED BY <3>1, <3>2, <3>3 DEF PromiseInv, OpenKept
  <2> QED BY <1>3, <2>1, <2>2, <2>3, <2>4 DEF Step
<1>4. CASE UNCHANGED stage
  BY <1>2, <1>4 DEF PromiseInv, OpenKept, CloseMade, CloseKept
<1>5. ASSUME NEW u \in Tasks, Step(u[1], u[2]) PROVE PromiseInv'
  BY <1>2, <1>3, <1>5 DEF PromiseInv, OpenKept, CloseMade, CloseKept
<1> QED BY <1>4, <1>5 DEF Next, Call, Terminated, vars

(* When a task has started, its locality has closed the dataset for as     *)
(* many calls of any operation as came before, and opened it before.       *)
LEMMA EarlierAreDone ==
    ASSUME CallsAreNested, OneCallAtATime, PromiseInv, NEW t \in Tasks, Started(t),
           NEW op \in {"from", "to"}
    PROVE  LET before == CurrentOrder(op, t[1])
           IN  /\ before > 0 => Contains(<<op, "close">>, t[2], before)
               /\ Done(<<op, "close">>, t[2], before)
               /\ Done(<<op, "open">>, t[2], before)
<1>0. t[1] \in CallIdxs /\ t[2] \in At(t[1])
  BY TaskFacts
<1>1. CurrentOrder(op, t[1]) \in Nat
  BY <1>0, EarlierFacts
<1>2. CASE CurrentOrder(op, t[1]) = 0
  BY <1>2 DEF Done
<1>3. CASE CurrentOrder(op, t[1]) # 0
  <2>1. PICK j \in CallIdxs : j < t[1] /\ Calls[j].op = op /\ Order(j) = CurrentOrder(op, t[1])
    BY <1>0, <1>3, LastHasOrder
  <2>2. t[2] \in At(j) /\ Finished(j)
    BY <1>0, <2>1 DEF CallsAreNested, OneCallAtATime
  <2> DEFINE u == <<j, t[2]>>
  <2>3. u \in Tasks /\ u[1] = j /\ u[2] = t[2] /\ stage[u] = "closed"
    BY <2>2, TaskFacts DEF Finished
  <2>4. /\ << <<op, "close">>, t[2], Order(j)>> \in kept
        /\ << <<op, "open">>, t[2], Order(j)>> \in kept
        /\ Contains(<<op, "close">>, t[2], Order(j))
    <3> HIDE DEF u
    <3> QED BY <2>1, <2>3 DEF PromiseInv, OpenKept, CloseMade, CloseKept
  <2> QED BY <2>1, <2>4 DEF Done
<1> QED BY <1>2, <1>3

(* The assertions of the tasks hold, for programs in which every locality  *)
(* a call visits was visited by the calls before it: a task for a variable *)
(* property need not wait to close the dataset, because the call before it *)
(* has.                                                                    *)
THEOREM AssertionsAlwaysHold ==
    ASSUME ~ThreadSafe, CallsAreNested PROVE Spec => []AssertionsHold
<1> DEFINE I == IInv /\ SerializersOK /\ PromiseInv
<1>1. Init => I
  BY InvInit, SerializersInit, PromiseInit
<1>2. I /\ [Next]_vars => I'
  BY InvNext, SerializersNext, PromiseNext DEF IInv
<1>3. ASSUME I PROVE SpawnAssertions
  <2> SUFFICES ASSUME NEW t \in Tasks, stage[t] = "spawned"
               PROVE  LET i == t[1]
                          before(op) == CurrentOrder(op, i)
                          closed(op) == /\ before(op) > 0 => Contains(<<op, "close">>, t[2], before(op))
                                        /\ Done(<<op, "close">>, t[2], before(op))
                      IN  /\ closed("to") /\ closed("from")
                          /\ Calls[i].op = "from" => PredecessorDone(<<"from", "open">>, t[2], Order(i))
    BY DEF SpawnAssertions
  <2>1. Started(t) /\ OneCallAtATime /\ PromiseInv
    BY <1>3 DEF Started, IInv
  <2>2. t[1] \in CallIdxs
    BY TaskFacts
  <2>3. Calls[t[1]].op = "from" => Order(t[1]) - 1 = CurrentOrder("from", t[1])
    BY <2>2, OrderFacts, EarlierFacts
  <2> QED BY <2>1, <2>3, EarlierAreDone DEF PredecessorDone
<1>4. ASSUME I PROVE CloseAssertion
  <2> SUFFICES ASSUME NEW t \in Tasks, stage[t] = "transferred"
               PROVE  PredecessorDone(<<Calls[t[1]].op, "close">>, t[2], Order(t[1]))
    BY DEF CloseAssertion
  <2>1. Started(t) /\ OneCallAtATime /\ PromiseInv
    BY <1>4 DEF Started, IInv
  <2>2. t[1] \in CallIdxs /\ Calls[t[1]].op \in {"from", "to"}
    BY TaskFacts, CallFacts
  <2>3. Order(t[1]) - 1 = CurrentOrder(Calls[t[1]].op, t[1])
    BY <2>2, OrderFacts, EarlierFacts
  <2> QED BY <2>1, <2>2, <2>3, EarlierAreDone DEF PredecessorDone
<1>5. I => AssertionsHold
  BY <1>3, <1>4 DEF AssertionsHold
<1> QED BY <1>1, <1>2, <1>5, PTL DEF Spec
=============================================================================
