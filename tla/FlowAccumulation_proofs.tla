----------------------- MODULE FlowAccumulation_proofs -----------------------
(***************************************************************************)
(* Proofs about FlowAccumulation, for every finite array of cells and      *)
(* every network on it, the ones with cycles included.                     *)
(*                                                                         *)
(* The inductive invariant is Inv.  TypeOK is not inductive alone: that a  *)
(* count stays a natural number when it is decremented follows from        *)
(* CountExact, and that a cell without outstanding inflow has all its      *)
(* upstream cells delivered is what makes UpstreamFirst inductive.  That   *)
(* material is conserved needs NoDataExact as well: the cells a sum is     *)
(* taken over have data.                                                   *)
(***************************************************************************)
EXTENDS FlowAccumulation, FiniteSetTheorems, WellFoundedInduction, TLAPS

Inv == TypeOK /\ IsNetwork /\ CountExact /\ UpstreamFirst

-----------------------------------------------------------------------------
(* Sets of cells are finite, so that they can be counted.                  *)
LEMMA SubsetOfCells ==
    ASSUME NEW S \in SUBSET Cells
    PROVE  IsFiniteSet(S) /\ Cardinality(S) \in Nat
BY CellsAssumption, FS_Subset, FS_CardinalityType

(* Adding material gives material.                                         *)
LEMMA AddMaterialType ==
    ASSUME NEW a \in Nat \cup {NoData}, NEW b \in Nat \cup {NoData}
    PROVE  /\ AddMaterial(a, b) \in Nat \cup {NoData}
           /\ AddMaterial(a, b) = NoData <=> a = NoData \/ b = NoData
BY MaterialsAssumption DEF AddMaterial

(* A fraction of at most one takes at most everything.                     *)
LEMMA FractionBounded ==
    ASSUME NEW total \in Nat, NEW b \in 0 .. Whole
    PROVE  (b * total) \div Whole \in 0 .. total
<1>1. Whole \in Nat /\ Whole > 0
  BY FunctorsAssumption
<1>2. b * total \in Nat /\ b * total <= Whole * total
  BY <1>1
<1>3. (b * total) \div Whole \in Nat /\ Whole * ((b * total) \div Whole) <= b * total
  BY <1>1, <1>2
<1>4. ASSUME NEW q \in Nat, Whole * q <= Whole * total PROVE q <= total
  <2> SUFFICES ASSUME q >= total + 1 PROVE FALSE
    OBVIOUS
  <2>1. Whole * q >= Whole * (total + 1)
    BY <1>1
  <2>2. Whole * (total + 1) = Whole * total + Whole
    BY <1>1
  <2> QED BY <1>1, <1>4, <2>1, <2>2
<1>5. Whole * ((b * total) \div Whole) <= Whole * total
  BY <1>1, <1>2, <1>3
<1> QED BY <1>3, <1>4, <1>5

(* Every functor splits an amount into two that together are that amount:  *)
(* no material is lost or made in a cell, whatever its argument.           *)
THEOREM SplitConserves ==
    ASSUME functor \in Functors, NEW total \in Nat, NEW b,
           functor # "accu" => b \in Nat,
           functor = "fraction" => b <= Whole
    PROVE  /\ SplitOf(total, b).outflow \in Nat /\ SplitOf(total, b).remainder \in Nat
           /\ SplitOf(total, b).outflow + SplitOf(total, b).remainder = total
<1>1. functor \in {"accu", "threshold", "trigger", "capacity", "fraction"}
  BY FunctorsAssumption
<1>2. CASE functor \in {"accu", "threshold", "trigger", "capacity"}
  BY <1>2 DEF SplitOf, SplitThreshold, SplitTrigger, SplitCapacity
<1>3. CASE functor = "fraction"
  <2>1. (b * total) \div Whole \in 0 .. total
    BY <1>3, FractionBounded, FunctorsAssumption
  <2> QED BY <1>3, <2>1 DEF SplitOf, SplitFraction
<1> QED BY <1>1, <1>2, <1>3

(* Entering a cell gives material, or none if it or an argument has none.  *)
LEMMA SplitType ==
    ASSUME TypeOK, NEW c \in Cells
    PROVE  /\ Outflow(c) \in Nat \cup {NoData} /\ Remainder(c) \in Nat \cup {NoData}
           /\ Outflow(c) = NoData <=> outflow[c] = NoData \/ Lacks(c)
           /\ Remainder(c) = NoData <=> outflow[c] = NoData \/ Lacks(c)
<1>1. outflow[c] \in Nat \cup {NoData} /\ external[c] \in Nat \cup {NoData}
      /\ bound[c] \in Nat \cup {NoData} /\ functor \in Functors
  BY DEF TypeOK
<1>2. CASE outflow[c] = NoData \/ Lacks(c)
  BY <1>2 DEF Outflow, Remainder, Split
<1>3. CASE outflow[c] # NoData /\ ~Lacks(c)
  <2>1. outflow[c] + external[c] \in Nat
    BY <1>1, <1>3 DEF Lacks
  <2>2. /\ functor # "accu" => bound[c] \in Nat
        /\ functor = "fraction" => bound[c] <= Whole
    BY <1>1, <1>3, FunctorsAssumption DEF Lacks
  <2>3. /\ SplitOf(outflow[c] + external[c], bound[c]).outflow \in Nat
        /\ SplitOf(outflow[c] + external[c], bound[c]).remainder \in Nat
    BY <1>1, <2>1, <2>2, SplitConserves
  <2>4. Split(c) = SplitOf(outflow[c] + external[c], bound[c])
    BY <1>3 DEF Split
  <2> QED BY <1>3, <2>3, <2>4, MaterialsAssumption DEF Outflow, Remainder
<1> QED BY <1>2, <1>3

(* Delivering a cell takes one off the awaited cells of the cell           *)
(* downstream, which are not none, and leaves those of other cells alone.  *)
LEMMA DeliverOne ==
    ASSUME NEW c \in Cells, c \notin delivered, NEW d \in Cells
    PROVE  /\ down[c] = d => /\ Cardinality(Upstream(d) \ (delivered \cup {c})) =
                                    Cardinality(Upstream(d) \ delivered) - 1
                             /\ Cardinality(Upstream(d) \ delivered) # 0
           /\ down[c] # d => Upstream(d) \ (delivered \cup {c}) = Upstream(d) \ delivered
<1>1. ASSUME NEW S, S = Upstream(d) \ delivered, down[c] = d
      PROVE  Cardinality(S \ {c}) = Cardinality(S) - 1 /\ Cardinality(S) # 0
  <2>1. S \in SUBSET Cells /\ c \in S
    BY <1>1 DEF Upstream
  <2>2. IsFiniteSet(S)
    BY <2>1, SubsetOfCells
  <2>3. S # {}
    BY <2>1
  <2> QED BY <2>1, <2>2, <2>3, FS_RemoveElement, FS_EmptySet
<1>2. Upstream(d) \ (delivered \cup {c}) = (Upstream(d) \ delivered) \ {c}
  OBVIOUS
<1>3. down[c] # d => Upstream(d) \ (delivered \cup {c}) = Upstream(d) \ delivered
  BY DEF Upstream
<1> QED BY <1>1, <1>2, <1>3

(* A cell that is ready has received everything from upstream.             *)
LEMMA ReadyHasAll ==
    ASSUME TypeOK, CountExact, NEW c \in Cells, Ready(c)
    PROVE  Upstream(c) \subseteq delivered
<1>1. Cardinality(Upstream(c) \ delivered) = 0
  BY DEF CountExact, Ready
<1>2. Upstream(c) \ delivered \in SUBSET Cells
  BY DEF Upstream
<1>3. IsFiniteSet(Upstream(c) \ delivered)
  BY <1>2, SubsetOfCells
<1>4. Upstream(c) \ delivered = {}
  BY <1>1, <1>3, FS_EmptySet
<1> QED BY <1>4

-----------------------------------------------------------------------------
(* Nothing is delivered at the start, and all cells upstream are counted.  *)
LEMMA InitInv == Init => Inv
<1> SUFFICES ASSUME Init PROVE Inv
  OBVIOUS
<1> USE DEF Init
<1>1. \A c \in Cells : Upstream(c) \ delivered = Upstream(c) /\ Upstream(c) \in SUBSET Cells
  BY DEF Upstream
<1>2. \A c \in Cells : Cardinality(Upstream(c)) \in Nat
  BY <1>1, SubsetOfCells
<1>3. TypeOK
  <2>1. bound \in [Cells -> Nat \cup {NoData}]
    BY FunctorsAssumption
  <2> QED BY <1>2, <2>1, MaterialsAssumption DEF TypeOK
<1>4. CountExact
  BY <1>1 DEF CountExact
<1>5. UpstreamFirst
  BY DEF UpstreamFirst
<1> QED BY <1>3, <1>4, <1>5 DEF Inv

(* Each step counts the cells it delivers, and enters cells that are ready.*)
LEMMA NextInv == Inv /\ [Next]_vars => Inv'
<1> SUFFICES ASSUME Inv, [Next]_vars PROVE Inv'
  OBVIOUS
<1> USE DEF Inv
<1>1. ASSUME NEW c \in Cells, Stop(c) PROVE Inv'
  <2> USE <1>1 DEF Stop, inputs
  <2>1. Outflow(c) \in Nat \cup {NoData} /\ Remainder(c) \in Nat \cup {NoData}
    BY SplitType
  <2>2. TypeOK'
    BY <2>1 DEF TypeOK, Ready
  <2>3. IsNetwork'
    BY DEF IsNetwork
  <2>4. CountExact'
    BY DEF CountExact, Upstream
  <2>5. UpstreamFirst'
    BY ReadyHasAll DEF UpstreamFirst, Upstream
  <2> QED BY <2>2, <2>3, <2>4, <2>5
<1>2. ASSUME NEW c \in Cells, Pass(c) PROVE Inv'
  <2> USE <1>2 DEF Pass, inputs
  <2>0. down[c] \in Cells /\ c \notin delivered /\ c \in valid
    BY DEF TypeOK, Ready
  <2>1. Outflow(c) \in Nat \cup {NoData} /\ Remainder(c) \in Nat \cup {NoData}
    BY SplitType
  <2>2. AddMaterial(outflow[down[c]], Outflow(c)) \in Nat \cup {NoData}
    BY <2>0, <2>1, AddMaterialType DEF TypeOK
  <2>a. AddMaterial(Outflow(c), Outflow(c)) \in Nat \cup {NoData}
    BY <2>1, AddMaterialType
  <2>3. outflow' \in [Cells -> Nat \cup {NoData}]
    BY <2>0, <2>1, <2>2, <2>a DEF TypeOK
  <2>b. remainder' \in [Cells -> Nat \cup {NoData}]
    BY <2>0, <2>1 DEF TypeOK, MarkRemainder
  <2>4. \A d \in Cells : (Upstream(d) \ delivered)' = Upstream(d) \ (delivered \cup {c})
    BY DEF Upstream
  <2>5. CountExact' /\ inflowCount' \in [Cells -> Nat]
    <3> SUFFICES ASSUME NEW d \in Cells
                 PROVE  /\ inflowCount'[d] = Cardinality(Upstream(d) \ (delivered \cup {c}))
                        /\ inflowCount'[d] \in Nat
      BY <2>4 DEF CountExact, TypeOK
    <3>1. inflowCount[d] = Cardinality(Upstream(d) \ delivered) /\ inflowCount[d] \in Nat
      BY DEF CountExact, TypeOK
    <3>2. CASE down[c] = d
      <4>1. inflowCount'[d] = inflowCount[d] - 1
        BY <3>2 DEF TypeOK
      <4>2. /\ Cardinality(Upstream(d) \ (delivered \cup {c})) = inflowCount[d] - 1
            /\ inflowCount[d] # 0
        BY <2>0, <3>1, <3>2, DeliverOne
      <4> QED BY <3>1, <4>1, <4>2
    <3>3. CASE down[c] # d
      <4>1. inflowCount'[d] = inflowCount[d]
        BY <3>3, <2>0 DEF TypeOK
      <4>2. Upstream(d) \ (delivered \cup {c}) = Upstream(d) \ delivered
        BY <2>0, <3>3, DeliverOne
      <4> QED BY <3>1, <4>1, <4>2
    <3> QED BY <3>2, <3>3
  <2>6. TypeOK'
    BY <2>0, <2>3, <2>b, <2>5 DEF TypeOK
  <2>7. IsNetwork'
    BY DEF IsNetwork
  <2>8. UpstreamFirst'
    BY ReadyHasAll DEF UpstreamFirst, Upstream
  <2> QED BY <2>5, <2>6, <2>7, <2>8
<1>3. ASSUME NEW c \in Cells, Arrive(c) PROVE Inv'
  <2> USE <1>3 DEF Arrive, inputs
  <2>0. down[c] \in Cells /\ c \notin delivered
    BY DEF TypeOK
  <2>1. AddMaterial(outflow[down[c]], outflow[c]) \in Nat \cup {NoData}
    BY <2>0, AddMaterialType DEF TypeOK
  <2>2. outflow' \in [Cells -> Nat \cup {NoData}]
    BY <2>0, <2>1 DEF TypeOK
  <2>a. remainder' \in [Cells -> Nat \cup {NoData}]
    BY <2>0 DEF TypeOK, MarkRemainder
  <2>3. \A d \in Cells : (Upstream(d) \ delivered)' = Upstream(d) \ (delivered \cup {c})
    BY DEF Upstream
  <2>4. CountExact' /\ inflowCount' \in [Cells -> Nat]
    <3> SUFFICES ASSUME NEW d \in Cells
                 PROVE  /\ inflowCount'[d] = Cardinality(Upstream(d) \ (delivered \cup {c}))
                        /\ inflowCount'[d] \in Nat
      BY <2>3 DEF CountExact, TypeOK
    <3>1. inflowCount[d] = Cardinality(Upstream(d) \ delivered) /\ inflowCount[d] \in Nat
      BY DEF CountExact, TypeOK
    <3>2. CASE down[c] = d
      <4>1. inflowCount'[d] = inflowCount[d] - 1
        BY <3>2 DEF TypeOK
      <4>2. /\ Cardinality(Upstream(d) \ (delivered \cup {c})) = inflowCount[d] - 1
            /\ inflowCount[d] # 0
        BY <2>0, <3>1, <3>2, DeliverOne
      <4> QED BY <3>1, <4>1, <4>2
    <3>3. CASE down[c] # d
      <4>1. inflowCount'[d] = inflowCount[d]
        BY <3>3, <2>0 DEF TypeOK
      <4>2. Upstream(d) \ (delivered \cup {c}) = Upstream(d) \ delivered
        BY <2>0, <3>3, DeliverOne
      <4> QED BY <3>1, <4>1, <4>2
    <3> QED BY <3>2, <3>3
  <2>5. TypeOK'
    BY <2>0, <2>2, <2>a, <2>4 DEF TypeOK
  <2>6. IsNetwork'
    BY DEF IsNetwork
  <2>7. UpstreamFirst'
    BY DEF UpstreamFirst, Upstream
  <2> QED BY <2>4, <2>5, <2>6, <2>7
<1>4. CASE UNCHANGED vars
  BY <1>4 DEF vars, inputs, TypeOK, IsNetwork, CountExact, UpstreamFirst, Upstream
<1> QED BY <1>1, <1>2, <1>3, <1>4 DEF Next

(* So the invariant always holds.                                          *)
LEMMA AlwaysInv == Spec => []Inv
BY InitInv, NextInv, PTL DEF Spec

(* The variables keep their types; in particular no count goes below zero. *)
THEOREM TypeCorrect == Spec => []TypeOK
<1>1. Inv => TypeOK
  BY DEF Inv
<1> QED BY <1>1, AlwaysInv, PTL

(* Counting down is exact, whether a stream passes on or a message comes.  *)
THEOREM CountsAreExact == Spec => []CountExact
<1>1. Inv => CountExact
  BY DEF Inv
<1> QED BY <1>1, AlwaysInv, PTL

(* A cell is entered after all cells upstream have delivered.              *)
THEOREM UpstreamComesFirst == Spec => []UpstreamFirst
<1>1. Inv => UpstreamFirst
  BY DEF Inv
<1> QED BY <1>1, AlwaysInv, PTL

(* The outflow of a cell that was entered never changes.                   *)
THEOREM SolvedStaysFinal == Spec => SolvedIsFinal
<1> DEFINE Final == \A c \in solved : c \in solved' /\ outflow'[c] = outflow[c]
<1>1. ASSUME Inv, [Next]_vars PROVE [Final]_vars
  <2> USE <1>1 DEF Inv
  <2>1. ASSUME NEW c \in Cells, Stop(c) PROVE Final
    BY <2>1 DEF Stop, Ready, TypeOK
  <2>2. ASSUME NEW c \in Cells, Pass(c) PROVE Final
    <3>1. c \notin solved /\ c \notin delivered /\ c \in Upstream(down[c])
      BY <2>2 DEF Pass, Ready, TypeOK, Upstream
    <3>2. down[c] \notin solved
      BY <3>1 DEF UpstreamFirst
    <3> QED BY <2>2, <3>1, <3>2 DEF Pass, TypeOK
  <2>3. ASSUME NEW c \in Cells, Arrive(c) PROVE Final
    <3>1. c \notin delivered /\ c \in Upstream(down[c])
      BY <2>3 DEF Arrive, Upstream
    <3>2. down[c] \notin solved
      BY <3>1 DEF UpstreamFirst
    <3> QED BY <2>3, <3>2 DEF Arrive, TypeOK
  <2> QED BY <2>1, <2>2, <2>3 DEF Next
<1> QED BY <1>1, AlwaysInv, PTL DEF Spec, SolvedIsFinal

(* Where a cell delivers to, nothing was entered yet.                      *)
LEMMA DownstreamNotSolved ==
    ASSUME Inv, NEW c \in Cells, c \notin delivered, down[c] # NoCell
    PROVE  down[c] \in valid /\ down[c] \notin solved /\ down[c] \notin delivered
BY DEF Inv, TypeOK, IsNetwork, UpstreamFirst, Upstream

(* The two parts of NoDataExact.                                           *)
NoDataSource ==
    \A c \in valid :
        outflow[c] = NoData <=>
            \/ c \in solved /\ Lacks(c)
            \/ \E u \in Upstream(c) \cap delivered : outflow[u] = NoData

NoDataTogether == \A c \in valid : outflow[c] = NoData <=> remainder[c] = NoData

(* They are its parts.                                                     *)
LEMMA NoDataParts == NoDataExact <=> NoDataSource /\ NoDataTogether
BY DEF NoDataExact, NoDataSource, NoDataTogether

(* Cells with a flow direction have data at the start.                     *)
LEMMA InitNoData == Init => NoDataSource /\ NoDataTogether
BY MaterialsAssumption DEF Init, NoDataSource, NoDataTogether

(* Outflow and remainder are marked together, by entering a cell and by    *)
(* what flows into one.                                                    *)
LEMMA NextTogether == Inv /\ NoDataTogether /\ [Next]_vars => NoDataTogether'
<1> SUFFICES ASSUME Inv, NoDataTogether, [Next]_vars, NEW d \in valid'
             PROVE  (outflow[d] = NoData <=> remainder[d] = NoData)'
  BY DEF NoDataTogether
<1>0. /\ outflow \in [Cells -> Nat \cup {NoData}] /\ remainder \in [Cells -> Nat \cup {NoData}]
      /\ valid \subseteq Cells /\ solved \subseteq valid /\ delivered \subseteq solved /\ TypeOK
      /\ d \in valid => (outflow[d] = NoData <=> remainder[d] = NoData)
  BY DEF NoDataTogether, Inv, TypeOK
<1>1. ASSUME NEW c \in Cells, Stop(c) PROVE (outflow[d] = NoData <=> remainder[d] = NoData)'
  <2>1. d \in valid
    BY <1>1 DEF Stop, inputs
  <2>2. Outflow(c) = NoData <=> Remainder(c) = NoData
    BY <1>0, SplitType
  <2> QED BY <1>0, <1>1, <2>1, <2>2 DEF Stop
<1>2. ASSUME NEW c \in Cells, Pass(c) PROVE (outflow[d] = NoData <=> remainder[d] = NoData)'
  <2>1. c \notin solved /\ c \notin delivered /\ d \in valid
    BY <1>0, <1>2 DEF Pass, Ready, inputs
  <2>2. down[c] \in valid
    BY <1>2, <2>1, DownstreamNotSolved DEF Pass
  <2>3. down[c] # c
    BY <1>2, <2>1, ReadyHasAll DEF Pass, Upstream, Inv
  <2>4. Outflow(c) \in Nat \cup {NoData} /\ (Outflow(c) = NoData <=> Remainder(c) = NoData)
    BY <1>0, SplitType
  <2>5. CASE d = c
    BY <1>0, <1>2, <2>2, <2>3, <2>4, <2>5 DEF Pass
  <2>6. CASE d = down[c]
    <3>1. outflow'[d] = AddMaterial(outflow[d], Outflow(c))
      BY <1>0, <1>2, <2>2, <2>3, <2>6 DEF Pass
    <3>2. remainder'[d] = MarkRemainder(remainder[d], Outflow(c))
      BY <1>0, <1>2, <2>2, <2>3, <2>6 DEF Pass
    <3>3. AddMaterial(outflow[d], Outflow(c)) = NoData <=> outflow[d] = NoData \/ Outflow(c) = NoData
      BY <1>0, <2>1, <2>4, AddMaterialType
    <3> QED BY <1>0, <2>1, <3>1, <3>2, <3>3 DEF MarkRemainder
  <2>7. CASE d # c /\ d # down[c]
    BY <1>0, <1>2, <2>1, <2>7 DEF Pass
  <2> QED BY <2>5, <2>6, <2>7
<1>3. ASSUME NEW c \in Cells, Arrive(c) PROVE (outflow[d] = NoData <=> remainder[d] = NoData)'
  <2>1. d \in valid /\ down[c] \in valid
    BY <1>3, DownstreamNotSolved DEF Arrive, inputs
  <2>2. CASE d = down[c]
    <3>1. /\ outflow'[d] = AddMaterial(outflow[d], outflow[c])
          /\ remainder'[d] = MarkRemainder(remainder[d], outflow[c])
      BY <1>0, <1>3, <2>1, <2>2 DEF Arrive
    <3>2. AddMaterial(outflow[d], outflow[c]) = NoData <=> outflow[d] = NoData \/ outflow[c] = NoData
      BY <1>0, <2>1, AddMaterialType
    <3> QED BY <1>0, <2>1, <3>1, <3>2 DEF MarkRemainder
  <2>3. CASE d # down[c]
    BY <1>0, <1>3, <2>1, <2>3 DEF Arrive
  <2> QED BY <2>2, <2>3
<1>4. CASE UNCHANGED vars
  BY <1>0, <1>4 DEF vars
<1> QED BY <1>1, <1>2, <1>3, <1>4 DEF Next

(* What a cell that lacks data delivers, marks the cell downstream.        *)
LEMMA NextNoData == Inv /\ NoDataSource /\ [Next]_vars => NoDataSource'
<1> SUFFICES ASSUME Inv, NoDataSource, [Next]_vars, NEW d \in valid'
             PROVE  (outflow[d] = NoData <=>
                        \/ d \in solved /\ Lacks(d)
                        \/ \E u \in Upstream(d) \cap delivered : outflow[u] = NoData)'
  BY DEF NoDataSource
<1> DEFINE Lacking == \E u \in Upstream(d) \cap delivered : outflow[u] = NoData
<1>0. /\ d \in valid => (outflow[d] = NoData <=> (d \in solved /\ Lacks(d)) \/ Lacking)
      /\ outflow \in [Cells -> Nat \cup {NoData}] /\ TypeOK
      /\ valid \subseteq Cells /\ solved \subseteq valid /\ delivered \subseteq solved
  BY DEF NoDataSource, Inv, TypeOK
<1>1. ASSUME NEW c \in Cells, Stop(c) PROVE (outflow[d] = NoData <=>
                        \/ d \in solved /\ Lacks(d)
                        \/ \E u \in Upstream(d) \cap delivered : outflow[u] = NoData)'
  <2>1. c \notin solved /\ c \notin delivered /\ d \in valid
    BY <1>0, <1>1 DEF Stop, Ready, inputs
  <2>2. Lacking' <=> Lacking
    BY <1>0, <1>1, <2>1 DEF Stop, Upstream, inputs
  <2>3. outflow'[c] = NoData <=> outflow[c] = NoData \/ Lacks(c)
    BY <1>0, <1>1, SplitType DEF Stop
  <2>4. Lacks(d)' <=> Lacks(d)
    BY <1>1 DEF Stop, inputs, Lacks
  <2> QED BY <1>0, <1>1, <2>1, <2>2, <2>3, <2>4 DEF Stop
<1>2. ASSUME NEW c \in Cells, Pass(c) PROVE (outflow[d] = NoData <=>
                        \/ d \in solved /\ Lacks(d)
                        \/ \E u \in Upstream(d) \cap delivered : outflow[u] = NoData)'
  <2>1. c \notin solved /\ c \notin delivered /\ d \in valid
    BY <1>0, <1>2 DEF Pass, Ready, inputs
  <2>2. down[c] \in valid /\ down[c] \notin solved /\ down[c] \notin delivered
    BY <1>2, <2>1, DownstreamNotSolved DEF Pass
  <2>3. down[c] # c
    BY <1>2, <2>1, ReadyHasAll DEF Pass, Upstream, Inv
  <2>4. Outflow(c) \in Nat \cup {NoData} /\
        (Outflow(c) = NoData <=> outflow[c] = NoData \/ Lacks(c))
    BY <1>0, SplitType
  <2>5. outflow'[c] = Outflow(c)
    BY <1>0, <1>2, <2>2, <2>3 DEF Pass
  <2>6. outflow'[down[c]] = NoData <=> outflow[down[c]] = NoData \/ Outflow(c) = NoData
    BY <1>0, <1>2, <2>2, <2>3, <2>4, AddMaterialType DEF Pass
  <2>7. \A x \in Cells : x # c /\ x # down[c] => outflow'[x] = outflow[x]
    BY <1>0, <1>2 DEF Pass
  <2>8. Lacking' <=> Lacking \/ (down[c] = d /\ Outflow(c) = NoData)
    BY <1>0, <1>2, <2>1, <2>2, <2>5, <2>7 DEF Pass, Upstream, inputs
  <2>9. solved' = solved \cup {c} /\ (Lacks(d)' <=> Lacks(d))
    BY <1>2 DEF Pass, inputs, Lacks
  <2>10. CASE d = c
    <3>1. Lacking' <=> Lacking
      BY <2>3, <2>8, <2>10
    <3> QED BY <1>0, <2>1, <2>4, <2>5, <2>9, <2>10, <3>1
  <2>11. CASE d = down[c]
    BY <1>0, <2>1, <2>2, <2>3, <2>6, <2>8, <2>9, <2>11
  <2>12. CASE d # c /\ d # down[c]
    BY <1>0, <2>1, <2>7, <2>8, <2>9, <2>12
  <2> QED BY <2>10, <2>11, <2>12
<1>3. ASSUME NEW c \in Cells, Arrive(c) PROVE (outflow[d] = NoData <=>
                        \/ d \in solved /\ Lacks(d)
                        \/ \E u \in Upstream(d) \cap delivered : outflow[u] = NoData)'
  <2>1. c \notin delivered /\ d \in valid
    BY <1>3 DEF Arrive, inputs
  <2>2. down[c] \in valid /\ down[c] \notin solved /\ down[c] \notin delivered
    BY <1>3, <2>1, DownstreamNotSolved DEF Arrive
  <2>3. down[c] # c
    BY <1>3, <2>2 DEF Arrive
  <2>4. outflow'[down[c]] = NoData <=> outflow[down[c]] = NoData \/ outflow[c] = NoData
    BY <1>0, <1>3, <2>2, AddMaterialType DEF Arrive
  <2>5. \A x \in Cells : x # down[c] => outflow'[x] = outflow[x]
    BY <1>0, <1>3 DEF Arrive
  <2>6. Lacking' <=> Lacking \/ (down[c] = d /\ outflow[c] = NoData)
    BY <1>0, <1>3, <2>1, <2>2, <2>3, <2>5 DEF Arrive, Upstream, inputs
  <2>7. solved' = solved /\ (Lacks(d)' <=> Lacks(d))
    BY <1>3 DEF Arrive, inputs, Lacks
  <2>8. CASE d = down[c]
    BY <1>0, <2>1, <2>2, <2>4, <2>6, <2>7, <2>8
  <2>9. CASE d # down[c]
    BY <1>0, <2>1, <2>5, <2>6, <2>7, <2>9
  <2> QED BY <2>8, <2>9
<1>4. CASE UNCHANGED vars
  BY <1>0, <1>4 DEF vars, Lacks, Upstream
<1> QED BY <1>1, <1>2, <1>3, <1>4 DEF Next

(* A cell lacks data exactly when something that came into it does.        *)
THEOREM NoDataIsExact == Spec => []NoDataExact
BY InitNoData, NextNoData, NextTogether, NoDataParts, AlwaysInv, PTL DEF Spec

-----------------------------------------------------------------------------
(* The sum that MaterialConserved takes.  It is a recursion over subsets,  *)
(* which is reasoned about with one of the smallest sets at which a claim  *)
(* would not hold.                                                         *)

(* What f adds up to over a set of cells.                                  *)
SumOf(f, S) == MapThenSumSet(LAMBDA u : f[u], S)

(* The cell that is taken first.                                           *)
Pick(S) == CHOOSE x \in S : TRUE

(* What f adds up to over each subset of S, by recursion over the subsets. *)
IsSum(g, f, S) ==
    g = [s \in SUBSET S |-> IF s = {} THEN 0 ELSE f[Pick(s)] + g[s \ {Pick(s)}]]

(* f and e are the same on T.                                              *)
Agree(f, e, T) == \A x \in T : f[x] = e[x]

(* Among finite sets there is one that contains none of the others.        *)
LEMMA SmallestSet ==
    ASSUME NEW T, T # {}, \A S \in T : IsFiniteSet(S)
    PROVE  \E S \in T : \A U \in T : ~(U \subseteq S /\ U # S)
<1> DEFINE A == UNION T
           R == StrictSubsetOrdering(A)
<1>1. IsWellFoundedOn(R, FiniteSubsetsOf(A))
  BY FS_StrictSubsetOrderingWellFounded
<1>2. T \subseteq FiniteSubsetsOf(A)
  BY DEF FiniteSubsetsOf
<1>3. \A U, S \in T : U \subseteq S /\ U # S => <<U, S>> \in R
  BY DEF StrictSubsetOrdering
<1> HIDE DEF R, A
<1>4. \E S \in T : \A U \in T : ~(<<U, S>> \in R)
  BY <1>1, <1>2, WFMin, Zenon
<1> QED BY <1>3, <1>4

(* The sums over a part of a set, and of another function that is the same *)
(* there.                                                                  *)
LEMMA SumUnique ==
    ASSUME NEW S, NEW T, T \subseteq S, IsFiniteSet(T), NEW f, NEW e, Agree(f, e, T),
           NEW g, NEW h, IsSum(g, f, S), IsSum(h, e, T)
    PROVE  \A s \in SUBSET T : g[s] = h[s]
<1> DEFINE Bad == {s \in SUBSET T : g[s] # h[s]}
<1> SUFFICES ASSUME Bad # {} PROVE FALSE
  OBVIOUS
<1>1. PICK s \in Bad : \A u \in Bad : ~(u \subseteq s /\ u # s)
  <2>1. \A u \in Bad : IsFiniteSet(u)
    BY FS_Subset
  <2> HIDE DEF Bad
  <2> QED BY <2>1, SmallestSet
<1>2. s \in SUBSET T /\ s \in SUBSET S /\ g[s] # h[s]
  BY <1>1
<1>3. /\ g[s] = IF s = {} THEN 0 ELSE f[Pick(s)] + g[s \ {Pick(s)}]
      /\ h[s] = IF s = {} THEN 0 ELSE e[Pick(s)] + h[s \ {Pick(s)}]
  BY <1>2 DEF IsSum
<1>4. s # {} /\ Pick(s) \in s
  BY <1>2, <1>3 DEF Pick
<1>5. s \ {Pick(s)} \in SUBSET T /\ s \ {Pick(s)} \notin Bad
  BY <1>1, <1>2, <1>4
<1>6. g[s \ {Pick(s)}] = h[s \ {Pick(s)}] /\ f[Pick(s)] = e[Pick(s)]
  BY <1>2, <1>4, <1>5 DEF Agree
<1> QED BY <1>2, <1>3, <1>4, <1>6

(* The recursion over subsets has a solution.                              *)
LEMMA SumExists ==
    ASSUME NEW S, IsFiniteSet(S), NEW f
    PROVE  \E g : IsSum(g, f, S)
<1> DEFINE P(U) == \E g : IsSum(g, f, U)
           T == {U \in SUBSET S : ~P(U)}
<1> SUFFICES ASSUME T # {} PROVE FALSE
  OBVIOUS
<1>1. PICK U \in T : \A V \in T : ~(V \subseteq U /\ V # U)
  <2>1. \A V \in T : IsFiniteSet(V)
    BY FS_Subset
  <2> HIDE DEF T
  <2> QED BY <2>1, SmallestSet
<1> DEFINE F(V) == CHOOSE g : IsSum(g, f, V)
           G(V) == F(V)[V]
           Next_(s) == f[Pick(s)] + G(s \ {Pick(s)})
<1>2. ASSUME NEW V \in SUBSET U, V # U PROVE IsSum(F(V), f, V) /\ IsFiniteSet(V)
  <2>1. V \in SUBSET S /\ V \notin T
    BY <1>1, <1>2
  <2> QED BY <2>1, FS_Subset
<1>3. ASSUME NEW V \in SUBSET U, V # U PROVE G(V) = IF V = {} THEN 0 ELSE Next_(V)
  <2>1. G(V) = IF V = {} THEN 0 ELSE f[Pick(V)] + F(V)[V \ {Pick(V)}]
    <3>1. IsSum(F(V), f, V)
      BY <1>2, <1>3
    <3> HIDE DEF F
    <3> QED BY <3>1 DEF IsSum
  <2>2. CASE V # {}
    <3> DEFINE W == V \ {Pick(V)}
    <3>1. Pick(V) \in V
      BY <2>2 DEF Pick
    <3>2. W \in SUBSET U /\ W # U /\ W \subseteq V
      BY <1>3, <3>1
    <3>3. IsSum(F(V), f, V) /\ IsSum(F(W), f, W) /\ IsFiniteSet(W)
      <4> HIDE DEF W, F
      <4> QED BY <1>2, <1>3, <3>2
    <3>4. F(V)[W] = F(W)[W]
      <4> HIDE DEF W, F
      <4>1. Agree(f, f, W)
        BY DEF Agree
      <4> QED BY <3>2, <3>3, <4>1, SumUnique
    <3> QED BY <2>1, <2>2, <3>4
  <2> QED BY <2>1, <2>2
<1> HIDE DEF F, G
<1> DEFINE h == [s \in SUBSET U |-> IF s = {} THEN 0 ELSE Next_(s)]
<1>4. ASSUME NEW s \in SUBSET U, s # {}
      PROVE  h[s] = f[Pick(s)] + h[s \ {Pick(s)}]
  <2> DEFINE W == s \ {Pick(s)}
  <2>1. Pick(s) \in s
    BY <1>4 DEF Pick
  <2>2. W \in SUBSET U /\ W # U
    BY <2>1
  <2>3. h[W] = IF W = {} THEN 0 ELSE Next_(W)
    BY <2>2
  <2>4. G(W) = IF W = {} THEN 0 ELSE Next_(W)
    BY <1>3, <2>2
  <2>5. h[s] = Next_(s)
    BY <1>4
  <2> HIDE DEF h
  <2> QED BY <2>3, <2>4, <2>5
<1>5. IsSum(h, f, U)
  <2>1. h = [s \in SUBSET U |-> h[s]]
    OBVIOUS
  <2>2. ASSUME NEW s \in SUBSET U PROVE h[s] = IF s = {} THEN 0 ELSE f[Pick(s)] + h[s \ {Pick(s)}]
    <3>1. CASE s = {}
      BY <3>1
    <3>2. CASE s # {}
      BY <1>4, <3>2
    <3> QED BY <3>1, <3>2
  <2> HIDE DEF h
  <2> QED BY <2>1, <2>2, Zenon DEF IsSum
<1> QED BY <1>1, <1>5

(* It is the sum of the community modules.                                 *)
LEMMA SumIs ==
    ASSUME NEW S, IsFiniteSet(S), NEW f, NEW g, IsSum(g, f, S)
    PROVE  SumOf(f, S) = g[S]
<1> DEFINE h == CHOOSE iter : iter = [s \in SUBSET S |-> IF s = {} THEN 0
                    ELSE LET x == CHOOSE y \in s : TRUE IN f[x] + iter[s \ {x}]]
<1>1. SumOf(f, S) = h[S]
  BY Zenon DEF SumOf, MapThenSumSet, MapThenFoldSet
<1>2. IsSum(h, f, S)
  BY Zenon DEF IsSum, Pick
<1> HIDE DEF h
<1>3. g[S] = h[S]
  <2>1. Agree(f, f, S)
    BY DEF Agree
  <2> QED BY <1>2, <2>1, SumUnique
<1> QED BY <1>1, <1>3

(* A sum may take any cell first.                                          *)
LEMMA SumSwaps ==
    ASSUME NEW S, IsFiniteSet(S), NEW f, \A x \in S : f[x] \in Nat,
           NEW g, IsSum(g, f, S)
    PROVE  /\ \A s \in SUBSET S : g[s] \in Nat
           /\ \A s \in SUBSET S : \A x \in s : g[s] = f[x] + g[s \ {x}]
<1> DEFINE Good(s) == g[s] \in Nat /\ \A x \in s : g[s] = f[x] + g[s \ {x}]
           Bad == {s \in SUBSET S : ~Good(s)}
<1> SUFFICES ASSUME Bad # {} PROVE FALSE
  OBVIOUS
<1>1. PICK s \in Bad : \A u \in Bad : ~(u \subseteq s /\ u # s)
  <2>1. \A u \in Bad : IsFiniteSet(u)
    BY FS_Subset
  <2> HIDE DEF Bad
  <2> QED BY <2>1, SmallestSet
<1>2. s \in SUBSET S /\ ~Good(s)
  BY <1>1
<1>3. ASSUME NEW u \in SUBSET s, u # s PROVE Good(u)
  <2>1. u \in SUBSET S /\ u \notin Bad
    BY <1>1, <1>2, <1>3
  <2> HIDE DEF Good
  <2> QED BY <2>1
<1>4. g[s] = IF s = {} THEN 0 ELSE f[Pick(s)] + g[s \ {Pick(s)}]
  BY <1>2 DEF IsSum
<1>5. s # {}
  BY <1>2, <1>4
<1> DEFINE y == Pick(s)
           r == s \ {y}
<1>6. y \in s /\ r \in SUBSET s /\ r # s
  BY <1>5 DEF Pick
<1> HIDE DEF y
<1>7. g[s] = f[y] + g[r] /\ f[y] \in Nat /\ Good(r)
  <2> HIDE DEF Good
  <2> QED BY <1>2, <1>3, <1>4, <1>5, <1>6 DEF y
<1>8. g[s] \in Nat
  BY <1>7
<1>9. ASSUME NEW x \in s PROVE g[s] = f[x] + g[s \ {x}]
  <2>1. CASE x = y
    BY <1>7, <2>1
  <2>2. CASE x # y
    <3> DEFINE t == s \ {x}
               w == r \ {x}
    <3>1. x \in r /\ y \in t /\ w = t \ {y} /\ t \in SUBSET s /\ t # s /\ w \in SUBSET s /\ w # s
      BY <1>6, <2>2
    <3>2. Good(t) /\ Good(w)
      <4> HIDE DEF Good, t, w
      <4> QED BY <1>3, <3>1
    <3>3. g[r] = f[x] + g[w]
      BY <1>7, <3>1
    <3>4. g[t] = f[y] + g[w]
      BY <3>1, <3>2
    <3>5. f[x] \in Nat /\ g[w] \in Nat
      BY <1>2, <3>2
    <3> HIDE DEF t, w, r
    <3> QED BY <1>7, <3>3, <3>4, <3>5 DEF t
  <2> QED BY <2>1, <2>2
<1> QED BY <1>2, <1>8, <1>9

(* No cells, no material.                                                  *)
LEMMA SumEmpty ==
    ASSUME NEW f
    PROVE  SumOf(f, {}) = 0
<1>1. PICK g : IsSum(g, f, {})
  BY SumExists, FS_EmptySet
<1>2. SumOf(f, {}) = g[{}]
  BY <1>1, SumIs, FS_EmptySet, Zenon
<1> QED BY <1>1, <1>2 DEF IsSum

(* Only the cells added up matter.                                         *)
LEMMA SumSame ==
    ASSUME NEW S, IsFiniteSet(S), NEW f, NEW e, Agree(f, e, S)
    PROVE  SumOf(f, S) = SumOf(e, S)
<1>1. PICK g : IsSum(g, f, S)
  BY SumExists
<1>2. PICK h : IsSum(h, e, S)
  BY SumExists
<1>3. SumOf(f, S) = g[S] /\ SumOf(e, S) = h[S]
  BY <1>1, <1>2, SumIs, Zenon
<1>4. \A s \in SUBSET S : g[s] = h[s]
  BY <1>1, <1>2, SumUnique
<1> QED BY <1>3, <1>4

(* One cell more is added up.                                              *)
LEMMA SumAdd ==
    ASSUME NEW S, IsFiniteSet(S), NEW x, x \notin S, NEW f, \A y \in S \cup {x} : f[y] \in Nat
    PROVE  SumOf(f, S) \in Nat /\ SumOf(f, S \cup {x}) = SumOf(f, S) + f[x]
<1> DEFINE T == S \cup {x}
<1>0. IsFiniteSet(T) /\ S \in SUBSET T /\ T \in SUBSET T /\ T \ {x} = S /\ x \in T
  BY FS_AddElement
<1>5. \A y \in T : f[y] \in Nat
  OBVIOUS
<1> HIDE DEF T
<1>1. PICK g : IsSum(g, f, T)
  BY <1>0, SumExists
<1>2. PICK h : IsSum(h, f, S)
  BY SumExists
<1>3. SumOf(f, T) = g[T] /\ SumOf(f, S) = h[S]
  BY <1>0, <1>1, <1>2, SumIs, Zenon
<1>4. g[S] = h[S]
  <2>1. S \subseteq T /\ Agree(f, f, S)
    BY <1>0 DEF Agree
  <2>2. \A s \in SUBSET S : g[s] = h[s]
    BY <1>1, <1>2, <2>1, SumUnique
  <2> QED BY <2>2
<1>6. g[T] = f[x] + g[S] /\ g[S] \in Nat /\ f[x] \in Nat
  BY <1>0, <1>1, <1>5, SumSwaps
<1> QED BY <1>3, <1>4, <1>6 DEF T

-----------------------------------------------------------------------------
(* The cells that delivered to a cell, and what MaterialConserved says of  *)
(* one cell.                                                               *)
Arrived(c) == Upstream(c) \cap delivered

Conserved(c) ==
    outflow[c] # NoData =>
        IF c \in solved THEN outflow[c] + remainder[c] = SumOf(outflow, Arrived(c)) + external[c]
        ELSE outflow[c] = SumOf(outflow, Arrived(c)) /\ remainder[c] = 0

(* It is what MaterialConserved says, with the sum named.                  *)
LEMMA ConservedParts == MaterialConserved <=> \A c \in valid : Conserved(c)
BY Zenon DEF MaterialConserved, Conserved, Arrived, SumOf

(* The cells that delivered are cells, and have material if the cell they  *)
(* delivered to does.                                                      *)
LEMMA ArrivedFacts ==
    ASSUME TypeOK, NoDataSource, NEW c \in valid
    PROVE  /\ Arrived(c) \subseteq Cells /\ IsFiniteSet(Arrived(c))
           /\ outflow[c] # NoData => \A u \in Arrived(c) : outflow[u] \in Nat
<1>1. Arrived(c) \in SUBSET Cells
  BY DEF Arrived, Upstream
<1>2. outflow[c] # NoData => \A u \in Arrived(c) : outflow[u] \in Nat
  BY <1>1 DEF NoDataSource, Arrived, TypeOK
<1> QED BY <1>1, <1>2, SubsetOfCells

(* What was delivered to a cell stays what it was.                         *)
LEMMA InflowStays ==
    ASSUME TypeOK, NoDataSource, NEW d \in valid, Arrived(d)' = Arrived(d),
           \A u \in Arrived(d) : outflow'[u] = outflow[u]
    PROVE  SumOf(outflow', Arrived(d)') = SumOf(outflow, Arrived(d))
<1>1. Agree(outflow', outflow, Arrived(d))
  BY DEF Agree
<1> QED BY <1>1, ArrivedFacts, SumSame

(* Nothing happens to a cell.                                              *)
LEMMA ConservedStays ==
    ASSUME TypeOK, NoDataSource, UNCHANGED inputs, NEW d \in valid, Conserved(d),
           d \in solved' <=> d \in solved,
           outflow'[d] = outflow[d], remainder'[d] = remainder[d],
           Arrived(d)' = Arrived(d), \A u \in Arrived(d) : outflow'[u] = outflow[u]
    PROVE  Conserved(d)'
BY InflowStays DEF Conserved, inputs

(* A cell is entered.                                                      *)
LEMMA ConservedEnters ==
    ASSUME TypeOK, NoDataSource, UNCHANGED inputs, NEW c \in valid, Conserved(c),
           c \notin solved, c \in solved',
           outflow'[c] = Outflow(c), remainder'[c] = Remainder(c),
           Arrived(c)' = Arrived(c), \A u \in Arrived(c) : outflow'[u] = outflow[u]
    PROVE  Conserved(c)'
<1> SUFFICES ASSUME Outflow(c) # NoData
             PROVE  Outflow(c) + Remainder(c) = SumOf(outflow, Arrived(c)) + external[c]
  BY InflowStays DEF Conserved, inputs
<1>1. c \in Cells /\ outflow[c] \in Nat \cup {NoData} /\ external[c] \in Nat \cup {NoData}
      /\ bound[c] \in Nat \cup {NoData} /\ functor \in Functors
  BY DEF TypeOK
<1>2. outflow[c] # NoData /\ ~Lacks(c)
  BY <1>1, SplitType
<1>3. outflow[c] + external[c] \in Nat
  BY <1>1, <1>2 DEF Lacks
<1>4. /\ functor # "accu" => bound[c] \in Nat
      /\ functor = "fraction" => bound[c] <= Whole
  BY <1>1, <1>2, FunctorsAssumption DEF Lacks
<1>5. Outflow(c) + Remainder(c) = outflow[c] + external[c]
  BY <1>1, <1>2, <1>3, <1>4, SplitConserves DEF Outflow, Remainder, Split
<1> QED BY <1>2, <1>5 DEF Conserved

(* A cell delivers an amount to the cell downstream.                       *)
LEMMA ConservedArrives ==
    ASSUME TypeOK, NoDataSource, UNCHANGED inputs, NEW d \in valid, Conserved(d),
           d \notin solved, d \notin solved', NEW c \in Cells, c \notin Arrived(d),
           outflow'[c] \in Nat \cup {NoData},
           outflow'[d] = AddMaterial(outflow[d], outflow'[c]),
           remainder'[d] = MarkRemainder(remainder[d], outflow'[c]),
           Arrived(d)' = Arrived(d) \cup {c}, \A u \in Arrived(d) : outflow'[u] = outflow[u]
    PROVE  Conserved(d)'
<1> SUFFICES ASSUME outflow'[d] # NoData
             PROVE  outflow'[d] = SumOf(outflow', Arrived(d)') /\ remainder'[d] = 0
  BY DEF Conserved
<1>1. outflow[d] \in Nat /\ outflow'[c] \in Nat
  BY DEF AddMaterial, TypeOK
<1>2. outflow'[d] = outflow[d] + outflow'[c] /\ remainder'[d] = remainder[d]
  BY <1>1, MaterialsAssumption DEF AddMaterial, MarkRemainder
<1>3. outflow[d] = SumOf(outflow, Arrived(d)) /\ remainder[d] = 0
  BY <1>1, MaterialsAssumption DEF Conserved
<1>4. IsFiniteSet(Arrived(d)) /\ \A u \in Arrived(d) : outflow[u] \in Nat
  BY <1>1, ArrivedFacts, MaterialsAssumption
<1>5. SumOf(outflow', Arrived(d)) = SumOf(outflow, Arrived(d))
  <2>1. Agree(outflow', outflow, Arrived(d))
    BY DEF Agree
  <2> QED BY <1>4, <2>1, SumSame
<1>6. SumOf(outflow', Arrived(d) \cup {c}) = SumOf(outflow', Arrived(d)) + outflow'[c]
  <2>1. \A u \in Arrived(d) \cup {c} : outflow'[u] \in Nat
    BY <1>1, <1>4
  <2> QED BY <1>4, <2>1, SumAdd
<1> QED BY <1>1, <1>2, <1>3, <1>5, <1>6

(* All cells with a flow direction have what came in.                      *)
AllConserved == \A c \in valid : Conserved(c)

(* Nothing has come in at the start.                                       *)
LEMMA InitConserved == Init => AllConserved
<1> SUFFICES ASSUME Init, NEW c \in valid PROVE Conserved(c)
  BY DEF AllConserved
<1>1. Arrived(c) = {} /\ c \notin solved /\ outflow[c] = 0 /\ remainder[c] = 0
  BY DEF Init, Arrived
<1> QED BY <1>1, SumEmpty DEF Conserved

(* A step enters a cell, or delivers to the cell downstream, or both.      *)
LEMMA NextConserved == Inv /\ NoDataSource /\ AllConserved /\ [Next]_vars => AllConserved'
<1> SUFFICES ASSUME Inv, NoDataSource, AllConserved, [Next]_vars, NEW d \in valid'
             PROVE  Conserved(d)'
  BY DEF AllConserved
<1>0. /\ TypeOK /\ outflow \in [Cells -> Nat \cup {NoData}]
      /\ remainder \in [Cells -> Nat \cup {NoData}]
      /\ valid \subseteq Cells /\ solved \subseteq valid /\ delivered \subseteq solved
      /\ d \in valid => d \in Cells /\ Conserved(d)
  BY DEF Inv, TypeOK, AllConserved
<1>1. ASSUME NEW c \in Cells, Stop(c) PROVE Conserved(d)'
  <2>1. UNCHANGED inputs /\ d \in valid /\ c \in valid /\ c \notin solved /\ c \notin delivered
    BY <1>0, <1>1 DEF Stop, Ready, inputs
  <2>2. Arrived(d)' = Arrived(d) /\ \A u \in Arrived(d) : u # c /\ u \in Cells
    BY <1>1, <2>1 DEF Stop, Arrived, Upstream, inputs
  <2>3. \A u \in Arrived(d) : outflow'[u] = outflow[u]
    BY <1>0, <1>1, <2>2 DEF Stop
  <2>4. CASE d = c
    <3>1. outflow'[d] = Outflow(d) /\ remainder'[d] = Remainder(d) /\ d \in solved'
      BY <1>0, <1>1, <2>4 DEF Stop
    <3> QED BY <1>0, <2>1, <2>2, <2>3, <2>4, <3>1, ConservedEnters
  <2>5. CASE d # c
    <3>1. outflow'[d] = outflow[d] /\ remainder'[d] = remainder[d] /\ (d \in solved' <=> d \in solved)
      BY <1>0, <1>1, <2>1, <2>5 DEF Stop
    <3> QED BY <1>0, <2>1, <2>2, <2>3, <3>1, ConservedStays
  <2> QED BY <2>4, <2>5
<1>2. ASSUME NEW c \in Cells, Pass(c) PROVE Conserved(d)'
  <2>1. UNCHANGED inputs /\ d \in valid /\ c \in valid /\ c \notin solved /\ c \notin delivered
    BY <1>0, <1>2 DEF Pass, Ready, inputs
  <2>2. down[c] \in valid /\ down[c] \notin solved /\ down[c] \notin delivered
    BY <1>2, <2>1, DownstreamNotSolved DEF Pass
  <2>3. down[c] # c
    BY <1>2, <2>1, ReadyHasAll DEF Pass, Upstream, Inv
  <2>4. /\ Arrived(d)' = IF d = down[c] THEN Arrived(d) \cup {c} ELSE Arrived(d)
        /\ c \notin Arrived(d) /\ down[c] \notin Arrived(d) /\ Arrived(d) \subseteq Cells
    BY <1>2, <2>1, <2>2 DEF Pass, Arrived, Upstream, inputs
  <2>5. \A u \in Cells : u # c /\ u # down[c] =>
            outflow'[u] = outflow[u] /\ remainder'[u] = remainder[u]
    BY <1>0, <1>2 DEF Pass
  <2>6. outflow'[c] = Outflow(c) /\ remainder'[c] = Remainder(c)
    BY <1>0, <1>2, <2>2, <2>3 DEF Pass
  <2>7. /\ outflow'[down[c]] = AddMaterial(outflow[down[c]], outflow'[c])
        /\ remainder'[down[c]] = MarkRemainder(remainder[down[c]], outflow'[c])
    BY <1>0, <1>2, <2>2, <2>3, <2>6 DEF Pass
  <2>8. \A u \in Arrived(d) : outflow'[u] = outflow[u]
    BY <2>4, <2>5
  <2>9. solved' = solved \cup {c}
    BY <1>2 DEF Pass
  <2>10. CASE d = c
    BY <1>0, <2>1, <2>3, <2>4, <2>6, <2>8, <2>9, <2>10, ConservedEnters
  <2>11. CASE d = down[c]
    <3>1. outflow'[c] \in Nat \cup {NoData}
      BY <1>0, <2>6, SplitType
    <3>2. /\ d \notin solved /\ d \notin solved' /\ c \notin Arrived(d)
          /\ Arrived(d)' = Arrived(d) \cup {c}
      BY <2>2, <2>3, <2>4, <2>9, <2>11
    <3>3. /\ outflow'[d] = AddMaterial(outflow[d], outflow'[c])
          /\ remainder'[d] = MarkRemainder(remainder[d], outflow'[c])
      BY <2>7, <2>11
    <3> QED BY <1>0, <2>1, <2>8, <3>1, <3>2, <3>3, ConservedArrives
  <2>12. CASE d # c /\ d # down[c]
    <3>1. /\ outflow'[d] = outflow[d] /\ remainder'[d] = remainder[d]
          /\ d \in solved' <=> d \in solved
          /\ Arrived(d)' = Arrived(d)
      BY <1>0, <2>1, <2>4, <2>5, <2>9, <2>12
    <3> QED BY <1>0, <2>1, <2>8, <3>1, ConservedStays
  <2> QED BY <2>10, <2>11, <2>12
<1>3. ASSUME NEW c \in Cells, Arrive(c) PROVE Conserved(d)'
  <2>1. UNCHANGED inputs /\ d \in valid /\ c \in solved /\ c \notin delivered /\ solved' = solved
    BY <1>3 DEF Arrive, inputs
  <2>2. down[c] \in valid /\ down[c] \notin solved /\ down[c] \notin delivered
    BY <1>3, <2>1, DownstreamNotSolved DEF Arrive
  <2>3. down[c] # c
    BY <2>1, <2>2
  <2>4. /\ Arrived(d)' = IF d = down[c] THEN Arrived(d) \cup {c} ELSE Arrived(d)
        /\ c \notin Arrived(d) /\ down[c] \notin Arrived(d) /\ Arrived(d) \subseteq Cells
    BY <1>3, <2>1, <2>2 DEF Arrive, Arrived, Upstream, inputs
  <2>5. \A u \in Cells : u # down[c] =>
            outflow'[u] = outflow[u] /\ remainder'[u] = remainder[u]
    BY <1>0, <1>3 DEF Arrive
  <2>6. /\ outflow'[down[c]] = AddMaterial(outflow[down[c]], outflow'[c])
        /\ remainder'[down[c]] = MarkRemainder(remainder[down[c]], outflow'[c])
    BY <1>0, <1>3, <2>2, <2>3, <2>5 DEF Arrive
  <2>7. \A u \in Arrived(d) : outflow'[u] = outflow[u]
    BY <2>4, <2>5
  <2>8. CASE d = down[c]
    <3>1. outflow'[c] \in Nat \cup {NoData}
      BY <1>0, <2>3, <2>5
    <3>2. /\ d \notin solved /\ d \notin solved' /\ c \notin Arrived(d)
          /\ Arrived(d)' = Arrived(d) \cup {c}
      BY <2>1, <2>2, <2>4, <2>8
    <3>3. /\ outflow'[d] = AddMaterial(outflow[d], outflow'[c])
          /\ remainder'[d] = MarkRemainder(remainder[d], outflow'[c])
      BY <2>6, <2>8
    <3> QED BY <1>0, <2>1, <2>7, <3>1, <3>2, <3>3, ConservedArrives
  <2>9. CASE d # down[c]
    <3>1. /\ outflow'[d] = outflow[d] /\ remainder'[d] = remainder[d]
          /\ d \in solved' <=> d \in solved
          /\ Arrived(d)' = Arrived(d)
      BY <1>0, <2>1, <2>4, <2>5, <2>9
    <3> QED BY <1>0, <2>1, <2>7, <3>1, ConservedStays
  <2> QED BY <2>8, <2>9
<1>4. CASE UNCHANGED vars
  <2>1. /\ UNCHANGED <<inputs, outflow, remainder, solved, delivered>>
        /\ d \in valid
    BY <1>4 DEF vars, inputs
  <2>2. Arrived(d)' = Arrived(d)
    BY <2>1 DEF Arrived, Upstream, inputs
  <2> QED BY <1>0, <2>1, <2>2, ConservedStays
<1> QED BY <1>1, <1>2, <1>3, <1>4 DEF Next

(* No material is lost or made anywhere in the network: what a cell passes *)
(* on and keeps is what came in, from outside and from every cell upstream *)
(* that delivered, in whatever order streams and messages got there.       *)
THEOREM MaterialIsConserved == Spec => []MaterialConserved
<1>1. AllConserved => MaterialConserved
  BY ConservedParts DEF AllConserved
<1> QED BY <1>1, InitNoData, NextNoData, InitConserved, NextConserved, AlwaysInv, PTL DEF Spec
=============================================================================
