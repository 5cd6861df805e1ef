-------------------------- MODULE FlowAccumulation --------------------------
(***************************************************************************)
(* What the accumulating router promises, with the partitions, the tasks   *)
(* and the messages left out: material is routed over a network of cells,  *)
(* each of which flows into at most one other cell.  A cell is entered     *)
(* once, when the material of every cell upstream is in; its outflow is    *)
(* handed to the cell downstream either at once or at some later time.     *)
(*                                                                         *)
(* The functor of an operation decides how much of the material that comes *)
(* into a cell flows out of it, and what remains.                          *)
(***************************************************************************)
EXTENDS Integers, FiniteSets, FiniteSetsExt

CONSTANTS
    Cells,      \* the cells of the array
    NoCell,     \* where a cell flows to that flows nowhere
    NoData,     \* the value that marks a cell without data
    Materials,  \* the values of the external inflow
    Functors,   \* the functors: all of them, or some
    BoundFields,    \* the values of the argument of a functor, per cell
    Whole       \* the value of that argument that stands for a fraction of one

ASSUME CellsAssumption == IsFiniteSet(Cells) /\ NoCell \notin Cells
ASSUME MaterialsAssumption == Materials \subseteq Nat \cup {NoData} /\ NoData \notin Nat
ASSUME FunctorsAssumption ==
    /\ Functors \subseteq {"accu", "threshold", "trigger", "capacity", "fraction"}
    /\ BoundFields \subseteq [Cells -> Nat \cup {NoData}]
    /\ Whole \in Nat \ {0}

VARIABLES
    down,           \* the cell each cell flows into
    external,       \* the external inflow of each cell
    functor,        \* the functor of the operation
    bound,          \* its argument for each cell: a threshold, trigger, capacity or fraction
    valid,          \* the cells that have a flow direction
    inflowCount,    \* per cell: the number of upstream cells awaited
    outflow,        \* per cell: the material gathered so far, or what flows out of it
    remainder,      \* per cell: the material that stays there
    solved,         \* the cells that were entered
    delivered       \* the cells whose outflow reached the cell downstream

inputs == <<down, external, functor, bound, valid>>
vars ==
    <<down, external, functor, bound, valid, inflowCount, outflow, remainder, solved, delivered>>

Upstream(c) == {x \in Cells : down[x] = c}

AddMaterialSkip(inflow, value) ==   \* a mutant: material without data is left out
    IF value = NoData THEN inflow
    ELSE IF inflow = NoData THEN NoData ELSE inflow + value

AddMaterial(inflow, value) ==
    IF inflow = NoData \/ value = NoData THEN NoData ELSE inflow + value

(* A cell lacks an argument if it has no data or is not in the domain.     *)
Lacks(c) ==
    \/ external[c] = NoData
    \/ functor # "accu" /\ bound[c] = NoData
    \/ functor = "fraction" /\ bound[c] > Whole

SplitCapacityCapped(total, b) ==    \* a mutant: what remains is computed from the capped outflow
    LET outflow_ == IF total > b THEN b ELSE total
    IN  [outflow |-> outflow_, remainder |-> IF outflow_ > b THEN outflow_ - b ELSE 0]

(* How the functors split the final, total amount of inflow.  A fraction   *)
(* is taken of a number of units: what the division drops stays behind.    *)
SplitThreshold(total, b) ==
    IF total > b THEN [outflow |-> total - b, remainder |-> b]
    ELSE [outflow |-> 0, remainder |-> total]

SplitTrigger(total, b) ==
    IF total < b THEN [outflow |-> 0, remainder |-> total]
    ELSE [outflow |-> total, remainder |-> 0]

SplitCapacity(total, b) ==
    IF total > b THEN [outflow |-> b, remainder |-> total - b]
    ELSE [outflow |-> total, remainder |-> 0]

SplitFraction(total, b) ==
    LET delta_flux == (b * total) \div Whole
    IN  [outflow |-> delta_flux, remainder |-> total - delta_flux]

SplitOf(total, b) ==
    CASE functor = "accu" -> [outflow |-> total, remainder |-> 0]
      [] functor = "threshold" -> SplitThreshold(total, b)
      [] functor = "trigger" -> SplitTrigger(total, b)
      [] functor = "capacity" -> SplitCapacity(total, b)
      [] functor = "fraction" -> SplitFraction(total, b)

(* enter_cell.                                                             *)
Split(c) ==
    IF outflow[c] = NoData \/ Lacks(c) THEN [outflow |-> NoData, remainder |-> NoData]
    ELSE SplitOf(outflow[c] + external[c], bound[c])

Outflow(c) == Split(c).outflow

Remainder(c) == Split(c).remainder

(* Material without data marks the remainder of the cell it flows into.    *)
MarkRemainder(rest, value) == IF value = NoData THEN NoData ELSE rest

(* Only cells with a flow direction flow, and only into such cells.        *)
IsNetwork ==
    \A c \in Cells : down[c] # NoCell => c \in valid /\ down[c] \in valid

Init ==
    /\ down \in [Cells -> Cells \cup {NoCell}]
    /\ external \in [Cells -> Materials]
    /\ functor \in Functors
    /\ bound \in IF functor = "accu" THEN [Cells -> {NoData}] ELSE BoundFields
    /\ valid \in SUBSET Cells
    /\ IsNetwork
    /\ inflowCount = [c \in Cells |-> Cardinality(Upstream(c))]
    /\ outflow = [c \in Cells |-> IF c \in valid THEN 0 ELSE NoData]
    /\ remainder = outflow
    /\ solved = {}
    /\ delivered = {}

ReadyAgain(c) == c \in valid /\ inflowCount[c] = 0    \* a mutant: enters a cell twice

ReadyEarly(c) == c \in valid \ solved                 \* a mutant: does not wait for inflow

Ready(c) == c \in valid \ solved /\ inflowCount[c] = 0

(* The stream ends at this cell, or leaves for later delivery.             *)
Stop(c) ==
    /\ Ready(c)
    /\ outflow' = [outflow EXCEPT ![c] = Outflow(c)]
    /\ remainder' = [remainder EXCEPT ![c] = Remainder(c)]
    /\ solved' = solved \cup {c}
    /\ UNCHANGED <<inputs, inflowCount, delivered>>

(* The stream goes on, or joins others, at the cell downstream.            *)
Pass(c) ==
    /\ Ready(c)
    /\ down[c] # NoCell
    /\ outflow' = [outflow EXCEPT ![c] = Outflow(c), ![down[c]] = AddMaterial(@, Outflow(c))]
    /\ remainder' = [remainder EXCEPT ![c] = Remainder(c), ![down[c]] = MarkRemainder(@, Outflow(c))]
    /\ inflowCount' = [inflowCount EXCEPT ![down[c]] = @ - 1]
    /\ solved' = solved \cup {c}
    /\ delivered' = delivered \cup {c}
    /\ UNCHANGED inputs

(* The outflow of a cell that was stopped at arrives.                      *)
Arrive(c) ==
    /\ c \in solved \ delivered
    /\ down[c] # NoCell
    /\ outflow' = [outflow EXCEPT ![down[c]] = AddMaterial(@, outflow[c])]
    /\ remainder' = [remainder EXCEPT ![down[c]] = MarkRemainder(@, outflow[c])]
    /\ inflowCount' = [inflowCount EXCEPT ![down[c]] = @ - 1]
    /\ delivered' = delivered \cup {c}
    /\ UNCHANGED <<inputs, solved>>

Next == \E c \in Cells : Stop(c) \/ Pass(c) \/ Arrive(c)

Spec == Init /\ [][Next]_vars

-----------------------------------------------------------------------------
TypeOK ==
    /\ down \in [Cells -> Cells \cup {NoCell}]
    /\ external \in [Cells -> Nat \cup {NoData}]
    /\ functor \in Functors
    /\ bound \in [Cells -> Nat \cup {NoData}]
    /\ valid \in SUBSET Cells
    /\ inflowCount \in [Cells -> Nat]
    /\ outflow \in [Cells -> Nat \cup {NoData}]
    /\ remainder \in [Cells -> Nat \cup {NoData}]
    /\ solved \in SUBSET valid
    /\ delivered \in SUBSET solved

(* The count kept for a cell is the number of its upstream cells whose     *)
(* material has not come in; it is decremented by streams and by arriving  *)
(* messages alike.                                                         *)
CountExact ==
    \A c \in Cells : inflowCount[c] = Cardinality(Upstream(c) \ delivered)

(* No cell is entered before the material of all cells upstream is in.     *)
UpstreamFirst == \A c \in solved : Upstream(c) \subseteq delivered

(* A cell lacks data exactly because it was entered while an argument      *)
(* lacks data, or because a cell that delivered to it lacks data; and then *)
(* both its outflow and its remainder do (the assertion in enter_cell).    *)
NoDataExact ==
    \A c \in valid :
        /\ outflow[c] = NoData <=>
            \/ c \in solved /\ Lacks(c)
            \/ \E u \in Upstream(c) \cap delivered : outflow[u] = NoData
        /\ outflow[c] = NoData <=> remainder[c] = NoData

(* No material is lost or made: what a cell that was entered passes on and *)
(* keeps is what came in, from outside and from the cells upstream.  One   *)
(* that was not entered holds what was delivered to it so far.             *)
MaterialConserved ==
    \A c \in valid :
        outflow[c] # NoData =>
            LET inflow == MapThenSumSet(LAMBDA u : outflow[u], Upstream(c) \cap delivered)
            IN  IF c \in solved THEN outflow[c] + remainder[c] = inflow + external[c]
                ELSE outflow[c] = inflow /\ remainder[c] = 0

(* Nothing flows into a cell after it was entered: its outflow, which may  *)
(* have been sent on already, is final.                                    *)
SolvedIsFinal ==
    [][\A c \in solved : c \in solved' /\ outflow'[c] = outflow[c]]_vars
=============================================================================
