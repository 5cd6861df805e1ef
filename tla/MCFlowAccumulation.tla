------------------------- MODULE MCFlowAccumulation -------------------------
(***************************************************************************)
(* Every network of a few cells, with and without data at each of them,    *)
(* for every functor.  Inflow of a single cell stays below the bound, and  *)
(* inflow of cells together exceeds it.                                    *)
(***************************************************************************)
EXTENDS FlowAccumulation

MCFunctors == {"accu", "threshold", "trigger", "capacity", "fraction"}

MCMaterials == {2, NoData}

MCBoundFields ==
    LET low == CHOOSE c \in Cells : TRUE
        lacking == CHOOSE c \in Cells \ {low} : TRUE
    IN  {[c \in Cells |-> 1],
         [c \in Cells |-> 3],
         [c \in Cells |-> IF c = low THEN 1 ELSE IF c = lacking THEN NoData ELSE 3]}
=============================================================================
