--------------------- MODULE MCAccumulatingRouterColumn ---------------------
(***************************************************************************)
(* A partition that is one column wide, as every partition of an array of  *)
(* one column is: its west and east sides are the same cells, and so are   *)
(* the corners at its ends.                                                *)
(***************************************************************************)
EXTENDS AccumulatingRouter

MCRowExtents == <<3>>
MCColExtents == <<1>>

MCFlowFields == {FieldOf(<< <<"south">>, <<"south">>, <<"sink">> >>)}

MCExternalInflows == {[c \in Cells |-> 1]}
=============================================================================
