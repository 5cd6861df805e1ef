-------------------------- MODULE MCFocalOperation --------------------------
(***************************************************************************)
(* Arrays of one up to three partitions along each dimension, whose last   *)
(* partition is regular or enlarged, and kernels that fit in all, some or  *)
(* none of the partitions.                                                 *)
(***************************************************************************)
EXTENDS FocalOperation

MCExtents == {<<3, 3>>, <<5, 2>>, <<7, 3>>, <<10, 3>>}

MCLayouts ==
    {[array |-> <<rows[1], cols[1]>>, partition |-> <<rows[2], cols[2]>>] :
        rows \in MCExtents, cols \in MCExtents \cup {<<5, 5>>, <<3, 1>>, <<11, 5>>}}
=============================================================================
