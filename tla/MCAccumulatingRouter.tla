------------------------ MODULE MCAccumulatingRouter ------------------------
(***************************************************************************)
(* Two partitions of two by two cells, side by side.  Most cells flow in   *)
(* one of a few directions, so that streams go back and forth between the  *)
(* partitions; choices that make no valid network are left out.            *)
(***************************************************************************)
EXTENDS AccumulatingRouter

MCRowExtents == <<2>>
MCColExtents == <<2, 2>>

MCFlowFields ==
    {field \in {FieldOf(<< <<nw1, ne1, nw2, ne2>>, <<sw1, se1, sw2, se2>> >>) :
                    nw1 \in {"south", "east"},
                    ne1 \in {"east", "south_east"},
                    sw1 \in {"east", "no_data"},
                    se1 \in {"east", "north_east", "south"},
                    nw2 \in {"south", "west", "south_west"},
                    ne2 \in {"south", "west"},
                    sw2 \in {"west", "north_west", "sink"},
                    se2 \in {"west", "north"}} :
        IsValidNetwork(field)}

(* Powers of two: a total tells which cells contributed, and how often.    *)
Weights == FieldOf(<< <<1, 2, 4, 8>>, <<16, 32, 64, 128>> >>)

MCExternalInflows ==
    {Weights, [Weights EXCEPT ![<< <<0, 1>>, <<0, 1>> >>] = NoData]}
=============================================================================
