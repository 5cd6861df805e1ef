---------------------- MODULE MCAccumulatingRouterGrid ----------------------
(***************************************************************************)
(* Four partitions that meet in a corner: streams cross sides and corners. *)
(* The last partition of a row or column is enlarged, as it is when the    *)
(* partition shape does not fit the array; its sides have cells that are   *)
(* no corner.                                                              *)
(***************************************************************************)
EXTENDS AccumulatingRouter

MCRowExtents == <<2, 2>>
MCColExtents == <<2, 3>>

(* A stream that crosses the corner south-east, returns to the north and   *)
(* crosses the corner again to the south-west; a second one joins it on    *)
(* the way, and some others leave the array.                               *)
SouthBound == FieldOf(<<
    <<"south_east", "north",      "south",      "west",       "east">>,
    <<"east",       "south_east", "south_west", "west",       "south_east">>,
    <<"no_data",    "south",      "east",       "north",      "north_west">>,
    <<"west",       "east",       "east",       "sink",       "west">> >>)

(* The corner is crossed to the north-west and to the north-east; one      *)
(* partition receives over a corner and over a side.                       *)
NorthBound == FieldOf(<<
    <<"sink",       "west",       "north",      "west",       "north">>,
    <<"north_east", "north",      "north",      "east",       "north">>,
    <<"north_east", "north_east", "north_west", "west",       "south_east">>,
    <<"south_west", "north",      "north",      "north_east", "south">> >>)

MCFlowFields == {field \in {SouthBound, NorthBound} : IsValidNetwork(field)}

ASSUME MCFlowFields = {SouthBound, NorthBound}

MCExternalInflows == {[c \in Cells |-> 1]}
=============================================================================
