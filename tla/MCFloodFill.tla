---------------------------- MODULE MCFloodFill ----------------------------
(* All arrays of 3 by 4 cells with a single zone, and of 2 by 3 and 3 by 2 *)
(* cells with two zones, for both kinds of connectivity.                   *)
EXTENDS FloodFill

MCArrays(nr_rows, nr_cols, zones) ==
    [nr_rows : {nr_rows}, nr_cols : {nr_cols}, diagonal : BOOLEAN,
     zone : [Array(nr_rows, nr_cols) -> zones \cup {NoData}]]

MCInputs == MCArrays(3, 4, {1}) \cup MCArrays(2, 3, {1, 2}) \cup MCArrays(3, 2, {1, 2})

=============================================================================
