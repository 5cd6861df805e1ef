------------------------------- MODULE MCClump -------------------------------
(* All arrays of 2 by 5 and of 5 by 2 cells in four partitions, of 3 by 3  *)
(* cells in three, all arrays of 2 by 3 cells in two zones and three       *)
(* partitions, and one array of four larger partitions; for both kinds of  *)
(* connectivity.                                                           *)
EXTENDS Clump

MCArrays(nr_rows, nr_cols, partition_rows, partition_cols, zones) ==
    [nr_rows : {nr_rows}, nr_cols : {nr_cols},
     partition_rows : {partition_rows}, partition_cols : {partition_cols}, diagonal : BOOLEAN,
     zone : [Array(nr_rows, nr_cols) -> zones \cup {NoData}]]

(* A zone that is connected as a whole, by a path that crosses the borders *)
(* between its partitions five times.                                      *)
MCPath ==
    {<<0, 2>>, <<0, 3>>, <<0, 4>>, <<1, 4>>, <<1, 5>>, <<2, 5>>, <<3, 5>>, <<3, 4>>, <<3, 3>>,
     <<4, 3>>, <<4, 2>>, <<4, 1>>, <<4, 0>>, <<3, 0>>, <<2, 0>>, <<2, 3>>, <<2, 2>>}

MCLarge(diagonal) ==
    [nr_rows |-> 6, nr_cols |-> 6, partition_rows |-> 3, partition_cols |-> 3, diagonal |-> diagonal,
     zone |-> [cell \in Array(6, 6) |-> IF cell \in MCPath THEN 1 ELSE NoData]]

MCSmallArrays ==
    MCArrays(2, 5, 1, 2, {1}) \cup MCArrays(5, 2, 2, 1, {1}) \cup MCArrays(3, 3, 3, 1, {1})
        \cup MCArrays(2, 3, 2, 1, {1, 2})
        \cup {MCLarge(FALSE), MCLarge(TRUE)}

MCLargeArrays == {MCLarge(FALSE)}

=============================================================================
