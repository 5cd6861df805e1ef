---------------------------- MODULE Connectivity ----------------------------
(***************************************************************************)
(* The cells of an array, and the clumps they form: sets of connected      *)
(* cells that are in the same zone.  This is what the clump operation      *)
(* promises, defined without its flood fill and without partitions.        *)
(***************************************************************************)
EXTENDS Integers, FiniteSets

CONSTANT NoData     \* marks a cell that is in no zone

Array(nr_rows, nr_cols) == (0 .. nr_rows - 1) \X (0 .. nr_cols - 1)

(* Cells touch if they share a side, or a corner if diagonals count.       *)
Touch(diagonal, a, b) ==
    /\ a # b
    /\ a[1] - b[1] \in -1 .. 1
    /\ a[2] - b[2] \in -1 .. 1
    /\ diagonal \/ a[1] = b[1] \/ a[2] = b[2]

(* Row by row, from the north-west corner.                                 *)
Before(a, b) == a[1] < b[1] \/ (a[1] = b[1] /\ a[2] < b[2])

(* The clumps of the cells that are in a zone: a cell joins all clumps of  *)
(* its zone that it touches.                                               *)
Clumps(zone, diagonal) ==
    LET zoned == {cell \in DOMAIN zone : zone[cell] # NoData}
        among[cells \in SUBSET zoned] ==
            IF cells = {} THEN {}
            ELSE LET cell == CHOOSE c \in cells : TRUE
                     clumps == among[cells \ {cell}]
                     near == {clump \in clumps :
                                \E c \in clump : zone[c] = zone[cell] /\ Touch(diagonal, c, cell)}
                 IN  (clumps \ near) \cup {{cell} \cup UNION near}
    IN  among[zoned]

(* Clumps are numbered in the order of their first cells.                  *)
ClumpIds(zone, diagonal) ==
    LET clumps == Clumps(zone, diagonal)
        ClumpWith(cell) == CHOOSE clump \in clumps : cell \in clump
    IN  [cell \in DOMAIN zone |->
            IF zone[cell] = NoData THEN NoData
            ELSE Cardinality({clump \in clumps :
                    \E first \in clump : \A c \in ClumpWith(cell) : Before(first, c)})]

=============================================================================
