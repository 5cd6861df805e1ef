--------------------------- MODULE FocalOperation ---------------------------
(***************************************************************************)
(* A focal operation: the value of a cell is computed from the cells in a  *)
(* square window around it.  The array is partitioned, and each output     *)
(* partition is computed by a task of its own from 3 by 3 partitions: the  *)
(* corresponding input partition and its neighbours, or, outside of the    *)
(* array, partitions with values for the halo.  Of the neighbours only the *)
(* cells within reach are read.  Windows that are contained in the center  *)
(* partition are handled as soon as its data has arrived, the ones of its  *)
(* corners and sides, which are pieced together from two or four           *)
(* partitions, when all data has.                                          *)
(*                                                                         *)
(* Output partitions share nothing that changes; a behaviour is the        *)
(* computation of one of them.  Indices start at zero.  The value of a     *)
(* cell is its position in the array; a halo cell has the name of its side *)
(* or corner.                                                              *)
(***************************************************************************)
EXTENDS Integers

CONSTANTS
    Layouts,    \* shapes of arrays and partitions
    Radii,      \* radii of kernels
    None        \* no result yet

ASSUME FocalOperationAssumption ==
    /\ \A layout \in Layouts : \A d \in {1, 2} :
        /\ {layout.array[d], layout.partition[d]} \subseteq Nat \ {0}
        /\ layout.partition[d] <= layout.array[d]
    /\ Radii \subseteq Nat

VARIABLES
    layout,     \* the shapes of the array and its partitions
    radius,     \* the radius of the kernel
    focal,      \* the output partition
    arrived,    \* the places, of 3 by 3, whose data has arrived
    inner,      \* the windows of the cells that need the center partition only
    output      \* the windows of all cells of the output partition

vars == <<layout, radius, focal, arrived, inner, output>>

-----------------------------------------------------------------------------
(* partition_shapes, along one dimension: partitions fit in the array a    *)
(* number of times; the last one is enlarged to fill it up.                *)
NrPartitions(d) == layout.array[d] \div layout.partition[d]

Extent(d, idx) ==
    IF idx < NrPartitions(d) - 1 THEN layout.partition[d]
    ELSE layout.partition[d] + layout.array[d] - NrPartitions(d) * layout.partition[d]

KernelSize == 2 * radius + 1

(* The result of a task: an exception, or the windows of some cells.       *)
Failed == [failed |-> TRUE]
Computed(windows) == [failed |-> FALSE, windows |-> windows]

Places == (0 .. 2) \X (0 .. 2)

(* The partitions that are input for a task: partitions of the array, and  *)
(* halo partitions in the corners, along the north and south side, and     *)
(* along the west and east side.                                           *)
Array(idx0, idx1) == [kind |-> "array", idxs |-> <<idx0, idx1>>]
Corner(idx0, idx1) == [kind |-> "corner", idxs |-> <<idx0, idx1>>]
Longitudinal(idx0, idx1) == [kind |-> "longitudinal", idxs |-> <<idx0, idx1>>]
Latitudinal(idx0, idx1) == [kind |-> "latitudinal", idxs |-> <<idx0, idx1>>]

HaloShape(partition) ==
    CASE partition.kind = "corner" -> <<radius, radius>>
      [] partition.kind = "longitudinal" -> <<radius, Extent(2, partition.idxs[2])>>
      [] partition.kind = "latitudinal" -> <<Extent(1, partition.idxs[1]), radius>>

PartitionShape(partition) ==
    IF partition.kind = "array" THEN <<Extent(1, partition.idxs[1]), Extent(2, partition.idxs[2])>>
    ELSE HaloShape(partition)

(* The values of the halo policy.                                          *)
HaloValue(partition) ==
    LET vertical == IF partition.idxs[1] = 0 THEN "north" ELSE "south"
        horizontal == IF partition.idxs[2] = 0 THEN "west" ELSE "east"
    IN  CASE partition.kind = "corner" -> [halo |-> {vertical, horizontal}]
          [] partition.kind = "longitudinal" -> [halo |-> {vertical}]
          [] partition.kind = "latitudinal" -> [halo |-> {horizontal}]

ValueOf(partition, cell) ==
    IF partition.kind # "array" THEN HaloValue(partition)
    ELSE [cell |-> [d \in {1, 2} |-> partition.idxs[d] * layout.partition[d] + cell[d]]]

-----------------------------------------------------------------------------
(* The 3 by 3 input partitions, row by row, for each of the cases that     *)
(* focal_operation_2d distinguishes.  The case of the north-west corner    *)
(* also handles an array of one row or column of partitions; those of the  *)
(* north and west sides do so for the partitions in between.               *)
NorthWestCorner(nr0, nr1) ==
    << Corner(0, 0),
       Longitudinal(0, 0),
       IF nr1 = 1 THEN Corner(0, 1) ELSE Longitudinal(0, 1),
       Latitudinal(0, 0),
       Array(0, 0),
       IF nr1 = 1 THEN Latitudinal(0, 1) ELSE Array(0, 1),
       IF nr0 = 1 THEN Corner(1, 0) ELSE Latitudinal(1, 0),
       IF nr0 = 1 THEN Longitudinal(1, 0) ELSE Array(1, 0),
       CASE nr0 = 1 /\ nr1 = 1 -> Corner(1, 1)
         [] nr0 = 1 /\ nr1 > 1 -> Longitudinal(1, 1)
         [] nr0 > 1 /\ nr1 = 1 -> Latitudinal(1, 1)
         [] OTHER -> Array(1, 1) >>

NorthEastCorner(nr0, nr1) ==
    LET South(idx1) == IF nr0 = 1 THEN Longitudinal(1, idx1) ELSE Array(1, idx1)
    IN  << Longitudinal(0, nr1 - 2), Longitudinal(0, nr1 - 1), Corner(0, 1),
           Array(0, nr1 - 2), Array(0, nr1 - 1), Latitudinal(0, 1),
           South(nr1 - 2), South(nr1 - 1),
           IF nr0 = 1 THEN Corner(1, 1) ELSE Latitudinal(1, 1) >>

SouthWestCorner(nr0, nr1) ==
    LET East(idx0) == IF nr1 = 1 THEN Latitudinal(idx0, 1) ELSE Array(idx0, 1)
    IN  << Latitudinal(nr0 - 2, 0), Array(nr0 - 2, 0), East(nr0 - 2),
           Latitudinal(nr0 - 1, 0), Array(nr0 - 1, 0), East(nr0 - 1),
           Corner(1, 0), Longitudinal(1, 0),
           IF nr1 = 1 THEN Corner(1, 1) ELSE Longitudinal(1, 1) >>

SouthEastCorner(nr0, nr1) ==
    << Array(nr0 - 2, nr1 - 2), Array(nr0 - 2, nr1 - 1), Latitudinal(nr0 - 2, 1),
       Array(nr0 - 1, nr1 - 2), Array(nr0 - 1, nr1 - 1), Latitudinal(nr0 - 1, 1),
       Longitudinal(1, nr1 - 2), Longitudinal(1, nr1 - 1), Corner(1, 1) >>

NorthSide(nr0, c) ==
    LET South(idx1) == IF nr0 = 1 THEN Longitudinal(1, idx1) ELSE Array(1, idx1)
    IN  << Longitudinal(0, c - 1), Longitudinal(0, c), Longitudinal(0, c + 1),
           Array(0, c - 1), Array(0, c), Array(0, c + 1),
           South(c - 1), South(c), South(c + 1) >>

SouthSide(nr0, c) ==
    << Array(nr0 - 2, c - 1), Array(nr0 - 2, c), Array(nr0 - 2, c + 1),
       Array(nr0 - 1, c - 1), Array(nr0 - 1, c), Array(nr0 - 1, c + 1),
       Longitudinal(1, c - 1), Longitudinal(1, c), Longitudinal(1, c + 1) >>

WestSide(nr1, r) ==
    LET East(idx0) == IF nr1 = 1 THEN Latitudinal(idx0, 1) ELSE Array(idx0, 1)
    IN  << Latitudinal(r - 1, 0), Array(r - 1, 0), East(r - 1),
           Latitudinal(r, 0), Array(r, 0), East(r),
           Latitudinal(r + 1, 0), Array(r + 1, 0), East(r + 1) >>

EastSide(nr1, r) ==
    << Array(r - 1, nr1 - 2), Array(r - 1, nr1 - 1), Latitudinal(r - 1, 1),
       Array(r, nr1 - 2), Array(r, nr1 - 1), Latitudinal(r, 1),
       Array(r + 1, nr1 - 2), Array(r + 1, nr1 - 1), Latitudinal(r + 1, 1) >>

Inner(r, c) == [k \in 1 .. 9 |-> Array(r - 1 + (k - 1) \div 3, c - 1 + ((k - 1) % 3))]

InputPartitions ==
    LET nr0 == NrPartitions(1)
        nr1 == NrPartitions(2)
        r == focal[1]
        c == focal[2]
        first0 == r = 0
        first1 == c = 0
        last0 == r > 0 /\ r = nr0 - 1
        last1 == c > 0 /\ c = nr1 - 1
    IN  CASE first0 /\ first1 -> NorthWestCorner(nr0, nr1)
          [] first0 /\ last1 -> NorthEastCorner(nr0, nr1)
          [] last0 /\ first1 -> SouthWestCorner(nr0, nr1)
          [] last0 /\ last1 -> SouthEastCorner(nr0, nr1)
          [] first0 /\ ~first1 /\ ~last1 -> NorthSide(nr0, c)
          [] last0 /\ ~first1 /\ ~last1 -> SouthSide(nr0, c)
          [] first1 /\ ~first0 /\ ~last0 -> WestSide(nr1, r)
          [] last1 /\ ~first0 /\ ~last0 -> EastSide(nr1, r)
          [] OTHER -> Inner(r, c)

InputPartition(place) == InputPartitions[3 * place[1] + place[2] + 1]

-----------------------------------------------------------------------------
(* read_data: the cells that are asked for.  Partitions to the north are   *)
(* asked for their last rows, those to the south for their first, and so   *)
(* on.  A slice has a first index and one past the last.                   *)
Slice(place, d) ==
    LET extent == PartitionShape(InputPartition(place))[d]
    IN  CASE place[d] = 0 -> <<extent - radius, extent>>
          [] place[d] = 1 -> <<0, extent>>
          [] place[d] = 2 -> <<0, radius>>

Length(slice) == slice[2] - slice[1]

DataShape(place) == [d \in {1, 2} |-> Length(Slice(place, d))]

Data(place, cell) ==
    ValueOf(InputPartition(place), [d \in {1, 2} |-> Slice(place, d)[1] + cell[d]])

(* Reading fails if the partition has not that many cells.                 *)
ReadFails(place) ==
    place # <<1, 1>> /\ \E d \in {1, 2} : PartitionShape(InputPartition(place))[d] < radius

Center == PartitionShape(Array(focal[1], focal[2]))

FocalCells == (0 .. Center[1] - 1) \X (0 .. Center[2] - 1)

(* Along a dimension, a window needs cells of a neighbour before the       *)
(* center partition, after it, or of the center partition only.            *)
Before(d, idx) == idx < radius
After(d, idx) == idx >= Center[d] - radius

KernelCells == (0 .. KernelSize - 1) \X (0 .. KernelSize - 1)

(* The window of a cell whose neighbourhood is in the center partition.    *)
InnerWindow(cell) ==
    [k \in KernelCells |-> Data(<<1, 1>>, [d \in {1, 2} |-> cell[d] - radius + k[d]])]

-----------------------------------------------------------------------------
(* The windows of border cells are pieced together.  Counted for a         *)
(* dimension in which a window is cut: the number of cells in the first    *)
(* and in the second partition.                                            *)
NrInSecondLess(d, idx) ==       \* a mutant: the focal cell is not counted
    IF Before(d, idx) THEN radius + idx ELSE idx - (Center[d] - radius)

NrInFirst(d, idx) ==
    IF Before(d, idx) THEN radius - idx ELSE KernelSize - 1 - (idx - (Center[d] - radius))

NrInSecond(d, idx) ==
    IF Before(d, idx) THEN radius + 1 + idx ELSE 1 + idx - (Center[d] - radius)

(* The last cells of the first, the first of the second partition.         *)
SliceOfFirst(d, idx, extent) == <<extent - NrInFirst(d, idx), extent>>
SliceOfSecond(d, idx) == <<0, NrInSecond(d, idx)>>

(* copy_to_array: views are put beside and below each other.  A view is a  *)
(* place and a slice per dimension.  No view has a value for cells beyond  *)
(* the ones they cover.                                                    *)
RowOffset(views, v) == IF v[1] = 1 THEN 0 ELSE Length(views[1][1].rows)
ColOffset(views, v) == IF v[2] = 1 THEN 0 ELSE Length(views[v[1]][1].cols)

Covers(views, v, k) ==
    /\ k[1] - RowOffset(views, v) \in 0 .. Length(views[v[1]][v[2]].rows) - 1
    /\ k[2] - ColOffset(views, v) \in 0 .. Length(views[v[1]][v[2]].cols) - 1

ViewedValue(views, v, k) ==
    LET view == views[v[1]][v[2]]
    IN  Data(view.place, <<view.rows[1] + k[1] - RowOffset(views, v),
                           view.cols[1] + k[2] - ColOffset(views, v)>>)

CopyToArray(views) ==
    LET all == {v \in (1 .. 2) \X (1 .. 2) : v[1] \in DOMAIN views /\ v[2] \in DOMAIN views[v[1]]}
    IN  [k \in KernelCells |->
            IF \E v \in all : Covers(views, v, k)
            THEN ViewedValue(views, CHOOSE v \in all : Covers(views, v, k), k)
            ELSE None]

View(place, rows, cols) == [place |-> place, rows |-> rows, cols |-> cols]

(* The corners.  Four partitions are involved, from place (v, h) on.  The  *)
(* extents come from three places, which are not always the ones that are  *)
(* viewed.                                                                 *)
CornerWindow(cell) ==
    LET v == IF Before(1, cell[1]) THEN 0 ELSE 1
        h == IF Before(2, cell[2]) THEN 0 ELSE 1
        north_west == DataShape(<<v, h>>)
        north_east == DataShape(IF v = 0 /\ h = 0 THEN <<0, 2>> ELSE <<v, h + 1>>)
        south_west == DataShape(IF v = 0 /\ h = 0 THEN <<2, 0>> ELSE <<v + 1, h>>)
    IN  CopyToArray(
            << << View(<<v, h>>, SliceOfFirst(1, cell[1], north_west[1]),
                       SliceOfFirst(2, cell[2], north_west[2])),
                  View(<<v, h + 1>>, SliceOfFirst(1, cell[1], north_east[1]),
                       SliceOfSecond(2, cell[2])) >>,
               << View(<<v + 1, h>>, SliceOfSecond(1, cell[1]),
                       SliceOfFirst(2, cell[2], south_west[2])),
                  View(<<v + 1, h + 1>>, SliceOfSecond(1, cell[1]), SliceOfSecond(2, cell[2])) >> >>)

(* The sides.  Two partitions are involved.                                *)
NorthSouthWindow(cell) ==
    LET v == IF Before(1, cell[1]) THEN 0 ELSE 1
        cols == <<cell[2] - radius, cell[2] - radius + KernelSize>>
    IN  CopyToArray(
            << << View(<<v, 1>>, SliceOfFirst(1, cell[1], DataShape(<<v, 1>>)[1]), cols) >>,
               << View(<<v + 1, 1>>, SliceOfSecond(1, cell[1]), cols) >> >>)

WestEastWindow(cell) ==
    LET h == IF Before(2, cell[2]) THEN 0 ELSE 1
        rows == <<cell[1] - radius, cell[1] - radius + KernelSize>>
    IN  CopyToArray(
            << << View(<<1, h>>, rows, SliceOfFirst(2, cell[2], DataShape(<<1, h>>)[2])),
                  View(<<1, h + 1>>, rows, SliceOfSecond(2, cell[2])) >> >>)

Cut(d, cell) == Before(d, cell[d]) \/ After(d, cell[d])

BorderWindow(cell) ==
    CASE Cut(1, cell) /\ Cut(2, cell) -> CornerWindow(cell)
      [] Cut(1, cell) /\ ~Cut(2, cell) -> NorthSouthWindow(cell)
      [] ~Cut(1, cell) /\ Cut(2, cell) -> WestEastWindow(cell)

-----------------------------------------------------------------------------
Init ==
    /\ layout \in Layouts
    /\ radius \in Radii
    /\ focal \in (0 .. NrPartitions(1) - 1) \X (0 .. NrPartitions(2) - 1)
    /\ arrived = {}
    /\ inner = None
    /\ output = None

(* The data of a place arrives, or an exception instead of it.             *)
Arrive(place) ==
    /\ place \notin arrived
    /\ arrived' = arrived \cup {place}
    /\ UNCHANGED <<layout, radius, focal, inner, output>>

InnerCells == {cell \in FocalCells : ~Cut(1, cell) /\ ~Cut(2, cell)}

ComputeInner ==
    /\ <<1, 1>> \in arrived
    /\ inner = None
    /\ inner' = IF \E d \in {1, 2} : Center[d] < KernelSize THEN Failed
                ELSE Computed([cell \in InnerCells |-> InnerWindow(cell)])
    /\ UNCHANGED <<layout, radius, focal, arrived, output>>

ComputeBorder ==
    /\ arrived = Places
    /\ inner # None
    /\ output = None
    /\ output' = IF inner.failed \/ \E place \in Places : ReadFails(place) THEN Failed
                 ELSE Computed([cell \in FocalCells |->
                        IF cell \in InnerCells THEN inner.windows[cell] ELSE BorderWindow(cell)])
    /\ UNCHANGED <<layout, radius, focal, arrived, inner>>

Terminated == output # None /\ UNCHANGED vars

Next ==
    \/ \E place \in Places : Arrive(place)
    \/ ComputeInner
    \/ ComputeBorder
    \/ Terminated

Spec == Init /\ [][Next]_vars

-----------------------------------------------------------------------------
(* The window of a cell of the undivided array, surrounded by the halo.    *)
ValueAt(q) ==
    IF \A d \in {1, 2} : q[d] \in 0 .. layout.array[d] - 1 THEN [cell |-> q]
    ELSE [halo |->
            {side \in {"north", "south", "west", "east"} :
                \/ side = "north" /\ q[1] < 0
                \/ side = "south" /\ q[1] >= layout.array[1]
                \/ side = "west" /\ q[2] < 0
                \/ side = "east" /\ q[2] >= layout.array[2]}]

WindowIn(position) ==
    [k \in KernelCells |-> ValueAt([d \in {1, 2} |-> position[d] - radius + k[d]])]

(* However the array is partitioned, every cell sees the window it has in  *)
(* the undivided array.  The computation of a partition fails if it is     *)
(* smaller than the kernel, and never because of its neighbours: those     *)
(* have the cells asked for, as no partition is twice as large as another. *)
WindowsAreExact ==
    output # None =>
        IF \E d \in {1, 2} : Center[d] < KernelSize THEN output = Failed
        ELSE output = Computed([cell \in FocalCells |->
                WindowIn([d \in {1, 2} |-> focal[d] * layout.partition[d] + cell[d]])])
=============================================================================
