--------------------------- MODULE FlowDirection ---------------------------
(***************************************************************************)
(* The geometry of flow directions in a partitioned two-dimensional array. *)
(*                                                                         *)
(* The array is cut in partitions.  A partition is named by its zero-based *)
(* indices <<i, j>> in the array of partitions, a cell by its zero-based   *)
(* indices <<r, c>> in its partition.  A flow direction points from a cell *)
(* to one of its eight neighbours, which may be in another partition.      *)
(***************************************************************************)
EXTENDS Integers, Sequences, FiniteSets, SequencesExt

CONSTANTS
    RowExtents,     \* the number of rows in the partitions of each partition row
    ColExtents      \* the number of columns in the partitions of each partition column

ASSUME ExtentsAssumption ==
    /\ RowExtents \in Seq(Nat \ {0}) /\ RowExtents # <<>>
    /\ ColExtents \in Seq(Nat \ {0}) /\ ColExtents # <<>>

(* The neighbours of a partition, and the eight directions water flows in. *)
Directions == {"north", "north_east", "east", "south_east",
               "south", "south_west", "west", "north_west"}

FlowValues == Directions \cup {"sink", "no_data"}

Offset == [north |-> <<-1, 0>>, north_east |-> <<-1, 1>>,  east |-> <<0, 1>>,
           south_east |-> <<1, 1>>, south |-> <<1, 0>>, south_west |-> <<1, -1>>,
           west |-> <<0, -1>>, north_west |-> <<-1, -1>>]

(* The direction a neighbour at direction d sends in to reach this         *)
(* partition.                                                              *)
SenderDirection ==
    [north |-> "south", north_east |-> "south_west", east |-> "west",
     south_east |-> "north_west", south |-> "north", south_west |-> "north_east",
     west |-> "east", north_west |-> "south_east"]

Plus(a, b) == <<a[1] + b[1], a[2] + b[2]>>

DirectionOf(offset) == CHOOSE d \in Directions : Offset[d] = offset

-----------------------------------------------------------------------------
Partitions == (0 .. Len(RowExtents) - 1) \X (0 .. Len(ColExtents) - 1)

Extent0(p) == RowExtents[p[1] + 1]
Extent1(p) == ColExtents[p[2] + 1]

CellsOf(p) == (0 .. Extent0(p) - 1) \X (0 .. Extent1(p) - 1)

Cells == UNION {{p} \X CellsOf(p) : p \in Partitions}

HasNeighbour(p, d) == Plus(p, Offset[d]) \in Partitions

Neighbour(p, d) == Plus(p, Offset[d])

(* The three-argument result of downstream_cell: the offset to the         *)
(* downstream cell, and whether that cell is within the partition.         *)
DownstreamOffset(direction) ==
    IF direction \in Directions THEN Offset[direction] ELSE <<0, 0>>

WithinPartition(p, idxs, direction) ==
    LET o == DownstreamOffset(direction)
    IN  /\ ~(o[1] = -1 /\ idxs[1] = 0)
        /\ ~(o[1] = 1 /\ idxs[1] = Extent0(p) - 1)
        /\ ~(o[2] = -1 /\ idxs[2] = 0)
        /\ ~(o[2] = 1 /\ idxs[2] = Extent1(p) - 1)

-----------------------------------------------------------------------------
(* The loops that visit a partition handle it in nine parts, <<v, h>>: the *)
(* interior <<0, 0>>, the sides without their corners and the corners.  v  *)
(* tells the first (-1) and the last (1) row apart from the others, h the  *)
(* columns.                                                                *)
Parts == {-1, 0, 1} \X {-1, 0, 1}

PartIdxs(extent, v) ==
    CASE v = -1 -> {0}
      [] v = 1  -> {extent - 1}
      [] v = 0  -> 1 .. extent - 2

PartCells(p, part) ==
    PartIdxs(Extent0(p), part[1]) \X PartIdxs(Extent1(p), part[2])

(* The neighbouring partition a flow direction leads to from a cell of a   *)
(* part, as the offset of the neighbour; <<0, 0>> is the partition itself. *)
Leaves(part, d) ==
    <<IF part[1] # 0 /\ Offset[d][1] = part[1] THEN part[1] ELSE 0,
      IF part[2] # 0 /\ Offset[d][2] = part[2] THEN part[2] ELSE 0>>

(* The one-dimensional index sent to a neighbour to name the cell of the   *)
(* neighbour that receives the flow.  Corners need none.                   *)
InputIdxOfSender(direction, idxs, offset) ==    \* a mutant: the index of the sender
    CASE direction \in {"north", "south"} -> idxs[2]
      [] direction \in {"west", "east"}   -> idxs[1]
      [] OTHER                            -> -1

InputIdx(direction, idxs, offset) ==
    CASE direction \in {"north", "south"} -> idxs[2] + offset[2]
      [] direction \in {"west", "east"}   -> idxs[1] + offset[1]
      [] OTHER                            -> -1

(* The cells of p whose stream leaves for direction, as connectivity_ready *)
(* lists them: a cell once for every part of the partition it belongs to.  *)
OutputEntries(flow, p, direction) ==
    {entry \in (Parts \ {<<0, 0>>}) \X CellsOf(p) :
        /\ entry[2] \in PartCells(p, entry[1])
        /\ flow[<<p, entry[2]>>] \in Directions
        /\ Leaves(entry[1], flow[<<p, entry[2]>>]) = Offset[direction]}

OutputCells(flow, p, direction) ==
    LET entries == SetToSeq(OutputEntries(flow, p, direction))
    IN  [k \in DOMAIN entries |-> entries[k][2]]

(* The indices that name the receiving cells of a list of output cells.    *)
InputIdxs(flow, p, direction, cells) ==
    [k \in DOMAIN cells |-> InputIdx(direction, cells[k], Offset[flow[<<p, cells[k]>>]])]

(* Convert a received one-dimensional index to the cell it names.          *)
IdxToIdxs(p, direction, idx) ==
    CASE direction = "north"      -> <<0, idx>>
      [] direction = "south"      -> <<Extent0(p) - 1, idx>>
      [] direction = "west"       -> <<idx, 0>>
      [] direction = "east"       -> <<idx, Extent1(p) - 1>>
      [] direction = "north_west" -> <<0, 0>>
      [] direction = "north_east" -> <<0, Extent1(p) - 1>>
      [] direction = "south_east" -> <<Extent0(p) - 1, Extent1(p) - 1>>
      [] direction = "south_west" -> <<Extent0(p) - 1, 0>>

(* Where the material of an output cell goes: the neighbour's direction    *)
(* and the one-dimensional index of the receiving cell.                    *)
DestinationCell(extent0, extent1, idxs, offset) ==
    LET v == IF idxs[1] = 0 THEN -1 ELSE IF idxs[1] = extent0 - 1 THEN 1 ELSE 0
        h == IF idxs[2] = 0 THEN -1 ELSE IF idxs[2] = extent1 - 1 THEN 1 ELSE 0
        to == CASE v # 0 /\ h # 0 /\ offset[1] * v <= 0 -> <<0, h>>
                [] v # 0 /\ h # 0 /\ offset[1] * v > 0 /\ offset[2] * h <= 0 -> <<v, 0>>
                [] v # 0 /\ h = 0 -> <<v, 0>>
                [] v = 0 /\ h # 0 -> <<0, h>>
                [] OTHER -> <<v, h>>
        direction == DirectionOf(to)
    IN  <<direction, InputIdx(direction, idxs, offset)>>

(* How many cells of its own partition flow into a cell, as                *)
(* inflow_count_partition_data counts them: part by part, leaving out the  *)
(* directions that lead out of the partition from that part.               *)
PartitionInflowCount(flow, p, idxs) ==
    Cardinality({entry \in Parts \X CellsOf(p) :
        /\ entry[2] \in PartCells(p, entry[1])
        /\ flow[<<p, entry[2]>>] \in Directions
        /\ Leaves(entry[1], flow[<<p, entry[2]>>]) = <<0, 0>>
        /\ Plus(entry[2], Offset[flow[<<p, entry[2]>>]]) = idxs})

-----------------------------------------------------------------------------
(* The reference: the position of a cell in the whole array, and the cell  *)
(* it flows into.                                                          *)
ExtentBefore(extents, i) ==
    LET f[n \in 0 .. i] == IF n = 0 THEN 0 ELSE f[n - 1] + extents[n] IN f[i]

ArrayIdxs(cell) ==
    Plus(<<ExtentBefore(RowExtents, cell[1][1]), ExtentBefore(ColExtents, cell[1][2])>>,
         cell[2])

(* The field, or the values, of cells written down row by row.             *)
FieldOf(rows) ==
    [c \in Cells |-> rows[ArrayIdxs(c)[1] + 1][ArrayIdxs(c)[2] + 1]]

NoCell == <<>>

Downstream(flow) ==
    [cell \in Cells |->
        LET to == {c \in Cells : /\ flow[cell] \in Directions
                                 /\ ArrayIdxs(c) = Plus(ArrayIdxs(cell), Offset[flow[cell]])}
        IN  IF to = {} THEN NoCell ELSE CHOOSE c \in to : TRUE]

Upstream(flow, cell) == {c \in Cells : Downstream(flow)[c] = cell}

(* A valid network: every stream ends, and no stream enters a cell without *)
(* data.                                                                   *)
IsAcyclic(down) ==
    LET n == Cardinality(DOMAIN down)
        reach[i \in 0 .. n] ==
            IF i = 0 THEN DOMAIN down
            ELSE {down[c] : c \in reach[i - 1] \ {NoCell}}
    IN  reach[n] \subseteq {NoCell}

IsValidNetwork(flow) ==
    LET down == Downstream(flow)
    IN  /\ IsAcyclic(down)
        /\ \A c \in Cells : down[c] # NoCell => flow[down[c]] # "no_data"
=============================================================================
