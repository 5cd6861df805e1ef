-------------------------------- MODULE Clump --------------------------------
(***************************************************************************)
(* The clumps of a partitioned array.  Tasks find the clumps of each       *)
(* partition; FloodFill models how.  A single task that waits for them all *)
(* gives every local clump a global id, visits the borders and corners     *)
(* between partitions one by one, collects the global ids that must become *)
(* one, unites collections that share an id, and tells the partitions to   *)
(* replace local ids by the lowest global id of their collection.          *)
(* The names differ from those of FloodFill, so that one module can extend *)
(* both.                                                                   *)
(***************************************************************************)
EXTENDS Sequences, Connectivity

CONSTANT Arrays     \* the arrays: shapes of array and partitions, zones, kinds of connectivity

ASSUME ClumpAssumption ==
    /\ NoData \notin Nat
    /\ \A array \in Arrays :
        /\ {array.nr_rows, array.nr_cols, array.partition_rows, array.partition_cols} \subseteq Nat \ {0}
        /\ array.partition_rows <= array.nr_rows /\ array.partition_cols <= array.nr_cols
        /\ array.diagonal \in BOOLEAN
        /\ DOMAIN array.zone = Array(array.nr_rows, array.nr_cols)

VARIABLES
    array,          \* the array
    local,          \* per partition that is solved: the local clump ids of its cells
    lut,            \* per partition: the global id of each local clump
    borders,        \* the borders and corners that are still to be visited
    collections,    \* global_clump_ids: collections of ids that share a clump
    index,          \* global_clump_ids_by_local_clump_id: the collection of a local clump
    updates,        \* global_clump_ids_updates: where a collection was moved to
    idx1,           \* the collection others are united with
    output,         \* per partition that is reclassified: the global clump ids of its cells
    stage           \* what the root does next

clump_vars == <<array, local, lut, borders, collections, index, updates, idx1, output, stage>>

-----------------------------------------------------------------------------
(* Partitions fit in the array a number of times; the last row and column  *)
(* of partitions are enlarged to fill it up.                               *)
Shape == [rows |-> array.nr_rows \div array.partition_rows,
          cols |-> array.nr_cols \div array.partition_cols]

Partitions == Array(Shape.rows, Shape.cols)

PartitionOf(cell) ==
    LET row == cell[1] \div array.partition_rows
        col == cell[2] \div array.partition_cols
    IN  <<IF row < Shape.rows THEN row ELSE Shape.rows - 1,
          IF col < Shape.cols THEN col ELSE Shape.cols - 1>>

AllCells == DOMAIN array.zone

PartCells(p) == {cell \in AllCells : PartitionOf(cell) = p}

LocalIds(p) == {local[p][cell] : cell \in PartCells(p)} \ {NoData}

(* A local clump is identified by its partition and its id.                *)
Key(cell) == <<PartitionOf(cell), local[PartitionOf(cell)][cell]>>

GlobalId(key) == lut[key[1]][key[2]]

-----------------------------------------------------------------------------
ClumpInit ==
    /\ array \in Arrays
    /\ local = [p \in {} |-> <<>>]
    /\ lut = [p \in {} |-> <<>>]
    /\ borders = {}
    /\ collections = <<>>
    /\ index = [key \in {} |-> 0]
    /\ updates = [k \in {} |-> 0]
    /\ idx1 = 1
    /\ output = [p \in {} |-> <<>>]
    /\ stage = "wait"

(* A task labels the cells of its partition.                               *)
SolveLocally(p) ==
    /\ p \notin DOMAIN local
    /\ local' = [q \in DOMAIN local \cup {p} |->
                    IF q = p THEN ClumpIds([cell \in PartCells(p) |-> array.zone[cell]], array.diagonal)
                    ELSE local[q]]
    /\ UNCHANGED <<array, lut, borders, collections, index, updates, idx1, output, stage>>

(* The ids of a partition come after those of the partitions before it.    *)
LocalClumps == UNION {{p} \X LocalIds(p) : p \in Partitions}

FirstIdSame(p) == 0     \* a mutant: does not count the ids of other partitions

FirstId(p) == Cardinality({key \in LocalClumps : Before(key[1], p)})

(* The borders of a partition with the ones to the south and to the east,  *)
(* and the corner they share with the one between those.                   *)
BordersOf(p) ==
    LET south == p[1] < Shape.rows - 1
        east == p[2] < Shape.cols - 1
    IN  {direction \in {"south", "east", "corner"} :
            /\ direction \in {"south", "corner"} => south
            /\ direction \in {"east", "corner"} => east
            /\ direction = "corner" => array.diagonal}

Borders == {border \in {"south", "east", "corner"} \X Partitions : border[1] \in BordersOf(border[2])}

(* The order in which they are visited.                                    *)
VisitedBefore(border, other) ==
    \/ Before(border[2], other[2])
    \/ /\ border[2] = other[2]
       /\ <<border[1], other[1]>> \in {<<"south", "east">>, <<"south", "corner">>, <<"east", "corner">>}

WhenAllSolved ==
    /\ stage = "wait"
    /\ DOMAIN local = Partitions
    /\ lut' = [p \in Partitions |-> [id \in LocalIds(p) |-> FirstId(p) + id]]
    /\ borders' = Borders
    /\ stage' = "merge"
    /\ UNCHANGED <<array, local, collections, index, updates, idx1, output>>

-----------------------------------------------------------------------------
(* The sides of two partitions, as an array of two rows: the cells of one  *)
(* partition in the first, those of its neighbour in the second.           *)
LastRow(p) == (p[1] + 1) * array.partition_rows - 1
LastCol(p) == (p[2] + 1) * array.partition_cols - 1

NrRows(p) ==
    IF p[1] < Shape.rows - 1 THEN array.partition_rows
    ELSE array.nr_rows - p[1] * array.partition_rows
NrCols(p) ==
    IF p[2] < Shape.cols - 1 THEN array.partition_cols
    ELSE array.nr_cols - p[2] * array.partition_cols

SideLength(direction, p) == IF direction = "south" THEN NrCols(p) ELSE NrRows(p)

Sides(direction, p) ==
    [side \in Array(2, SideLength(direction, p)) |->
        IF direction = "south"
        THEN <<LastRow(p) + side[1], p[2] * array.partition_cols + side[2]>>
        ELSE <<p[1] * array.partition_rows + side[2], LastCol(p) + side[1]>>]

(* merge_clump: the local clumps that a clump of the border connects join  *)
(* the collection of the first one that has a collection already, or a new *)
(* one.  Those that are in no collection yet are recorded as members of it.*)
Recorded(index_, keys, idx) ==
    [key \in DOMAIN index_ \cup keys |-> IF key \in DOMAIN index_ THEN index_[key] ELSE idx]

MergeFirst(state, sides, clump) ==  \* a mutant: a collection is not extended by known clumps
    LET keys == {Key(sides[side]) : side \in clump}
        known == {side \in clump : Key(sides[side]) \in DOMAIN state.index}
        first == CHOOSE side \in known : \A other \in known \ {side} : Before(side, other)
        idx == IF known = {} THEN Len(state.collections) + 1 ELSE state.index[Key(sides[first])]
        extended == IF known = {} THEN Append(state.collections, {}) ELSE state.collections
    IN  [collections |-> [extended EXCEPT ![idx] = @ \cup
            {GlobalId(key) : key \in keys \ DOMAIN state.index}],
         index |-> Recorded(state.index, keys, idx)]

Merge(state, sides, clump) ==
    LET keys == {Key(sides[side]) : side \in clump}
        known == {side \in clump : Key(sides[side]) \in DOMAIN state.index}
        first == CHOOSE side \in known : \A other \in known \ {side} : Before(side, other)
        idx == IF known = {} THEN Len(state.collections) + 1 ELSE state.index[Key(sides[first])]
        extended == IF known = {} THEN Append(state.collections, {}) ELSE state.collections
    IN  [collections |-> [extended EXCEPT ![idx] = @ \cup {GlobalId(key) : key \in keys}],
         index |-> Recorded(state.index, keys, idx)]

(* The clumps that extend on both sides of a border.                       *)
BorderClumps(sides) ==
    {clump \in Clumps([side \in DOMAIN sides |-> array.zone[sides[side]]], array.diagonal) :
        {0, 1} \subseteq {side[1] : side \in clump}}

StartsAt(clump, col) == <<0, col>> \in clump /\ \A c \in 0 .. col - 1 : <<0, c>> \notin clump

(* They are merged in the order in which they start along the first side.  *)
MergeStarting(state, direction, p, col) ==
    LET sides == Sides(direction, p)
        starting == {clump \in BorderClumps(sides) : StartsAt(clump, col)}
    IN  IF starting = {} THEN state ELSE Merge(state, sides, CHOOSE clump \in starting : TRUE)

MergeBorder(state, direction, p) ==
    LET merged[nr_cols \in 0 .. SideLength(direction, p)] ==
            IF nr_cols = 0 THEN state
            ELSE MergeStarting(merged[nr_cols - 1], direction, p, nr_cols - 1)
    IN  merged[SideLength(direction, p)]

(* Two cells that touch in a corner: each of their clumps joins the        *)
(* collections of both.                                                    *)
MergeDiagonally(state, cell, other) ==
    LET keys == {Key(cell), Key(other)}
        known == keys \cap DOMAIN state.index
        extended == IF known = {} THEN Append(state.collections, {}) ELSE state.collections
        idx == IF known = {} THEN Len(extended) ELSE state.index[CHOOSE key \in known : TRUE]
        index_ == Recorded(state.index, keys, idx)
    IN  IF array.zone[cell] = NoData \/ array.zone[cell] # array.zone[other] THEN state
        ELSE [collections |-> [k \in DOMAIN extended |->
                IF k \in {index_[key] : key \in keys}
                THEN extended[k] \cup {GlobalId(key) : key \in keys}
                ELSE extended[k]],
              index |-> index_]

MergeCorner(state, p) ==
    LET NorthWest == <<LastRow(p), LastCol(p)>>
        NorthEast == <<LastRow(p), LastCol(p) + 1>>
        SouthWest == <<LastRow(p) + 1, LastCol(p)>>
        SouthEast == <<LastRow(p) + 1, LastCol(p) + 1>>
    IN  MergeDiagonally(MergeDiagonally(state, NorthWest, SouthEast), NorthEast, SouthWest)

MergeClumps ==
    /\ stage = "merge"
    /\ \E border \in borders :
        /\ \A other \in borders \ {border} : VisitedBefore(border, other)
        /\ LET before == [collections |-> collections, index |-> index]
               after == IF border[1] = "corner" THEN MergeCorner(before, border[2])
                        ELSE MergeBorder(before, border[1], border[2])
           IN  collections' = after.collections /\ index' = after.index
        /\ borders' = borders \ {border}
    /\ UNCHANGED <<array, local, lut, updates, idx1, output, stage>>

EndMerge ==
    /\ stage = "merge"
    /\ borders = {}
    /\ stage' = "unite"
    /\ UNCHANGED <<array, local, lut, borders, collections, index, updates, idx1, output>>

-----------------------------------------------------------------------------
ShareElement(lhs, rhs) == lhs \cap rhs # {}

(* One round of the nested loop: the collection grows while it is compared *)
(* with those after it, and takes the place of those it shares an id with. *)
Compare(state, idx2) ==
    IF ~ShareElement(state.collections[idx1], state.collections[idx2]) THEN state
    ELSE [collections |-> [state.collections EXCEPT
                            ![idx1] = @ \cup state.collections[idx2], ![idx2] = {}],
          updates |-> [k \in DOMAIN state.updates \cup {idx2} |->
                        IF k = idx2 THEN idx1 ELSE state.updates[k]]]

Unite ==
    LET compared[idx2 \in idx1 .. Len(collections)] ==
            IF idx2 = idx1 THEN [collections |-> collections, updates |-> updates]
            ELSE Compare(compared[idx2 - 1], idx2)
    IN  compared[Len(collections)]

UniteCollections ==
    /\ stage = "unite"
    /\ idx1 <= Len(collections)
    /\ collections' = Unite.collections
    /\ updates' = Unite.updates
    /\ idx1' = idx1 + 1
    /\ UNCHANGED <<array, local, lut, borders, index, output, stage>>

Moved(idx) == IF idx \in DOMAIN updates THEN updates[idx] ELSE idx

Lowest(ids) == CHOOSE id \in ids : \A other \in ids : id <= other

UpdateTables ==
    /\ stage = "unite"
    /\ idx1 > Len(collections)
    /\ index' = [key \in DOMAIN index |-> Moved(index[key])]
    /\ lut' = [p \in Partitions |-> [id \in DOMAIN lut[p] |->
                IF <<p, id>> \in DOMAIN index THEN Lowest(collections[index'[<<p, id>>]])
                ELSE lut[p][id]]]
    /\ stage' = "reclass"
    /\ UNCHANGED <<array, local, borders, collections, updates, idx1, output>>

(* A task replaces the ids of its partition.                               *)
Reclass(p) ==
    /\ stage = "reclass"
    /\ p \notin DOMAIN output
    /\ output' = [q \in DOMAIN output \cup {p} |->
                    IF q # p THEN output[q]
                    ELSE [cell \in PartCells(p) |->
                            IF local[p][cell] = NoData THEN NoData ELSE lut[p][local[p][cell]]]]
    /\ UNCHANGED <<array, local, lut, borders, collections, index, updates, idx1, stage>>

Done == DOMAIN output = Partitions

ClumpTerminated == Done /\ UNCHANGED clump_vars

ClumpNext ==
    \/ \E p \in Partitions : SolveLocally(p) \/ Reclass(p)
    \/ WhenAllSolved \/ MergeClumps \/ EndMerge \/ UniteCollections \/ UpdateTables
    \/ ClumpTerminated

ClumpSpec == ClumpInit /\ [][ClumpNext]_clump_vars

-----------------------------------------------------------------------------
Zoned == {cell \in AllCells : array.zone[cell] # NoData}

(* The ids of a collection are those of connected clumps, whatever         *)
(* collections were extended and united before.                            *)
CollectionsAreConnected ==
    stage = "unite" =>
        \A clump \in Clumps(array.zone, array.diagonal) :
            LET ids == {GlobalId(Key(cell)) : cell \in clump}
            IN  \A k \in DOMAIN collections : collections[k] \cap ids # {} => collections[k] \subseteq ids

(* Once all borders and corners were visited, any two cells that touch     *)
(* across a border and are in the same zone have their ids in a common     *)
(* collection: "all cells that belong to the same global clump get         *)
(* connected".                                                             *)
BordersAreCovered ==
    stage = "unite" /\ idx1 = 1 =>
        \A cell, other \in Zoned :
            /\ PartitionOf(cell) # PartitionOf(other)
            /\ Touch(array.diagonal, cell, other)
            /\ array.zone[cell] = array.zone[other]
            => \E k \in DOMAIN collections :
                {GlobalId(Key(cell)), GlobalId(Key(other))} \subseteq collections[k]

(* When the tables are updated, the collection a local clump is moved to   *)
(* still has the id of that clump: the lowest id is not asked of a         *)
(* collection that was emptied.                                            *)
MovedWithCollection ==
    stage = "unite" =>
        \A key \in DOMAIN index : GlobalId(key) \in collections[Moved(index[key])]

(* After all borders were visited and while collections are united, the    *)
(* collections serve the tables: they hold what touches, hold nothing that *)
(* is not connected, and every local clump finds its own.                  *)
CollectionsServe == CollectionsAreConnected /\ BordersAreCovered /\ MovedWithCollection

(* The result never gives cells that are not connected, or not in the same *)
(* zone, the same id, and has no data where the zones have none.           *)
Result == [cell \in AllCells |-> output[PartitionOf(cell)][cell]]

SameIdSameClump ==
    Done =>
        LET ids(cells) == {Result[cell] : cell \in cells}
            clumps == Clumps(array.zone, array.diagonal)
        IN  /\ \A cell \in AllCells : Result[cell] = NoData <=> array.zone[cell] = NoData
            /\ \A clump, other \in clumps : clump # other => ids(clump) \cap ids(other) = {}

(* The other way around: the cells of a clump all have the same id.        *)
SameClumpSameId ==
    Done =>
        \A clump \in Clumps(array.zone, array.diagonal) :
            \A cell, other \in clump : Result[cell] = Result[other]

=============================================================================
