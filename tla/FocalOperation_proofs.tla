------------------------ MODULE FocalOperation_proofs ------------------------
(***************************************************************************)
(* That every cell sees the window of the undivided array, for every shape *)
(* of array and partitions and every kernel.                               *)
(*                                                                         *)
(* The argument goes from partitions to cells.  The input partition at a   *)
(* place is the neighbour in that direction, or the halo where there is    *)
(* none (InputPartitionIs).  So a cell of its data is a cell at a known    *)
(* position of the array surrounded by its halo (DataIs).  Along each      *)
(* dimension the slices of a window that is cut put those positions next   *)
(* to each other (CutFacts).                                               *)
(***************************************************************************)
EXTENDS FocalOperation, TLAPS

-----------------------------------------------------------------------------
(* What holds of the input and stays as it is.                             *)
InputInv ==
    /\ layout \in Layouts
    /\ radius \in Radii
    /\ focal \in (0 .. NrPartitions(1) - 1) \X (0 .. NrPartitions(2) - 1)

LargeEnough == \A d \in {1, 2} : Center[d] >= KernelSize

Dims == {1, 2}

(* The position of the first cell of the focal partition, and of a cell of *)
(* the data at a place.                                                    *)
Start(d) == focal[d] * layout.partition[d]

Position(d, p, x) ==
    IF p = 0 THEN Start(d) - radius + x
    ELSE IF p = 1 THEN Start(d) + x
    ELSE Start(d) + Center[d] + x

(* The index of the partition at a place, which may be outside the array.  *)
Idx(d, p) == focal[d] + p - 1

Inside(d, p) == Idx(d, p) \in 0 .. NrPartitions(d) - 1

End(d, p) == IF Idx(d, p) < 0 THEN 0 ELSE 1

-----------------------------------------------------------------------------
(* Dividing a length in parts.                                             *)
LEMMA DivFacts ==
    ASSUME NEW a \in Nat, NEW s \in Nat \ {0}, s <= a
    PROVE  /\ a \div s \in Nat \ {0}
           /\ (a \div s) * s <= a
           /\ a < (a \div s) * s + s
BY SMT

(* The shapes of the array and its partitions.                             *)
LEMMA LayoutFacts ==
    ASSUME InputInv, NEW d \in Dims
    PROVE  /\ layout.array[d] \in Nat /\ layout.partition[d] \in Nat \ {0}
           /\ NrPartitions(d) \in Nat \ {0}
           /\ NrPartitions(d) * layout.partition[d] <= layout.array[d]
           /\ layout.array[d] < NrPartitions(d) * layout.partition[d] + layout.partition[d]
           /\ radius \in Nat
           /\ focal[d] \in 0 .. NrPartitions(d) - 1
<1>1. {layout.array[d], layout.partition[d]} \subseteq Nat \ {0} /\ layout.partition[d] <= layout.array[d]
  BY FocalOperationAssumption DEF InputInv, Dims
<1>2. radius \in Nat
  BY FocalOperationAssumption DEF InputInv
<1>3. focal[d] \in 0 .. NrPartitions(d) - 1
  BY DEF InputInv, Dims
<1> QED BY <1>1, <1>2, <1>3, DivFacts DEF NrPartitions

(* The number of rows or columns of a partition.                           *)
LEMMA ExtentFacts ==
    ASSUME InputInv, NEW d \in Dims, NEW i \in 0 .. NrPartitions(d) - 1
    PROVE  /\ Extent(d, i) \in Nat
           /\ layout.partition[d] <= Extent(d, i)
           /\ Extent(d, i) < 2 * layout.partition[d]
           /\ i < NrPartitions(d) - 1 => Extent(d, i) = layout.partition[d]
           /\ i = NrPartitions(d) - 1 =>
                i * layout.partition[d] + Extent(d, i) = layout.array[d]
           /\ i * layout.partition[d] + Extent(d, i) <= layout.array[d]
           /\ i * layout.partition[d] \in Nat
<1>1. Extent(d, i) = IF i < NrPartitions(d) - 1 THEN layout.partition[d]
                     ELSE layout.partition[d] + layout.array[d] - NrPartitions(d) * layout.partition[d]
  BY DEF Extent
<1>2. /\ layout.array[d] \in Nat /\ layout.partition[d] \in Nat \ {0}
      /\ NrPartitions(d) \in Nat \ {0}
      /\ NrPartitions(d) * layout.partition[d] <= layout.array[d]
      /\ layout.array[d] < NrPartitions(d) * layout.partition[d] + layout.partition[d]
  BY LayoutFacts
<1> DEFINE a == layout.array[d]
           s == layout.partition[d]
           n == NrPartitions(d)
           e == Extent(d, i)
<1>3. /\ a \in Nat /\ s \in Nat \ {0} /\ n \in Nat \ {0} /\ i \in 0 .. n - 1
      /\ n * s <= a /\ a < n * s + s /\ e = IF i < n - 1 THEN s ELSE s + a - n * s
  BY <1>1, <1>2
<1> HIDE DEF a, s, n, e
<1>5. n * s \in Nat /\ i * s \in Nat /\ i \in Nat
  BY <1>3, SMT
<1>6. i * s + s <= n * s
  <2>1. (i + 1) * s <= n * s
    BY <1>3, SMT
  <2> QED BY <2>1, <1>3, <1>5, SMT
<1>7. i = n - 1 => i * s + s = n * s
  BY <1>3, SMT
<1> DEFINE ns == n * s
           is == i * s
<1> HIDE DEF ns, is
<1>8. /\ ns \in Nat /\ is \in Nat /\ is + s <= ns /\ (i = n - 1 => is + s = ns)
      /\ ns <= a /\ a < ns + s /\ e = IF i < n - 1 THEN s ELSE s + a - ns
  BY <1>3, <1>5, <1>6, <1>7 DEF ns, is
<1>9. /\ e \in Nat /\ s <= e /\ e < 2 * s
      /\ i < n - 1 => e = s
      /\ i = n - 1 => is + e = a
      /\ is + e <= a
  BY <1>3, <1>5, <1>8
<1> QED BY <1>5, <1>9 DEF is, a, s, n, e

(* The position of a neighbour, relative to the focal partition.           *)
LEMMA NeighbourFacts ==
    ASSUME InputInv, NEW d \in Dims
    PROVE  /\ Start(d) \in Nat
           /\ (focal[d] - 1) * layout.partition[d] = Start(d) - layout.partition[d]
           /\ (focal[d] + 1) * layout.partition[d] = Start(d) + layout.partition[d]
<1>1. \A f, s \in Nat :
        /\ f * s \in Nat /\ (f - 1) * s = f * s - s /\ (f + 1) * s = f * s + s
  BY SMT
<1> QED BY <1>1, LayoutFacts DEF Start

(* The center is the partition the task is for.                            *)
LEMMA CenterIs ==
    ASSUME InputInv, NEW d \in Dims
    PROVE  Center[d] = Extent(d, focal[d])
BY DEF Center, PartitionShape, Array, Dims

-----------------------------------------------------------------------------
(* The partition at a place, whichever case of focal_operation_2d applies: *)
(* all nine cases do the same.                                             *)
Neighbour(p1, p2) ==
    IF Inside(1, p1)
    THEN IF Inside(2, p2) THEN Array(Idx(1, p1), Idx(2, p2)) ELSE Latitudinal(Idx(1, p1), End(2, p2))
    ELSE IF Inside(2, p2) THEN Longitudinal(End(1, p1), Idx(2, p2)) ELSE Corner(End(1, p1), End(2, p2))

(* The nine input partitions in each of the nine cases.                    *)
LEMMA InputPartitionsAre ==
    ASSUME InputInv
    PROVE  InputPartitions =
            << Neighbour(0, 0), Neighbour(0, 1), Neighbour(0, 2),
               Neighbour(1, 0), Neighbour(1, 1), Neighbour(1, 2),
               Neighbour(2, 0), Neighbour(2, 1), Neighbour(2, 2) >>
<1> DEFINE nr0 == NrPartitions(1)
           nr1 == NrPartitions(2)
           r == focal[1]
           c == focal[2]
           nine == << Neighbour(0, 0), Neighbour(0, 1), Neighbour(0, 2),
                      Neighbour(1, 0), Neighbour(1, 1), Neighbour(1, 2),
                      Neighbour(2, 0), Neighbour(2, 1), Neighbour(2, 2) >>
<1>1. nr0 \in Nat \ {0} /\ nr1 \in Nat \ {0} /\ r \in 0 .. nr0 - 1 /\ c \in 0 .. nr1 - 1
  BY LayoutFacts DEF Dims
<1>2. \A p1, p2 \in 0 .. 2 :
        Neighbour(p1, p2) =
            LET i == r + p1 - 1
                j == c + p2 - 1
            IN  IF i >= 0 /\ i < nr0
                THEN IF j >= 0 /\ j < nr1 THEN Array(i, j) ELSE Latitudinal(i, IF j < 0 THEN 0 ELSE 1)
                ELSE IF j >= 0 /\ j < nr1 THEN Longitudinal(IF i < 0 THEN 0 ELSE 1, j)
                     ELSE Corner(IF i < 0 THEN 0 ELSE 1, IF j < 0 THEN 0 ELSE 1)
  BY <1>1 DEF Neighbour, Inside, Idx, End
<1> HIDE DEF nr0, nr1, r, c
<1>3. CASE r = 0 /\ c = 0
  <2>1. InputPartitions = NorthWestCorner(nr0, nr1)
    BY <1>3 DEF InputPartitions, r, c, nr0, nr1
  <2>2. NorthWestCorner(nr0, nr1) = nine
    BY <1>1, <1>2, <1>3 DEF NorthWestCorner
  <2> QED BY <2>1, <2>2
<1>4. CASE r = 0 /\ c > 0 /\ c = nr1 - 1
  <2>1. InputPartitions = NorthEastCorner(nr0, nr1)
    BY <1>1, <1>4 DEF InputPartitions, r, c, nr0, nr1
  <2>2. NorthEastCorner(nr0, nr1) = nine
    BY <1>1, <1>2, <1>4 DEF NorthEastCorner
  <2> QED BY <2>1, <2>2
<1>5. CASE r > 0 /\ r = nr0 - 1 /\ c = 0
  <2>1. InputPartitions = SouthWestCorner(nr0, nr1)
    BY <1>1, <1>5 DEF InputPartitions, r, c, nr0, nr1
  <2>2. SouthWestCorner(nr0, nr1) = nine
    BY <1>1, <1>2, <1>5 DEF SouthWestCorner
  <2> QED BY <2>1, <2>2
<1>6. CASE r > 0 /\ r = nr0 - 1 /\ c > 0 /\ c = nr1 - 1
  <2>1. InputPartitions = SouthEastCorner(nr0, nr1)
    BY <1>1, <1>6 DEF InputPartitions, r, c, nr0, nr1
  <2>2. SouthEastCorner(nr0, nr1) = nine
    BY <1>1, <1>2, <1>6 DEF SouthEastCorner
  <2> QED BY <2>1, <2>2
<1>7. CASE r = 0 /\ c > 0 /\ c < nr1 - 1
  <2>1. InputPartitions = NorthSide(nr0, c)
    BY <1>1, <1>7 DEF InputPartitions, r, c, nr0, nr1
  <2>2. NorthSide(nr0, c) = nine
    BY <1>1, <1>2, <1>7 DEF NorthSide
  <2> QED BY <2>1, <2>2
<1>8. CASE r > 0 /\ r = nr0 - 1 /\ c > 0 /\ c < nr1 - 1
  <2>1. InputPartitions = SouthSide(nr0, c)
    BY <1>1, <1>8 DEF InputPartitions, r, c, nr0, nr1
  <2>2. SouthSide(nr0, c) = nine
    BY <1>1, <1>2, <1>8 DEF SouthSide
  <2> QED BY <2>1, <2>2
<1>9. CASE r > 0 /\ r < nr0 - 1 /\ c = 0
  <2>1. InputPartitions = WestSide(nr1, r)
    BY <1>1, <1>9 DEF InputPartitions, r, c, nr0, nr1
  <2>2. WestSide(nr1, r) = nine
    BY <1>1, <1>2, <1>9 DEF WestSide
  <2> QED BY <2>1, <2>2
<1>10. CASE r > 0 /\ r < nr0 - 1 /\ c > 0 /\ c = nr1 - 1
  <2>1. InputPartitions = EastSide(nr1, r)
    BY <1>1, <1>10 DEF InputPartitions, r, c, nr0, nr1
  <2>2. EastSide(nr1, r) = nine
    BY <1>1, <1>2, <1>10 DEF EastSide
  <2> QED BY <2>1, <2>2
<1>11. CASE r > 0 /\ r < nr0 - 1 /\ c > 0 /\ c < nr1 - 1
  <2>1. InputPartitions = Inner(r, c)
    BY <1>1, <1>11 DEF InputPartitions, r, c, nr0, nr1
  <2>2. Inner(r, c) = nine
    BY <1>1, <1>2, <1>11 DEF Inner
  <2> QED BY <2>1, <2>2
<1> QED BY <1>1, <1>3, <1>4, <1>5, <1>6, <1>7, <1>8, <1>9, <1>10, <1>11

LEMMA InputPartitionIs ==
    ASSUME InputInv, NEW p1 \in 0 .. 2, NEW p2 \in 0 .. 2
    PROVE  InputPartition(<<p1, p2>>) = Neighbour(p1, p2)
<1>1. InputPartition(<<p1, p2>>) = InputPartitions[3 * p1 + p2 + 1]
  BY DEF InputPartition
<1>2. p1 \in {0, 1, 2} /\ p2 \in {0, 1, 2}
  OBVIOUS
<1> QED BY <1>1, <1>2, InputPartitionsAre

-----------------------------------------------------------------------------
(* The number of rows or columns of the partition at a place, along one    *)
(* dimension, and the number of those that are read.                       *)
ExtentAt(d, p) == IF Inside(d, p) THEN Extent(d, Idx(d, p)) ELSE radius

NrRead(d, p) == IF p = 1 THEN Center[d] ELSE radius

(* A neighbour has the extents it is said to have.                         *)
LEMMA ShapeIs ==
    ASSUME InputInv, NEW p1 \in 0 .. 2, NEW p2 \in 0 .. 2
    PROVE  /\ PartitionShape(InputPartition(<<p1, p2>>))[1] = ExtentAt(1, p1)
           /\ PartitionShape(InputPartition(<<p1, p2>>))[2] = ExtentAt(2, p2)
<1>1. PartitionShape(Neighbour(p1, p2)) = <<ExtentAt(1, p1), ExtentAt(2, p2)>>
  BY DEF Neighbour, PartitionShape, HaloShape, ExtentAt, Array, Corner, Longitudinal, Latitudinal
<1> QED BY <1>1, InputPartitionIs

(* The focal partition itself is inside the array; the places before and   *)
(* after it are outside only if it is the first or the last one.           *)
LEMMA InsideFacts ==
    ASSUME InputInv, NEW d \in Dims
    PROVE  /\ Inside(d, 1) /\ Idx(d, 1) = focal[d]
           /\ Idx(d, 0) = focal[d] - 1 /\ Idx(d, 2) = focal[d] + 1
           /\ ~Inside(d, 0) => focal[d] = 0 /\ End(d, 0) = 0
           /\ ~Inside(d, 2) => focal[d] = NrPartitions(d) - 1 /\ End(d, 2) = 1
           /\ Inside(d, 0) => Idx(d, 0) \in 0 .. NrPartitions(d) - 1 /\ Idx(d, 0) < NrPartitions(d) - 1
           /\ Inside(d, 2) => Idx(d, 2) \in 0 .. NrPartitions(d) - 1 /\ focal[d] < NrPartitions(d) - 1
BY LayoutFacts DEF Inside, Idx, End

(* Reading a place whose center is large enough never fails, and yields as *)
(* many cells as were asked for.                                           *)
LEMMA ExtentAtFacts ==
    ASSUME InputInv, LargeEnough, NEW d \in Dims, NEW p \in 0 .. 2
    PROVE  /\ ExtentAt(d, p) \in Nat
           /\ p # 1 => ExtentAt(d, p) >= radius
           /\ p = 1 => ExtentAt(d, p) = Center[d]
           /\ Center[d] \in Nat /\ Center[d] >= 2 * radius + 1 /\ radius \in Nat
<1>1. /\ Center[d] = Extent(d, focal[d]) /\ focal[d] \in 0 .. NrPartitions(d) - 1
      /\ layout.partition[d] \in Nat /\ radius \in Nat
  BY LayoutFacts, CenterIs
<1>2. Center[d] \in Nat /\ Center[d] < 2 * layout.partition[d]
  BY <1>1, ExtentFacts
<1>3. Center[d] >= 2 * radius + 1
  BY DEF LargeEnough, KernelSize, Dims
<1>4. layout.partition[d] > radius
  BY <1>1, <1>2, <1>3
<1>5. CASE Inside(d, p)
  <2>1. Idx(d, p) \in 0 .. NrPartitions(d) - 1
    BY <1>5 DEF Inside
  <2>2. ExtentAt(d, p) \in Nat /\ ExtentAt(d, p) >= layout.partition[d]
    BY <1>5, <2>1, ExtentFacts DEF ExtentAt
  <2>3. p = 1 => ExtentAt(d, p) = Center[d]
    BY <1>1, <1>5, InsideFacts DEF ExtentAt
  <2> QED BY <1>1, <1>2, <1>3, <1>4, <2>2, <2>3
<1>6. CASE ~Inside(d, p)
  <2>1. p # 1
    BY <1>6, InsideFacts
  <2> QED BY <1>1, <1>2, <1>3, <1>6, <2>1 DEF ExtentAt
<1> QED BY <1>5, <1>6

(* Neighbours have the cells that are asked for.                           *)
LEMMA ReadingSucceeds ==
    ASSUME InputInv, LargeEnough, NEW place \in Places
    PROVE  ~ReadFails(place)
<1>1. PICK p1 \in 0 .. 2, p2 \in 0 .. 2 : place = <<p1, p2>>
  BY DEF Places
<1>2. \A d \in Dims : ExtentAt(d, place[d]) \in Nat /\ (place[d] # 1 => ExtentAt(d, place[d]) >= radius)
  BY <1>1, ExtentAtFacts DEF Dims
<1>3. \A d \in Dims : PartitionShape(InputPartition(place))[d] = ExtentAt(d, place[d])
  BY <1>1, ShapeIs DEF Dims
<1>4. \A d \in Dims : place[d] = 1 => ExtentAt(d, place[d]) >= radius
  BY ExtentAtFacts DEF Dims
<1>5. radius \in Nat
  BY LayoutFacts DEF Dims
<1> QED BY <1>2, <1>3, <1>4, <1>5 DEF ReadFails, Dims

(* The slice of a place: the last cells before the focal partition, all of *)
(* it, and the first cells after it.                                       *)
LEMMA SliceIs ==
    ASSUME InputInv, LargeEnough, NEW p1 \in 0 .. 2, NEW p2 \in 0 .. 2, NEW d \in Dims,
           NEW p, p = IF d = 1 THEN p1 ELSE p2
    PROVE  /\ Slice(<<p1, p2>>, d)[1] = IF p = 0 THEN ExtentAt(d, p) - radius ELSE 0
           /\ DataShape(<<p1, p2>>)[d] = NrRead(d, p)
<1>1. p \in 0 .. 2 /\ p = <<p1, p2>>[d] /\ d \in {1, 2}
  BY DEF Dims
<1>2. PartitionShape(InputPartition(<<p1, p2>>))[d] = ExtentAt(d, p)
  BY ShapeIs DEF Dims
<1>3. /\ ExtentAt(d, p) \in Nat /\ radius \in Nat /\ Center[d] \in Nat
      /\ p = 1 => ExtentAt(d, p) = Center[d]
  BY <1>1, ExtentAtFacts
<1>4. Slice(<<p1, p2>>, d) =
        IF p = 0 THEN <<ExtentAt(d, p) - radius, ExtentAt(d, p)>>
        ELSE IF p = 1 THEN <<0, ExtentAt(d, p)>> ELSE <<0, radius>>
  BY <1>1, <1>2 DEF Slice
<1>5. DataShape(<<p1, p2>>)[d] = Length(Slice(<<p1, p2>>, d))
  BY <1>1 DEF DataShape
<1> QED BY <1>1, <1>3, <1>4, <1>5 DEF Length, NrRead

(* Along one dimension: a cell that is read is at its position, counted in *)
(* the array if the partition is inside, and beyond its ends otherwise.    *)
LEMMA Along ==
    ASSUME InputInv, LargeEnough, NEW d \in Dims, NEW p \in 0 .. 2,
           NEW x \in Int, 0 <= x, x < NrRead(d, p)
    PROVE  /\ Position(d, p, x) \in Int
           /\ Inside(d, p) =>
                /\ Idx(d, p) * layout.partition[d] + ((IF p = 0 THEN ExtentAt(d, p) - radius ELSE 0) + x)
                        = Position(d, p, x)
                /\ Position(d, p, x) \in 0 .. layout.array[d] - 1
           /\ ~Inside(d, p) =>
                /\ End(d, p) = 0 => Position(d, p, x) < 0
                /\ End(d, p) # 0 => Position(d, p, x) >= layout.array[d]
           /\ layout.array[d] \in Nat
<1> DEFINE s == layout.partition[d]
           a == layout.array[d]
<1>1. /\ radius \in Nat /\ Center[d] \in Nat /\ s \in Nat /\ a \in Nat /\ Start(d) \in Nat
      /\ focal[d] \in Nat
  BY LayoutFacts, ExtentAtFacts, NeighbourFacts
<1>2. /\ (focal[d] - 1) * s = Start(d) - s
      /\ (focal[d] + 1) * s = Start(d) + s
      /\ focal[d] * s = Start(d)
  BY NeighbourFacts DEF Start
<1>3. /\ Center[d] = Extent(d, focal[d])
      /\ focal[d] < NrPartitions(d) - 1 => Center[d] = s
      /\ focal[d] = NrPartitions(d) - 1 => Start(d) + Center[d] = a
      /\ Start(d) + Center[d] <= a
  BY CenterIs, LayoutFacts, ExtentFacts DEF Start
<1>4. focal[d] = 0 => Start(d) = 0
  BY <1>1 DEF Start
<1>5. CASE p = 0
  <2>1. Position(d, p, x) = Start(d) - radius + x /\ x < radius
    BY <1>5 DEF Position, NrRead
  <2>2. CASE Inside(d, p)
    <3>1. Idx(d, p) = focal[d] - 1 /\ Idx(d, p) \in 0 .. NrPartitions(d) - 1 /\ Idx(d, p) < NrPartitions(d) - 1
      BY <1>5, <2>2, InsideFacts
    <3>2. ExtentAt(d, p) = s
      BY <2>2, <3>1, ExtentFacts DEF ExtentAt
    <3>3. s >= radius
      BY <1>5, <3>2, ExtentAtFacts
    <3>4. Start(d) - s >= 0
      BY <1>2, <3>1, ExtentFacts
    <3> QED BY <1>1, <1>2, <1>3, <1>5, <2>1, <2>2, <3>1, <3>2, <3>3, <3>4
  <2>3. CASE ~Inside(d, p)
    BY <1>1, <1>4, <1>5, <2>1, <2>3, InsideFacts
  <2> QED BY <2>2, <2>3
<1>6. CASE p = 1
  <2>1. Position(d, p, x) = Start(d) + x /\ x < Center[d]
    BY <1>6 DEF Position, NrRead
  <2> QED BY <1>1, <1>2, <1>3, <1>6, <2>1, InsideFacts
<1>7. CASE p = 2
  <2>1. Position(d, p, x) = Start(d) + Center[d] + x /\ x < radius
    BY <1>7 DEF Position, NrRead
  <2>2. CASE Inside(d, p)
    <3>1. /\ Idx(d, p) = focal[d] + 1 /\ Idx(d, p) \in 0 .. NrPartitions(d) - 1
          /\ focal[d] < NrPartitions(d) - 1
      BY <1>7, <2>2, InsideFacts
    <3>2. /\ ExtentAt(d, p) \in Nat /\ ExtentAt(d, p) >= radius
          /\ Idx(d, p) * s + ExtentAt(d, p) <= a
      BY <1>7, <2>2, <3>1, ExtentFacts, ExtentAtFacts DEF ExtentAt
    <3>3. Idx(d, p) * s = Start(d) + s
      BY <1>2, <3>1
    <3> QED BY <1>1, <1>3, <1>7, <2>1, <2>2, <3>1, <3>2, <3>3
  <2>3. CASE ~Inside(d, p)
    BY <1>1, <1>3, <1>7, <2>1, <2>3, InsideFacts
  <2> QED BY <2>2, <2>3
<1> QED BY <1>5, <1>6, <1>7

-----------------------------------------------------------------------------
(* A cell of the data of a place has the value at its position in the      *)
(* array and its halo.                                                     *)
LEMMA DataIs ==
    ASSUME InputInv, LargeEnough, NEW p1 \in 0 .. 2, NEW p2 \in 0 .. 2, NEW cell,
           cell[1] \in Int, 0 <= cell[1], cell[1] < NrRead(1, p1),
           cell[2] \in Int, 0 <= cell[2], cell[2] < NrRead(2, p2)
    PROVE  Data(<<p1, p2>>, cell) =
            ValueAt([d \in {1, 2} |-> Position(d, IF d = 1 THEN p1 ELSE p2, cell[d])])
<1> DEFINE place == <<p1, p2>>
           q == [d \in {1, 2} |-> Position(d, IF d = 1 THEN p1 ELSE p2, cell[d])]
           at == [d \in {1, 2} |-> Slice(place, d)[1] + cell[d]]
<1>1. Data(place, cell) = ValueOf(Neighbour(p1, p2), at)
  BY InputPartitionIs DEF Data
<1>2. /\ q[1] = Position(1, p1, cell[1]) /\ q[2] = Position(2, p2, cell[2])
      /\ at[1] = (IF p1 = 0 THEN ExtentAt(1, p1) - radius ELSE 0) + cell[1]
      /\ at[2] = (IF p2 = 0 THEN ExtentAt(2, p2) - radius ELSE 0) + cell[2]
  <2>1. /\ Slice(place, 1)[1] = IF p1 = 0 THEN ExtentAt(1, p1) - radius ELSE 0
        /\ Slice(place, 2)[1] = IF p2 = 0 THEN ExtentAt(2, p2) - radius ELSE 0
    BY SliceIs DEF Dims
  <2> QED BY <2>1
<1>3. /\ q[1] \in Int /\ q[2] \in Int /\ layout.array[1] \in Nat /\ layout.array[2] \in Nat
      /\ Inside(1, p1) => /\ Idx(1, p1) * layout.partition[1] + at[1] = q[1]
                          /\ q[1] \in 0 .. layout.array[1] - 1
      /\ Inside(2, p2) => /\ Idx(2, p2) * layout.partition[2] + at[2] = q[2]
                          /\ q[2] \in 0 .. layout.array[2] - 1
      /\ ~Inside(1, p1) => /\ End(1, p1) = 0 => q[1] < 0
                           /\ End(1, p1) # 0 => q[1] >= layout.array[1]
      /\ ~Inside(2, p2) => /\ End(2, p2) = 0 => q[2] < 0
                           /\ End(2, p2) # 0 => q[2] >= layout.array[2]
  BY <1>2, Along DEF Dims
<1> HIDE DEF q, at
<1>4. CASE Inside(1, p1) /\ Inside(2, p2)
  <2> DEFINE N == Array(Idx(1, p1), Idx(2, p2))
  <2>1. Neighbour(p1, p2) = N
    BY <1>4 DEF Neighbour
  <2>2. ValueOf(N, at) = [cell |-> [d \in {1, 2} |-> N.idxs[d] * layout.partition[d] + at[d]]]
    BY DEF ValueOf, Array
  <2>3. [d \in {1, 2} |-> N.idxs[d] * layout.partition[d] + at[d]] = q
    <3>1. N.idxs[1] = Idx(1, p1) /\ N.idxs[2] = Idx(2, p2)
      BY DEF Array
    <3>2. q = [d \in {1, 2} |-> q[d]]
      BY DEF q
    <3>3. \A d \in {1, 2} : N.idxs[d] * layout.partition[d] + at[d] = q[d]
      BY <1>3, <1>4, <3>1
    <3> QED BY <3>2, <3>3
  <2>4. ValueAt(q) = [cell |-> q]
    BY <1>3, <1>4 DEF ValueAt
  <2> QED BY <1>1, <2>1, <2>2, <2>3, <2>4 DEF q
<1>5. CASE ~(Inside(1, p1) /\ Inside(2, p2))
  <2> DEFINE sides == {side \in {"north", "south", "west", "east"} :
                        \/ side = "north" /\ q[1] < 0
                        \/ side = "south" /\ q[1] >= layout.array[1]
                        \/ side = "west" /\ q[2] < 0
                        \/ side = "east" /\ q[2] >= layout.array[2]}
             vertical == IF End(1, p1) = 0 THEN "north" ELSE "south"
             horizontal == IF End(2, p2) = 0 THEN "west" ELSE "east"
  <2>1. ValueAt(q) = [halo |-> sides]
    BY <1>3, <1>5 DEF ValueAt
  <2>2. CASE ~Inside(1, p1) /\ ~Inside(2, p2)
    <3>1. ValueOf(Neighbour(p1, p2), at) = [halo |-> {vertical, horizontal}]
      BY <2>2 DEF Neighbour, ValueOf, HaloValue, Corner
    <3>2. sides = {vertical, horizontal}
      BY <1>3, <2>2
    <3> QED BY <1>1, <2>1, <3>1, <3>2 DEF q
  <2>3. CASE ~Inside(1, p1) /\ Inside(2, p2)
    <3>1. ValueOf(Neighbour(p1, p2), at) = [halo |-> {vertical}]
      BY <2>3 DEF Neighbour, ValueOf, HaloValue, Longitudinal
    <3>2. sides = {vertical}
      BY <1>3, <2>3
    <3> QED BY <1>1, <2>1, <3>1, <3>2 DEF q
  <2>4. CASE Inside(1, p1) /\ ~Inside(2, p2)
    <3>1. ValueOf(Neighbour(p1, p2), at) = [halo |-> {horizontal}]
      BY <2>4 DEF Neighbour, ValueOf, HaloValue, Latitudinal
    <3>2. sides = {horizontal}
      BY <1>3, <2>4
    <3> QED BY <1>1, <2>1, <3>1, <3>2 DEF q
  <2> QED BY <1>5, <2>2, <2>3, <2>4
<1> QED BY <1>4, <1>5

-----------------------------------------------------------------------------
(* The position of a cell of the window of a cell.                         *)
Target(cell, k) == [d \in {1, 2} |-> Start(d) + cell[d] - radius + k[d]]

(* The place that the first part of a cut window is in.                    *)
FirstPlace(d, idx) == IF Before(d, idx) THEN 0 ELSE 1

(* Along a dimension in which a window is cut, the two slices make up the  *)
(* extent of the kernel, are within what was read, and are next to each    *)
(* other.                                                                  *)
LEMMA CutFacts ==
    ASSUME InputInv, LargeEnough, NEW d \in Dims, NEW idx \in 0 .. Center[d] - 1,
           Before(d, idx) \/ After(d, idx)
    PROVE  LET p == FirstPlace(d, idx)
               n1 == NrInFirst(d, idx)
               n2 == NrInSecond(d, idx)
           IN  /\ p \in {0, 1} /\ n1 \in Nat \ {0} /\ n2 \in Nat \ {0} /\ n1 + n2 = KernelSize
               /\ NrRead(d, p) \in Nat /\ NrRead(d, p + 1) \in Nat
               /\ n1 <= NrRead(d, p) /\ n2 <= NrRead(d, p + 1)
               /\ \A k \in 0 .. n1 - 1 :
                    Position(d, p, NrRead(d, p) - n1 + k) = Start(d) + idx - radius + k
               /\ \A k \in n1 .. KernelSize - 1 :
                    Position(d, p + 1, k - n1) = Start(d) + idx - radius + k
<1>1. /\ radius \in Nat /\ Center[d] \in Nat /\ Center[d] >= 2 * radius + 1 /\ Start(d) \in Nat
  BY ExtentAtFacts, NeighbourFacts
<1>2. CASE Before(d, idx)
  BY <1>1, <1>2 DEF Before, FirstPlace, NrInFirst, NrInSecond, KernelSize, NrRead, Position
<1>3. CASE ~Before(d, idx)
  BY <1>1, <1>3 DEF After, FirstPlace, NrInFirst, NrInSecond, KernelSize, NrRead, Position
<1> QED BY <1>2, <1>3

(* Along a dimension in which it is not cut, a window is in the center.    *)
LEMMA UncutFacts ==
    ASSUME InputInv, LargeEnough, NEW d \in Dims, NEW idx \in 0 .. Center[d] - 1,
           ~Before(d, idx), ~After(d, idx), NEW k \in 0 .. KernelSize - 1
    PROVE  /\ idx - radius + k \in 0 .. NrRead(d, 1) - 1
           /\ Position(d, 1, idx - radius + k) = Start(d) + idx - radius + k
<1>1. /\ radius \in Nat /\ Center[d] \in Nat /\ Start(d) \in Nat
  BY ExtentAtFacts, NeighbourFacts
<1> QED BY <1>1 DEF Before, After, KernelSize, NrRead, Position

(* A cell that a single view covers is copied from that view.              *)
LEMMA CopiedFrom ==
    ASSUME NEW views, NEW k \in KernelCells, NEW v \in (1 .. 2) \X (1 .. 2),
           v[1] \in DOMAIN views, v[2] \in DOMAIN views[v[1]], Covers(views, v, k),
           \A u \in (1 .. 2) \X (1 .. 2) :
                u[1] \in DOMAIN views /\ u[2] \in DOMAIN views[u[1]] /\ Covers(views, u, k) => u = v
    PROVE  CopyToArray(views)[k] = ViewedValue(views, v, k)
<1> DEFINE all == {u \in (1 .. 2) \X (1 .. 2) : u[1] \in DOMAIN views /\ u[2] \in DOMAIN views[u[1]]}
<1>1. v \in all
  OBVIOUS
<1>2. (CHOOSE u \in all : Covers(views, u, k)) = v
  <2> HIDE DEF KernelCells, Covers
  <2> QED BY <1>1
<1>3. CopyToArray(views)[k] =
        IF \E u \in all : Covers(views, u, k)
        THEN ViewedValue(views, CHOOSE u \in all : Covers(views, u, k), k) ELSE None
  BY DEF CopyToArray
<1> QED BY <1>1, <1>2, <1>3, Zenon

(* Two by two views that fill the kernel: n1 and n2 rows, m1 and m2        *)
(* columns.                                                                *)
FillKernel(v11, v12, v21, v22, n1, n2, m1, m2) ==
    /\ n1 \in Nat /\ n2 \in Nat /\ n1 + n2 = KernelSize
    /\ m1 \in Nat /\ m2 \in Nat /\ m1 + m2 = KernelSize
    /\ KernelSize \in Nat
    /\ Length(v11.rows) = n1 /\ Length(v12.rows) = n1
    /\ Length(v21.rows) = n2 /\ Length(v22.rows) = n2
    /\ Length(v11.cols) = m1 /\ Length(v12.cols) = m2
    /\ Length(v21.cols) = m1 /\ Length(v22.cols) = m2

ViewedFromFour(v11, v12, v21, v22, n1, m1, k) ==
    IF k[1] < n1
    THEN IF k[2] < m1 THEN Data(v11.place, <<v11.rows[1] + k[1] - 0, v11.cols[1] + k[2] - 0>>)
         ELSE Data(v12.place, <<v12.rows[1] + k[1] - 0, v12.cols[1] + k[2] - m1>>)
    ELSE IF k[2] < m1 THEN Data(v21.place, <<v21.rows[1] + k[1] - n1, v21.cols[1] + k[2] - 0>>)
         ELSE Data(v22.place, <<v22.rows[1] + k[1] - n1, v22.cols[1] + k[2] - m1>>)

(* A cell of the kernel is copied from the one view that covers it.        *)
LEMMA CopiedFromFour ==
    ASSUME NEW v11, NEW v12, NEW v21, NEW v22, NEW n1, NEW n2, NEW m1, NEW m2,
           FillKernel(v11, v12, v21, v22, n1, n2, m1, m2), NEW k \in KernelCells
    PROVE  CopyToArray(<< <<v11, v12>>, <<v21, v22>> >>)[k] =
            ViewedFromFour(v11, v12, v21, v22, n1, m1, k)
<1> DEFINE views == << <<v11, v12>>, <<v21, v22>> >>
           v == <<IF k[1] < n1 THEN 1 ELSE 2, IF k[2] < m1 THEN 1 ELSE 2>>
<1> USE DEF FillKernel
<1>1. k[1] \in 0 .. KernelSize - 1 /\ k[2] \in 0 .. KernelSize - 1
  BY DEF KernelCells
<1>2. /\ DOMAIN views = 1 .. 2 /\ DOMAIN views[1] = 1 .. 2 /\ DOMAIN views[2] = 1 .. 2
      /\ views[1][1] = v11 /\ views[1][2] = v12 /\ views[2][1] = v21 /\ views[2][2] = v22
  OBVIOUS
<1> HIDE DEF views
<1>3. \A u \in (1 .. 2) \X (1 .. 2) :
        /\ RowOffset(views, u) = IF u[1] = 1 THEN 0 ELSE n1
        /\ ColOffset(views, u) = IF u[2] = 1 THEN 0 ELSE m1
        /\ Length(views[u[1]][u[2]].rows) = IF u[1] = 1 THEN n1 ELSE n2
        /\ Length(views[u[1]][u[2]].cols) = IF u[2] = 1 THEN m1 ELSE m2
  BY <1>2 DEF RowOffset, ColOffset
<1>4. \A u \in (1 .. 2) \X (1 .. 2) : Covers(views, u, k) <=> u = v
  <2> SUFFICES ASSUME NEW a \in {1, 2}, NEW b \in {1, 2}
               PROVE  Covers(views, <<a, b>>, k) <=> <<a, b>> = v
    OBVIOUS
  <2>1. Covers(views, <<a, b>>, k) <=>
            /\ k[1] - (IF a = 1 THEN 0 ELSE n1) \in 0 .. (IF a = 1 THEN n1 ELSE n2) - 1
            /\ k[2] - (IF b = 1 THEN 0 ELSE m1) \in 0 .. (IF b = 1 THEN m1 ELSE m2) - 1
    <3>1. <<a, b>> \in (1 .. 2) \X (1 .. 2) /\ <<a, b>>[1] = a /\ <<a, b>>[2] = b
      OBVIOUS
    <3> QED BY <3>1, <1>3 DEF Covers
  <2> QED BY <2>1, <1>1
<1>5. CopyToArray(views)[k] = ViewedValue(views, v, k)
  <2>1. v \in (1 .. 2) \X (1 .. 2) /\ v[1] \in DOMAIN views /\ v[2] \in DOMAIN views[v[1]]
    BY <1>2
  <2> HIDE DEF v
  <2> QED BY <2>1, <1>4, CopiedFrom
<1>6. ViewedValue(views, v, k) =
        Data(views[v[1]][v[2]].place,
             <<views[v[1]][v[2]].rows[1] + k[1] - (IF v[1] = 1 THEN 0 ELSE n1),
               views[v[1]][v[2]].cols[1] + k[2] - (IF v[2] = 1 THEN 0 ELSE m1)>>)
  <2>1. v \in (1 .. 2) \X (1 .. 2)
    OBVIOUS
  <2> HIDE DEF v
  <2> QED BY <2>1, <1>3 DEF ViewedValue
<1> QED BY <1>2, <1>5, <1>6 DEF views, ViewedFromFour

(* Values at equal positions.                                              *)
LEMMA SamePlace ==
    ASSUME InputInv, LargeEnough, NEW p1 \in 0 .. 2, NEW p2 \in 0 .. 2, NEW x1 \in Int, NEW x2 \in Int,
           0 <= x1, x1 < NrRead(1, p1), 0 <= x2, x2 < NrRead(2, p2), NEW cell, NEW k,
           Position(1, p1, x1) = Start(1) + cell[1] - radius + k[1],
           Position(2, p2, x2) = Start(2) + cell[2] - radius + k[2]
    PROVE  Data(<<p1, p2>>, <<x1, x2>>) = ValueAt(Target(cell, k))
<1> DEFINE q == [d \in {1, 2} |-> Position(d, IF d = 1 THEN p1 ELSE p2, <<x1, x2>>[d])]
<1>1. Data(<<p1, p2>>, <<x1, x2>>) = ValueAt(q)
  BY DataIs
<1>2. q = Target(cell, k)
  BY DEF Target
<1> QED BY <1>1, <1>2

FocalFacts(cell) == \A d \in Dims : cell[d] \in 0 .. Center[d] - 1

(* The window of a cell in the interior.                                   *)
LEMMA InnerWindowIs ==
    ASSUME InputInv, LargeEnough, NEW cell, FocalFacts(cell), NEW k \in KernelCells,
           ~Cut(1, cell), ~Cut(2, cell)
    PROVE  InnerWindow(cell)[k] = ValueAt(Target(cell, k))
<1> DEFINE x == [d \in {1, 2} |-> cell[d] - radius + k[d]]
<1>1. k[1] \in 0 .. KernelSize - 1 /\ k[2] \in 0 .. KernelSize - 1
  BY DEF KernelCells
<1>2. /\ x[1] \in 0 .. NrRead(1, 1) - 1 /\ Position(1, 1, x[1]) = Start(1) + cell[1] - radius + k[1]
      /\ x[2] \in 0 .. NrRead(2, 1) - 1 /\ Position(2, 1, x[2]) = Start(2) + cell[2] - radius + k[2]
  BY <1>1, UncutFacts DEF Cut, FocalFacts, Dims
<1>3. InnerWindow(cell)[k] = Data(<<1, 1>>, x)
  BY DEF InnerWindow
<1>4. NrRead(1, 1) \in Nat /\ NrRead(2, 1) \in Nat
  BY ExtentAtFacts DEF NrRead, Dims
<1>5. x = <<x[1], x[2]>>
  OBVIOUS
<1> HIDE DEF x
<1>6. /\ x[1] \in Int /\ 0 <= x[1] /\ x[1] < NrRead(1, 1)
      /\ x[2] \in Int /\ 0 <= x[2] /\ x[2] < NrRead(2, 1)
  BY <1>2, <1>4
<1>7. Data(<<1, 1>>, <<x[1], x[2]>>) = ValueAt(Target(cell, k))
  BY <1>2, <1>6, SamePlace
<1> QED BY <1>3, <1>5, <1>7

(* The window of a cell in a corner, from four partitions.                 *)
LEMMA CornerWindowIs ==
    ASSUME InputInv, LargeEnough, NEW cell, FocalFacts(cell), NEW k \in KernelCells,
           Cut(1, cell), Cut(2, cell)
    PROVE  CornerWindow(cell)[k] = ValueAt(Target(cell, k))
<1> DEFINE v == FirstPlace(1, cell[1])
           h == FirstPlace(2, cell[2])
           n1 == NrInFirst(1, cell[1])
           n2 == NrInSecond(1, cell[1])
           m1 == NrInFirst(2, cell[2])
           m2 == NrInSecond(2, cell[2])
           rows1 == <<NrRead(1, v) - n1, NrRead(1, v)>>
           cols1 == <<NrRead(2, h) - m1, NrRead(2, h)>>
           v11 == View(<<v, h>>, rows1, cols1)
           v12 == View(<<v, h + 1>>, rows1, <<0, m2>>)
           v21 == View(<<v + 1, h>>, <<0, n2>>, cols1)
           v22 == View(<<v + 1, h + 1>>, <<0, n2>>, <<0, m2>>)
<1>1. /\ v \in {0, 1} /\ n1 \in Nat \ {0} /\ n2 \in Nat \ {0} /\ n1 + n2 = KernelSize
      /\ NrRead(1, v) \in Nat /\ NrRead(1, v + 1) \in Nat
      /\ n1 <= NrRead(1, v) /\ n2 <= NrRead(1, v + 1)
      /\ \A i \in 0 .. n1 - 1 :
            Position(1, v, NrRead(1, v) - n1 + i) = Start(1) + cell[1] - radius + i
      /\ \A i \in n1 .. KernelSize - 1 :
            Position(1, v + 1, i - n1) = Start(1) + cell[1] - radius + i
  BY CutFacts DEF Cut, FocalFacts, Dims
<1>2. /\ h \in {0, 1} /\ m1 \in Nat \ {0} /\ m2 \in Nat \ {0} /\ m1 + m2 = KernelSize
      /\ NrRead(2, h) \in Nat /\ NrRead(2, h + 1) \in Nat
      /\ m1 <= NrRead(2, h) /\ m2 <= NrRead(2, h + 1)
      /\ \A i \in 0 .. m1 - 1 :
            Position(2, h, NrRead(2, h) - m1 + i) = Start(2) + cell[2] - radius + i
      /\ \A i \in m1 .. KernelSize - 1 :
            Position(2, h + 1, i - m1) = Start(2) + cell[2] - radius + i
  BY CutFacts DEF Cut, FocalFacts, Dims
<1>3. CornerWindow(cell) = CopyToArray(<< <<v11, v12>>, <<v21, v22>> >>)
  <2> DEFINE vv == IF Before(1, cell[1]) THEN 0 ELSE 1
             hh == IF Before(2, cell[2]) THEN 0 ELSE 1
             ne == IF vv = 0 /\ hh = 0 THEN <<0, 2>> ELSE <<vv, hh + 1>>
             sw == IF vv = 0 /\ hh = 0 THEN <<2, 0>> ELSE <<vv + 1, hh>>
  <2>1. v = vv /\ h = hh
    BY DEF FirstPlace
  <2>2. /\ DataShape(<<vv, hh>>)[1] = NrRead(1, v) /\ DataShape(<<vv, hh>>)[2] = NrRead(2, h)
        /\ DataShape(ne)[1] = NrRead(1, v) /\ DataShape(sw)[2] = NrRead(2, h)
    <3>1. \A p1, p2 \in 0 .. 2 :
            DataShape(<<p1, p2>>)[1] = NrRead(1, p1) /\ DataShape(<<p1, p2>>)[2] = NrRead(2, p2)
      BY SliceIs DEF Dims
    <3>2. vv \in {0, 1} /\ hh \in {0, 1}
      OBVIOUS
    <3>3. ne = <<vv, IF vv = 0 /\ hh = 0 THEN 2 ELSE hh + 1>>
      BY <3>2
    <3>4. sw = <<IF vv = 0 /\ hh = 0 THEN 2 ELSE vv + 1, hh>>
      BY <3>2
    <3>5. /\ (IF vv = 0 /\ hh = 0 THEN 2 ELSE hh + 1) \in 0 .. 2
          /\ (IF vv = 0 /\ hh = 0 THEN 2 ELSE vv + 1) \in 0 .. 2
          /\ vv \in 0 .. 2 /\ hh \in 0 .. 2
      BY <3>2
    <3> HIDE DEF vv, hh, ne, sw, v, h
    <3> QED BY <2>1, <3>1, <3>3, <3>4, <3>5
  <2>3. CornerWindow(cell) = CopyToArray(
            << << View(<<vv, hh>>, SliceOfFirst(1, cell[1], DataShape(<<vv, hh>>)[1]),
                       SliceOfFirst(2, cell[2], DataShape(<<vv, hh>>)[2])),
                  View(<<vv, hh + 1>>, SliceOfFirst(1, cell[1], DataShape(ne)[1]),
                       SliceOfSecond(2, cell[2])) >>,
               << View(<<vv + 1, hh>>, SliceOfSecond(1, cell[1]),
                       SliceOfFirst(2, cell[2], DataShape(sw)[2])),
                  View(<<vv + 1, hh + 1>>, SliceOfSecond(1, cell[1]), SliceOfSecond(2, cell[2])) >> >>)
    BY Zenon DEF CornerWindow
  <2> HIDE DEF vv, hh, ne, sw, v, h
  <2> QED BY <2>1, <2>2, <2>3 DEF SliceOfFirst, SliceOfSecond
<1>4. k[1] \in 0 .. KernelSize - 1 /\ k[2] \in 0 .. KernelSize - 1 /\ KernelSize \in Nat
  BY LayoutFacts DEF KernelCells, KernelSize, Dims
<1>5. /\ v11.place = <<v, h>> /\ v11.rows = rows1 /\ v11.cols = cols1
      /\ v12.place = <<v, h + 1>> /\ v12.rows = rows1 /\ v12.cols = <<0, m2>>
      /\ v21.place = <<v + 1, h>> /\ v21.rows = <<0, n2>> /\ v21.cols = cols1
      /\ v22.place = <<v + 1, h + 1>> /\ v22.rows = <<0, n2>> /\ v22.cols = <<0, m2>>
  BY DEF View
<1>6. /\ Length(rows1) = n1 /\ Length(<<0, n2>>) = n2 /\ Length(cols1) = m1 /\ Length(<<0, m2>>) = m2
      /\ rows1[1] = NrRead(1, v) - n1 /\ cols1[1] = NrRead(2, h) - m1
  BY <1>1, <1>2 DEF Length
<1> HIDE DEF v, h, n1, n2, m1, m2, rows1, cols1, v11, v12, v21, v22
<1>7. CopyToArray(<< <<v11, v12>>, <<v21, v22>> >>)[k] = ViewedFromFour(v11, v12, v21, v22, n1, m1, k)
  <2>1. /\ Length(v11.rows) = n1 /\ Length(v12.rows) = n1
        /\ Length(v21.rows) = n2 /\ Length(v22.rows) = n2
        /\ Length(v11.cols) = m1 /\ Length(v12.cols) = m2
        /\ Length(v21.cols) = m1 /\ Length(v22.cols) = m2
    BY <1>5, <1>6
  <2>2. n1 \in Nat /\ n2 \in Nat /\ m1 \in Nat /\ m2 \in Nat
    BY <1>1, <1>2
  <2>3. FillKernel(v11, v12, v21, v22, n1, n2, m1, m2)
    BY <1>1, <1>2, <1>4, <2>1, <2>2 DEF FillKernel
  <2> QED BY <2>3, CopiedFromFour, Zenon
<1> DEFINE x1 == IF k[1] < n1 THEN NrRead(1, v) - n1 + k[1] ELSE k[1] - n1
           x2 == IF k[2] < m1 THEN NrRead(2, h) - m1 + k[2] ELSE k[2] - m1
           p1 == IF k[1] < n1 THEN v ELSE v + 1
           p2 == IF k[2] < m1 THEN h ELSE h + 1
<1>8. CopyToArray(<< <<v11, v12>>, <<v21, v22>> >>)[k] = Data(<<p1, p2>>, <<x1, x2>>)
  <2>1. /\ k[1] \in Int /\ k[2] \in Int /\ n1 \in Int /\ m1 \in Int
        /\ NrRead(1, v) \in Int /\ NrRead(2, h) \in Int
    BY <1>1, <1>2, <1>4
  <2>2. CASE k[1] < n1 /\ k[2] < m1
    <3>1. v11.rows[1] + k[1] - 0 = x1 /\ v11.cols[1] + k[2] - 0 = x2 /\ v11.place = <<p1, p2>>
      BY <1>5, <1>6, <2>1, <2>2
    <3> QED BY <1>7, <2>2, <3>1 DEF ViewedFromFour
  <2>3. CASE k[1] < n1 /\ ~(k[2] < m1)
    <3>1. v12.rows[1] + k[1] - 0 = x1 /\ v12.cols[1] + k[2] - m1 = x2 /\ v12.place = <<p1, p2>>
      BY <1>5, <1>6, <2>1, <2>3
    <3> QED BY <1>7, <2>3, <3>1 DEF ViewedFromFour
  <2>4. CASE ~(k[1] < n1) /\ k[2] < m1
    <3>1. v21.rows[1] + k[1] - n1 = x1 /\ v21.cols[1] + k[2] - 0 = x2 /\ v21.place = <<p1, p2>>
      BY <1>5, <1>6, <2>1, <2>4
    <3> QED BY <1>7, <2>4, <3>1 DEF ViewedFromFour
  <2>5. CASE ~(k[1] < n1) /\ ~(k[2] < m1)
    <3>1. v22.rows[1] + k[1] - n1 = x1 /\ v22.cols[1] + k[2] - m1 = x2 /\ v22.place = <<p1, p2>>
      BY <1>5, <1>6, <2>1, <2>5
    <3> QED BY <1>7, <2>5, <3>1 DEF ViewedFromFour
  <2> QED BY <2>2, <2>3, <2>4, <2>5
<1>9. /\ p1 \in 0 .. 2 /\ x1 \in Int /\ 0 <= x1 /\ x1 < NrRead(1, p1)
      /\ Position(1, p1, x1) = Start(1) + cell[1] - radius + k[1]
  BY <1>1, <1>4
<1>10. /\ p2 \in 0 .. 2 /\ x2 \in Int /\ 0 <= x2 /\ x2 < NrRead(2, p2)
       /\ Position(2, p2, x2) = Start(2) + cell[2] - radius + k[2]
  BY <1>2, <1>4
<1> HIDE DEF x1, x2, p1, p2
<1>11. Data(<<p1, p2>>, <<x1, x2>>) = ValueAt(Target(cell, k))
  BY <1>9, <1>10, SamePlace
<1> QED BY <1>3, <1>8, <1>11

(* Two views below each other, of n1 and n2 rows, and beside each other,   *)
(* of n1 and n2 columns.                                                   *)
FillRows(v1, v2, n1, n2) ==
    /\ n1 \in Nat /\ n2 \in Nat /\ n1 + n2 = KernelSize /\ KernelSize \in Nat
    /\ Length(v1.rows) = n1 /\ Length(v2.rows) = n2
    /\ Length(v1.cols) = KernelSize /\ Length(v2.cols) = KernelSize

FillCols(v1, v2, n1, n2) ==
    /\ n1 \in Nat /\ n2 \in Nat /\ n1 + n2 = KernelSize /\ KernelSize \in Nat
    /\ Length(v1.cols) = n1 /\ Length(v2.cols) = n2
    /\ Length(v1.rows) = KernelSize /\ Length(v2.rows) = KernelSize

ViewedFromRows(v1, v2, n1, k) ==
    IF k[1] < n1 THEN Data(v1.place, <<v1.rows[1] + k[1] - 0, v1.cols[1] + k[2] - 0>>)
    ELSE Data(v2.place, <<v2.rows[1] + k[1] - n1, v2.cols[1] + k[2] - 0>>)

ViewedFromCols(v1, v2, n1, k) ==
    IF k[2] < n1 THEN Data(v1.place, <<v1.rows[1] + k[1] - 0, v1.cols[1] + k[2] - 0>>)
    ELSE Data(v2.place, <<v2.rows[1] + k[1] - 0, v2.cols[1] + k[2] - n1>>)

(* A cell of the kernel is copied from the upper or the lower view.        *)
LEMMA CopiedFromRows ==
    ASSUME NEW v1, NEW v2, NEW n1, NEW n2, FillRows(v1, v2, n1, n2), NEW k \in KernelCells
    PROVE  CopyToArray(<< <<v1>>, <<v2>> >>)[k] = ViewedFromRows(v1, v2, n1, k)
<1> USE DEF FillRows
<1> DEFINE views == << <<v1>>, <<v2>> >>
           v == <<IF k[1] < n1 THEN 1 ELSE 2, 1>>
<1>1. k[1] \in 0 .. KernelSize - 1 /\ k[2] \in 0 .. KernelSize - 1
  BY DEF KernelCells
<1>2. /\ DOMAIN views = 1 .. 2 /\ DOMAIN views[1] = 1 .. 1 /\ DOMAIN views[2] = 1 .. 1
      /\ views[1][1] = v1 /\ views[2][1] = v2
  OBVIOUS
<1> HIDE DEF views
<1>3. /\ Covers(views, <<1, 1>>, k) <=> k[1] < n1
      /\ Covers(views, <<2, 1>>, k) <=> ~(k[1] < n1)
  BY <1>1, <1>2 DEF Covers, RowOffset, ColOffset
<1>4. CopyToArray(views)[k] = ViewedValue(views, v, k)
  <2>1. /\ v \in (1 .. 2) \X (1 .. 2) /\ v[1] \in DOMAIN views /\ v[2] \in DOMAIN views[v[1]]
        /\ Covers(views, v, k)
    BY <1>2, <1>3
  <2>2. ASSUME NEW u \in (1 .. 2) \X (1 .. 2), u[1] \in DOMAIN views, u[2] \in DOMAIN views[u[1]],
               Covers(views, u, k)
        PROVE  u = v
    <3>1. u = <<1, 1>> \/ u = <<2, 1>>
      BY <1>2, <2>2
    <3> QED BY <1>3, <2>2, <3>1
  <2> HIDE DEF v
  <2> QED BY <2>1, <2>2, CopiedFrom
<1>5. ViewedValue(views, v, k) = ViewedFromRows(v1, v2, n1, k)
  BY <1>2 DEF ViewedValue, RowOffset, ColOffset, ViewedFromRows
<1> QED BY <1>4, <1>5 DEF views

(* A cell of the kernel is copied from the view to the west or to the east. *)
LEMMA CopiedFromCols ==
    ASSUME NEW v1, NEW v2, NEW n1, NEW n2, FillCols(v1, v2, n1, n2), NEW k \in KernelCells
    PROVE  CopyToArray(<< <<v1, v2>> >>)[k] = ViewedFromCols(v1, v2, n1, k)
<1> USE DEF FillCols
<1> DEFINE views == << <<v1, v2>> >>
           v == <<1, IF k[2] < n1 THEN 1 ELSE 2>>
<1>1. k[1] \in 0 .. KernelSize - 1 /\ k[2] \in 0 .. KernelSize - 1
  BY DEF KernelCells
<1>2. /\ DOMAIN views = 1 .. 1 /\ DOMAIN views[1] = 1 .. 2
      /\ views[1][1] = v1 /\ views[1][2] = v2
  OBVIOUS
<1> HIDE DEF views
<1>3. /\ Covers(views, <<1, 1>>, k) <=> k[2] < n1
      /\ Covers(views, <<1, 2>>, k) <=> ~(k[2] < n1)
  BY <1>1, <1>2 DEF Covers, RowOffset, ColOffset
<1>4. CopyToArray(views)[k] = ViewedValue(views, v, k)
  <2>1. /\ v \in (1 .. 2) \X (1 .. 2) /\ v[1] \in DOMAIN views /\ v[2] \in DOMAIN views[v[1]]
        /\ Covers(views, v, k)
    BY <1>2, <1>3
  <2>2. ASSUME NEW u \in (1 .. 2) \X (1 .. 2), u[1] \in DOMAIN views, u[2] \in DOMAIN views[u[1]],
               Covers(views, u, k)
        PROVE  u = v
    <3>1. u = <<1, 1>> \/ u = <<1, 2>>
      BY <1>2, <2>2
    <3> QED BY <1>3, <2>2, <3>1
  <2> HIDE DEF v
  <2> QED BY <2>1, <2>2, CopiedFrom
<1>5. ViewedValue(views, v, k) = ViewedFromCols(v1, v2, n1, k)
  BY <1>2 DEF ViewedValue, RowOffset, ColOffset, ViewedFromCols
<1> QED BY <1>4, <1>5 DEF views

(* The window of a cell along the north or south side.                     *)
LEMMA NorthSouthWindowIs ==
    ASSUME InputInv, LargeEnough, NEW cell, FocalFacts(cell), NEW k \in KernelCells,
           Cut(1, cell), ~Cut(2, cell)
    PROVE  NorthSouthWindow(cell)[k] = ValueAt(Target(cell, k))
<1> DEFINE v == FirstPlace(1, cell[1])
           n1 == NrInFirst(1, cell[1])
           n2 == NrInSecond(1, cell[1])
           rows1 == <<NrRead(1, v) - n1, NrRead(1, v)>>
           cols == <<cell[2] - radius, cell[2] - radius + KernelSize>>
           v1 == View(<<v, 1>>, rows1, cols)
           v2 == View(<<v + 1, 1>>, <<0, n2>>, cols)
<1>1. /\ v \in {0, 1} /\ n1 \in Nat \ {0} /\ n2 \in Nat \ {0} /\ n1 + n2 = KernelSize
      /\ NrRead(1, v) \in Nat /\ NrRead(1, v + 1) \in Nat
      /\ n1 <= NrRead(1, v) /\ n2 <= NrRead(1, v + 1)
      /\ \A i \in 0 .. n1 - 1 :
            Position(1, v, NrRead(1, v) - n1 + i) = Start(1) + cell[1] - radius + i
      /\ \A i \in n1 .. KernelSize - 1 :
            Position(1, v + 1, i - n1) = Start(1) + cell[1] - radius + i
  BY CutFacts DEF Cut, FocalFacts, Dims
<1>2. k[1] \in 0 .. KernelSize - 1 /\ k[2] \in 0 .. KernelSize - 1 /\ KernelSize \in Nat
  BY LayoutFacts DEF KernelCells, KernelSize, Dims
<1>3. /\ cell[2] - radius + k[2] \in 0 .. NrRead(2, 1) - 1
      /\ Position(2, 1, cell[2] - radius + k[2]) = Start(2) + cell[2] - radius + k[2]
  BY <1>2, UncutFacts DEF Cut, FocalFacts, Dims
<1>4. NrRead(2, 1) \in Nat /\ radius \in Nat /\ cell[2] \in Nat
  BY ExtentAtFacts DEF NrRead, Dims, FocalFacts
<1>5. NorthSouthWindow(cell) = CopyToArray(<< <<v1>>, <<v2>> >>)
  <2>1. DataShape(<<v, 1>>)[1] = NrRead(1, v)
    BY <1>1, SliceIs DEF Dims
  <2> QED BY <2>1 DEF NorthSouthWindow, FirstPlace, SliceOfFirst, SliceOfSecond
<1>6. /\ v1.place = <<v, 1>> /\ v1.rows = rows1 /\ v1.cols = cols
      /\ v2.place = <<v + 1, 1>> /\ v2.rows = <<0, n2>> /\ v2.cols = cols
  BY DEF View
<1>7. /\ Length(rows1) = n1 /\ Length(<<0, n2>>) = n2 /\ Length(cols) = KernelSize
      /\ rows1[1] = NrRead(1, v) - n1 /\ cols[1] = cell[2] - radius
  BY <1>1, <1>2, <1>4 DEF Length
<1> HIDE DEF v, n1, n2, rows1, cols, v1, v2
<1>8. CopyToArray(<< <<v1>>, <<v2>> >>)[k] = ViewedFromRows(v1, v2, n1, k)
  <2>1. FillRows(v1, v2, n1, n2)
    BY <1>1, <1>2, <1>6, <1>7 DEF FillRows
  <2> QED BY <2>1, CopiedFromRows, Zenon
<1> DEFINE x1 == IF k[1] < n1 THEN NrRead(1, v) - n1 + k[1] ELSE k[1] - n1
           x2 == cell[2] - radius + k[2]
           p1 == IF k[1] < n1 THEN v ELSE v + 1
<1>9. ViewedFromRows(v1, v2, n1, k) = Data(<<p1, 1>>, <<x1, x2>>)
  <2>1. k[1] \in Int /\ k[2] \in Int /\ n1 \in Int /\ NrRead(1, v) \in Int
    BY <1>1, <1>2
  <2>2. CASE k[1] < n1
    <3>1. v1.rows[1] + k[1] - 0 = x1 /\ v1.cols[1] + k[2] - 0 = x2 /\ v1.place = <<p1, 1>>
      BY <1>4, <1>6, <1>7, <2>1, <2>2
    <3> QED BY <2>2, <3>1 DEF ViewedFromRows
  <2>3. CASE ~(k[1] < n1)
    <3>1. v2.rows[1] + k[1] - n1 = x1 /\ v2.cols[1] + k[2] - 0 = x2 /\ v2.place = <<p1, 1>>
      BY <1>4, <1>6, <1>7, <2>1, <2>3
    <3> QED BY <2>3, <3>1 DEF ViewedFromRows
  <2> QED BY <2>2, <2>3
<1>10. /\ p1 \in 0 .. 2 /\ x1 \in Int /\ 0 <= x1 /\ x1 < NrRead(1, p1)
       /\ Position(1, p1, x1) = Start(1) + cell[1] - radius + k[1]
  BY <1>1, <1>2
<1>11. /\ x2 \in Int /\ 0 <= x2 /\ x2 < NrRead(2, 1)
       /\ Position(2, 1, x2) = Start(2) + cell[2] - radius + k[2]
  BY <1>3, <1>4
<1> HIDE DEF x1, x2, p1
<1>12. Data(<<p1, 1>>, <<x1, x2>>) = ValueAt(Target(cell, k))
  BY <1>10, <1>11, SamePlace
<1> QED BY <1>5, <1>8, <1>9, <1>12

(* The window of a cell along the west or east side.                       *)
LEMMA WestEastWindowIs ==
    ASSUME InputInv, LargeEnough, NEW cell, FocalFacts(cell), NEW k \in KernelCells,
           ~Cut(1, cell), Cut(2, cell)
    PROVE  WestEastWindow(cell)[k] = ValueAt(Target(cell, k))
<1> DEFINE h == FirstPlace(2, cell[2])
           m1 == NrInFirst(2, cell[2])
           m2 == NrInSecond(2, cell[2])
           cols1 == <<NrRead(2, h) - m1, NrRead(2, h)>>
           rows == <<cell[1] - radius, cell[1] - radius + KernelSize>>
           v1 == View(<<1, h>>, rows, cols1)
           v2 == View(<<1, h + 1>>, rows, <<0, m2>>)
<1>1. /\ h \in {0, 1} /\ m1 \in Nat \ {0} /\ m2 \in Nat \ {0} /\ m1 + m2 = KernelSize
      /\ NrRead(2, h) \in Nat /\ NrRead(2, h + 1) \in Nat
      /\ m1 <= NrRead(2, h) /\ m2 <= NrRead(2, h + 1)
      /\ \A i \in 0 .. m1 - 1 :
            Position(2, h, NrRead(2, h) - m1 + i) = Start(2) + cell[2] - radius + i
      /\ \A i \in m1 .. KernelSize - 1 :
            Position(2, h + 1, i - m1) = Start(2) + cell[2] - radius + i
  BY CutFacts DEF Cut, FocalFacts, Dims
<1>2. k[1] \in 0 .. KernelSize - 1 /\ k[2] \in 0 .. KernelSize - 1 /\ KernelSize \in Nat
  BY LayoutFacts DEF KernelCells, KernelSize, Dims
<1>3. /\ cell[1] - radius + k[1] \in 0 .. NrRead(1, 1) - 1
      /\ Position(1, 1, cell[1] - radius + k[1]) = Start(1) + cell[1] - radius + k[1]
  BY <1>2, UncutFacts DEF Cut, FocalFacts, Dims
<1>4. NrRead(1, 1) \in Nat /\ radius \in Nat /\ cell[1] \in Nat
  BY ExtentAtFacts DEF NrRead, Dims, FocalFacts
<1>5. WestEastWindow(cell) = CopyToArray(<< <<v1, v2>> >>)
  <2>1. DataShape(<<1, h>>)[2] = NrRead(2, h)
    BY <1>1, SliceIs DEF Dims
  <2> QED BY <2>1 DEF WestEastWindow, FirstPlace, SliceOfFirst, SliceOfSecond
<1>6. /\ v1.place = <<1, h>> /\ v1.rows = rows /\ v1.cols = cols1
      /\ v2.place = <<1, h + 1>> /\ v2.rows = rows /\ v2.cols = <<0, m2>>
  BY DEF View
<1>7. /\ Length(cols1) = m1 /\ Length(<<0, m2>>) = m2 /\ Length(rows) = KernelSize
      /\ cols1[1] = NrRead(2, h) - m1 /\ rows[1] = cell[1] - radius
  BY <1>1, <1>2, <1>4 DEF Length
<1> HIDE DEF h, m1, m2, cols1, rows, v1, v2
<1>8. CopyToArray(<< <<v1, v2>> >>)[k] = ViewedFromCols(v1, v2, m1, k)
  <2>1. FillCols(v1, v2, m1, m2)
    BY <1>1, <1>2, <1>6, <1>7 DEF FillCols
  <2> QED BY <2>1, CopiedFromCols, Zenon
<1> DEFINE x1 == cell[1] - radius + k[1]
           x2 == IF k[2] < m1 THEN NrRead(2, h) - m1 + k[2] ELSE k[2] - m1
           p2 == IF k[2] < m1 THEN h ELSE h + 1
<1>9. ViewedFromCols(v1, v2, m1, k) = Data(<<1, p2>>, <<x1, x2>>)
  <2>1. k[1] \in Int /\ k[2] \in Int /\ m1 \in Int /\ NrRead(2, h) \in Int
    BY <1>1, <1>2
  <2>2. CASE k[2] < m1
    <3>1. v1.rows[1] + k[1] - 0 = x1 /\ v1.cols[1] + k[2] - 0 = x2 /\ v1.place = <<1, p2>>
      BY <1>4, <1>6, <1>7, <2>1, <2>2
    <3> QED BY <2>2, <3>1 DEF ViewedFromCols
  <2>3. CASE ~(k[2] < m1)
    <3>1. v2.rows[1] + k[1] - 0 = x1 /\ v2.cols[1] + k[2] - m1 = x2 /\ v2.place = <<1, p2>>
      BY <1>4, <1>6, <1>7, <2>1, <2>3
    <3> QED BY <2>3, <3>1 DEF ViewedFromCols
  <2> QED BY <2>2, <2>3
<1>10. /\ x1 \in Int /\ 0 <= x1 /\ x1 < NrRead(1, 1)
       /\ Position(1, 1, x1) = Start(1) + cell[1] - radius + k[1]
  BY <1>3, <1>4
<1>11. /\ p2 \in 0 .. 2 /\ x2 \in Int /\ 0 <= x2 /\ x2 < NrRead(2, p2)
       /\ Position(2, p2, x2) = Start(2) + cell[2] - radius + k[2]
  BY <1>1, <1>2
<1> HIDE DEF x1, x2, p2
<1>12. Data(<<1, p2>>, <<x1, x2>>) = ValueAt(Target(cell, k))
  BY <1>10, <1>11, SamePlace
<1> QED BY <1>5, <1>8, <1>9, <1>12

-----------------------------------------------------------------------------
(* The window that a cell of the focal partition has in the array.         *)
FocalWindow(cell) == WindowIn([d \in {1, 2} |-> focal[d] * layout.partition[d] + cell[d]])

LEMMA FocalWindowIs ==
    ASSUME InputInv, NEW cell, FocalFacts(cell), LargeEnough
    PROVE  FocalWindow(cell) = [k \in KernelCells |-> ValueAt(Target(cell, k))]
<1> DEFINE position == [d \in {1, 2} |-> focal[d] * layout.partition[d] + cell[d]]
<1>1. ASSUME NEW k \in KernelCells
      PROVE  [d \in {1, 2} |-> position[d] - radius + k[d]] = Target(cell, k)
  <2> DEFINE x(d) == position[d] - radius + k[d]
             y(d) == Start(d) + cell[d] - radius + k[d]
  <2>1. k[1] \in Int /\ k[2] \in Int
    BY DEF KernelCells
  <2>2. ASSUME NEW d \in {1, 2} PROVE x(d) = y(d)
    <3>1. position[d] = Start(d) + cell[d]
      BY Zenon DEF Start
    <3>2. Start(d) \in Int /\ radius \in Int /\ Center[d] \in Nat
      BY NeighbourFacts, ExtentAtFacts DEF Dims
    <3>3. cell[d] \in Int
      BY <3>2 DEF FocalFacts, Dims
    <3> HIDE DEF position
    <3> QED BY <2>1, <3>1, <3>2, <3>3
  <2>3. Target(cell, k) = [d \in {1, 2} |-> y(d)]
    BY Zenon DEF Target
  <2> HIDE DEF x, y
  <2>4. [d \in {1, 2} |-> x(d)] = [d \in {1, 2} |-> y(d)]
    BY <2>2, Zenon
  <2> USE DEF x
  <2> QED BY <2>3, <2>4, Zenon
<1>2. FocalWindow(cell) = [k \in KernelCells |-> ValueAt([d \in {1, 2} |-> position[d] - radius + k[d]])]
  BY Zenon DEF FocalWindow, WindowIn
<1> HIDE DEF position
<1> QED BY <1>1, <1>2, Zenon

(* Functions on the cells of the kernel.                                   *)
LEMMA KernelFunctions ==
    ASSUME InputInv, LargeEnough, NEW cell, FocalFacts(cell), NEW window,
           window = [k \in KernelCells |-> window[k]],
           \A k \in KernelCells : window[k] = ValueAt(Target(cell, k))
    PROVE  window = FocalWindow(cell)
<1>1. [k \in KernelCells |-> window[k]] = [k \in KernelCells |-> ValueAt(Target(cell, k))]
  BY Zenon
<1> QED BY <1>1, FocalWindowIs, Zenon

(* The cells of the focal partition are those of its extents.              *)
LEMMA FocalCellsAre ==
    ASSUME NEW cell \in FocalCells
    PROVE  FocalFacts(cell)
BY DEF FocalCells, FocalFacts, Dims

(* The windows of the interior and of the border, as functions.            *)
LEMMA InnerIsExact ==
    ASSUME InputInv, LargeEnough, NEW cell \in InnerCells
    PROVE  InnerWindow(cell) = FocalWindow(cell)
<1>1. cell \in FocalCells /\ ~Cut(1, cell) /\ ~Cut(2, cell)
  BY Zenon DEF InnerCells
<1>2. FocalFacts(cell)
  BY <1>1, FocalCellsAre, Zenon
<1>3. \A k \in KernelCells : InnerWindow(cell)[k] = ValueAt(Target(cell, k))
  BY <1>1, <1>2, InnerWindowIs, Zenon
<1>4. InnerWindow(cell) = [k \in KernelCells |-> InnerWindow(cell)[k]]
  BY Zenon DEF InnerWindow
<1> QED BY <1>2, <1>3, <1>4, KernelFunctions, Zenon

(* What is put together from views has a value for each cell of the kernel. *)
LEMMA CopyToArrayIsFunction ==
    ASSUME NEW views
    PROVE  CopyToArray(views) = [k \in KernelCells |-> CopyToArray(views)[k]]
BY Zenon DEF CopyToArray

LEMMA BorderIsExact ==
    ASSUME InputInv, LargeEnough, NEW cell \in FocalCells \ InnerCells
    PROVE  BorderWindow(cell) = FocalWindow(cell)
<1>1. cell \in FocalCells /\ (Cut(1, cell) \/ Cut(2, cell))
  BY Zenon DEF InnerCells
<1>2. FocalFacts(cell)
  BY <1>1, FocalCellsAre, Zenon
<1>3. CASE Cut(1, cell) /\ Cut(2, cell)
  <2>1. BorderWindow(cell) = CornerWindow(cell)
    BY <1>3 DEF BorderWindow
  <2>2. \A k \in KernelCells : CornerWindow(cell)[k] = ValueAt(Target(cell, k))
    BY <1>2, <1>3, CornerWindowIs, Zenon
  <2>3. CornerWindow(cell) = [k \in KernelCells |-> CornerWindow(cell)[k]]
    BY CopyToArrayIsFunction, Zenon DEF CornerWindow
  <2> QED BY <1>2, <2>1, <2>2, <2>3, KernelFunctions, Zenon
<1>4. CASE Cut(1, cell) /\ ~Cut(2, cell)
  <2>1. BorderWindow(cell) = NorthSouthWindow(cell)
    BY <1>4 DEF BorderWindow
  <2>2. \A k \in KernelCells : NorthSouthWindow(cell)[k] = ValueAt(Target(cell, k))
    BY <1>2, <1>4, NorthSouthWindowIs, Zenon
  <2>3. NorthSouthWindow(cell) = [k \in KernelCells |-> NorthSouthWindow(cell)[k]]
    BY CopyToArrayIsFunction, Zenon DEF NorthSouthWindow
  <2> QED BY <1>2, <2>1, <2>2, <2>3, KernelFunctions, Zenon
<1>5. CASE ~Cut(1, cell) /\ Cut(2, cell)
  <2>1. BorderWindow(cell) = WestEastWindow(cell)
    BY <1>5 DEF BorderWindow
  <2>2. \A k \in KernelCells : WestEastWindow(cell)[k] = ValueAt(Target(cell, k))
    BY <1>2, <1>5, WestEastWindowIs, Zenon
  <2>3. WestEastWindow(cell) = [k \in KernelCells |-> WestEastWindow(cell)[k]]
    BY CopyToArrayIsFunction, Zenon DEF WestEastWindow
  <2> QED BY <1>2, <2>1, <2>2, <2>3, KernelFunctions, Zenon
<1> QED BY <1>1, <1>3, <1>4, <1>5

-----------------------------------------------------------------------------
(* The inductive invariant.  What is known of the windows of the interior  *)
(* is needed when those of the border are added to it.                     *)
TooSmall == \E d \in {1, 2} : Center[d] < KernelSize

InnerExact ==
    inner # None =>
        IF TooSmall THEN inner = Failed
        ELSE inner = Computed([cell \in InnerCells |-> FocalWindow(cell)])

Inv == InputInv /\ InnerExact /\ WindowsAreExact

(* A partition that is not too small is large enough.                      *)
LEMMA SmallOrLarge ==
    ASSUME InputInv, ~TooSmall
    PROVE  LargeEnough
<1>1. \A d \in Dims : Center[d] \in Nat
  BY ExtentFacts, CenterIs, LayoutFacts
<1>2. KernelSize \in Nat
  BY LayoutFacts DEF KernelSize, Dims
<1> QED BY <1>1, <1>2 DEF TooSmall, LargeEnough, Dims

(* The windows that are right, of the interior and of all of the partition. *)
InnerResult == Computed([cell \in InnerCells |-> FocalWindow(cell)])
Result == Computed([cell \in FocalCells |-> FocalWindow(cell)])

(* What depends on the input only stays as it is.                          *)
LEMMA InputStays ==
    ASSUME UNCHANGED <<layout, radius, focal>>
    PROVE  /\ InputInv' <=> InputInv
           /\ TooSmall' <=> TooSmall
           /\ InnerResult' = InnerResult
           /\ Result' = Result
<1> USE DEF NrPartitions, Extent, PartitionShape, HaloShape, Array, Center, KernelSize
<1>1. InputInv' <=> InputInv
  BY DEF InputInv
<1>2. TooSmall' <=> TooSmall
  BY DEF TooSmall
<1>3. FocalCells' = FocalCells /\ InnerCells' = InnerCells
  BY DEF FocalCells, InnerCells, Cut, Before, After
<1>4. ASSUME NEW cell PROVE FocalWindow(cell)' = FocalWindow(cell)
  BY DEF FocalWindow, WindowIn, KernelCells, ValueAt
<1>5. InnerResult' = InnerResult
  BY <1>3, <1>4, Zenon DEF InnerResult, Computed
<1>6. Result' = Result
  BY <1>3, <1>4, Zenon DEF Result, Computed
<1> QED BY <1>1, <1>2, <1>5, <1>6

LEMMA ExactnessIs ==
    /\ InnerExact <=> (inner # None => IF TooSmall THEN inner = Failed ELSE inner = InnerResult)
    /\ WindowsAreExact <=> (output # None => IF TooSmall THEN output = Failed ELSE output = Result)
BY Zenon DEF InnerExact, InnerResult, WindowsAreExact, TooSmall, Result, FocalWindow

LEMMA NextExactnessIs ==
    /\ InnerExact' <=>
            (inner' # None => IF TooSmall' THEN inner' = Failed ELSE inner' = InnerResult')
    /\ WindowsAreExact' <=>
            (output' # None => IF TooSmall' THEN output' = Failed ELSE output' = Result')
BY Zenon DEF InnerExact, InnerResult, WindowsAreExact, TooSmall, Result, FocalWindow, Failed

(* The windows of the interior, once the data of the center is there.      *)
LEMMA InnerStep ==
    ASSUME Inv, ComputeInner
    PROVE  Inv'
<1>1. InputInv' /\ (TooSmall' <=> TooSmall) /\ InnerResult' = InnerResult /\ Result' = Result
  BY InputStays DEF Inv, ComputeInner
<1>2. inner' = IF TooSmall THEN Failed ELSE Computed([cell \in InnerCells |-> InnerWindow(cell)])
  BY Zenon DEF ComputeInner, TooSmall
<1>3. ~TooSmall => Computed([cell \in InnerCells |-> InnerWindow(cell)]) = InnerResult
  <2>1. ~TooSmall => \A cell \in InnerCells : InnerWindow(cell) = FocalWindow(cell)
    BY SmallOrLarge, InnerIsExact, Zenon DEF Inv
  <2> QED BY <2>1, Zenon DEF InnerResult
<1>4. InnerExact'
  BY <1>1, <1>2, <1>3, NextExactnessIs, Zenon
<1>5. WindowsAreExact'
  <2>1. output' = output
    BY DEF ComputeInner
  <2> QED BY <1>1, <2>1, ExactnessIs, NextExactnessIs, Zenon DEF Inv
<1> QED BY <1>1, <1>4, <1>5, Zenon DEF Inv

(* The windows of the border, once all data is there.                      *)
LEMMA BorderStep ==
    ASSUME Inv, ComputeBorder
    PROVE  Inv'
<1>1. InputInv' /\ (TooSmall' <=> TooSmall) /\ InnerResult' = InnerResult /\ Result' = Result
  BY InputStays DEF Inv, ComputeBorder
<1>2. IF TooSmall THEN inner = Failed ELSE inner = InnerResult
  BY ExactnessIs, Zenon DEF Inv, ComputeBorder
<1>3. TooSmall => output' = Failed
  <2>1. TooSmall => inner.failed
    BY <1>2 DEF Failed
  <2> QED BY <2>1, Zenon DEF ComputeBorder
<1>4. ~TooSmall => output' = Result
  <2> SUFFICES ASSUME ~TooSmall PROVE output' = Result
    OBVIOUS
  <2>1. LargeEnough
    BY SmallOrLarge DEF Inv
  <2>2. \A place \in Places : ~ReadFails(place)
    BY <2>1, ReadingSucceeds, Zenon DEF Inv
  <2>3. ~inner.failed /\ inner.windows = [cell \in InnerCells |-> FocalWindow(cell)]
    BY <1>2 DEF InnerResult, Computed
  <2>4. output' = Computed([cell \in FocalCells |->
                    IF cell \in InnerCells THEN inner.windows[cell] ELSE BorderWindow(cell)])
    BY <2>2, <2>3, Zenon DEF ComputeBorder
  <2>5. ASSUME NEW cell \in FocalCells
        PROVE  (IF cell \in InnerCells THEN inner.windows[cell] ELSE BorderWindow(cell))
                 = FocalWindow(cell)
    <3>1. CASE cell \in InnerCells
      BY <2>3, <3>1, Zenon
    <3>2. CASE cell \notin InnerCells
      BY <2>1, <3>2, BorderIsExact, Zenon DEF Inv
    <3> QED BY <3>1, <3>2
  <2> QED BY <2>4, <2>5, Zenon DEF Result
<1>5. WindowsAreExact'
  BY <1>1, <1>3, <1>4, NextExactnessIs, Zenon
<1>6. InnerExact'
  <2>1. inner' = inner
    BY DEF ComputeBorder
  <2> QED BY <1>1, <2>1, ExactnessIs, NextExactnessIs, Zenon DEF Inv
<1> QED BY <1>1, <1>5, <1>6, Zenon DEF Inv

(* Nothing but the data that has arrived changes, or nothing at all.       *)
LEMMA OtherSteps ==
    ASSUME Inv, UNCHANGED <<layout, radius, focal, inner, output>>
    PROVE  Inv'
<1>1. InputInv' /\ (TooSmall' <=> TooSmall) /\ InnerResult' = InnerResult /\ Result' = Result
  BY InputStays DEF Inv
<1> QED BY <1>1, ExactnessIs, NextExactnessIs DEF Inv

(* However the array is partitioned, and whatever the radius of the        *)
(* kernel, focal_operation_2d shows each cell the window that the cell has *)
(* in the undivided array surrounded by its halo.  It fails for a          *)
(* partition that is smaller than the kernel, and for no other reason.     *)
THEOREM WindowsExact == Spec => []WindowsAreExact
<1>1. Init => Inv
  BY DEF Init, Inv, InputInv, InnerExact, WindowsAreExact
<1>2. Inv /\ [Next]_vars => Inv'
  <2> SUFFICES ASSUME Inv, [Next]_vars PROVE Inv'
    OBVIOUS
  <2>1. ASSUME NEW place \in Places, Arrive(place) PROVE Inv'
    BY <2>1, OtherSteps DEF Arrive
  <2>2. CASE ComputeInner
    BY <2>2, InnerStep
  <2>3. CASE ComputeBorder
    BY <2>3, BorderStep
  <2>4. CASE Terminated
    BY <2>4, OtherSteps DEF Terminated, vars
  <2>5. CASE UNCHANGED vars
    BY <2>5, OtherSteps DEF vars
  <2> QED BY <2>1, <2>2, <2>3, <2>4, <2>5 DEF Next
<1>3. Inv => WindowsAreExact
  BY DEF Inv
<1> QED BY <1>1, <1>2, <1>3, PTL DEF Spec
=============================================================================
