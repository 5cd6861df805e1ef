----------------------------- MODULE Clump_proofs -----------------------------
(***************************************************************************)
(* For arrays of any shape, any zones and both kinds of connectivity.      *)
(* First what Clumps of Connectivity yields: a division of the cells.      *)
(* Then the flood fill of a partition: its scans stay inside the array,    *)
(* every request they make is valid, and what they leave behind are these  *)
(* clumps, one after the other.  Last the clumps of a partitioned array:   *)
(* the collections of ids that must become one bring together what touches *)
(* across a border and nothing that is not connected, and the result never *)
(* gives cells of different clumps the same id.                            *)
(***************************************************************************)
EXTENDS FloodFill, Clump, SequenceTheorems, FiniteSetTheorems, WellFoundedInduction, TLAPS

(***************************************************************************)
(* What Clumps yields: a division of the cells that are in a zone.         *)
(***************************************************************************)

(* Among finite sets there is one that contains none of the others.        *)
LEMMA SmallestSet ==
    ASSUME NEW T, T # {}, \A S \in T : IsFiniteSet(S)
    PROVE  \E S \in T : \A U \in T : ~(U \subseteq S /\ U # S)
<1> DEFINE A == UNION T
           R == StrictSubsetOrdering(A)
<1>1. IsWellFoundedOn(R, FiniteSubsetsOf(A))
    BY FS_StrictSubsetOrderingWellFounded
<1>2. T \subseteq FiniteSubsetsOf(A)
    BY DEF FiniteSubsetsOf
<1>3. \A U, S \in T : U \subseteq S /\ U # S => <<U, S>> \in R
    BY DEF StrictSubsetOrdering
<1> HIDE DEF R, A
<1>4. \E S \in T : \A U \in T : ~(<<U, S>> \in R)
    BY <1>1, <1>2, WFMin, Zenon
<1> QED BY <1>3, <1>4

(* The smallest of a set of numbers.                                       *)
LEMMA SmallestNumber ==
    ASSUME NEW S, S \subseteq Nat, S # {}
    PROVE  \E n \in S : \A m \in S : n <= m
<1> DEFINE R == OpToRel(<, Nat)
<1>1. IsWellFoundedOn(R, Nat)
    BY NatLessThanWellFounded
<1>2. \A m, n \in Nat : m < n => <<m, n>> \in R
    BY DEF OpToRel
<1> HIDE DEF R
<1>3. PICK n \in S : \A m \in S : ~(<<m, n>> \in R)
    BY <1>1, WFMin
<1>4. ASSUME NEW m \in S PROVE n <= m
    <2>1. m \in Nat /\ n \in Nat /\ ~(m < n)
        BY <1>2, <1>3
    <2> QED BY <2>1
<1> QED BY <1>4

(* The cell that is taken first.                                           *)
Pick(cells) == CHOOSE c \in cells : TRUE

(* The clumps a cell joins, and those there are when it has joined them.   *)
Near(zone, diagonal, cell, clumps) ==
    {clump \in clumps : \E c \in clump : zone[c] = zone[cell] /\ Touch(diagonal, c, cell)}

Joined(zone, diagonal, cell, clumps) ==
    (clumps \ Near(zone, diagonal, cell, clumps))
        \cup {{cell} \cup UNION Near(zone, diagonal, cell, clumps)}

(* The clumps among each subset of S, by recursion over the subsets.       *)
AreClumps(g, zone, diagonal, S) ==
    g = [s \in SUBSET S |->
            IF s = {} THEN {} ELSE Joined(zone, diagonal, Pick(s), g[s \ {Pick(s)}])]

(* The recursion determines the clumps, whatever other cells there are.    *)
LEMMA ClumpsUnique ==
    ASSUME NEW S, NEW T, T \subseteq S, IsFiniteSet(T), NEW zone, NEW diagonal,
           NEW g, NEW h, AreClumps(g, zone, diagonal, S), AreClumps(h, zone, diagonal, T)
    PROVE  \A s \in SUBSET T : g[s] = h[s]
<1> DEFINE Bad == {s \in SUBSET T : g[s] # h[s]}
<1> SUFFICES ASSUME Bad # {} PROVE FALSE
    OBVIOUS
<1>1. PICK s \in Bad : \A u \in Bad : ~(u \subseteq s /\ u # s)
    <2>1. \A u \in Bad : IsFiniteSet(u)
        BY FS_Subset
    <2> HIDE DEF Bad
    <2> QED BY <2>1, SmallestSet
<1>2. s \in SUBSET T /\ s \in SUBSET S /\ g[s] # h[s]
    BY <1>1
<1>3. /\ g[s] = IF s = {} THEN {} ELSE Joined(zone, diagonal, Pick(s), g[s \ {Pick(s)}])
      /\ h[s] = IF s = {} THEN {} ELSE Joined(zone, diagonal, Pick(s), h[s \ {Pick(s)}])
    BY <1>2 DEF AreClumps
<1>4. s # {} /\ Pick(s) \in s
    BY <1>2, <1>3 DEF Pick
<1>5. s \ {Pick(s)} \in SUBSET T /\ s \ {Pick(s)} \notin Bad
    BY <1>1, <1>2, <1>4
<1>6. g[s \ {Pick(s)}] = h[s \ {Pick(s)}]
    BY <1>5
<1> QED BY <1>2, <1>3, <1>4, <1>6

(* The recursion has a solution.                                           *)
LEMMA ClumpsExist ==
    ASSUME NEW S, IsFiniteSet(S), NEW zone, NEW diagonal
    PROVE  \E g : AreClumps(g, zone, diagonal, S)
<1> DEFINE P(U) == \E g : AreClumps(g, zone, diagonal, U)
           T == {U \in SUBSET S : ~P(U)}
<1> SUFFICES ASSUME T # {} PROVE FALSE
    OBVIOUS
<1>1. PICK U \in T : \A V \in T : ~(V \subseteq U /\ V # U)
    <2>1. \A V \in T : IsFiniteSet(V)
        BY FS_Subset
    <2> HIDE DEF T
    <2> QED BY <2>1, SmallestSet
<1> DEFINE F(V) == CHOOSE g : AreClumps(g, zone, diagonal, V)
           G(V) == F(V)[V]
           After(s) == Joined(zone, diagonal, Pick(s), G(s \ {Pick(s)}))
<1>2. ASSUME NEW V \in SUBSET U, V # U
      PROVE  AreClumps(F(V), zone, diagonal, V) /\ IsFiniteSet(V)
    <2>1. V \in SUBSET S /\ V \notin T
        BY <1>1, <1>2
    <2> QED BY <2>1, FS_Subset
<1>3. ASSUME NEW V \in SUBSET U, V # U PROVE G(V) = IF V = {} THEN {} ELSE After(V)
    <2>1. G(V) = IF V = {} THEN {} ELSE Joined(zone, diagonal, Pick(V), F(V)[V \ {Pick(V)}])
        <3>1. AreClumps(F(V), zone, diagonal, V)
            BY <1>2, <1>3
        <3> HIDE DEF F
        <3> QED BY <3>1 DEF AreClumps
    <2>2. CASE V # {}
        <3> DEFINE W == V \ {Pick(V)}
        <3>1. Pick(V) \in V
            BY <2>2 DEF Pick
        <3>2. W \in SUBSET U /\ W # U /\ W \subseteq V
            BY <1>3, <3>1
        <3>3. /\ AreClumps(F(V), zone, diagonal, V) /\ AreClumps(F(W), zone, diagonal, W)
              /\ IsFiniteSet(W)
            <4> HIDE DEF W, F
            <4> QED BY <1>2, <1>3, <3>2
        <3>4. F(V)[W] = F(W)[W]
            <4> HIDE DEF W, F
            <4> QED BY <3>2, <3>3, ClumpsUnique
        <3> QED BY <2>1, <2>2, <3>4
    <2> QED BY <2>1, <2>2
<1> HIDE DEF F, G
<1> DEFINE h == [s \in SUBSET U |-> IF s = {} THEN {} ELSE After(s)]
<1>4. ASSUME NEW s \in SUBSET U, s # {}
      PROVE  h[s] = Joined(zone, diagonal, Pick(s), h[s \ {Pick(s)}])
    <2> DEFINE W == s \ {Pick(s)}
    <2>1. Pick(s) \in s
        BY <1>4 DEF Pick
    <2>2. W \in SUBSET U /\ W # U
        BY <2>1
    <2>3. h[W] = IF W = {} THEN {} ELSE After(W)
        BY <2>2
    <2>4. G(W) = IF W = {} THEN {} ELSE After(W)
        BY <1>3, <2>2
    <2>5. h[s] = After(s)
        BY <1>4
    <2> HIDE DEF h
    <2> QED BY <2>3, <2>4, <2>5
<1>5. AreClumps(h, zone, diagonal, U)
    <2>1. h = [s \in SUBSET U |-> h[s]]
        OBVIOUS
    <2>2. ASSUME NEW s \in SUBSET U
          PROVE  h[s] = IF s = {} THEN {} ELSE Joined(zone, diagonal, Pick(s), h[s \ {Pick(s)}])
        <3>1. CASE s = {}
            BY <3>1
        <3>2. CASE s # {}
            BY <1>4, <3>2
        <3> QED BY <3>1, <3>2
    <2> HIDE DEF h
    <2> QED BY <2>1, <2>2, Zenon DEF AreClumps
<1> QED BY <1>1, <1>5

(* Cells that reach no further within a set of cells.                      *)
IsClosed(zone, diagonal, some, cells) ==
    \A a \in some, b \in cells : zone[a] = zone[b] /\ Touch(diagonal, a, b) => b \in some

(* Clumps divide cells into the smallest closed parts.                     *)
DivideIntoClumps(zone, diagonal, clumps, cells) ==
    /\ \A clump \in clumps : clump \subseteq cells /\ clump # {}
    /\ \A c \in cells : \E clump \in clumps : c \in clump
    /\ \A clump, other \in clumps : (\E c \in clump : c \in other) => clump = other
    /\ \A clump \in clumps : IsClosed(zone, diagonal, clump, cells)
    /\ \A clump \in clumps, some \in SUBSET cells :
        IsClosed(zone, diagonal, some, cells) /\ (\E c \in clump : c \in some) => clump \subseteq some

(* Touching works in both directions.                                      *)
LEMMA TouchIsMutual ==
    ASSUME NEW diagonal, NEW a \in Int \X Int, NEW b \in Int \X Int, Touch(diagonal, a, b)
    PROVE  Touch(diagonal, b, a)
BY DEF Touch

(* When a cell joins the clumps it touches, the cells are divided again.   *)
LEMMA JoinedDivide ==
    ASSUME NEW zone, NEW diagonal, NEW rest, NEW cell, cell \notin rest,
           rest \cup {cell} \subseteq Int \X Int,
           NEW clumps, DivideIntoClumps(zone, diagonal, clumps, rest)
    PROVE  DivideIntoClumps(zone, diagonal, Joined(zone, diagonal, cell, clumps), rest \cup {cell})
<1> DEFINE near == Near(zone, diagonal, cell, clumps)
           new == {cell} \cup UNION near
           cells == rest \cup {cell}
           joined == (clumps \ near) \cup {new}
           Linked(a, b) == zone[a] = zone[b] /\ Touch(diagonal, a, b)
<1>1. joined = Joined(zone, diagonal, cell, clumps)
    BY DEF Joined
<1>2. /\ \A clump \in clumps : clump \subseteq rest /\ clump # {}
      /\ \A c \in rest : \E clump \in clumps : c \in clump
      /\ \A clump, other \in clumps : (\E c \in clump : c \in other) => clump = other
      /\ \A clump \in clumps : \A a \in clump, b \in rest : Linked(a, b) => b \in clump
      /\ \A clump \in clumps, some \in SUBSET rest :
            (\A a \in some, b \in rest : Linked(a, b) => b \in some) /\ (\E c \in clump : c \in some)
                => clump \subseteq some
    BY DEF DivideIntoClumps, IsClosed
<1>3. \A a, b \in cells : Linked(a, b) => Linked(b, a)
    BY TouchIsMutual
<1>4. near \subseteq clumps /\ \A clump \in clumps : clump \in near <=> \E c \in clump : Linked(c, cell)
    BY DEF Near
<1> HIDE DEF near, Linked
<1>5. \A clump \in joined : clump \subseteq cells /\ clump # {}
    BY <1>2, <1>4
<1>6. ASSUME NEW c \in cells PROVE \E clump \in joined : c \in clump
    <2>1. CASE c = cell
        BY <2>1
    <2>2. CASE c # cell
        <3>1. PICK clump \in clumps : c \in clump
            BY <1>2, <2>2
        <3>2. clump \in near => c \in new
            BY <3>1
        <3> HIDE DEF new
        <3> QED BY <3>1, <3>2
    <2> QED BY <2>1, <2>2
<1>7. ASSUME NEW clump \in joined, NEW other \in joined, NEW c \in clump, c \in other
      PROVE  clump = other
    <2>1. \A k \in clumps \ near : cell \notin k /\ \A n \in near : \A x \in k : x \notin n
        BY <1>2, <1>4
    <2>2. \A k \in clumps \ near : \A x \in k : x \notin new
        BY <2>1
    <2>3. CASE clump = new \/ other = new
        BY <1>7, <2>2, <2>3
    <2>4. CASE clump # new /\ other # new
        BY <1>2, <1>7, <2>4
    <2> QED BY <2>3, <2>4
<1>8. ASSUME NEW clump \in joined, NEW a \in clump, NEW b \in cells, Linked(a, b)
      PROVE  b \in clump
    <2>1. CASE clump \in clumps \ near
        <3>1. b # cell
            BY <1>4, <1>8, <2>1
        <3> QED BY <1>2, <1>8, <2>1, <3>1
    <2>2. CASE clump = new /\ b # cell
        <3>1. CASE a = cell
            <4>1. PICK k \in clumps : b \in k
                BY <1>2, <2>2
            <4>2. Linked(b, cell)
                BY <1>3, <1>8, <3>1
            <4>3. k \in near
                BY <1>4, <4>1, <4>2
            <4> QED BY <2>2, <4>1, <4>3
        <3>2. CASE a # cell
            <4>1. PICK n \in near : a \in n
                BY <2>2, <3>2
            <4>2. b \in n
                BY <1>2, <1>4, <1>8, <2>2, <4>1
            <4> QED BY <2>2, <4>1, <4>2
        <3> QED BY <3>1, <3>2
    <2>3. CASE clump = new /\ b = cell
        BY <2>3
    <2> QED BY <2>1, <2>2, <2>3
<1>9. ASSUME NEW clump \in joined, NEW some \in SUBSET cells,
             \A a \in some, b \in cells : Linked(a, b) => b \in some,
             NEW c \in clump, c \in some
      PROVE  clump \subseteq some
    <2> DEFINE part == some \ {cell}
    <2>1. part \in SUBSET rest /\ \A a \in part, b \in rest : Linked(a, b) => b \in part
        BY <1>9
    <2>2. ASSUME NEW k \in clumps, NEW x \in k, x \in some PROVE k \subseteq some
        <3>1. x \in part /\ part \subseteq some
            BY <1>2, <2>2
        <3> HIDE DEF part
        <3>2. k \subseteq part
            BY <1>2, <2>1, <2>2, <3>1
        <3> QED BY <3>1, <3>2
    <2>3. CASE clump \in clumps
        BY <1>9, <2>2, <2>3
    <2>4. CASE clump = new
        <3>1. cell \in some
            <4>1. CASE c # cell
                <5>1. PICK n \in near : c \in n
                    BY <2>4, <4>1
                <5>2. n \subseteq some
                    BY <1>4, <1>9, <2>2, <5>1
                <5>3. PICK x \in n : Linked(x, cell)
                    BY <1>4
                <5> QED BY <1>9, <5>2, <5>3
            <4> QED BY <1>9, <4>1
        <3>2. ASSUME NEW n \in near PROVE n \subseteq some
            <4>1. PICK x \in n : Linked(x, cell)
                BY <1>4
            <4>2. Linked(cell, x) /\ x \in cells
                BY <1>2, <1>3, <1>4, <4>1
            <4>3. x \in some
                BY <1>9, <3>1, <4>2
            <4> QED BY <1>4, <2>2, <4>1, <4>3
        <3> QED BY <2>4, <3>1, <3>2
    <2> QED BY <2>3, <2>4
<1> HIDE DEF joined, cells
<1>10. DivideIntoClumps(zone, diagonal, joined, cells)
    BY <1>5, <1>6, <1>7, <1>8, <1>9 DEF DivideIntoClumps, IsClosed, Linked
<1> QED BY <1>1, <1>10 DEF cells

(* So the recursion divides all cells that are in a zone into clumps.      *)
LEMMA ClumpsDivide ==
    ASSUME NEW zone, NEW diagonal, IsFiniteSet(DOMAIN zone), DOMAIN zone \subseteq Int \X Int
    PROVE  DivideIntoClumps(zone, diagonal, Clumps(zone, diagonal),
                            {cell \in DOMAIN zone : zone[cell] # NoData})
<1> DEFINE zoned == {cell \in DOMAIN zone : zone[cell] # NoData}
           among == CHOOSE g : g = [cells \in SUBSET zoned |->
                IF cells = {} THEN {}
                ELSE LET cell == CHOOSE c \in cells : TRUE
                         clumps == g[cells \ {cell}]
                         near == {clump \in clumps :
                            \E c \in clump : zone[c] = zone[cell] /\ Touch(diagonal, c, cell)}
                     IN  (clumps \ near) \cup {{cell} \cup UNION near}]
<1>1. Clumps(zone, diagonal) = among[zoned]
    BY Zenon DEF Clumps
<1>2. IsFiniteSet(zoned) /\ zoned \subseteq Int \X Int
    BY FS_Subset
<1>3. AreClumps(among, zone, diagonal, zoned)
    <2>1. \E g : AreClumps(g, zone, diagonal, zoned)
        BY <1>2, ClumpsExist
    <2> HIDE DEF zoned
    <2> QED BY <2>1, Zenon DEF AreClumps, Joined, Near, Pick
<1> HIDE DEF among, zoned
<1> DEFINE Bad == {s \in SUBSET zoned : ~DivideIntoClumps(zone, diagonal, among[s], s)}
<1>4. Bad = {}
    <2> SUFFICES ASSUME Bad # {} PROVE FALSE
        OBVIOUS
    <2>1. PICK s \in Bad : \A u \in Bad : ~(u \subseteq s /\ u # s)
        <3>1. \A u \in Bad : IsFiniteSet(u)
            BY <1>2, FS_Subset
        <3> HIDE DEF Bad
        <3> QED BY <3>1, SmallestSet
    <2>2. s \in SUBSET zoned /\ ~DivideIntoClumps(zone, diagonal, among[s], s)
        BY <2>1
    <2>3. among[s] = IF s = {} THEN {} ELSE Joined(zone, diagonal, Pick(s), among[s \ {Pick(s)}])
        BY <1>3, <2>2 DEF AreClumps
    <2>4. s # {}
        BY <2>2, <2>3 DEF DivideIntoClumps
    <2> DEFINE cell == Pick(s)
               rest == s \ {cell}
    <2>5. cell \in s /\ cell \notin rest /\ rest \cup {cell} = s
        BY <2>4 DEF Pick
    <2>6. DivideIntoClumps(zone, diagonal, among[rest], rest)
        BY <2>1, <2>2, <2>5
    <2> HIDE DEF cell, rest
    <2>7. DivideIntoClumps(zone, diagonal, Joined(zone, diagonal, cell, among[rest]), s)
        BY <1>2, <2>2, <2>5, <2>6, JoinedDivide
    <2> QED BY <2>2, <2>3, <2>4, <2>7 DEF cell, rest
<1>5. DivideIntoClumps(zone, diagonal, among[zoned], zoned)
    BY <1>4
<1> QED BY <1>1, <1>5 DEF zoned

(* The number that ClumpIds gives to a clump.                              *)
IsBefore(clump, other) == \E first \in clump : \A c \in other : Before(first, c)

Preceding(clumps, clump) == {other \in clumps : IsBefore(other, clump)}

Number(clumps, clump) == Cardinality(Preceding(clumps, clump))

LEMMA CellsAreOrdered ==
    /\ \A a \in Nat \X Nat : a[1] \in Nat /\ a[2] \in Nat /\ a = <<a[1], a[2]>> /\ ~Before(a, a)
    /\ \A a, b \in Nat \X Nat : a = b \/ Before(a, b) \/ Before(b, a)
    /\ \A a, b \in Nat \X Nat : Before(a, b) => ~Before(b, a)
    /\ \A a, b, c \in Nat \X Nat : Before(a, b) /\ Before(b, c) => Before(a, c)
<1>1. \A a \in Nat \X Nat : a[1] \in Nat /\ a[2] \in Nat /\ a = <<a[1], a[2]>>
    OBVIOUS
<1>2. \A a, b \in Nat \X Nat : a = b \/ Before(a, b) \/ Before(b, a)
    BY <1>1 DEF Before
<1>3. \A a, b, c \in Nat \X Nat : Before(a, b) /\ Before(b, c) => Before(a, c)
    BY <1>1 DEF Before
<1>4. \A a, b \in Nat \X Nat : ~Before(a, a) /\ (Before(a, b) => ~Before(b, a))
    BY <1>1 DEF Before
<1> QED BY <1>1, <1>2, <1>3, <1>4

(* Any set of cells has a first one.                                       *)
LEMMA FirstOfCells ==
    ASSUME NEW S, S \subseteq Nat \X Nat, S # {}
    PROVE  \E first \in S : \A c \in S : c = first \/ Before(first, c)
<1>1. \A c \in S : c[1] \in Nat /\ c[2] \in Nat /\ c = <<c[1], c[2]>>
    OBVIOUS
<1>2. PICK row \in {c[1] : c \in S} : \A other \in {c[1] : c \in S} : row <= other
    <2>1. {c[1] : c \in S} \subseteq Nat /\ {c[1] : c \in S} # {}
        BY <1>1
    <2> QED BY <2>1, SmallestNumber
<1> DEFINE cols == {c[2] : c \in {c \in S : c[1] = row}}
<1>3. PICK col \in cols : \A other \in cols : col <= other
    <2>1. cols \subseteq Nat /\ cols # {}
        BY <1>1, <1>2
    <2> HIDE DEF cols
    <2> QED BY <2>1, SmallestNumber
<1>4. PICK first \in S : first[1] = row /\ first[2] = col
    BY <1>3
<1>5. ASSUME NEW c \in S PROVE c = first \/ Before(first, c)
    <2>1. row <= c[1] /\ row \in Nat /\ col \in Nat /\ c[1] \in Nat /\ c[2] \in Nat
        BY <1>1, <1>2, <1>4
    <2>2. c[1] = row => col <= c[2]
        BY <1>3
    <2> HIDE DEF cols
    <2> QED BY <1>1, <1>4, <2>1, <2>2 DEF Before
<1> QED BY <1>5

(* Sets of cells that have none in common, as clumps.                      *)
AreApart(clumps) ==
    /\ IsFiniteSet(clumps)
    /\ \A clump \in clumps : clump # {} /\ clump \subseteq Nat \X Nat
    /\ \A clump, other \in clumps : (\E c \in clump : c \in other) => clump = other

(* They are ordered, and have different numbers in that order, less than   *)
(* there are clumps.                                                       *)
LEMMA ClumpsAreNumbered ==
    ASSUME NEW clumps, AreApart(clumps)
    PROVE  /\ \A clump \in clumps :
                Number(clumps, clump) \in Nat /\ Number(clumps, clump) < Cardinality(clumps)
           /\ \A clump, other \in clumps : Number(clumps, clump) = Number(clumps, other) => clump = other
           /\ \A clump, other \in clumps :
                IsBefore(clump, other) => Number(clumps, clump) < Number(clumps, other)
           /\ \A clump, other \in clumps :
                clump # other => IsBefore(clump, other) \/ IsBefore(other, clump)
<1>1. /\ \A clump \in clumps : clump # {} /\ clump \subseteq Nat \X Nat
      /\ \A clump, other \in clumps : (\E c \in clump : c \in other) => clump = other
      /\ IsFiniteSet(clumps)
    BY DEF AreApart
<1>2. \A clump \in clumps : ~IsBefore(clump, clump)
    BY <1>1, CellsAreOrdered DEF IsBefore
<1>3. ASSUME NEW clump \in clumps, NEW other \in clumps, NEW third \in clumps,
             IsBefore(clump, other), IsBefore(other, third)
      PROVE  IsBefore(clump, third)
    <2>1. PICK f \in clump : \A c \in other : Before(f, c)
        BY <1>3 DEF IsBefore
    <2>2. PICK g \in other : \A c \in third : Before(g, c)
        BY <1>3 DEF IsBefore
    <2>3. f \in Nat \X Nat /\ g \in Nat \X Nat /\ third \subseteq Nat \X Nat /\ Before(f, g)
        BY <1>1, <2>1
    <2>4. \A c \in third : Before(f, c)
        BY <2>2, <2>3, CellsAreOrdered
    <2> QED BY <2>4 DEF IsBefore
<1>4. ASSUME NEW clump \in clumps, NEW other \in clumps, clump # other
      PROVE  IsBefore(clump, other) \/ IsBefore(other, clump)
    <2>1. PICK f \in clump : \A c \in clump : c = f \/ Before(f, c)
        BY <1>1, FirstOfCells
    <2>2. PICK g \in other : \A c \in other : c = g \/ Before(g, c)
        BY <1>1, FirstOfCells
    <2>3. f \in Nat \X Nat /\ g \in Nat \X Nat /\ f # g
        BY <1>1, <1>4
    <2>4. CASE Before(f, g)
        <3>1. \A c \in other : Before(f, c)
            BY <1>1, <2>2, <2>3, <2>4, CellsAreOrdered
        <3> QED BY <3>1 DEF IsBefore
    <2>5. CASE Before(g, f)
        <3>1. \A c \in clump : Before(g, c)
            BY <1>1, <2>1, <2>3, <2>5, CellsAreOrdered
        <3> QED BY <3>1 DEF IsBefore
    <2> QED BY <2>3, <2>4, <2>5, CellsAreOrdered
<1>5. \A clump \in clumps :
        IsFiniteSet(Preceding(clumps, clump)) /\ Preceding(clumps, clump) \subseteq clumps
    BY <1>1, FS_Subset DEF Preceding
<1>6. \A clump \in clumps : Number(clumps, clump) \in Nat
    BY <1>5, FS_CardinalityType DEF Number
<1>7. ASSUME NEW clump \in clumps PROVE Number(clumps, clump) < Cardinality(clumps)
    <2>1. clump \notin Preceding(clumps, clump)
        BY <1>2 DEF Preceding
    <2>2. /\ Cardinality(Preceding(clumps, clump)) <= Cardinality(clumps)
          /\ Cardinality(Preceding(clumps, clump)) # Cardinality(clumps)
        BY <1>1, <1>5, <2>1, FS_Subset
    <2>3. Cardinality(clumps) \in Nat /\ Number(clumps, clump) \in Nat
        BY <1>1, <1>6, FS_CardinalityType
    <2> QED BY <2>2, <2>3 DEF Number
<1>8. ASSUME NEW clump \in clumps, NEW other \in clumps, IsBefore(clump, other)
      PROVE  Number(clumps, clump) < Number(clumps, other)
    <2>1. Preceding(clumps, clump) \subseteq Preceding(clumps, other)
        BY <1>3, <1>8 DEF Preceding
    <2>2. clump \in Preceding(clumps, other) /\ clump \notin Preceding(clumps, clump)
        BY <1>2, <1>8 DEF Preceding
    <2>3. /\ Cardinality(Preceding(clumps, clump)) <= Cardinality(Preceding(clumps, other))
          /\ Cardinality(Preceding(clumps, clump)) # Cardinality(Preceding(clumps, other))
        BY <1>5, <2>1, <2>2, FS_Subset
    <2> QED BY <1>6, <2>3 DEF Number
<1>9. ASSUME NEW clump \in clumps, NEW other \in clumps, Number(clumps, clump) = Number(clumps, other)
      PROVE  clump = other
    <2>1. ~IsBefore(clump, other) /\ ~IsBefore(other, clump)
        BY <1>6, <1>8, <1>9
    <2> QED BY <1>4, <2>1
<1> QED BY <1>4, <1>6, <1>7, <1>8, <1>9

(* A number for every cell that is in a zone, the same one only for cells  *)
(* of the same clump.                                                      *)
LEMMA IdsOfClumps ==
    ASSUME NEW zone, NEW diagonal, IsFiniteSet(DOMAIN zone), DOMAIN zone \subseteq Nat \X Nat,
           NoData \notin Nat,
           NEW ids, ids = ClumpIds(zone, diagonal)
    PROVE  /\ DOMAIN ids = DOMAIN zone
           /\ \A c \in DOMAIN zone : zone[c] = NoData => ids[c] = NoData
           /\ \A c \in DOMAIN zone : zone[c] # NoData =>
                ids[c] \in Nat /\ ids[c] < Cardinality({ids[d] : d \in DOMAIN zone} \ {NoData})
           /\ \A c, d \in DOMAIN zone : zone[c] # NoData /\ zone[d] # NoData /\ ids[c] = ids[d] =>
                \E clump \in Clumps(zone, diagonal) : c \in clump /\ d \in clump
           /\ \A clump \in Clumps(zone, diagonal), c, d \in DOMAIN zone :
                c \in clump /\ d \in clump => ids[c] = ids[d]
<1> DEFINE clumps == Clumps(zone, diagonal)
           zoned == {cell \in DOMAIN zone : zone[cell] # NoData}
           ClumpWith(cell) == CHOOSE clump \in clumps : cell \in clump
           all == {ids[d] : d \in DOMAIN zone} \ {NoData}
<1>1. DivideIntoClumps(zone, diagonal, clumps, zoned)
    <2>1. DOMAIN zone \subseteq Int \X Int
        OBVIOUS
    <2> QED BY <2>1, ClumpsDivide
<1>2. ids = [cell \in DOMAIN zone |->
                IF zone[cell] = NoData THEN NoData
                ELSE Cardinality({clump \in clumps :
                        \E first \in clump : \A c \in ClumpWith(cell) : Before(first, c)})]
    BY Zenon DEF ClumpIds
<1> HIDE DEF clumps
<1>3. /\ \A clump \in clumps : clump \subseteq zoned /\ clump # {}
      /\ \A c \in zoned : \E clump \in clumps : c \in clump
      /\ \A clump, other \in clumps : (\E c \in clump : c \in other) => clump = other
    BY <1>1 DEF DivideIntoClumps
<1>4. AreApart(clumps)
    <2>1. IsFiniteSet(zoned)
        BY FS_Subset
    <2>2. IsFiniteSet(SUBSET zoned) /\ clumps \in SUBSET SUBSET zoned
        BY <1>3, <2>1, FS_SUBSET
    <2>3. IsFiniteSet(clumps)
        BY <2>2, FS_Subset
    <2> QED BY <1>3, <2>3 DEF AreApart
<1>5. ASSUME NEW clump \in clumps, NEW c \in clump
      PROVE  ids[c] = Number(clumps, clump)
    <2>1. ClumpWith(c) \in clumps /\ c \in ClumpWith(c)
        BY <1>5
    <2>2. ClumpWith(c) = clump
        <3> HIDE DEF ClumpWith
        <3> QED BY <1>3, <1>5, <2>1
    <2>3. c \in DOMAIN zone /\ zone[c] # NoData
        BY <1>3, <1>5
    <2> HIDE DEF ClumpWith
    <2>4. ids[c] = Cardinality({other \in clumps : \E first \in other : \A d \in clump : Before(first, d)})
        BY <1>2, <2>2, <2>3
    <2> QED BY <2>4 DEF Number, Preceding, IsBefore
<1>6. DOMAIN ids = DOMAIN zone
    BY <1>2
<1>7. ASSUME NEW c \in DOMAIN zone, zone[c] = NoData PROVE ids[c] = NoData
    BY <1>2, <1>7
<1> HIDE DEF ClumpWith
<1>8. /\ \A clump \in clumps :
            Number(clumps, clump) \in Nat /\ Number(clumps, clump) < Cardinality(clumps)
      /\ \A clump, other \in clumps : Number(clumps, clump) = Number(clumps, other) => clump = other
    BY <1>4, ClumpsAreNumbered
<1>9. IsFiniteSet(all) /\ Cardinality(clumps) <= Cardinality(all)
    <2> DEFINE f == [clump \in clumps |-> Number(clumps, clump)]
    <2>1. \A clump \in clumps : Number(clumps, clump) \in all
        <3> SUFFICES ASSUME NEW clump \in clumps PROVE Number(clumps, clump) \in all
            OBVIOUS
        <3>1. PICK c \in clump : c \in DOMAIN zone
            BY <1>3
        <3>2. Number(clumps, clump) = ids[c] /\ Number(clumps, clump) # NoData
            BY <1>5, <1>8, <3>1
        <3> QED BY <3>1, <3>2
    <2>2. IsFiniteSet(all)
        <3>1. IsFiniteSet({ids[d] : d \in DOMAIN zone})
            <4> DEFINE range == {ids[d] : d \in DOMAIN zone}
                       g == [d \in DOMAIN zone |-> ids[d]]
            <4>1. g \in Surjection(DOMAIN zone, range)
                BY DEF Surjection
            <4> HIDE DEF g, range
            <4>2. IsFiniteSet(range)
                BY <4>1, FS_Surjection
            <4> QED BY <4>2 DEF range
        <3> QED BY <3>1, FS_Difference
    <2>3. f \in Injection(clumps, all)
        <3> HIDE DEF all
        <3> QED BY <1>8, <2>1 DEF Injection, IsInjective
    <2> HIDE DEF f, all
    <2> QED BY <2>2, <2>3, FS_Injection
<1>10. ASSUME NEW c \in DOMAIN zone, zone[c] # NoData
       PROVE  ids[c] \in Nat /\ ids[c] < Cardinality(all)
    <2>1. PICK clump \in clumps : c \in clump
        BY <1>3, <1>10
    <2>2. ids[c] = Number(clumps, clump)
        BY <1>5, <2>1
    <2>3. Cardinality(clumps) \in Nat /\ Cardinality(all) \in Nat
        <3> HIDE DEF all
        <3> QED BY <1>4, <1>9, FS_CardinalityType DEF AreApart
    <2> HIDE DEF all
    <2> QED BY <1>8, <1>9, <2>2, <2>3
<1>11. ASSUME NEW c \in DOMAIN zone, NEW d \in DOMAIN zone, zone[c] # NoData, zone[d] # NoData,
              ids[c] = ids[d]
       PROVE  \E clump \in clumps : c \in clump /\ d \in clump
    <2>1. PICK k \in clumps : c \in k
        BY <1>3, <1>11
    <2>2. PICK l \in clumps : d \in l
        BY <1>3, <1>11
    <2>3. Number(clumps, k) = Number(clumps, l)
        BY <1>5, <1>11, <2>1, <2>2
    <2> QED BY <1>8, <2>1, <2>2, <2>3
<1>12. \A clump \in clumps, c, d \in DOMAIN zone : c \in clump /\ d \in clump => ids[c] = ids[d]
    BY <1>5
<1> QED BY <1>6, <1>7, <1>10, <1>11, <1>12 DEF clumps

-----------------------------------------------------------------------------
(***************************************************************************)
(* The scans of the flood fill.                                            *)
(***************************************************************************)

(* What the scans know of the columns they passed.                         *)
Scanned(first, last) ==
    \A col \in first .. last :
        <<span.row, col>> \in Cells /\ clump_elements[<<span.row, col>>] = clump_id

ScanInv ==
    /\ pc \in {"west", "span", "east", "push"} =>
        span.col <= span.west /\ Scanned(span.col, span.west - 1)
    /\ pc = "west" => span.west <= span.east
    /\ pc \in {"east", "push"} => span.col <= span.east /\ span.west <= input.nr_cols
    /\ pc = "corner" =>
        /\ span.east < span.west /\ span.west <= input.nr_cols
        /\ span.west = span.east + 1 => ConnectedToEast
        /\ Scanned(span.east + 1, span.west - 1)

StackInv == pc \in {"cell", "done"} => requests = <<>>

Inv == TypeOK /\ RequestsValid /\ ScanInv /\ StackInv

ValidStack(stack) == \A k \in DOMAIN stack : IsStart(stack[k]) \/ SpanIsInClump(stack[k])

(* What is known of an array.                                              *)
LEMMA ShapeFacts ==
    ASSUME TypeOK
    PROVE  /\ input.nr_rows \in Nat \ {0} /\ input.nr_cols \in Nat \ {0}
           /\ NoData \notin Nat
           /\ cell_idxs[1] \in 0 .. input.nr_rows - 1
           /\ cell_idxs[2] \in 0 .. input.nr_cols - 1
           /\ \A row \in 0 .. input.nr_rows - 1, col \in 0 .. input.nr_cols - 1 :
                <<row, col>> \in Cells
    BY FloodFillAssumption DEF TypeOK, Cells, Array

(* A request on top of a stack keeps the stack well typed and valid.       *)
LEMMA PushIsValid ==
    ASSUME TypeOK,
           NEW stack \in Seq(Requests), ValidStack(stack),
           NEW row \in 0 .. input.nr_rows - 1,
           NEW west \in Int, NEW east \in Int, NEW direction \in Directions,
           west <= east => west \in 0 .. input.nr_cols - 1 /\ east \in 0 .. input.nr_cols - 1,
           \A col \in west .. east :
                <<row, col>> \in Cells /\ clump_elements[<<row, col>>] = clump_id
    PROVE  /\ Push(stack, row, west, east, direction) \in Seq(Requests)
           /\ ValidStack(Push(stack, row, west, east, direction))
<1> DEFINE request == SpanRequest(row + direction, west, east, direction)
<1>1. CASE ~(west <= east /\ RowAvailable(row, direction))
    BY <1>1 DEF Push
<1>2. CASE west <= east /\ RowAvailable(row, direction)
    <2>1. request \in Requests
        BY <1>2, ShapeFacts DEF Requests, SpanRequest, RowAvailable, Directions
    <2>2. request.row - request.direction = row
        BY DEF SpanRequest, Directions
    <2>3. SpanIsInClump(request)
        BY <1>2, <2>2, ShapeFacts DEF SpanIsInClump, SpanRequest
    <2> HIDE DEF request
    <2>4. Push(stack, row, west, east, direction) = <<request>> \o stack
        BY <1>2 DEF Push, request
    <2>5. <<request>> \o stack \in Seq(Requests)
        BY <2>1
    <2>6. ASSUME NEW k \in DOMAIN (<<request>> \o stack)
          PROVE  LET r == (<<request>> \o stack)[k] IN IsStart(r) \/ SpanIsInClump(r)
        <3>1. CASE k = 1
            BY <3>1, <2>1, <2>3
        <3>2. CASE k # 1
            <4>1. k - 1 \in DOMAIN stack /\ (<<request>> \o stack)[k] = stack[k - 1]
                BY <3>2, <2>1
            <4> QED BY <4>1 DEF ValidStack
        <3> QED BY <3>1, <3>2
    <2> QED BY <2>4, <2>5, <2>6 DEF ValidStack
<1> QED BY <1>1, <1>2

(* Adding a cell to the clump keeps what is known of other cells.          *)
LEMMA AddKeeps ==
    ASSUME TypeOK, NEW row \in 0 .. input.nr_rows - 1, NEW col \in 0 .. input.nr_cols - 1,
           AddToClump(row, col)
    PROVE  /\ clump_elements' \in [Cells -> 0 .. clump_id \cup {NoData}]
           /\ clump_elements'[<<row, col>>] = clump_id
           /\ \A cell \in Cells : clump_elements[cell] = clump_id => clump_elements'[cell] = clump_id
<1>1. <<row, col>> \in Cells
    BY ShapeFacts
<1>2. clump_elements \in [Cells -> 0 .. clump_id \cup {NoData}] /\ clump_id \in Nat
    BY DEF TypeOK
<1>3. clump_elements' = [clump_elements EXCEPT ![<<row, col>>] = clump_id]
    BY DEF AddToClump
<1>4. clump_id \in 0 .. clump_id
    BY <1>2
<1>5. clump_elements' \in [Cells -> 0 .. clump_id \cup {NoData}]
    BY <1>1, <1>2, <1>3, <1>4
<1>6. ASSUME NEW cell \in Cells, clump_elements[cell] = clump_id
      PROVE  clump_elements'[cell] = clump_id
    <2>1. CASE cell = <<row, col>>
        BY <2>1, <1>1, <1>2, <1>3
    <2>2. CASE cell # <<row, col>>
        BY <2>2, <1>6, <1>2, <1>3
    <2> QED BY <2>1, <2>2
<1> QED BY <1>1, <1>2, <1>3, <1>5, <1>6

(* So adding a cell leaves all requests valid.                             *)
LEMMA AddKeepsValid ==
    ASSUME TypeOK, RequestsValid,
           NEW row \in 0 .. input.nr_rows - 1, NEW col \in 0 .. input.nr_cols - 1,
           AddToClump(row, col), UNCHANGED <<input, clump_id, cell_idxs, requests>>
    PROVE  RequestsValid'
<1>1. SUFFICES ASSUME NEW k \in DOMAIN requests
               PROVE  (IsStart(requests[k]) \/ SpanIsInClump(requests[k]))'
    BY DEF RequestsValid
<1>2. CASE IsStart(requests[k])
    BY <1>2 DEF IsStart
<1>3. CASE SpanIsInClump(requests[k])
    BY <1>3, AddKeeps DEF SpanIsInClump, Cells
<1> QED BY <1>1, <1>2, <1>3 DEF RequestsValid

(* A step that keeps the clump and the stack keeps the requests valid.     *)
LEMMA RestKeepsValid ==
    ASSUME RequestsValid, UNCHANGED <<input, clump_elements, clump_id, cell_idxs, requests>>
    PROVE  RequestsValid'
BY DEF RequestsValid, IsStart, SpanIsInClump, Cells

LEMMA InvInit == Init => Inv
<1> SUFFICES ASSUME Init PROVE Inv
    OBVIOUS
<1>1. input.nr_rows \in Nat \ {0} /\ input.nr_cols \in Nat \ {0}
    BY FloodFillAssumption DEF Init
<1>2. <<0, 0>> \in Cells
    BY <1>1 DEF Cells, Array
<1>3. TypeOK
    BY <1>1, <1>2 DEF Init, TypeOK, Directions, Spans
<1> QED BY <1>3 DEF Init, Inv, RequestsValid, ScanInv, StackInv

LEMMA StartClumpKeepsInv ==
    ASSUME Inv, StartClump
    PROVE  Inv'
<1> USE DEF Inv
<1>1. PICK cell \in Seeds :
        /\ cell_idxs' = cell
        /\ requests' = StartRequests(cell[1], cell[2])
    BY DEF StartClump
<1>2. cell \in Cells /\ cell[1] \in 0 .. input.nr_rows - 1 /\ cell[2] \in 0 .. input.nr_cols - 1
    BY ShapeFacts DEF Seeds, Unassigned, Cells, Array
<1> DEFINE down == SpanRequest(cell[1], cell[2], cell[2], 1)
           up == SpanRequest(cell[1] - 1, cell[2], cell[2], -1)
<1>3. down \in Requests /\ IsStart(down)'
    BY <1>1, <1>2, ShapeFacts DEF SpanRequest, Requests, Directions, IsStart
<1>4. RowAvailable(cell[1], -1) => up \in Requests /\ IsStart(up)'
    BY <1>1, <1>2, ShapeFacts DEF SpanRequest, Requests, Directions, IsStart, RowAvailable
<1>6. requests' = IF RowAvailable(cell[1], -1) THEN <<up, down>> ELSE <<down>>
    BY <1>1 DEF StartRequests
<1> HIDE DEF down, up
<1>7. (\A k \in DOMAIN requests : IsStart(requests[k]))'
    <2>1. CASE RowAvailable(cell[1], -1)
        <3>1. requests' = <<up, down>>
            BY <2>1, <1>6
        <3> QED BY <3>1, <2>1, <1>3, <1>4
    <2>2. CASE ~RowAvailable(cell[1], -1)
        <3>1. DOMAIN requests' = {1} /\ requests'[1] = down
            BY <2>2, <1>6
        <3> QED BY <3>1, <1>3
    <2> QED BY <2>1, <2>2
<1>8. requests' \in Seq(Requests)
    BY <1>3, <1>4, <1>6
<1>9. TypeOK'
    BY <1>1, <1>2, <1>8 DEF StartClump, TypeOK, Cells, Requests, Spans
<1> QED BY <1>7, <1>9 DEF StartClump, RequestsValid, ScanInv, StackInv

LEMMA PopKeepsInv ==
    ASSUME Inv, PopRequest
    PROVE  Inv'
<1> USE DEF Inv
<1>1. requests \in Seq(Requests) /\ requests # <<>>
    BY DEF TypeOK, PopRequest
<1>2. PICK request \in Requests : request = Head(requests)
    BY <1>1
<1>3. IsStart(request) \/ SpanIsInClump(request)
    BY <1>1, <1>2 DEF RequestsValid
<1>4. request.west <= request.east
    BY <1>3, <1>2, ShapeFacts DEF IsStart, SpanIsInClump, Requests
<1>5. /\ span' = [row |-> request.row, west |-> request.west, east |-> request.east,
                  direction |-> request.direction, col |-> request.west]
      /\ requests' = Tail(requests)
      /\ pc' \in {"west", "span"}
      /\ UNCHANGED <<input, clump_elements, clump_id, cell_idxs>>
    BY <1>2 DEF PopRequest
<1>6. Tail(requests) \in Seq(Requests)
    BY <1>1
<1>7. TypeOK'
    <2>1. span' \in Spans
        BY <1>2, <1>5, ShapeFacts DEF Requests, Spans
    <2> QED BY <2>1, <1>5, <1>6, ShapeFacts DEF TypeOK, Requests, Spans, Cells
<1>8. RequestsValid'
    <2>1. ASSUME NEW k \in DOMAIN Tail(requests)
          PROVE  k + 1 \in DOMAIN requests /\ Tail(requests)[k] = requests[k + 1]
        BY <1>1
    <2> QED BY <2>1, <1>5 DEF RequestsValid, IsStart, SpanIsInClump, Cells
<1>9. ScanInv'
    <2>1. span'.col = span'.west /\ span'.west <= span'.east /\ span'.west \in Int
        BY <1>2, <1>4, <1>5 DEF Requests
    <2> QED BY <2>1, <1>5 DEF ScanInv, Scanned
<1> QED BY <1>5, <1>7, <1>8, <1>9 DEF StackInv

LEMMA ScanWestKeepsInv ==
    ASSUME Inv, ScanWest
    PROVE  Inv'
<1> USE DEF Inv
<1>1. /\ span.row \in 0 .. input.nr_rows - 1
      /\ span.west \in 0 .. input.nr_cols + 1 /\ span.east \in 0 .. input.nr_cols - 1
      /\ span.col \in 0 .. input.nr_cols + 1
      /\ span.col > 0 /\ span.col <= span.west /\ span.west <= span.east
      /\ Scanned(span.col, span.west - 1)
    BY DEF ScanWest, ScanInv, TypeOK, Spans, ConnectedToWest
<1>2. /\ span' = [span EXCEPT !.col = span.col - 1]
      /\ AddToClump(span.row, span.col - 1)
      /\ UNCHANGED <<input, clump_id, cell_idxs, requests, pc>>
      /\ pc = "west"
    BY DEF ScanWest
<1>3. span.col - 1 \in 0 .. input.nr_cols - 1 /\ <<span.row, span.col - 1>> \in Cells
    BY <1>1, ShapeFacts
<1>4. RequestsValid'
    BY <1>1, <1>2, <1>3, AddKeepsValid
<1>5. /\ clump_elements' \in [Cells -> 0 .. clump_id \cup {NoData}]
      /\ clump_elements'[<<span.row, span.col - 1>>] = clump_id
      /\ \A cell \in Cells : clump_elements[cell] = clump_id => clump_elements'[cell] = clump_id
    BY <1>1, <1>2, <1>3, AddKeeps
<1>6. /\ span'.row = span.row /\ span'.west = span.west /\ span'.east = span.east
      /\ span'.direction = span.direction /\ span'.col = span.col - 1
    BY <1>2 DEF TypeOK, Spans
<1>7. TypeOK'
    <2>1. span' \in Spans
        <3>1. span \in Spans /\ span.col - 1 \in 0 .. input.nr_cols + 1
            BY <1>3, ShapeFacts DEF TypeOK
        <3> QED BY <3>1, <1>2 DEF Spans
    <2> QED BY <2>1, <1>2, <1>5 DEF TypeOK, Requests, Spans, Cells
<1>8. Scanned(span.col, span.west - 1)'
    BY <1>1, <1>2, <1>3, <1>5, <1>6 DEF Scanned, Cells
<1> QED BY <1>1, <1>2, <1>4, <1>6, <1>7, <1>8 DEF ScanInv, StackInv

(* What every scan may use of the span at hand.                            *)
LEMMA SpanFacts ==
    ASSUME Inv
    PROVE  /\ span \in Spans /\ span.row \in 0 .. input.nr_rows - 1
           /\ span.west \in Nat /\ span.col \in Nat /\ input.nr_cols \in Nat
           /\ span.east \in 0 .. input.nr_cols - 1
           /\ span.direction \in Directions /\ -span.direction \in Directions
           /\ requests \in Seq(Requests) /\ ValidStack(requests)
    BY ShapeFacts DEF Inv, TypeOK, Spans, Directions, RequestsValid, ValidStack

(* Only pc, the stack and the columns reached change: the types are kept   *)
(* if those of the columns and the stack are.                              *)
LEMMA StackStepKeepsTypeOK ==
    ASSUME TypeOK, UNCHANGED <<input, clump_elements, clump_id, cell_idxs>>,
           requests' \in Seq(Requests), span' \in Spans,
           pc' \in {"cell", "request", "west", "span", "east", "push", "skip", "corner", "done"}
    PROVE  TypeOK'
BY DEF TypeOK, Cells, Requests, Spans

LEMMA TurnWestKeepsInv ==
    ASSUME Inv, TurnWest
    PROVE  Inv'
<1>1. /\ UNCHANGED <<input, clump_elements, clump_id, cell_idxs, span>>
      /\ pc = "west" /\ pc' = "span"
      /\ requests' = Push(requests, span.row, span.col, LastToTurn, -span.direction)
      /\ span.west <= span.east
      /\ Scanned(span.col, span.west - 1) /\ span.col <= span.west
    BY DEF TurnWest, Inv, ScanInv
<1>2. LastToTurn \in Int /\ LastToTurn <= span.west - 1
    BY SpanFacts DEF LastToTurn
<1>3. \A col \in span.col .. LastToTurn :
        <<span.row, col>> \in Cells /\ clump_elements[<<span.row, col>>] = clump_id
    BY <1>1, <1>2, SpanFacts DEF Scanned
<1>4. requests' \in Seq(Requests) /\ ValidStack(requests')
    BY <1>1, <1>2, <1>3, SpanFacts, PushIsValid DEF Inv
<1>5. TypeOK'
    BY <1>1, <1>4, SpanFacts, StackStepKeepsTypeOK DEF Inv
<1>6. RequestsValid'
    BY <1>1, <1>4 DEF RequestsValid, ValidStack, IsStart, SpanIsInClump, Cells
<1>7. ScanInv'
    BY <1>1 DEF ScanInv, Scanned, Cells
<1> QED BY <1>1, <1>5, <1>6, <1>7 DEF Inv, StackInv

LEMMA ScanSpanKeepsInv ==
    ASSUME Inv, ScanSpan
    PROVE  Inv'
<1>1. /\ UNCHANGED <<input, clump_elements, clump_id, cell_idxs, requests, span>>
      /\ pc = "span" /\ pc' \in {"east", "push"} /\ span.west <= span.east
    BY DEF ScanSpan
<1>2. TypeOK' /\ RequestsValid'
    BY <1>1, SpanFacts, StackStepKeepsTypeOK, RestKeepsValid DEF Inv
<1>3. ScanInv'
    BY <1>1, SpanFacts DEF Inv, ScanInv, Scanned, Cells
<1> QED BY <1>1, <1>2, <1>3 DEF Inv, StackInv

LEMMA ScanEastKeepsInv ==
    ASSUME Inv, ScanEast
    PROVE  Inv'
<1>1. /\ UNCHANGED <<input, clump_id, cell_idxs, requests, pc>>
      /\ span' = [span EXCEPT !.west = span.west + 1]
      /\ AddToClump(span.row, span.west)
      /\ pc \in {"east", "corner"}
      /\ span.west < input.nr_cols
    BY DEF ScanEast, ConnectedToEast
<1>2. span.west \in 0 .. input.nr_cols - 1 /\ <<span.row, span.west>> \in Cells
    BY <1>1, SpanFacts, ShapeFacts DEF Inv
<1>3. /\ clump_elements' \in [Cells -> 0 .. clump_id \cup {NoData}]
      /\ clump_elements'[<<span.row, span.west>>] = clump_id
      /\ \A cell \in Cells : clump_elements[cell] = clump_id => clump_elements'[cell] = clump_id
    BY <1>1, <1>2, SpanFacts, AddKeeps DEF Inv
<1>4. RequestsValid'
    BY <1>1, <1>2, SpanFacts, AddKeepsValid DEF Inv
<1>5. /\ span'.row = span.row /\ span'.west = span.west + 1 /\ span'.east = span.east
      /\ span'.direction = span.direction /\ span'.col = span.col
    BY <1>1, SpanFacts DEF Spans
<1>6. span' \in Spans
    <2>1. span.west + 1 \in 0 .. input.nr_cols + 1
        BY <1>2, SpanFacts
    <2> QED BY <1>1, <2>1, SpanFacts DEF Spans
<1>7. TypeOK'
    BY <1>1, <1>3, <1>6 DEF Inv, TypeOK, Requests, Spans, Cells
<1>8. ASSUME NEW first \in Nat, Scanned(first, span.west - 1)
      PROVE  \A col \in first .. span.west :
                <<span.row, col>> \in Cells /\ clump_elements'[<<span.row, col>>] = clump_id
    <2> SUFFICES ASSUME NEW col \in first .. span.west
                 PROVE  <<span.row, col>> \in Cells /\ clump_elements'[<<span.row, col>>] = clump_id
        OBVIOUS
    <2>1. CASE col = span.west
        BY <1>2, <1>3, <2>1
    <2>2. CASE col # span.west
        <3>1. col \in first .. span.west - 1
            BY <1>2, <1>8, <2>2
        <3>2. <<span.row, col>> \in Cells /\ clump_elements[<<span.row, col>>] = clump_id
            BY <1>8, <3>1 DEF Scanned
        <3> QED BY <1>3, <3>2
    <2> QED BY <2>1, <2>2
<1>9. ScanInv'
    <2>1. CASE pc = "east"
        <3>1. span.col <= span.west /\ span.col <= span.east /\ Scanned(span.col, span.west - 1)
            BY <2>1 DEF Inv, ScanInv
        <3>2. Scanned(span.col, span.west - 1)'
            BY <1>1, <1>5, <1>8, <3>1, SpanFacts DEF Scanned, Cells
        <3> QED BY <1>1, <1>5, <2>1, <3>1, <3>2, SpanFacts DEF ScanInv
    <2>2. CASE pc = "corner"
        <3>1. span.east < span.west /\ Scanned(span.east + 1, span.west - 1)
            BY <2>2 DEF Inv, ScanInv
        <3>2. Scanned(span.east + 1, span.west - 1)'
            BY <1>1, <1>5, <1>8, <3>1, SpanFacts DEF Scanned, Cells
        <3> QED BY <1>1, <1>5, <2>2, <3>1, <3>2, SpanFacts DEF ScanInv
    <2> QED BY <1>1, <2>1, <2>2
<1> QED BY <1>1, <1>4, <1>7, <1>9 DEF Inv, StackInv

LEMMA EndScanEastKeepsInv ==
    ASSUME Inv, EndScanEast
    PROVE  Inv'
<1>1. /\ UNCHANGED <<input, clump_elements, clump_id, cell_idxs, requests, span>>
      /\ pc = "east" /\ pc' = "push"
    BY DEF EndScanEast
<1>2. TypeOK' /\ RequestsValid'
    BY <1>1, SpanFacts, StackStepKeepsTypeOK, RestKeepsValid DEF Inv
<1>3. ScanInv'
    BY <1>1 DEF Inv, ScanInv, Scanned, Cells
<1> QED BY <1>1, <1>2, <1>3 DEF Inv, StackInv

LEMMA PushRequestsKeepsInv ==
    ASSUME Inv, PushRequests
    PROVE  Inv'
<1>1. /\ UNCHANGED <<input, clump_elements, clump_id, cell_idxs>>
      /\ pc = "push" /\ pc' = "skip"
      /\ requests' = Pushed
      /\ span' = [span EXCEPT !.west = span.west + 1]
      /\ span.col <= span.west /\ span.col <= span.east /\ span.west <= input.nr_cols
      /\ Scanned(span.col, span.west - 1)
    BY DEF PushRequests, Inv, ScanInv
<1> DEFINE ahead == Push(requests, span.row, span.col, span.west - 1, span.direction)
<1>2. ahead \in Seq(Requests) /\ ValidStack(ahead)
    <2>1. span.col <= span.west - 1 =>
            span.col \in 0 .. input.nr_cols - 1 /\ span.west - 1 \in 0 .. input.nr_cols - 1
        BY <1>1, SpanFacts
    <2>2. span.col \in Int /\ span.west - 1 \in Int
        BY SpanFacts
    <2> QED BY <1>1, <2>1, <2>2, SpanFacts, PushIsValid DEF Inv, Scanned
<1> HIDE DEF ahead
<1>3. Pushed = Push(ahead, span.row, span.east + 1, span.west - 1, -span.direction)
    BY DEF Pushed, ahead
<1>4. requests' \in Seq(Requests) /\ ValidStack(requests')
    <2>1. span.east + 1 <= span.west - 1 =>
            span.east + 1 \in 0 .. input.nr_cols - 1 /\ span.west - 1 \in 0 .. input.nr_cols - 1
        BY <1>1, SpanFacts
    <2>2. span.east + 1 \in Int /\ span.west - 1 \in Int
        BY SpanFacts
    <2>3. \A col \in span.east + 1 .. span.west - 1 :
            <<span.row, col>> \in Cells /\ clump_elements[<<span.row, col>>] = clump_id
        BY <1>1, SpanFacts DEF Scanned
    <2> QED BY <1>1, <1>2, <1>3, <2>1, <2>2, <2>3, SpanFacts, PushIsValid DEF Inv
<1>5. span' \in Spans
    <2>1. span.west + 1 \in 0 .. input.nr_cols + 1
        BY <1>1, SpanFacts
    <2> QED BY <1>1, <2>1, SpanFacts DEF Spans
<1>6. TypeOK'
    BY <1>1, <1>4, <1>5, StackStepKeepsTypeOK DEF Inv
<1>7. RequestsValid'
    BY <1>1, <1>4 DEF RequestsValid, ValidStack, IsStart, SpanIsInClump, Cells
<1> QED BY <1>1, <1>6, <1>7 DEF Inv, StackInv, ScanInv

LEMMA SkipKeepsInv ==
    ASSUME Inv, SkipCell \/ EndSkip
    PROVE  Inv'
<1>1. /\ UNCHANGED <<input, clump_elements, clump_id, cell_idxs, requests>>
      /\ pc = "skip"
      /\ \/ pc' = "skip" /\ span.west <= span.east /\ span' = [span EXCEPT !.west = span.west + 1]
         \/ pc' = "span" /\ span' = [span EXCEPT !.col = span.west]
    BY DEF SkipCell, EndSkip
<1>2. span' \in Spans
    <2>1. span.west <= span.east => span.west + 1 \in 0 .. input.nr_cols + 1
        BY SpanFacts
    <2> QED BY <1>1, <2>1, SpanFacts DEF Spans
<1>3. TypeOK' /\ RequestsValid'
    BY <1>1, <1>2, SpanFacts, StackStepKeepsTypeOK, RestKeepsValid DEF Inv
<1>4. pc' = "span" => span'.col = span.west /\ span'.west = span.west
    BY <1>1, SpanFacts DEF Spans
<1> QED BY <1>1, <1>3, <1>4, SpanFacts DEF Inv, StackInv, ScanInv, Scanned

LEMMA EndSpanKeepsInv ==
    ASSUME Inv, EndSpan
    PROVE  Inv'
<1>1. /\ UNCHANGED <<input, clump_elements, clump_id, cell_idxs, requests, span>>
      /\ pc = "span" /\ span.west > span.east
      /\ pc' \in {"request", "corner"}
      /\ pc' = "corner" => CornerIsNew
    BY DEF EndSpan
<1>2. TypeOK' /\ RequestsValid'
    BY <1>1, SpanFacts, StackStepKeepsTypeOK, RestKeepsValid DEF Inv
<1>3. ASSUME pc' = "corner"
      PROVE  span.west = span.east + 1 /\ span.west < input.nr_cols /\ ConnectedToEast
    BY <1>1, <1>3, SpanFacts DEF CornerIsNew, ConnectedToEast
<1>4. ScanInv'
    BY <1>1, <1>3, SpanFacts DEF ScanInv, Scanned, ConnectedToEast, CellIsConnected, zone_id
<1> QED BY <1>1, <1>2, <1>4 DEF Inv, StackInv

LEMMA PushFromCornerKeepsInv ==
    ASSUME Inv, PushFromCorner
    PROVE  Inv'
<1>1. /\ UNCHANGED <<input, clump_elements, clump_id, cell_idxs, span>>
      /\ pc = "corner" /\ pc' = "request"
      /\ requests' = Push(Push(requests, span.row, span.east + 1, span.west - 1, span.direction),
                          span.row, span.east + 1, span.west - 1, -span.direction)
      /\ span.west <= input.nr_cols
      /\ Scanned(span.east + 1, span.west - 1)
    BY DEF PushFromCorner, Inv, ScanInv
<1>a. /\ span.east + 1 \in Int /\ span.west - 1 \in Int
      /\ span.east + 1 <= span.west - 1 =>
            span.east + 1 \in 0 .. input.nr_cols - 1 /\ span.west - 1 \in 0 .. input.nr_cols - 1
    BY <1>1, SpanFacts
<1> DEFINE ahead == Push(requests, span.row, span.east + 1, span.west - 1, span.direction)
<1>2. ahead \in Seq(Requests) /\ ValidStack(ahead)
    BY <1>1, <1>a, SpanFacts, PushIsValid DEF Inv, Scanned
<1> HIDE DEF ahead
<1>3. requests' = Push(ahead, span.row, span.east + 1, span.west - 1, -span.direction)
    BY <1>1 DEF ahead
<1>4. requests' \in Seq(Requests) /\ ValidStack(requests')
    BY <1>1, <1>a, <1>2, <1>3, SpanFacts, PushIsValid DEF Inv, Scanned
<1>5. TypeOK'
    BY <1>1, <1>4, SpanFacts, StackStepKeepsTypeOK DEF Inv
<1>6. RequestsValid'
    BY <1>1, <1>4 DEF RequestsValid, ValidStack, IsStart, SpanIsInClump, Cells
<1> QED BY <1>1, <1>5, <1>6 DEF Inv, StackInv, ScanInv

LEMMA BetweenClumpsKeepsInv ==
    ASSUME Inv, EndClump \/ NoMoreCells
    PROVE  Inv'
<1>1. /\ UNCHANGED <<input, clump_elements, cell_idxs, requests, span>>
      /\ clump_id' \in {clump_id, clump_id + 1} /\ pc' \in {"cell", "done"}
      /\ requests = <<>>
    BY DEF EndClump, NoMoreCells, Inv, StackInv
<1>2. clump_id \in Nat /\ 0 .. clump_id \subseteq 0 .. clump_id'
    BY <1>1 DEF Inv, TypeOK
<1>3. TypeOK'
    BY <1>1, <1>2 DEF Inv, TypeOK, Cells, Requests, Spans
<1> QED BY <1>1, <1>3 DEF Inv, RequestsValid, ScanInv, StackInv

LEMMA InvNext == Inv /\ [Next]_vars => Inv'
<1> SUFFICES ASSUME Inv, [Next]_vars PROVE Inv'
    OBVIOUS
<1>1. CASE StartClump
    BY <1>1, StartClumpKeepsInv
<1>2. CASE NoMoreCells \/ EndClump
    BY <1>2, BetweenClumpsKeepsInv
<1>3. CASE PopRequest
    BY <1>3, PopKeepsInv
<1>4. CASE ScanWest
    BY <1>4, ScanWestKeepsInv
<1>5. CASE TurnWest
    BY <1>5, TurnWestKeepsInv
<1>6. CASE ScanSpan
    BY <1>6, ScanSpanKeepsInv
<1>7. CASE ScanEast
    BY <1>7, ScanEastKeepsInv
<1>8. CASE EndScanEast
    BY <1>8, EndScanEastKeepsInv
<1>9. CASE PushRequests
    BY <1>9, PushRequestsKeepsInv
<1>10. CASE SkipCell \/ EndSkip
    BY <1>10, SkipKeepsInv
<1>11. CASE EndSpan
    BY <1>11, EndSpanKeepsInv
<1>12. CASE PushFromCorner
    BY <1>12, PushFromCornerKeepsInv
<1>13. CASE UNCHANGED vars
    BY <1>13 DEF vars, Inv, TypeOK, RequestsValid, IsStart, SpanIsInClump, ScanInv, StackInv, Scanned,
                 Cells, Requests, Spans, ConnectedToEast, CellIsConnected, zone_id
<1> QED BY <1>1, <1>2, <1>3, <1>4, <1>5, <1>6, <1>7, <1>8, <1>9, <1>10, <1>11, <1>12, <1>13
        DEF Next, Terminated

(* The scans never leave the array, whatever its shape: flood_fill reads   *)
(* and writes cells that exist.                                            *)
THEOREM TypeCorrect == Spec => []TypeOK
<1>1. Inv => TypeOK
    BY DEF Inv
<1> QED BY <1>1, InvInit, InvNext, PTL DEF Spec

(* Every request the scans make satisfies assert_request_is_valid: it is   *)
(* inside the array and names cells of the clump, whatever the zones are   *)
(* and whether or not corners connect.                                     *)
THEOREM RequestsAreValid == Spec => []RequestsValid
<1>1. Inv => RequestsValid
    BY DEF Inv
<1> QED BY <1>1, InvInit, InvNext, PTL DEF Spec

-----------------------------------------------------------------------------
(***************************************************************************)
(* What the flood fill leaves behind: exactly the cells of the clump.      *)
(* FillInv says at every place of the program which cells of the clump are *)
(* in it already, and which request is going to add the others.            *)
(***************************************************************************)

AllClumps == Clumps(input.zone, input.diagonal)

(* The clump that is being filled.                                         *)
TheClump == UNION {clump \in AllClumps : cell_idxs \in clump}

(* The id of a clump.                                                      *)
Rank(clump) == Number(AllClumps, clump)

(* What the cell has once the clumps with lower ids are there.             *)
ExactId(cell, id) ==
    LET ids == ClumpIds(input.zone, input.diagonal)
    IN  IF ids[cell] # NoData /\ ids[cell] < id THEN ids[cell] ELSE NoData

IsIn(cell) == clump_elements[cell] = clump_id

IsConnected(cell) == CellIsConnected(cell[1], cell[2])

(* Nothing is left to be done for a cell.                                  *)
IsDone(cell) == cell \in TheClump => IsIn(cell)

(* As many clumps are filled as there are lower ids.                       *)
ClumpsAreCounted == Cardinality({clump \in AllClumps : Rank(clump) < clump_id}) = clump_id

(* The clump that is being filled is the next one, the cell it starts from *)
(* is its first, and nothing is changed but cells of the clump.            *)
OnlyTheClump ==
    /\ cell_idxs \in TheClump
    /\ TheClump \in AllClumps
    /\ Rank(TheClump) = clump_id
    /\ \A cell \in TheClump : cell = cell_idxs \/ Before(cell_idxs, cell)
    /\ \A cell \in TheClump : clump_elements[cell] \in {NoData, clump_id}
    /\ \A cell \in Cells \ TheClump : clump_elements[cell] = ExactId(cell, clump_id)

(* The cells next to a span that a request adds to the clump.              *)
Reach == IF input.diagonal THEN 1 ELSE 0

IsOnStack(stack, cell) ==
    \E k \in DOMAIN stack :
        /\ cell[1] = stack[k].row
        /\ cell[2] \in stack[k].west - Reach .. stack[k].east + Reach

IsRequested(cell) == IsOnStack(requests, cell)

(* The cells the request at hand is still going to look at.                *)
IsAhead(cell) ==
    /\ pc \in {"west", "span", "east", "push", "skip", "corner"}
    /\ cell[1] = span.row
    /\ cell[2] \in (IF pc = "west" THEN span.west - Reach ELSE span.west) .. span.east + Reach

IsTakenCareOf(cell) == IsDone(cell) \/ IsRequested(cell) \/ IsAhead(cell)

(* A cell that was scanned, and the row next to it is to be requested.     *)
ToBePushed(cell, row) ==
    /\ cell[1] = span.row
    /\ \/ pc = "west" /\ cell[2] \in span.col .. span.west - 1
       \/ /\ pc \in {"east", "push"} \/ (pc = "span" /\ span.west <= span.east)
          /\ cell[2] \in span.col .. span.west - 1
          /\ row = span.row + span.direction \/ cell[2] > span.east
       \/ pc = "corner" /\ cell[2] \in span.east + 1 .. span.west - 1

(* The ends of the scan.                                                   *)
ToBeScanned(cell, next) ==
    /\ cell[1] = span.row
    /\ \/ pc = "west" /\ cell[2] = span.col /\ next[2] = span.col - 1
       \/ /\ pc \in {"west", "east", "corner"} \/ (pc = "span" /\ span.west <= span.east)
          /\ cell[2] = span.west - 1 /\ next[2] = span.west

(* Cells of a row that touch are added together.                           *)
RunsAreWhole ==
    \A cell, next \in Cells :
        IsIn(cell) /\ next[1] = cell[1] /\ next[2] - cell[2] \in {-1, 1}
            => IsDone(next) \/ ToBeScanned(cell, next)

(* Nothing that touches the clump is forgotten.                            *)
NothingIsForgotten ==
    /\ IsTakenCareOf(cell_idxs)
    /\ \A cell \in Cells, next \in TheClump :
        IsIn(cell) /\ next[1] # cell[1] /\ Touch(input.diagonal, cell, next)
            => IsTakenCareOf(next) \/ ToBePushed(cell, next[1])

IsDownwards == span.row = cell_idxs[1] /\ span.direction = 1

IsUpwards == span.row = cell_idxs[1] - 1 /\ span.direction = -1

ParentIsIn ==
    \A col \in 0 .. input.nr_cols - 1 :
        col <= span.east /\ (col >= span.west \/ col = span.east) =>
            /\ <<span.row - span.direction, col>> \in Cells
            /\ IsIn(<<span.row - span.direction, col>>)

(* The cells the span at hand is next to are in the clump, or it is one of *)
(* those a clump starts with.  Nothing upwards of the first cell is.       *)
SpanHasParent ==
    \/ ParentIsIn
    \/ IsDownwards /\ span.east = cell_idxs[2] /\ span.west >= span.east
    \/ /\ IsUpwards /\ span.east = cell_idxs[2] /\ span.west >= span.east
       /\ pc \notin {"west", "corner"}
       /\ pc \in {"span", "east", "push"} => span.col = span.west
       /\ pc = "skip" => span.west > span.east

SpanInv ==
    /\ pc \in {"west", "span", "east", "push", "skip", "corner"} => SpanHasParent
    /\ pc = "west" /\ ~input.diagonal => CellIsConnected(span.row, span.west)
    /\ pc \in {"span", "east", "corner"} /\ span.west \in 1 .. input.nr_cols - 1
            /\ CellIsConnected(span.row, span.west)
        => IsDone(<<span.row, span.west - 1>>)
    /\ pc = "skip" /\ span.west \in 1 .. input.nr_cols => IsDone(<<span.row, span.west - 1>>)
    /\ pc = "push" /\ span.west < input.nr_cols => IsDone(<<span.row, span.west>>)
    /\ pc = "corner" => input.diagonal

FillInv == OnlyTheClump /\ RunsAreWhole /\ NothingIsForgotten /\ SpanInv

ExactInv ==
    /\ ClumpsAreCounted
    /\ ClumpsAreExact
    /\ pc \notin {"cell", "done"} => FillInv

-----------------------------------------------------------------------------
(* The order of cells and of clumps.                                       *)

ZonedCells == {cell \in Cells : input.zone[cell] # NoData}

(* The clumps of an array.                                                 *)
LEMMA ClumpFacts ==
    ASSUME TypeOK
    PROVE  /\ DivideIntoClumps(input.zone, input.diagonal, AllClumps, ZonedCells)
           /\ IsFiniteSet(AllClumps)
           /\ DOMAIN input.zone = Cells
<1>1. DOMAIN input.zone = Cells
    BY FloodFillAssumption DEF TypeOK, Cells
<1>2. IsFiniteSet(Cells) /\ Cells \subseteq Int \X Int
    <2>1. /\ input.nr_rows - 1 \in Int /\ input.nr_cols - 1 \in Int /\ 0 \in Int
        BY ShapeFacts
    <2>2. IsFiniteSet(0 .. input.nr_rows - 1) /\ IsFiniteSet(0 .. input.nr_cols - 1)
        BY <2>1, FS_Interval
    <2> QED BY <2>1, <2>2, FS_Product DEF Cells, Array
<1>3. DivideIntoClumps(input.zone, input.diagonal, AllClumps, ZonedCells)
    BY <1>1, <1>2, ClumpsDivide DEF AllClumps, ZonedCells
<1>4. AllClumps \in SUBSET SUBSET Cells
    BY <1>3 DEF DivideIntoClumps, ZonedCells
<1>5. IsFiniteSet(SUBSET Cells)
    BY <1>2, FS_SUBSET
<1> QED BY <1>1, <1>3, <1>4, <1>5, FS_Subset

(* What is used of the clumps most.                                        *)
LEMMA CellsOfClumps ==
    ASSUME TypeOK
    PROVE  /\ \A clump \in AllClumps : clump # {}
           /\ \A clump \in AllClumps : \A c \in clump : c \in Cells /\ input.zone[c] # NoData
           /\ \A c \in Cells : input.zone[c] # NoData => \E clump \in AllClumps : c \in clump
           /\ \A clump, other \in AllClumps : (\E c \in clump : c \in other) => clump = other
BY ClumpFacts DEF DivideIntoClumps, ZonedCells

LEMMA CellOrder ==
    ASSUME TypeOK
    PROVE  /\ \A a \in Cells : a[1] \in Int /\ a[2] \in Int /\ a = <<a[1], a[2]>> /\ ~Before(a, a)
           /\ \A a, b \in Cells : a = b \/ Before(a, b) \/ Before(b, a)
           /\ \A a, b \in Cells : Before(a, b) => ~Before(b, a)
           /\ \A a, b, c \in Cells : Before(a, b) /\ Before(b, c) => Before(a, c)
<1>1. Cells \subseteq Nat \X Nat
    BY ShapeFacts DEF Cells, Array
<1> QED BY <1>1, CellsAreOrdered

(* Clumps have different ids, in their order.                              *)
LEMMA RankFacts ==
    ASSUME TypeOK
    PROVE  /\ \A clump \in AllClumps : Rank(clump) \in Nat
           /\ \A clump, other \in AllClumps : IsBefore(clump, other) => Rank(clump) < Rank(other)
           /\ \A clump, other \in AllClumps : Rank(clump) = Rank(other) => clump = other
           /\ \A clump, other \in AllClumps :
                clump # other => IsBefore(clump, other) \/ IsBefore(other, clump)
<1>1. Cells \subseteq Nat \X Nat
    BY ShapeFacts DEF Cells, Array
<1>2. AreApart(AllClumps)
    BY <1>1, ClumpFacts, CellsOfClumps DEF AreApart
<1> QED BY <1>2, ClumpsAreNumbered DEF Rank

(* The ids cells are to have.                                              *)
LEMMA ExactIdFacts ==
    ASSUME TypeOK, NEW id \in Nat
    PROVE  /\ \A clump \in AllClumps : \A c \in clump :
                ExactId(c, id) = IF Rank(clump) < id THEN Rank(clump) ELSE NoData
           /\ \A c \in Cells : input.zone[c] = NoData => ExactId(c, id) = NoData
<1> DEFINE ids == ClumpIds(input.zone, input.diagonal)
           ClumpWith(cell) == CHOOSE clump \in AllClumps : cell \in clump
<1>1. ids = [cell \in Cells |->
                IF input.zone[cell] = NoData THEN NoData
                ELSE Cardinality({clump \in AllClumps :
                        \E first \in clump : \A c \in ClumpWith(cell) : Before(first, c)})]
    BY ClumpFacts, Zenon DEF ClumpIds, AllClumps
<1>2. ASSUME NEW clump \in AllClumps, NEW c \in clump
      PROVE  ids[c] = Rank(clump)
    <2>1. ClumpWith(c) \in AllClumps /\ c \in ClumpWith(c)
        BY <1>2
    <2>2. ClumpWith(c) = clump
        <3> HIDE DEF ClumpWith
        <3> QED BY <1>2, <2>1, CellsOfClumps
    <2>3. c \in Cells /\ input.zone[c] # NoData
        BY <1>2, CellsOfClumps
    <2> HIDE DEF ClumpWith, ids
    <2>4. ids[c] = Cardinality({other \in AllClumps :
                        \E first \in other : \A d \in clump : Before(first, d)})
        BY <1>1, <2>2, <2>3
    <2> QED BY <2>4 DEF Rank, Number, Preceding, IsBefore
<1>3. ASSUME NEW c \in Cells, input.zone[c] = NoData PROVE ids[c] = NoData
    BY <1>1, <1>3
<1>4. NoData \notin Nat /\ \A clump \in AllClumps : Rank(clump) \in Nat
    BY RankFacts, ShapeFacts
<1>5. \A c : ExactId(c, id) = IF ids[c] # NoData /\ ids[c] < id THEN ids[c] ELSE NoData
    BY DEF ExactId
<1> HIDE DEF ids
<1> QED BY <1>2, <1>3, <1>4, <1>5

-----------------------------------------------------------------------------
(* From one clump to the next.                                             *)

(* A clump is the smallest closed set around the cell it starts from.      *)
LEMMA TheClumpFacts ==
    ASSUME TypeOK, NEW clump \in AllClumps, cell_idxs \in clump
    PROVE  /\ TheClump = clump
           /\ \A c \in clump : c \in Cells /\ IsConnected(c)
           /\ \A c \in clump, n \in Cells :
                IsConnected(n) /\ Touch(input.diagonal, c, n) => n \in clump
           /\ \A some \in SUBSET clump :
                /\ cell_idxs \in some
                /\ \A a \in some, b \in clump : Touch(input.diagonal, a, b) => b \in some
                => some = clump
<1>1. TheClump = clump
    BY CellsOfClumps DEF TheClump
<1>2. /\ clump \subseteq ZonedCells
      /\ IsClosed(input.zone, input.diagonal, clump, ZonedCells)
      /\ \A some \in SUBSET ZonedCells :
            IsClosed(input.zone, input.diagonal, some, ZonedCells) /\ (\E c \in clump : c \in some)
                => clump \subseteq some
    BY ClumpFacts DEF DivideIntoClumps
<1> DEFINE same == {c \in ZonedCells : input.zone[c] = zone_id}
<1>3. clump \subseteq same
    <2>1. same \in SUBSET ZonedCells /\ cell_idxs \in same
        BY <1>2 DEF zone_id
    <2>2. IsClosed(input.zone, input.diagonal, same, ZonedCells)
        BY DEF IsClosed
    <2> QED BY <1>2, <2>1, <2>2
<1>4. \A c \in Cells : c = <<c[1], c[2]>>
    BY CellOrder
<1>5. \A c \in Cells : IsConnected(c) <=> c \in same
    BY <1>4 DEF IsConnected, CellIsConnected, ZonedCells
<1>6. \A c \in clump : c \in Cells /\ IsConnected(c)
    BY <1>3, <1>5 DEF ZonedCells
<1>7. ASSUME NEW c \in clump, NEW n \in Cells, IsConnected(n), Touch(input.diagonal, c, n)
      PROVE  n \in clump
    <2>1. c \in same /\ n \in same
        BY <1>3, <1>5, <1>7
    <2>2. n \in ZonedCells /\ input.zone[c] = input.zone[n]
        BY <2>1
    <2> QED BY <1>2, <1>7, <2>2 DEF IsClosed
<1>8. ASSUME NEW some \in SUBSET clump, cell_idxs \in some,
             \A a \in some, b \in clump : Touch(input.diagonal, a, b) => b \in some
      PROVE  some = clump
    <2>1. ASSUME NEW a \in some, NEW b \in ZonedCells, input.zone[a] = input.zone[b],
                 Touch(input.diagonal, a, b)
          PROVE  b \in some
        <3>1. b \in clump
            BY <1>2, <2>1 DEF IsClosed
        <3> QED BY <1>8, <2>1, <3>1
    <2>2. IsClosed(input.zone, input.diagonal, some, ZonedCells) /\ some \in SUBSET ZonedCells
        BY <1>2, <2>1 DEF IsClosed
    <2> QED BY <1>2, <1>8, <2>2
<1> QED BY <1>1, <1>6, <1>7, <1>8

(* What the scans use of the clump they fill.                              *)
LEMMA FillFacts ==
    ASSUME TypeOK, OnlyTheClump
    PROVE  /\ \A c \in TheClump : c \in Cells /\ IsConnected(c)
           /\ \A c \in TheClump, n \in Cells :
                IsConnected(n) /\ Touch(input.diagonal, c, n) => n \in TheClump
           /\ \A c \in Cells : IsIn(c) => c \in TheClump
           /\ \A c \in Cells : AddedAlready(c[1], c[2]) => IsDone(c)
           /\ \A c \in Cells : ~IsConnected(c) => IsDone(c)
           /\ \A c \in TheClump : ~Before(c, cell_idxs)
           /\ cell_idxs \in TheClump /\ cell_idxs \in Cells
<1>1. /\ \A c \in TheClump : c \in Cells /\ IsConnected(c)
      /\ \A c \in TheClump, n \in Cells :
            IsConnected(n) /\ Touch(input.diagonal, c, n) => n \in TheClump
    BY TheClumpFacts DEF OnlyTheClump
<1>2. ASSUME NEW c \in Cells, IsIn(c) PROVE c \in TheClump
    <2> SUFFICES ASSUME c \notin TheClump PROVE FALSE
        OBVIOUS
    <2>1. ExactId(c, clump_id) = clump_id /\ clump_id \in Nat
        BY <1>2 DEF OnlyTheClump, IsIn, TypeOK
    <2>2. ExactId(c, clump_id) = NoData \/ \E k \in AllClumps :
            Rank(k) < clump_id /\ ExactId(c, clump_id) = Rank(k)
        BY <2>1, ExactIdFacts, CellsOfClumps
    <2> QED BY <2>1, <2>2, ShapeFacts, RankFacts
<1>3. ASSUME NEW c \in Cells, AddedAlready(c[1], c[2]) PROVE IsDone(c)
    BY <1>3, CellOrder DEF AddedAlready, IsDone, IsIn, OnlyTheClump
<1>4. \A c \in TheClump : ~Before(c, cell_idxs)
    BY <1>1, CellOrder DEF OnlyTheClump
<1> QED BY <1>1, <1>2, <1>3, <1>4 DEF OnlyTheClump, IsDone

LEMMA ExactInvInit ==
    ASSUME Init
    PROVE  ExactInv
<1>1. TypeOK /\ clump_id = 0 /\ pc = "cell" /\ clump_elements = [cell \in Cells |-> NoData]
    BY InvInit DEF Inv, Init
<1>2. \A cell \in Cells : ExactId(cell, 0) = NoData
    <2>1. \A clump \in AllClumps : ~(Rank(clump) < 0)
        BY <1>1, RankFacts
    <2> QED BY <1>1, <2>1, ExactIdFacts, CellsOfClumps
<1>3. ClumpsAreExact
    BY <1>1, <1>2, Zenon DEF ClumpsAreExact, ExactId
<1>4. ClumpsAreCounted
    <2>1. {clump \in AllClumps : Rank(clump) < clump_id} = {}
        BY <1>1, RankFacts
    <2> QED BY <1>1, <2>1, FS_EmptySet DEF ClumpsAreCounted
<1> QED BY <1>1, <1>3, <1>4 DEF ExactInv

(* While no clump is filled, the ids are those of the clumps before.       *)
LEMMA ClumpsAreExactIs ==
    ASSUME TypeOK
    PROVE  ClumpsAreExact <=>
            (pc = "cell" => \A cell \in Cells : clump_elements[cell] = ExactId(cell, clump_id))
<1>1. clump_elements = [cell \in Cells |-> clump_elements[cell]]
    BY DEF TypeOK
<1>2. ClumpsAreExact <=>
        (pc = "cell" => clump_elements = [cell \in Cells |-> ExactId(cell, clump_id)])
    BY Zenon DEF ClumpsAreExact, ExactId
<1> QED BY <1>1, <1>2

(* The first cell without an id is the first of the next clump.            *)
LEMMA StartClumpKeepsExact ==
    ASSUME Inv, ExactInv, StartClump
    PROVE  ExactInv'
<1>0. TypeOK /\ clump_id \in Nat
    BY DEF Inv, TypeOK
<1>1. PICK cell \in Seeds :
        /\ cell_idxs' = cell
        /\ requests' = StartRequests(cell[1], cell[2])
    BY DEF StartClump
<1>2. /\ pc = "cell" /\ pc' = "request"
      /\ input' = input /\ clump_elements' = clump_elements /\ clump_id' = clump_id
    BY DEF StartClump
<1>3. \A c \in Cells : clump_elements[c] = ExactId(c, clump_id)
    BY <1>0, <1>2, ClumpsAreExactIs DEF ExactInv
<1>4. /\ cell \in Cells /\ input.zone[cell] # NoData /\ clump_elements[cell] = NoData
      /\ \A c \in Cells : Before(c, cell) /\ input.zone[c] # NoData => clump_elements[c] # NoData
    <2>1. cell \in Unassigned /\ \A c \in Unassigned \ {cell} : Before(cell, c)
        BY DEF Seeds
    <2>2. ASSUME NEW c \in Cells, Before(c, cell), input.zone[c] # NoData,
                 clump_elements[c] = NoData
          PROVE  FALSE
        <3>1. c \in Unassigned /\ cell \in Cells
            BY <2>1, <2>2 DEF Unassigned
        <3> QED BY <1>0, <2>1, <2>2, <3>1, CellOrder
    <2> QED BY <2>1, <2>2 DEF Unassigned
<1>5. PICK clump \in AllClumps : cell \in clump
    BY <1>0, <1>4, CellsOfClumps
<1>6. Rank(clump) \in Nat /\ ~(Rank(clump) < clump_id) /\ NoData \notin Nat
    <2>1. ExactId(cell, clump_id) = IF Rank(clump) < clump_id THEN Rank(clump) ELSE NoData
        BY <1>0, <1>5, ExactIdFacts
    <2> QED BY <1>0, <1>3, <1>4, <1>5, <2>1, RankFacts, ShapeFacts
<1>7. \A c \in clump : c \in Cells /\ input.zone[c] # NoData /\ clump_elements[c] = NoData
    <2>1. \A c \in clump : ExactId(c, clump_id) = NoData
        BY <1>0, <1>6, ExactIdFacts
    <2> QED BY <1>0, <1>3, <1>5, <2>1, CellsOfClumps
<1>8. \A c \in clump : c = cell \/ Before(cell, c)
    BY <1>0, <1>4, <1>5, <1>7, CellOrder
<1>9. Preceding(AllClumps, clump) = {k \in AllClumps : Rank(k) < clump_id}
    <2>1. ASSUME NEW k \in AllClumps, IsBefore(k, clump) PROVE Rank(k) < clump_id
        <3>1. PICK f \in k : \A c \in clump : Before(f, c)
            BY <2>1 DEF IsBefore
        <3>2. f \in Cells /\ input.zone[f] # NoData /\ clump_elements[f] # NoData
            BY <1>0, <1>4, <1>5, <3>1, CellsOfClumps
        <3>3. ExactId(f, clump_id) = IF Rank(k) < clump_id THEN Rank(k) ELSE NoData
            BY <1>0, ExactIdFacts
        <3> QED BY <1>3, <3>2, <3>3
    <2>2. ASSUME NEW k \in AllClumps, Rank(k) < clump_id PROVE IsBefore(k, clump)
        <3>1. k # clump /\ Rank(k) \in Nat
            BY <1>0, <1>6, <2>2, RankFacts
        <3>2. ~(Rank(clump) < Rank(k))
            BY <1>0, <1>6, <2>2, <3>1
        <3> QED BY <1>0, <3>1, <3>2, RankFacts
    <2> QED BY <2>1, <2>2 DEF Preceding
<1>10. Rank(clump) = clump_id
    BY <1>9 DEF Rank, Number, ExactInv, ClumpsAreCounted
<1>11. TypeOK'
    BY StartClumpKeepsInv DEF Inv
<1>12. /\ AllClumps' = AllClumps /\ Cells' = Cells /\ cell_idxs' \in clump
       /\ \A c, id : ExactId(c, id)' = ExactId(c, id)
       /\ \A k : Rank(k)' = Rank(k)
    BY <1>1, <1>2, <1>5 DEF AllClumps, Cells, ExactId, Rank, Number, Preceding, IsBefore
<1>13. TheClump' = clump
    BY <1>0, <1>5, <1>12, CellsOfClumps DEF TheClump
<1>14. OnlyTheClump'
    <2>1. \A c \in Cells \ clump : clump_elements'[c] = ExactId(c, clump_id)'
        BY <1>2, <1>3, <1>12
    <2> QED BY <1>1, <1>2, <1>7, <1>8, <1>10, <1>12, <1>13, <2>1 DEF OnlyTheClump
<1>15. \A c \in Cells : ~IsIn(c)'
    <2>1. \A c \in Cells : clump_elements[c] # clump_id
        <3>1. ASSUME NEW c \in Cells, clump_elements[c] = clump_id PROVE FALSE
            <4>1. ExactId(c, clump_id) = clump_id
                BY <1>3, <3>1
            <4>2. ExactId(c, clump_id) = NoData \/ \E k \in AllClumps :
                    Rank(k) < clump_id /\ ExactId(c, clump_id) = Rank(k)
                BY <1>0, ExactIdFacts, CellsOfClumps
            <4> QED BY <1>0, <1>6, <4>1, <4>2, RankFacts
        <3> QED BY <3>1
    <2> QED BY <1>2, <2>1 DEF IsIn
<1>16. IsRequested(cell_idxs)'
    <2> DEFINE down == SpanRequest(cell[1], cell[2], cell[2], 1)
    <2>1. \E k \in DOMAIN requests' : requests'[k] = down
        <3>1. requests' = <<SpanRequest(cell[1] - 1, cell[2], cell[2], -1), down>>
              \/ requests' = <<down>>
            BY <1>1 DEF StartRequests
        <3> HIDE DEF down
        <3> QED BY <3>1
    <2>2. down.row = cell[1] /\ down.west = cell[2] /\ down.east = cell[2]
        BY DEF SpanRequest
    <2>3. cell[2] \in Int /\ Reach' \in {0, 1}
        BY <1>0, <1>4, CellOrder DEF Reach
    <2> HIDE DEF down
    <2>4. cell[2] \in down.west - Reach' .. down.east + Reach'
        BY <2>2, <2>3
    <2> QED BY <1>1, <2>1, <2>2, <2>4 DEF IsRequested, IsOnStack
<1>17. FillInv'
    BY <1>2, <1>12, <1>14, <1>15, <1>16
       DEF FillInv, RunsAreWhole, NothingIsForgotten, IsTakenCareOf, SpanInv
<1>18. ClumpsAreCounted'
    BY <1>2, <1>12 DEF ExactInv, ClumpsAreCounted
<1> QED BY <1>2, <1>17, <1>18 DEF ExactInv, ClumpsAreExact

(* When no requests are left, the clump is filled.                         *)
LEMMA ClumpIsFilled ==
    ASSUME Inv, FillInv, pc = "request", requests = <<>>
    PROVE  \A c \in TheClump : IsIn(c)
<1>0. TypeOK /\ OnlyTheClump
    BY DEF Inv, FillInv
<1>1. \A c : ~IsRequested(c) /\ ~IsAhead(c)
    BY DEF IsRequested, IsOnStack, IsAhead
<1>2. \A c : \A n : ~ToBeScanned(c, n) /\ ~ToBePushed(c, n)
    BY DEF ToBeScanned, ToBePushed
<1> DEFINE some == {c \in TheClump : IsIn(c)}
<1>3. cell_idxs \in some
    BY <1>0, <1>1, FillFacts DEF FillInv, NothingIsForgotten, IsTakenCareOf, IsDone
<1>4. ASSUME NEW a \in some, NEW b \in TheClump, Touch(input.diagonal, a, b)
      PROVE  b \in some
    <2>1. a \in Cells /\ b \in Cells /\ IsIn(a)
        BY <1>0, FillFacts
    <2>2. CASE a[1] = b[1]
        <3>1. b[2] - a[2] \in {-1, 1}
            BY <1>0, <1>4, <2>1, <2>2, CellOrder DEF Touch
        <3>2. IsDone(b)
            BY <1>2, <2>1, <2>2, <3>1 DEF FillInv, RunsAreWhole
        <3> QED BY <3>2 DEF IsDone
    <2>3. CASE a[1] # b[1]
        <3>1. IsTakenCareOf(b)
            BY <1>2, <1>4, <2>1, <2>3 DEF FillInv, NothingIsForgotten
        <3> QED BY <1>1, <3>1 DEF IsTakenCareOf, IsDone
    <2> QED BY <2>2, <2>3
<1>5. some = TheClump
    <2>1. TheClump \in AllClumps /\ cell_idxs \in TheClump /\ some \in SUBSET TheClump
        BY <1>0 DEF OnlyTheClump
    <2> HIDE DEF some
    <2> QED BY <1>0, <1>3, <1>4, <2>1, TheClumpFacts
<1> QED BY <1>5

(* What stays when the clump stays.                                        *)
LEMMA SameClump ==
    ASSUME UNCHANGED input
    PROVE  /\ AllClumps' = AllClumps /\ Cells' = Cells /\ Reach' = Reach
           /\ \A c, id : ExactId(c, id)' = ExactId(c, id)
           /\ \A k : Rank(k)' = Rank(k)
           /\ cell_idxs' = cell_idxs =>
                /\ TheClump' = TheClump
                /\ \A row, col : CellIsConnected(row, col)' = CellIsConnected(row, col)
                /\ \A c : IsConnected(c)' = IsConnected(c)
BY DEF AllClumps, Cells, Reach, ExactId, Rank, Number, Preceding, IsBefore, TheClump, IsConnected,
       CellIsConnected, zone_id

(* The next id is that of the next clump.                                  *)
LEMMA EndClumpKeepsExact ==
    ASSUME Inv, ExactInv, EndClump
    PROVE  ExactInv'
<1>0. TypeOK /\ clump_id \in Nat /\ FillInv /\ OnlyTheClump
    BY DEF Inv, TypeOK, EndClump, ExactInv, FillInv
<1>1. /\ pc = "request" /\ requests = <<>> /\ pc' = "cell"
      /\ clump_id' = clump_id + 1 /\ UNCHANGED <<input, clump_elements, cell_idxs>>
    BY DEF EndClump
<1>2. /\ AllClumps' = AllClumps /\ Cells' = Cells
      /\ \A c, id : ExactId(c, id)' = ExactId(c, id)
      /\ \A k : Rank(k)' = Rank(k)
    BY <1>1, SameClump
<1>3. TypeOK'
    BY BetweenClumpsKeepsInv DEF Inv
<1>4. \A k \in AllClumps : Rank(k) \in Nat /\ (Rank(k) = clump_id <=> k = TheClump)
    BY <1>0, RankFacts DEF OnlyTheClump
<1>5. ASSUME NEW c \in Cells PROVE clump_elements[c] = ExactId(c, clump_id + 1)
    <2>1. clump_id + 1 \in Nat
        BY <1>0
    <2>2. CASE c \in TheClump
        <3>1. clump_elements[c] = clump_id
            BY <1>0, <1>1, <2>2, ClumpIsFilled DEF IsIn
        <3>2. ExactId(c, clump_id + 1) = IF clump_id < clump_id + 1 THEN clump_id ELSE NoData
            BY <1>0, <2>1, <2>2, ExactIdFacts DEF OnlyTheClump
        <3> QED BY <1>0, <3>1, <3>2
    <2>3. CASE c \notin TheClump
        <3>1. clump_elements[c] = ExactId(c, clump_id)
            BY <1>0, <2>3 DEF OnlyTheClump
        <3>2. CASE input.zone[c] = NoData
            BY <1>0, <2>1, <3>1, <3>2, ExactIdFacts
        <3>3. CASE input.zone[c] # NoData
            <4>1. PICK k \in AllClumps : c \in k
                BY <1>0, <3>3, CellsOfClumps
            <4>2. Rank(k) < clump_id + 1 <=> Rank(k) < clump_id
                BY <1>0, <1>4, <2>3, <4>1
            <4> QED BY <1>0, <2>1, <3>1, <4>1, <4>2, ExactIdFacts
        <3> QED BY <3>2, <3>3
    <2> QED BY <2>2, <2>3
<1>6. ClumpsAreExact'
    <2>1. (\A c \in Cells : clump_elements[c] = ExactId(c, clump_id))'
        BY <1>1, <1>2, <1>5
    <2>2. (TypeOK => (ClumpsAreExact <=>
            (pc = "cell" => \A cell \in Cells : clump_elements[cell] = ExactId(cell, clump_id))))'
        BY ClumpsAreExactIs, PTL
    <2> QED BY <1>3, <2>1, <2>2
<1>7. ClumpsAreCounted'
    <2> DEFINE before == {k \in AllClumps : Rank(k) < clump_id}
    <2>1. {k \in AllClumps : Rank(k) < clump_id + 1} = before \cup {TheClump}
        <3>1. \A k \in AllClumps : Rank(k) < clump_id + 1 <=> Rank(k) < clump_id \/ k = TheClump
            BY <1>0, <1>4
        <3> QED BY <1>0, <3>1 DEF OnlyTheClump
    <2>2. TheClump \notin before
        BY <1>0 DEF OnlyTheClump
    <2>3. IsFiniteSet(before)
        BY <1>0, ClumpFacts, FS_Subset
    <2>4. Cardinality(before) = clump_id
        BY DEF ExactInv, ClumpsAreCounted
    <2> HIDE DEF before
    <2>5. Cardinality({k \in AllClumps : Rank(k) < clump_id + 1}) = clump_id + 1
        BY <2>1, <2>2, <2>3, <2>4, FS_AddElement
    <2> QED BY <1>1, <1>2, <2>5 DEF ClumpsAreCounted
<1> QED BY <1>1, <1>6, <1>7 DEF ExactInv

-----------------------------------------------------------------------------
(* The steps of the scans.                                                 *)

(* How a scan goes on: what was to be done before is done after, or is to  *)
(* be done still, and so is what follows from cells that are added.        *)
GoesOn ==
    /\ \A cell, next \in Cells :
        next[1] = cell[1] /\ ToBeScanned(cell, next) => IsDone(next)' \/ ToBeScanned(cell, next)'
    /\ \A next \in TheClump : IsRequested(next) \/ IsAhead(next) => IsTakenCareOf(next)'
    /\ \A cell \in Cells, next \in TheClump :
        /\ IsIn(cell) /\ next[1] # cell[1] /\ Touch(input.diagonal, cell, next)
        /\ ToBePushed(cell, next[1])
        => IsTakenCareOf(next)' \/ ToBePushed(cell, next[1])'
    /\ \A cell \in Cells : IsIn(cell)' /\ ~IsIn(cell) =>
        /\ \A next \in Cells :
            next[1] = cell[1] /\ next[2] - cell[2] \in {-1, 1}
                => IsDone(next)' \/ ToBeScanned(cell, next)'
        /\ \A next \in TheClump :
            next[1] # cell[1] /\ Touch(input.diagonal, cell, next)
                => IsTakenCareOf(next)' \/ ToBePushed(cell, next[1])'

OnlyAdds ==
    \A c \in Cells :
        \/ clump_elements'[c] = clump_elements[c]
        \/ c \in TheClump /\ clump_elements'[c] = clump_id

ClumpStays ==
    /\ pc \notin {"cell", "done"} /\ pc' \notin {"cell", "done"}
    /\ UNCHANGED <<input, clump_id, cell_idxs>>

(* What is done stays done.                                                *)
LEMMA DoneStays ==
    ASSUME TypeOK, OnlyTheClump, ClumpStays, OnlyAdds
    PROVE  /\ \A c \in Cells : IsIn(c) => IsIn(c)'
           /\ \A c : IsDone(c) => IsDone(c)'
<1>1. TheClump' = TheClump /\ Cells' = Cells /\ TheClump \subseteq Cells
    BY SameClump, FillFacts DEF ClumpStays
<1>2. \A c \in Cells : IsIn(c) => IsIn(c)'
    BY DEF OnlyAdds, ClumpStays, IsIn
<1> QED BY <1>1, <1>2 DEF IsDone

LEMMA StepKeepsExact ==
    ASSUME Inv, ExactInv, ClumpStays, OnlyAdds, GoesOn, SpanInv'
    PROVE  ExactInv'
<1>0. TypeOK /\ FillInv /\ OnlyTheClump
    BY DEF Inv, ExactInv, FillInv, ClumpStays
<1>1. /\ UNCHANGED <<input, clump_id, cell_idxs>> /\ pc' \notin {"cell", "done"}
      /\ AllClumps' = AllClumps /\ Cells' = Cells /\ TheClump' = TheClump
      /\ \A c, id : ExactId(c, id)' = ExactId(c, id)
      /\ \A k : Rank(k)' = Rank(k)
    BY SameClump DEF ClumpStays
<1>2. OnlyTheClump'
    <2>1. \A c \in TheClump : c \in Cells /\ clump_elements'[c] \in {NoData, clump_id}
        BY <1>0, FillFacts DEF OnlyAdds, OnlyTheClump
    <2>2. \A c \in Cells \ TheClump : clump_elements'[c] = ExactId(c, clump_id)
        BY <1>0 DEF OnlyAdds, OnlyTheClump
    <2> QED BY <1>0, <1>1, <2>1, <2>2 DEF OnlyTheClump
<1>3. /\ \A c \in Cells : IsIn(c) => IsIn(c)'
      /\ \A c : IsDone(c) => IsDone(c)'
    BY <1>0, DoneStays
<1>4. TheClump \subseteq Cells
    BY <1>0, FillFacts
<1>5. RunsAreWhole'
    <2> SUFFICES ASSUME NEW cell \in Cells, NEW next \in Cells,
                        IsIn(cell)', next[1] = cell[1], next[2] - cell[2] \in {-1, 1}
                 PROVE  IsDone(next)' \/ ToBeScanned(cell, next)'
        BY <1>1 DEF RunsAreWhole
    <2>1. CASE IsIn(cell)
        <3>1. IsDone(next) \/ ToBeScanned(cell, next)
            BY <1>0, <2>1 DEF FillInv, RunsAreWhole
        <3> QED BY <1>3, <3>1 DEF GoesOn
    <2>2. CASE ~IsIn(cell)
        BY <2>2 DEF GoesOn
    <2> QED BY <2>1, <2>2
<1>6. \A next \in TheClump : IsTakenCareOf(next) => IsTakenCareOf(next)'
    BY <1>3 DEF GoesOn, IsTakenCareOf
<1>7. NothingIsForgotten'
    <2>1. IsTakenCareOf(cell_idxs)'
        <3>1. \A next \in TheClump : next = cell_idxs => IsTakenCareOf(next)
            BY <1>0 DEF FillInv, NothingIsForgotten
        <3>2. PICK next \in TheClump : next = cell_idxs
            BY <1>0 DEF OnlyTheClump
        <3>3. IsTakenCareOf(next)'
            BY <1>6, <3>1, <3>2
        <3> QED BY <1>1, <3>2, <3>3 DEF IsTakenCareOf, IsDone, IsRequested, IsOnStack, IsIn, IsAhead
    <2>2. ASSUME NEW cell \in Cells, NEW next \in TheClump,
                 IsIn(cell)', next[1] # cell[1], Touch(input.diagonal, cell, next)
          PROVE  IsTakenCareOf(next)' \/ ToBePushed(cell, next[1])'
        <3>1. CASE IsIn(cell)
            <4>1. IsTakenCareOf(next) \/ ToBePushed(cell, next[1])
                BY <1>0, <2>2, <3>1 DEF FillInv, NothingIsForgotten
            <4> QED BY <1>6, <2>2, <3>1, <4>1 DEF GoesOn
        <3>2. CASE ~IsIn(cell)
            BY <2>2, <3>2 DEF GoesOn
        <3> QED BY <3>1, <3>2
    <2> QED BY <1>1, <2>1, <2>2 DEF NothingIsForgotten
<1>8. ClumpsAreCounted'
    BY <1>1 DEF ExactInv, ClumpsAreCounted
<1> QED BY <1>1, <1>2, <1>5, <1>7, <1>8 DEF ExactInv, FillInv, ClumpsAreExact

(* What a step of a scan may use.                                          *)
LEMMA ScanFacts ==
    ASSUME Inv, ExactInv, pc \notin {"cell", "done"}
    PROVE  /\ TypeOK /\ FillInv /\ OnlyTheClump /\ SpanInv
           /\ Reach \in {0, 1} /\ (Reach = 1 <=> input.diagonal)
           /\ span.row \in 0 .. input.nr_rows - 1
           /\ span.west \in Nat /\ span.col \in Nat /\ span.direction \in {-1, 1}
           /\ span.east \in 0 .. input.nr_cols - 1
           /\ input.nr_rows \in Nat \ {0} /\ input.nr_cols \in Nat \ {0}
           /\ requests \in Seq(Requests)
           /\ \A c : c \in Cells <=> /\ c = <<c[1], c[2]>>
                                     /\ c[1] \in 0 .. input.nr_rows - 1
                                     /\ c[2] \in 0 .. input.nr_cols - 1
           /\ input.diagonal \in BOOLEAN
<1>1. TypeOK /\ FillInv /\ OnlyTheClump /\ SpanInv
    BY DEF Inv, ExactInv, FillInv
<1>2. input.diagonal \in BOOLEAN
    BY <1>1, FloodFillAssumption DEF TypeOK
<1>3. Reach \in {0, 1} /\ (Reach = 1 <=> input.diagonal)
    BY <1>2 DEF Reach
<1>4. /\ span.row \in 0 .. input.nr_rows - 1
      /\ span.west \in Nat /\ span.col \in Nat /\ span.direction \in {-1, 1}
      /\ span.east \in 0 .. input.nr_cols - 1
      /\ input.nr_rows \in Nat \ {0} /\ input.nr_cols \in Nat \ {0}
      /\ requests \in Seq(Requests)
    BY <1>1, SpanFacts, ShapeFacts DEF Directions
<1>5. ASSUME NEW c
      PROVE  c \in Cells <=> /\ c = <<c[1], c[2]>>
                             /\ c[1] \in 0 .. input.nr_rows - 1
                             /\ c[2] \in 0 .. input.nr_cols - 1
    BY DEF Cells, Array
<1> QED BY <1>1, <1>2, <1>3, <1>4, <1>5

(* A request that is pushed comes on top, if there is a row to scan.       *)
LEMMA PushFacts ==
    ASSUME TypeOK, NEW stack \in Seq(Requests),
           NEW row, NEW west, NEW east, NEW direction,
           Push(stack, row, west, east, direction) \in Seq(Requests)
    PROVE  /\ \A c : IsOnStack(stack, c) => IsOnStack(Push(stack, row, west, east, direction), c)
           /\ west <= east /\ RowAvailable(row, direction) =>
                \A c : c[1] = row + direction /\ c[2] \in west - Reach .. east + Reach
                    => IsOnStack(Push(stack, row, west, east, direction), c)
<1> DEFINE request == SpanRequest(row + direction, west, east, direction)
           new == Push(stack, row, west, east, direction)
<1>1. CASE ~(west <= east /\ RowAvailable(row, direction))
    BY <1>1 DEF Push
<1>2. CASE west <= east /\ RowAvailable(row, direction)
    <2>1. new = <<request>> \o stack
        BY <1>2 DEF Push
    <2>2. request.row = row + direction /\ request.west = west /\ request.east = east
        BY DEF SpanRequest
    <2> HIDE DEF request, new
    <2>3. Len(stack) \in Nat /\ DOMAIN stack = 1 .. Len(stack)
        BY LenProperties
    <2>4. /\ 1 \in DOMAIN new /\ new[1] = request
          /\ \A k \in DOMAIN stack : k + 1 \in DOMAIN new /\ new[k + 1] = stack[k]
        BY <2>1, <2>3
    <2>5. \A c : IsOnStack(stack, c) => IsOnStack(new, c)
        BY <2>4 DEF IsOnStack
    <2>6. \A c : c[1] = row + direction /\ c[2] \in west - Reach .. east + Reach => IsOnStack(new, c)
        BY <2>2, <2>4 DEF IsOnStack
    <2> QED BY <2>5, <2>6 DEF new
<1> QED BY <1>1, <1>2

(* Nothing of the clump is in the row upwards of its first cell, next to   *)
(* it.                                                                     *)
LEMMA NothingUpwards ==
    ASSUME TypeOK, OnlyTheClump, NEW c \in TheClump, c[1] = cell_idxs[1] - 1
    PROVE  FALSE
<1>1. Before(c, cell_idxs)
    BY FillFacts, CellOrder DEF Before
<1> QED BY <1>1, FillFacts

LEMMA PopKeepsExact ==
    ASSUME Inv, ExactInv, PopRequest
    PROVE  ExactInv'
<1>0. pc = "request"
    BY DEF PopRequest
<1> DEFINE request == Head(requests)
<1>1. /\ requests \in Seq(Requests) /\ requests # <<>> /\ request \in Requests
      /\ IsStart(request) \/ SpanIsInClump(request)
    BY DEF Inv, TypeOK, RequestsValid, PopRequest
<1>2. /\ span' = [row |-> request.row, west |-> request.west, east |-> request.east,
                  direction |-> request.direction, col |-> request.west]
      /\ requests' = Tail(requests)
      /\ pc' = IF WestIsNew(request) THEN "west" ELSE "span"
      /\ UNCHANGED <<input, clump_elements, clump_id, cell_idxs>>
    BY DEF PopRequest
<1>3. PICK row, west, east, direction :
        /\ row = request.row /\ west = request.west /\ east = request.east
        /\ direction = request.direction
        /\ row \in 0 .. input.nr_rows - 1 /\ west \in 0 .. input.nr_cols - 1
        /\ east \in 0 .. input.nr_cols - 1 /\ direction \in {-1, 1}
    BY <1>1 DEF Requests, Directions
<1>4. /\ span'.row = row /\ span'.west = west /\ span'.east = east
      /\ span'.direction = direction /\ span'.col = west
    BY <1>2, <1>3
<1>5. /\ TypeOK /\ FillInv /\ OnlyTheClump
      /\ Reach \in {0, 1} /\ (Reach = 1 <=> input.diagonal)
      /\ input.nr_rows \in Nat \ {0} /\ input.nr_cols \in Nat \ {0}
      /\ \A c : c \in Cells <=> /\ c = <<c[1], c[2]>>
                                /\ c[1] \in 0 .. input.nr_rows - 1
                                /\ c[2] \in 0 .. input.nr_cols - 1
    BY <1>0, ScanFacts
<1>6. /\ AllClumps' = AllClumps /\ Cells' = Cells /\ TheClump' = TheClump /\ Reach' = Reach
      /\ \A r, k : CellIsConnected(r, k)' = CellIsConnected(r, k)
    BY <1>2, SameClump
<1>7. ClumpStays /\ OnlyAdds
    BY <1>0, <1>2 DEF ClumpStays, OnlyAdds
<1>8. /\ \A c \in Cells : IsIn(c) => IsIn(c)'
      /\ \A c : IsDone(c) => IsDone(c)'
    BY <1>5, <1>7, DoneStays
<1>9. ASSUME west > 0, ~WestIsNew(request),
             input.diagonal \/ CellIsConnected(row, west)
      PROVE  IsDone(<<row, west - 1>>)
    <2> DEFINE c == <<row, west - 1>>
    <2>1. c \in Cells /\ c[1] = row /\ c[2] = west - 1
        BY <1>3, <1>5, <1>9
    <2>2. AddedAlready(row, west - 1) \/ ~CellIsConnected(row, west - 1)
        BY <1>3, <1>9 DEF WestIsNew
    <2>3. AddedAlready(c[1], c[2]) \/ ~IsConnected(c)
        BY <2>2 DEF IsConnected
    <2> HIDE DEF c
    <2>4. IsDone(c)
        BY <1>5, <2>1, <2>3, FillFacts
    <2> QED BY <2>4 DEF c
<1>10. GoesOn
    <2>1. ASSUME NEW next \in TheClump, IsRequested(next) PROVE IsTakenCareOf(next)'
        <3>1. PICK k \in DOMAIN requests :
                /\ next[1] = requests[k].row
                /\ next[2] \in requests[k].west - Reach .. requests[k].east + Reach
            BY <2>1 DEF IsRequested, IsOnStack
        <3>2. next \in Cells
            BY <1>5, FillFacts
        <3>3. CASE k = 1
            <4>1. next[1] = row /\ next[2] \in west - Reach .. east + Reach
                BY <1>1, <1>3, <3>1, <3>3
            <4>2. CASE WestIsNew(request)
                <5>1. IsAhead(next)'
                    BY <1>2, <1>4, <1>6, <4>1, <4>2 DEF IsAhead
                <5> QED BY <5>1 DEF IsTakenCareOf
            <4>3. CASE ~WestIsNew(request) /\ next[2] >= west
                <5>1. next[2] \in west .. east + Reach
                    BY <1>3, <1>5, <4>1, <4>3
                <5>2. IsAhead(next)'
                    BY <1>2, <1>4, <1>6, <4>1, <4>3, <5>1 DEF IsAhead
                <5> QED BY <5>2 DEF IsTakenCareOf
            <4>4. CASE ~WestIsNew(request) /\ ~(next[2] >= west)
                <5>1. next[2] = west - 1 /\ input.diagonal /\ west > 0
                    BY <1>3, <1>5, <3>2, <4>1, <4>4
                <5>2. next = <<row, west - 1>>
                    BY <1>5, <3>2, <4>1, <5>1
                <5>3. IsDone(next)
                    BY <1>9, <4>4, <5>1, <5>2
                <5> QED BY <1>8, <5>3 DEF IsTakenCareOf
            <4> QED BY <4>2, <4>3, <4>4
        <3>4. CASE k # 1
            <4>1. k - 1 \in DOMAIN requests' /\ requests'[k - 1] = requests[k]
                BY <1>1, <1>2, <3>4
            <4>2. IsRequested(next)'
                BY <1>6, <3>1, <4>1 DEF IsRequested, IsOnStack
            <4> QED BY <4>2 DEF IsTakenCareOf
        <3> QED BY <3>3, <3>4
    <2>2. \A c \in Cells : IsIn(c)' = IsIn(c)
        BY <1>2 DEF IsIn
    <2>3. /\ \A c : ~IsAhead(c)
          /\ \A c, n : ~ToBeScanned(c, n) /\ ~ToBePushed(c, n)
        BY <1>0 DEF IsAhead, ToBeScanned, ToBePushed
    <2> QED BY <2>1, <2>2, <2>3 DEF GoesOn
<1>11. SpanHasParent'
    <2>1. CASE SpanIsInClump(request)
        <3>1. west <= east
            BY <1>3, <2>1 DEF SpanIsInClump
        <3>2. \A col \in west .. east : <<row - direction, col>> \in Cells /\ IsIn(<<row - direction, col>>)
            BY <1>3, <2>1 DEF SpanIsInClump, IsIn
        <3>3. \A col \in 0 .. input.nr_cols - 1 : col <= east /\ (col >= west \/ col = east)
                => col \in west .. east
            BY <1>3, <3>1
        <3>4. ParentIsIn'
            BY <1>2, <1>4, <1>6, <1>8, <3>2, <3>3 DEF ParentIsIn
        <3> QED BY <3>4 DEF SpanHasParent
    <2>2. CASE IsStart(request)
        <3>1. /\ west = cell_idxs[2] /\ east = cell_idxs[2]
              /\ row = IF direction = 1 THEN cell_idxs[1] ELSE cell_idxs[1] - 1
            BY <1>3, <2>2 DEF IsStart
        <3>2. CASE direction = 1
            BY <1>2, <1>3, <1>4, <3>1, <3>2 DEF SpanHasParent, IsDownwards
        <3>3. CASE direction = -1
            <4>1. row = cell_idxs[1] - 1 /\ cell_idxs \in Cells
                BY <1>5, <3>1, <3>3, FillFacts
            <4>2. ASSUME NEW col \in 0 .. input.nr_cols - 1, CellIsConnected(row, col),
                         input.diagonal \/ col = west, col - west \in {-1, 0}
                  PROVE  FALSE
                <5> DEFINE c == <<row, col>>
                <5>1. c \in Cells /\ IsConnected(c) /\ c[1] = row /\ c[2] = col
                    BY <1>3, <1>5, <4>2 DEF IsConnected
                <5> HIDE DEF c
                <5>2. Touch(input.diagonal, cell_idxs, c)
                    BY <1>3, <1>5, <3>1, <4>1, <4>2, <5>1 DEF Touch
                <5>3. c \in TheClump
                    BY <1>5, <5>1, <5>2, FillFacts
                <5> QED BY <1>5, <4>1, <5>1, <5>3, NothingUpwards
            <4>3. ~WestIsNew(request)
                <5>1. ASSUME WestIsNew(request) PROVE FALSE
                    <6>1. west > 0 /\ CellIsConnected(row, IF input.diagonal THEN west - 1 ELSE west)
                        BY <1>3, <5>1 DEF WestIsNew
                    <6>2. CASE input.diagonal
                        <7>1. west - 1 \in 0 .. input.nr_cols - 1 /\ (west - 1) - west \in {-1, 0}
                            <8> HIDE DEF request
                            <8> QED BY <1>3, <1>5, <6>1
                        <7> QED BY <4>2, <6>1, <6>2, <7>1
                    <6>3. CASE ~input.diagonal
                        <7>1. west - west \in {-1, 0}
                            BY <1>3
                        <7> QED BY <1>3, <4>2, <6>1, <6>3, <7>1
                    <6> QED BY <6>2, <6>3
                <5> QED BY <5>1
            <4> QED BY <1>2, <1>3, <1>4, <3>1, <3>3, <4>3 DEF SpanHasParent, IsUpwards
        <3> QED BY <1>3, <3>2, <3>3
    <2> QED BY <1>1, <2>1, <2>2
<1>12. SpanInv'
    <2>1. pc' = "west" /\ ~input.diagonal => CellIsConnected(row, west)
        BY <1>2, <1>3 DEF WestIsNew
    <2>2. pc' = "span" /\ west > 0 /\ CellIsConnected(row, west) => IsDone(<<row, west - 1>>)'
        BY <1>2, <1>8, <1>9
    <2>3. pc' \in {"west", "span"}
        BY <1>2
    <2> HIDE DEF request
    <2> QED BY <1>2, <1>4, <1>6, <1>11, <2>1, <2>2, <2>3 DEF SpanInv
<1> QED BY <1>7, <1>10, <1>12, StepKeepsExact

(* The cells next to those a span is next to are in the clump if any are.  *)
LEMMA ParentsAreDone ==
    ASSUME Inv, ExactInv, pc \notin {"cell", "done"}, ParentIsIn,
           NEW col \in 0 .. input.nr_cols - 1, col <= span.east, col >= span.west,
           NEW next \in TheClump, next[1] = span.row - span.direction, next[2] - col \in {-1, 0, 1}
    PROVE  IsDone(next)
<1>1. /\ TypeOK /\ OnlyTheClump /\ RunsAreWhole
      /\ span.row \in Nat /\ span.direction \in {-1, 1}
    BY ScanFacts DEF FillInv
<1> DEFINE parent == <<span.row - span.direction, col>>
<1>2. /\ parent \in Cells /\ IsIn(parent)
      /\ parent[1] = span.row - span.direction /\ parent[2] = col
    BY DEF ParentIsIn
<1>3. next \in Cells /\ next = <<next[1], next[2]>> /\ next[2] \in Int
    BY <1>1, FillFacts, CellOrder
<1>4. ~ToBeScanned(parent, next)
    BY <1>1, <1>2 DEF ToBeScanned
<1> HIDE DEF parent
<1>5. CASE next[2] = col
    <2>1. next = parent
        BY <1>3, <1>5 DEF parent
    <2> QED BY <1>2, <2>1 DEF IsDone
<1>6. CASE next[2] # col
    <2>1. next[2] - parent[2] \in {-1, 1} /\ next[1] = parent[1]
        BY <1>2, <1>3, <1>6
    <2> QED BY <1>1, <1>2, <1>3, <1>4, <2>1 DEF RunsAreWhole
<1> QED BY <1>5, <1>6

(* The rows next to that of the span.                                      *)
LEMMA RowsNextTo ==
    ASSUME TypeOK, NEW diagonal, NEW c \in Cells, NEW next \in Cells,
           next[1] # c[1], Touch(diagonal, c, next),
           NEW direction \in {-1, 1}
    PROVE  /\ next[1] = c[1] + direction \/ next[1] = c[1] - direction
           /\ next[1] = c[1] + direction => RowAvailable(c[1], direction)
           /\ next[1] = c[1] - direction => RowAvailable(c[1], -direction)
           /\ next[2] - c[2] \in {-1, 0, 1}
           /\ ~diagonal => next[2] = c[2]
<1>1. /\ c[1] \in 0 .. input.nr_rows - 1 /\ next[1] \in 0 .. input.nr_rows - 1
      /\ c[2] \in Int /\ next[2] \in Int
      /\ input.nr_rows \in Nat \ {0}
    BY ShapeFacts, CellOrder DEF Cells, Array
<1>2. c[1] - next[1] \in -1 .. 1 /\ c[2] - next[2] \in -1 .. 1 /\ (diagonal \/ c[2] = next[2])
    BY DEF Touch
<1> QED BY <1>1, <1>2 DEF RowAvailable

(* A cell of the row that is scanned, to the west of one that is next to   *)
(* the clump.                                                              *)
LEMMA ScanWestKeepsExact ==
    ASSUME Inv, ExactInv, ScanWest
    PROVE  ExactInv'
<1>0. pc = "west" /\ pc' = "west"
    BY DEF ScanWest
<1>1. /\ TypeOK /\ FillInv /\ OnlyTheClump /\ SpanInv
      /\ input.diagonal \in BOOLEAN
      /\ span.row \in 0 .. input.nr_rows - 1
      /\ span.west \in Nat /\ span.col \in Nat /\ span.direction \in {-1, 1}
      /\ span.east \in 0 .. input.nr_cols - 1
      /\ input.nr_rows \in Nat \ {0} /\ input.nr_cols \in Nat \ {0}
      /\ \A c : c \in Cells <=> /\ c = <<c[1], c[2]>>
                                /\ c[1] \in 0 .. input.nr_rows - 1
                                /\ c[2] \in 0 .. input.nr_cols - 1
    BY <1>0, ScanFacts
<1>2. /\ clump_elements' = [clump_elements EXCEPT ![<<span.row, span.col - 1>>] = clump_id]
      /\ UNCHANGED <<input, clump_id, cell_idxs, requests>>
      /\ span.col > 0 /\ CellIsConnected(span.row, span.col - 1)
      /\ span.col <= span.west /\ span.west <= span.east
      /\ \A col \in span.col .. span.west - 1 :
            <<span.row, col>> \in Cells /\ clump_elements[<<span.row, col>>] = clump_id
    BY <1>0 DEF ScanWest, ConnectedToWest, AddToClump, Inv, ScanInv, Scanned
<1>3. /\ span'.row = span.row /\ span'.west = span.west /\ span'.east = span.east
      /\ span'.direction = span.direction /\ span'.col = span.col - 1
    BY SpanFacts DEF ScanWest, Spans
<1>4. /\ AllClumps' = AllClumps /\ Cells' = Cells /\ TheClump' = TheClump /\ Reach' = Reach
      /\ \A r, k : CellIsConnected(r, k)' = CellIsConnected(r, k)
    BY <1>2, SameClump
<1>a. PICK new : new = <<span.row, span.col - 1>>
    OBVIOUS
<1>5. /\ new \in Cells /\ new[1] = span.row /\ new[2] = span.col - 1 /\ IsConnected(new)
      /\ new[2] \in Int
    BY <1>1, <1>2, <1>a DEF IsConnected
<1>6. clump_elements \in [Cells -> 0 .. clump_id \cup {NoData}] /\ clump_id \in Nat
    BY <1>1 DEF TypeOK
<1>7. \A c \in Cells : clump_elements'[c] = IF c = new THEN clump_id ELSE clump_elements[c]
    BY <1>2, <1>5, <1>6, <1>a
<1>8. new \in TheClump
    <2>1. ASSUME NEW c \in TheClump, Touch(input.diagonal, c, new) PROVE new \in TheClump
        BY <1>1, <1>5, <2>1, FillFacts
    <2>2. CASE span.col < span.west
        <3> DEFINE c == <<span.row, span.col>>
        <3>1. c \in Cells /\ IsIn(c) /\ c[1] = span.row /\ c[2] = span.col
            BY <1>1, <1>2, <2>2 DEF IsIn
        <3> HIDE DEF c
        <3>2. c \in TheClump /\ Touch(input.diagonal, c, new)
            BY <1>1, <1>5, <3>1, FillFacts DEF Touch
        <3> QED BY <2>1, <3>2
    <2>3. CASE span.col = span.west /\ ParentIsIn
        <3> DEFINE c == <<span.row - span.direction, span.west>>
                   d == <<span.row, span.west>>
        <3>1. span.west \in 0 .. input.nr_cols - 1
            BY <1>1, <1>2
        <3>2. c \in Cells /\ IsIn(c) /\ c[1] = span.row - span.direction /\ c[2] = span.west
            BY <1>2, <2>3, <3>1 DEF ParentIsIn
        <3>3. d \in Cells /\ d[1] = span.row /\ d[2] = span.west
              /\ (CellIsConnected(span.row, span.west) <=> IsConnected(d))
            BY <1>1, <3>1 DEF IsConnected
        <3> HIDE DEF c, d
        <3>4. c \in TheClump
            BY <1>1, <3>2, FillFacts
        <3>5. CASE input.diagonal
            <4>1. Touch(input.diagonal, c, new)
                BY <1>1, <1>5, <2>3, <3>2, <3>5 DEF Touch
            <4> QED BY <2>1, <3>4, <4>1
        <3>6. CASE ~input.diagonal
            <4>1. IsConnected(d)
                BY <1>0, <1>1, <3>3, <3>6 DEF SpanInv
            <4>2. Touch(input.diagonal, c, d) /\ Touch(input.diagonal, d, new)
                BY <1>1, <1>5, <2>3, <3>2, <3>3 DEF Touch
            <4>3. d \in TheClump
                BY <1>1, <3>3, <3>4, <4>1, <4>2, FillFacts
            <4> QED BY <2>1, <4>2, <4>3
        <3> QED BY <3>5, <3>6
    <2>4. CASE span.col = span.west /\ IsDownwards /\ span.east = cell_idxs[2] /\ span.west >= span.east
        <3>1. cell_idxs \in TheClump /\ cell_idxs[1] = span.row /\ cell_idxs[2] = span.west
            BY <1>1, <1>2, <2>4, FillFacts DEF IsDownwards
        <3>2. Touch(input.diagonal, cell_idxs, new)
            BY <1>1, <1>5, <2>4, <3>1 DEF Touch
        <3> QED BY <2>1, <3>1, <3>2
    <2> QED BY <1>0, <1>1, <1>2, <2>2, <2>3, <2>4 DEF SpanInv, SpanHasParent
<1>9. ClumpStays /\ OnlyAdds
    BY <1>0, <1>2, <1>7, <1>8 DEF ClumpStays, OnlyAdds
<1>10. /\ \A c \in Cells : IsIn(c) => IsIn(c)'
       /\ \A c : IsDone(c) => IsDone(c)'
       /\ \A c \in Cells : IsIn(c)' /\ ~IsIn(c) => c = new
       /\ IsIn(new)'
    BY <1>1, <1>2, <1>5, <1>7, <1>9, DoneStays DEF IsIn
<1>11. GoesOn
    <2>1. ASSUME NEW cell \in Cells, NEW next \in Cells,
                 next[1] = cell[1], ToBeScanned(cell, next)
          PROVE  IsDone(next)' \/ ToBeScanned(cell, next)'
        <3>1. CASE next[2] = span.col - 1
            <4>1. next = new
                BY <1>1, <1>5, <2>1, <3>1 DEF ToBeScanned
            <4> QED BY <1>10, <4>1 DEF IsDone
        <3>2. CASE next[2] # span.col - 1
            BY <1>0, <1>3, <2>1, <3>2 DEF ToBeScanned
        <3> QED BY <3>1, <3>2
    <2>2. ASSUME NEW next \in TheClump, IsRequested(next) \/ IsAhead(next)
          PROVE  IsTakenCareOf(next)'
        BY <1>0, <1>2, <1>3, <1>4, <2>2 DEF IsTakenCareOf, IsRequested, IsOnStack, IsAhead
    <2>3. ASSUME NEW cell \in Cells, NEW row, ToBePushed(cell, row)
          PROVE  ToBePushed(cell, row)'
        BY <1>0, <1>1, <1>3, <2>3 DEF ToBePushed
    <2>4. ASSUME NEW next \in Cells, next[1] = new[1], next[2] - new[2] \in {-1, 1}
          PROVE  IsDone(next)' \/ ToBeScanned(new, next)'
        <3>0. next[2] \in Int
            BY <1>1
        <3>1. CASE next[2] = new[2] - 1
            BY <1>0, <1>3, <1>5, <3>1 DEF ToBeScanned
        <3>2. CASE next[2] = span.col /\ span.col < span.west
            <4>1. next = <<span.row, span.col>>
                BY <1>1, <1>5, <2>4, <3>2
            <4>2. IsIn(next)
                BY <1>1, <1>2, <3>2, <4>1 DEF IsIn
            <4> QED BY <1>10, <4>2 DEF IsDone
        <3>3. CASE next[2] = span.col /\ span.col = span.west
            BY <1>0, <1>3, <1>5, <3>3 DEF ToBeScanned
        <3> QED BY <1>1, <1>2, <1>5, <2>4, <3>0, <3>1, <3>2, <3>3
    <2>5. ASSUME NEW row PROVE ToBePushed(new, row)'
        BY <1>0, <1>1, <1>2, <1>3, <1>5 DEF ToBePushed
    <2> QED BY <1>10, <2>1, <2>2, <2>3, <2>4, <2>5 DEF GoesOn
<1>12. SpanInv'
    <2>1. ParentIsIn => ParentIsIn'
        BY <1>2, <1>3, <1>4, <1>10 DEF ParentIsIn
    <2>2. SpanHasParent'
        BY <1>0, <1>1, <1>2, <1>3, <2>1 DEF SpanInv, SpanHasParent, IsDownwards
    <2> QED BY <1>0, <1>1, <1>2, <1>3, <1>4, <2>2 DEF SpanInv
<1> QED BY <1>9, <1>11, <1>12, StepKeepsExact

(* A step that adds no cell.                                               *)
LEMMA NoneIsAdded ==
    ASSUME Inv, ExactInv, pc \notin {"cell", "done"}, pc' \notin {"cell", "done"},
           UNCHANGED <<input, clump_elements, clump_id, cell_idxs>>
    PROVE  /\ ClumpStays /\ OnlyAdds
           /\ AllClumps' = AllClumps /\ Cells' = Cells /\ TheClump' = TheClump /\ Reach' = Reach
           /\ \A r, k : CellIsConnected(r, k)' = CellIsConnected(r, k)
           /\ \A c : IsIn(c)' = IsIn(c) /\ IsDone(c)' = IsDone(c)
BY SameClump DEF ClumpStays, OnlyAdds, IsIn, IsDone

LEMMA TurnWestKeepsExact ==
    ASSUME Inv, ExactInv, TurnWest
    PROVE  ExactInv'
<1>0. pc = "west" /\ pc' = "span"
    BY DEF TurnWest
<1>1. /\ TypeOK /\ FillInv /\ OnlyTheClump /\ SpanInv
      /\ Reach \in {0, 1} /\ (Reach = 1 <=> input.diagonal)
      /\ span.row \in 0 .. input.nr_rows - 1
      /\ span.west \in Nat /\ span.col \in Nat /\ span.direction \in {-1, 1}
      /\ span.east \in 0 .. input.nr_cols - 1
      /\ input.nr_rows \in Nat \ {0} /\ input.nr_cols \in Nat \ {0}
      /\ requests \in Seq(Requests)
      /\ \A c : c \in Cells <=> /\ c = <<c[1], c[2]>>
                                /\ c[1] \in 0 .. input.nr_rows - 1
                                /\ c[2] \in 0 .. input.nr_cols - 1
    BY <1>0, ScanFacts
<1>2. /\ UNCHANGED <<input, clump_elements, clump_id, cell_idxs, span>>
      /\ requests' = Push(requests, span.row, span.col, LastToTurn, -span.direction)
      /\ span.col > 0 => ~CellIsConnected(span.row, span.col - 1)
      /\ span.col <= span.west /\ span.west <= span.east
      /\ \A col \in span.col .. span.west - 1 :
            <<span.row, col>> \in Cells /\ clump_elements[<<span.row, col>>] = clump_id
    BY <1>0 DEF TurnWest, ConnectedToWest, Inv, ScanInv, Scanned
<1>3. /\ ClumpStays /\ OnlyAdds
      /\ AllClumps' = AllClumps /\ Cells' = Cells /\ TheClump' = TheClump /\ Reach' = Reach
      /\ \A r, k : CellIsConnected(r, k)' = CellIsConnected(r, k)
      /\ \A c : IsIn(c)' = IsIn(c) /\ IsDone(c)' = IsDone(c)
    BY <1>0, <1>2, NoneIsAdded
<1>4. requests' \in Seq(Requests)
    <2>1. TypeOK'
        BY TurnWestKeepsInv DEF Inv
    <2>2. requests' \in Seq(Requests')
        BY <2>1 DEF TypeOK
    <2>3. Requests' = Requests
        BY <1>2 DEF Requests
    <2> QED BY <2>2, <2>3
<1>5. /\ \A c : IsRequested(c) => IsRequested(c)'
      /\ span.col <= LastToTurn /\ RowAvailable(span.row, -span.direction) =>
            \A c : c[1] = span.row - span.direction
                        /\ c[2] \in span.col - Reach .. LastToTurn + Reach
                    => IsRequested(c)'
    <2>1. span.row + (-span.direction) = span.row - span.direction
        BY <1>1
    <2>2. \A c : IsRequested(c)' <=> IsOnStack(requests', c)
        BY <1>3 DEF IsRequested, IsOnStack
    <2>3. Push(requests, span.row, span.col, LastToTurn, -span.direction) \in Seq(Requests)
        BY <1>2, <1>4, <1>1 DEF Requests
    <2>4. /\ \A c : IsOnStack(requests, c) => IsOnStack(requests', c)
          /\ span.col <= LastToTurn /\ RowAvailable(span.row, -span.direction) =>
                \A c : c[1] = span.row + (-span.direction)
                            /\ c[2] \in span.col - Reach .. LastToTurn + Reach
                        => IsOnStack(requests', c)
        BY <1>1, <1>2, <2>3, PushFacts
    <2> QED BY <2>1, <2>2, <2>4 DEF IsRequested
<1>6. ASSUME NEW c \in Cells, c[1] = span.row, c[2] = span.west - 1
      PROVE  IsDone(c)
    <2>0. c = <<span.row, span.west - 1>> /\ span.west - 1 \in Nat
        BY <1>1, <1>6
    <2>1. CASE span.col < span.west
        <3>1. span.west - 1 \in span.col .. span.west - 1
            BY <1>1, <2>1
        <3> QED BY <1>2, <2>0, <3>1 DEF IsDone, IsIn
    <2>2. CASE ~(span.col < span.west)
        <3>1. span.col = span.west /\ span.col > 0
            BY <1>1, <1>2, <2>0, <2>2
        <3>2. ~IsConnected(c)
            BY <1>2, <1>6, <3>1 DEF IsConnected
        <3> QED BY <1>1, <3>2, FillFacts
    <2> QED BY <2>1, <2>2
<1>7. GoesOn
    <2>1. ASSUME NEW cell \in Cells, NEW next \in Cells,
                 next[1] = cell[1], ToBeScanned(cell, next)
          PROVE  IsDone(next)' \/ ToBeScanned(cell, next)'
        <3>1. CASE cell[2] = span.col /\ next[2] = span.col - 1
            <4>1. span.col > 0 /\ next[1] = span.row
                BY <1>1, <2>1, <3>1 DEF ToBeScanned
            <4>2. ~IsConnected(next)
                BY <1>2, <3>1, <4>1 DEF IsConnected
            <4> QED BY <1>1, <1>3, <4>2, FillFacts
        <3>2. CASE ~(cell[2] = span.col /\ next[2] = span.col - 1)
            BY <1>0, <1>2, <2>1, <3>2 DEF ToBeScanned
        <3> QED BY <3>1, <3>2
    <2>2. ASSUME NEW next \in TheClump, IsAhead(next) PROVE IsTakenCareOf(next)'
        <3>1. /\ next \in Cells /\ next[1] = span.row /\ next[2] \in Int
              /\ next[2] \in span.west - Reach .. span.east + Reach
            BY <1>0, <1>1, <2>2, FillFacts DEF IsAhead
        <3>2. CASE next[2] >= span.west
            <4>1. IsAhead(next)'
                BY <1>0, <1>1, <1>2, <1>3, <3>1, <3>2 DEF IsAhead
            <4> QED BY <4>1 DEF IsTakenCareOf
        <3>3. CASE ~(next[2] >= span.west)
            <4>0. Reach \in {0, 1} /\ span.west \in Nat
                BY <1>1
            <4>1. next[2] = span.west - 1
                BY <3>1, <3>3, <4>0
            <4>2. IsDone(next)
                BY <1>6, <3>1, <4>1
            <4> QED BY <1>3, <4>2 DEF IsTakenCareOf
        <3> QED BY <3>2, <3>3
    <2>3. ASSUME NEW cell \in Cells, NEW next \in TheClump,
                 IsIn(cell), next[1] # cell[1], Touch(input.diagonal, cell, next),
                 ToBePushed(cell, next[1])
          PROVE  IsTakenCareOf(next)' \/ ToBePushed(cell, next[1])'
        <3>1. /\ next \in Cells /\ cell[1] = span.row /\ next[2] \in Int
              /\ cell[2] \in span.col .. span.west - 1 /\ cell[2] \in Int
            BY <1>0, <1>1, <2>3, FillFacts DEF ToBePushed
        <3>2. /\ next[1] = span.row + span.direction \/ next[1] = span.row - span.direction
              /\ next[1] = span.row - span.direction => RowAvailable(span.row, -span.direction)
              /\ next[2] - cell[2] \in {-1, 0, 1}
              /\ ~input.diagonal => next[2] = cell[2]
            BY <1>1, <2>3, <3>1, RowsNextTo
        <3>3. CASE next[1] = span.row + span.direction
            BY <1>0, <1>1, <1>2, <2>3, <3>1, <3>3 DEF ToBePushed
        <3>4. CASE next[1] = span.row - span.direction /\ (input.diagonal \/ cell[2] <= span.west - 2)
            <4>0. cell[2] - Reach <= next[2] /\ next[2] <= cell[2] + Reach
                BY <1>1, <3>1, <3>2
            <4>1. cell[2] <= LastToTurn /\ LastToTurn \in Int
                BY <1>1, <3>1, <3>4 DEF LastToTurn
            <4>3. span.col <= LastToTurn /\ next[2] \in span.col - Reach .. LastToTurn + Reach
                BY <1>1, <3>1, <4>0, <4>1
            <4>2. IsRequested(next)'
                BY <1>5, <3>2, <3>4, <4>3
            <4> QED BY <4>2 DEF IsTakenCareOf
        <3>5. CASE next[1] = span.row - span.direction /\ ~(input.diagonal \/ cell[2] <= span.west - 2)
            <4>1. next[2] = span.west - 1
                BY <1>1, <3>1, <3>2, <3>5
            <4>2. CASE ParentIsIn
                <5>1. span.west \in 0 .. input.nr_cols - 1 /\ next[2] - span.west \in {-1, 0, 1}
                    BY <1>1, <1>2, <4>1
                <5>2. pc \notin {"cell", "done"} /\ span.west <= span.east /\ span.west >= span.west
                    BY <1>0, <1>1, <1>2
                <5>3. next[1] = span.row - span.direction
                    BY <3>5
                <5>4. IsDone(next)
                    BY <4>2, <5>1, <5>2, <5>3, ParentsAreDone
                <5> QED BY <1>3, <5>4 DEF IsTakenCareOf
            <4>3. CASE IsDownwards
                <5>1. next[1] = cell_idxs[1] - 1
                    BY <3>5, <4>3 DEF IsDownwards
                <5> QED BY <1>1, <5>1, NothingUpwards
            <4> QED BY <1>0, <1>1, <4>2, <4>3 DEF SpanInv, SpanHasParent
        <3> QED BY <3>2, <3>3, <3>4, <3>5
    <2> QED BY <1>3, <1>5, <2>1, <2>2, <2>3 DEF GoesOn, IsTakenCareOf
<1>8. SpanInv'
    <2>1. ParentIsIn => ParentIsIn'
        BY <1>2, <1>3 DEF ParentIsIn
    <2>2. SpanHasParent'
        BY <1>0, <1>1, <1>2, <2>1 DEF SpanInv, SpanHasParent, IsDownwards
    <2>3. ASSUME span.west \in 1 .. input.nr_cols - 1 PROVE IsDone(<<span.row, span.west - 1>>)
        <3> DEFINE c == <<span.row, span.west - 1>>
        <3>1. c \in Cells /\ c[1] = span.row /\ c[2] = span.west - 1
            BY <1>1, <2>3
        <3> HIDE DEF c
        <3>2. IsDone(c)
            BY <1>6, <3>1
        <3> QED BY <3>2 DEF c
    <2> QED BY <1>0, <1>2, <1>3, <2>2, <2>3 DEF SpanInv
<1> QED BY <1>3, <1>7, <1>8, StepKeepsExact

LEMMA ScanSpanKeepsExact ==
    ASSUME Inv, ExactInv, ScanSpan
    PROVE  ExactInv'
<1>1. /\ pc = "span" /\ span.west <= span.east
      /\ pc' = IF AddedAlready(span.row, span.west) THEN "push" ELSE "east"
      /\ UNCHANGED <<input, clump_elements, clump_id, cell_idxs, requests, span>>
    BY DEF ScanSpan
<1>2. /\ TypeOK /\ FillInv /\ OnlyTheClump /\ SpanInv
      /\ span.row \in 0 .. input.nr_rows - 1
      /\ span.west \in Nat /\ span.east \in 0 .. input.nr_cols - 1
      /\ input.nr_rows \in Nat \ {0} /\ input.nr_cols \in Nat \ {0}
      /\ \A c : c \in Cells <=> /\ c = <<c[1], c[2]>>
                                /\ c[1] \in 0 .. input.nr_rows - 1
                                /\ c[2] \in 0 .. input.nr_cols - 1
    BY <1>1, ScanFacts
<1>3. /\ ClumpStays /\ OnlyAdds
      /\ AllClumps' = AllClumps /\ Cells' = Cells /\ TheClump' = TheClump /\ Reach' = Reach
      /\ \A r, k : CellIsConnected(r, k)' = CellIsConnected(r, k)
      /\ \A c : IsIn(c)' = IsIn(c) /\ IsDone(c)' = IsDone(c)
    BY <1>1, NoneIsAdded
<1>4. ASSUME pc' = "push" PROVE IsDone(<<span.row, span.west>>)
    <2> DEFINE c == <<span.row, span.west>>
    <2>1. c \in Cells /\ c[1] = span.row /\ c[2] = span.west
        BY <1>1, <1>2
    <2>2. AddedAlready(c[1], c[2])
        BY <1>1, <1>4
    <2> HIDE DEF c
    <2>3. IsDone(c)
        BY <1>2, <2>1, <2>2, FillFacts
    <2> QED BY <2>3 DEF c
<1>5. GoesOn
    <2>1. ASSUME NEW cell \in Cells, NEW next \in Cells,
                 next[1] = cell[1], ToBeScanned(cell, next)
          PROVE  IsDone(next)' \/ ToBeScanned(cell, next)'
        <3>1. next[1] = span.row /\ cell[1] = span.row /\ next[2] = span.west /\ cell[2] = span.west - 1
            BY <1>1, <2>1 DEF ToBeScanned
        <3>2. CASE pc' = "east"
            BY <1>1, <3>1, <3>2 DEF ToBeScanned
        <3>3. CASE pc' = "push"
            <4>1. next = <<span.row, span.west>>
                BY <1>2, <3>1
            <4> QED BY <1>3, <1>4, <3>3, <4>1
        <3> QED BY <1>1, <3>2, <3>3
    <2>2. \A c : (IsRequested(c) => IsRequested(c)') /\ (IsAhead(c) => IsAhead(c)')
        BY <1>1, <1>3 DEF IsRequested, IsOnStack, IsAhead
    <2>3. \A c, row : ToBePushed(c, row) => ToBePushed(c, row)'
        BY <1>1 DEF ToBePushed
    <2> QED BY <1>3, <2>1, <2>2, <2>3 DEF GoesOn, IsTakenCareOf
<1>6. SpanInv'
    <2>1. ParentIsIn => ParentIsIn'
        BY <1>1, <1>3 DEF ParentIsIn
    <2>2. SpanHasParent'
        BY <1>1, <1>2, <2>1 DEF SpanInv, SpanHasParent, IsDownwards, IsUpwards
    <2> QED BY <1>1, <1>2, <1>3, <1>4, <2>2 DEF SpanInv
<1> QED BY <1>3, <1>5, <1>6, StepKeepsExact

LEMMA EndScanEastKeepsExact ==
    ASSUME Inv, ExactInv, EndScanEast
    PROVE  ExactInv'
<1>1. /\ pc = "east" /\ pc' = "push" /\ ~ConnectedToEast
      /\ UNCHANGED <<input, clump_elements, clump_id, cell_idxs, requests, span>>
    BY DEF EndScanEast
<1>2. /\ TypeOK /\ FillInv /\ OnlyTheClump /\ SpanInv
      /\ span.row \in 0 .. input.nr_rows - 1
      /\ span.west \in Nat
      /\ input.nr_rows \in Nat \ {0} /\ input.nr_cols \in Nat \ {0}
      /\ \A c : c \in Cells <=> /\ c = <<c[1], c[2]>>
                                /\ c[1] \in 0 .. input.nr_rows - 1
                                /\ c[2] \in 0 .. input.nr_cols - 1
    BY <1>1, ScanFacts
<1>3. /\ ClumpStays /\ OnlyAdds
      /\ AllClumps' = AllClumps /\ Cells' = Cells /\ TheClump' = TheClump /\ Reach' = Reach
      /\ \A r, k : CellIsConnected(r, k)' = CellIsConnected(r, k)
      /\ \A c : IsIn(c)' = IsIn(c) /\ IsDone(c)' = IsDone(c)
    BY <1>1, NoneIsAdded
<1>4. ASSUME NEW c \in Cells, c[1] = span.row, c[2] = span.west PROVE IsDone(c)
    <2>1. ~IsConnected(c)
        BY <1>1, <1>2, <1>4 DEF ConnectedToEast, IsConnected
    <2> QED BY <1>2, <2>1, FillFacts
<1>5. GoesOn
    <2>1. ASSUME NEW cell \in Cells, NEW next \in Cells,
                 next[1] = cell[1], ToBeScanned(cell, next)
          PROVE  IsDone(next)'
        <3>1. next[1] = span.row /\ next[2] = span.west
            BY <1>1, <2>1 DEF ToBeScanned
        <3> QED BY <1>3, <1>4, <3>1
    <2>2. \A c : (IsRequested(c) => IsRequested(c)') /\ (IsAhead(c) => IsAhead(c)')
        BY <1>1, <1>3 DEF IsRequested, IsOnStack, IsAhead
    <2>3. \A c, row : ToBePushed(c, row) => ToBePushed(c, row)'
        BY <1>1 DEF ToBePushed
    <2> QED BY <1>3, <2>1, <2>2, <2>3 DEF GoesOn, IsTakenCareOf
<1>6. SpanInv'
    <2>1. ParentIsIn => ParentIsIn'
        BY <1>1, <1>3 DEF ParentIsIn
    <2>2. SpanHasParent'
        BY <1>1, <1>2, <2>1 DEF SpanInv, SpanHasParent, IsDownwards, IsUpwards
    <2>3. ASSUME span.west < input.nr_cols PROVE IsDone(<<span.row, span.west>>)
        <3> DEFINE c == <<span.row, span.west>>
        <3>1. c \in Cells /\ c[1] = span.row /\ c[2] = span.west
            BY <1>2, <2>3
        <3> HIDE DEF c
        <3>2. IsDone(c)
            BY <1>4, <3>1
        <3> QED BY <3>2 DEF c
    <2> QED BY <1>1, <1>3, <2>2, <2>3 DEF SpanInv
<1> QED BY <1>3, <1>5, <1>6, StepKeepsExact

(* A cell to the east of one that is in the clump, or next to one.         *)
LEMMA ScanEastKeepsExact ==
    ASSUME Inv, ExactInv, ScanEast
    PROVE  ExactInv'
<1>0. pc \in {"east", "corner"} /\ pc' = pc
    BY DEF ScanEast
<1>1. /\ TypeOK /\ FillInv /\ OnlyTheClump /\ SpanInv
      /\ input.diagonal \in BOOLEAN
      /\ span.row \in 0 .. input.nr_rows - 1
      /\ span.west \in Nat /\ span.col \in Nat /\ span.direction \in {-1, 1}
      /\ span.east \in 0 .. input.nr_cols - 1
      /\ input.nr_rows \in Nat \ {0} /\ input.nr_cols \in Nat \ {0}
      /\ \A c : c \in Cells <=> /\ c = <<c[1], c[2]>>
                                /\ c[1] \in 0 .. input.nr_rows - 1
                                /\ c[2] \in 0 .. input.nr_cols - 1
    BY <1>0, ScanFacts
<1>2. /\ clump_elements' = [clump_elements EXCEPT ![<<span.row, span.west>>] = clump_id]
      /\ UNCHANGED <<input, clump_id, cell_idxs, requests>>
      /\ span.west < input.nr_cols /\ CellIsConnected(span.row, span.west)
    BY DEF ScanEast, ConnectedToEast, AddToClump
<1>3. /\ span'.row = span.row /\ span'.east = span.east /\ span'.col = span.col
      /\ span'.direction = span.direction /\ span'.west = span.west + 1
    BY SpanFacts DEF ScanEast, Spans
<1>4. /\ AllClumps' = AllClumps /\ Cells' = Cells /\ TheClump' = TheClump /\ Reach' = Reach
      /\ \A r, k : CellIsConnected(r, k)' = CellIsConnected(r, k)
    BY <1>2, SameClump
<1>a. PICK new : new = <<span.row, span.west>>
    OBVIOUS
<1>5. /\ new \in Cells /\ new[1] = span.row /\ new[2] = span.west /\ IsConnected(new)
    BY <1>1, <1>2, <1>a DEF IsConnected
<1>6. clump_elements \in [Cells -> 0 .. clump_id \cup {NoData}] /\ clump_id \in Nat
    BY <1>1 DEF TypeOK
<1>7. \A c \in Cells : clump_elements'[c] = IF c = new THEN clump_id ELSE clump_elements[c]
    BY <1>2, <1>5, <1>6, <1>a
<1>b. PICK first : first = IF pc = "east" THEN span.col ELSE span.east + 1
    OBVIOUS
<1>c. /\ first \in Nat /\ first <= span.west
      /\ \A col \in first .. span.west - 1 :
            <<span.row, col>> \in Cells /\ clump_elements[<<span.row, col>>] = clump_id
      /\ pc = "east" => first <= span.east
    <2>1. CASE pc = "east"
        BY <1>1, <1>b, <2>1 DEF Inv, ScanInv, Scanned
    <2>2. CASE pc = "corner"
        BY <1>1, <1>b, <2>2 DEF Inv, ScanInv, Scanned
    <2> QED BY <1>0, <2>1, <2>2
<1>d. ASSUME NEW c \in TheClump, Touch(input.diagonal, c, new) PROVE new \in TheClump
    BY <1>1, <1>5, <1>d, FillFacts
<1>e. \/ ParentIsIn
      \/ IsDownwards /\ span.east = cell_idxs[2] /\ span.west >= span.east
    <2> SUFFICES ASSUME IsUpwards, span.east = cell_idxs[2], span.west >= span.east,
                        pc = "east", span.col = span.west
                 PROVE  FALSE
        BY <1>0, <1>1 DEF SpanInv, SpanHasParent
    <2>1. span.west = span.east
        BY <1>1, <1>b, <1>c
    <2>2. cell_idxs[1] \in Int /\ new[1] = cell_idxs[1] - 1 /\ new[2] = cell_idxs[2]
        BY <1>1, <1>5, <2>1, ShapeFacts DEF IsUpwards
    <2>3. Touch(input.diagonal, cell_idxs, new)
        BY <1>1, <1>5, <2>2 DEF Touch
    <2>4. new \in TheClump
        BY <1>1, <1>d, <2>3, FillFacts
    <2> QED BY <1>1, <2>2, <2>4, NothingUpwards
<1>8. new \in TheClump
    <2>1. CASE first < span.west
        <3> DEFINE c == <<span.row, span.west - 1>>
        <3>1. span.west - 1 \in first .. span.west - 1
            BY <1>1, <1>c, <2>1
        <3>2. c \in Cells /\ IsIn(c) /\ c[1] = span.row /\ c[2] = span.west - 1
            BY <1>c, <3>1 DEF IsIn
        <3> HIDE DEF c
        <3>3. c \in TheClump /\ Touch(input.diagonal, c, new)
            BY <1>1, <1>5, <3>2, FillFacts DEF Touch
        <3> QED BY <1>d, <3>3
    <2>2. CASE first = span.west /\ ParentIsIn
        <3>1. PICK col \in 0 .. input.nr_cols - 1 :
                /\ col <= span.east /\ (col >= span.west \/ col = span.east)
                /\ col = span.west \/ (input.diagonal /\ col = span.west - 1)
            <4>1. CASE pc = "east"
                BY <1>1, <1>2, <1>c, <2>2, <4>1
            <4>2. CASE pc = "corner"
                BY <1>1, <1>b, <2>2, <4>2 DEF SpanInv
            <4> QED BY <1>0, <4>1, <4>2
        <3> DEFINE c == <<span.row - span.direction, col>>
        <3>2. c \in Cells /\ IsIn(c) /\ c[1] = span.row - span.direction /\ c[2] = col
            BY <2>2, <3>1 DEF ParentIsIn
        <3> HIDE DEF c
        <3>3. c \in TheClump /\ Touch(input.diagonal, c, new)
            BY <1>1, <1>5, <3>1, <3>2, FillFacts DEF Touch
        <3> QED BY <1>d, <3>3
    <2>3. CASE first = span.west /\ IsDownwards /\ span.east = cell_idxs[2] /\ span.west >= span.east
        <3>1. cell_idxs \in TheClump /\ cell_idxs \in Cells /\ cell_idxs[1] = span.row
            BY <1>1, <2>3, FillFacts DEF IsDownwards
        <3>2. CASE pc = "east"
            <4>1. new = cell_idxs
                BY <1>1, <1>5, <1>c, <2>3, <3>1, <3>2
            <4> QED BY <3>1, <4>1
        <3>3. CASE pc = "corner"
            <4>1. cell_idxs[2] = span.west - 1
                BY <1>1, <1>b, <2>3, <3>3
            <4>2. Touch(input.diagonal, cell_idxs, new)
                BY <1>1, <1>5, <3>1, <4>1 DEF Touch
            <4> QED BY <1>d, <3>1, <4>2
        <3> QED BY <1>0, <3>2, <3>3
    <2> QED BY <1>1, <1>c, <1>e, <2>1, <2>2, <2>3
<1>9. ClumpStays /\ OnlyAdds
    BY <1>0, <1>2, <1>7, <1>8 DEF ClumpStays, OnlyAdds
<1>10. /\ \A c \in Cells : IsIn(c) => IsIn(c)'
       /\ \A c : IsDone(c) => IsDone(c)'
       /\ \A c \in Cells : IsIn(c)' /\ ~IsIn(c) => c = new
       /\ IsIn(new)'
    BY <1>1, <1>2, <1>5, <1>7, <1>9, DoneStays DEF IsIn
<1>11. GoesOn
    <2>1. ASSUME NEW next \in Cells, next[1] = span.row, next[2] = span.west
          PROVE  IsDone(next)'
        <3>1. next = new
            BY <1>1, <1>5, <2>1
        <3> QED BY <1>10, <3>1 DEF IsDone
    <2>2. ASSUME NEW cell \in Cells, NEW next \in Cells,
                 next[1] = cell[1], ToBeScanned(cell, next)
          PROVE  IsDone(next)'
        <3>1. next[1] = span.row /\ next[2] = span.west
            BY <1>0, <2>2 DEF ToBeScanned
        <3> QED BY <2>1, <3>1
    <2>3. ASSUME NEW next \in TheClump, IsRequested(next) \/ IsAhead(next)
          PROVE  IsTakenCareOf(next)'
        <3>1. CASE IsRequested(next)
            BY <1>2, <1>4, <3>1 DEF IsTakenCareOf, IsRequested, IsOnStack
        <3>2. CASE IsAhead(next) /\ next[2] = span.west
            <4>1. next \in Cells /\ next[1] = span.row
                BY <1>1, <3>2, FillFacts DEF IsAhead
            <4> QED BY <2>1, <3>2, <4>1 DEF IsTakenCareOf
        <3>3. CASE IsAhead(next) /\ next[2] # span.west
            <4>0. Reach \in {0, 1}
                BY <1>0, ScanFacts
            <4>1. next[1] = span.row /\ next[2] \in span.west + 1 .. span.east + Reach
                BY <1>0, <1>1, <3>3, <4>0 DEF IsAhead
            <4>2. IsAhead(next)'
                BY <1>0, <1>3, <1>4, <4>1 DEF IsAhead
            <4> QED BY <4>2 DEF IsTakenCareOf
        <3> QED BY <2>3, <3>1, <3>2, <3>3
    <2>4. ASSUME NEW cell \in Cells, NEW row, ToBePushed(cell, row)
          PROVE  ToBePushed(cell, row)'
        BY <1>0, <1>1, <1>3, <2>4 DEF ToBePushed
    <2>5. ASSUME NEW next \in Cells, next[1] = new[1], next[2] - new[2] \in {-1, 1}
          PROVE  IsDone(next)' \/ ToBeScanned(new, next)'
        <3>1. CASE next[2] = span.west + 1
            BY <1>0, <1>1, <1>3, <1>5, <3>1 DEF ToBeScanned
        <3>2. CASE next[2] = span.west - 1
            <4>1. next = <<span.row, span.west - 1>> /\ span.west \in 1 .. input.nr_cols - 1
                BY <1>1, <1>2, <1>5, <2>5, <3>2
            <4>2. IsDone(next)
                BY <1>0, <1>1, <1>2, <4>1 DEF SpanInv
            <4> QED BY <1>10, <4>2
        <3> QED BY <1>1, <1>5, <2>5, <3>1, <3>2
    <2>6. ASSUME NEW next \in TheClump, next[1] # new[1], Touch(input.diagonal, new, next)
          PROVE  IsTakenCareOf(next)' \/ ToBePushed(new, next[1])'
        <3>1. next \in Cells
            BY <1>1, FillFacts
        <3>2. /\ next[1] = span.row + span.direction \/ next[1] = span.row - span.direction
              /\ next[2] - span.west \in {-1, 0, 1}
            BY <1>1, <1>5, <2>6, <3>1, RowsNextTo
        <3>3. CASE next[1] = span.row + span.direction \/ span.west > span.east
            BY <1>0, <1>1, <1>3, <1>5, <1>b, <1>c, <3>3 DEF ToBePushed
        <3>4. CASE next[1] = span.row - span.direction /\ span.west <= span.east
            <4>1. CASE ParentIsIn
                <5>1. /\ pc \notin {"cell", "done"} /\ span.west >= span.west
                      /\ span.west \in 0 .. input.nr_cols - 1
                    BY <1>0, <1>1, <1>2
                <5>2. IsDone(next)
                    BY <3>2, <3>4, <4>1, <5>1, ParentsAreDone
                <5> QED BY <1>10, <5>2 DEF IsTakenCareOf
            <4>2. CASE IsDownwards
                <5>1. next[1] = cell_idxs[1] - 1
                    BY <3>4, <4>2 DEF IsDownwards
                <5> QED BY <1>1, <5>1, NothingUpwards
            <4> QED BY <1>e, <4>1, <4>2
        <3> QED BY <1>1, <3>2, <3>3, <3>4
    <2> QED BY <1>5, <1>10, <2>2, <2>3, <2>4, <2>5, <2>6 DEF GoesOn
<1>12. SpanInv'
    <2>1. ParentIsIn => ParentIsIn'
        BY <1>1, <1>2, <1>3, <1>4, <1>10 DEF ParentIsIn
    <2>2. SpanHasParent'
        BY <1>1, <1>2, <1>3, <1>e, <2>1 DEF SpanHasParent, IsDownwards
    <2>3. IsDone(new)'
        BY <1>10 DEF IsDone
    <2>4. new = <<span.row, span.west - 1>>'
        BY <1>1, <1>3, <1>a
    <2>5. IsDone(<<span.row, span.west - 1>>)'
        BY <2>3, <2>4 DEF IsDone, IsIn
    <2>6. ~(pc' \in {"west", "skip", "push"}) /\ (pc' = "corner" => input'.diagonal)
        BY <1>0, <1>1, <1>2 DEF SpanInv
    <2> QED BY <2>2, <2>5, <2>6 DEF SpanInv
<1> QED BY <1>9, <1>11, <1>12, StepKeepsExact

(* What touches the cells of a row that was scanned is requested: the row  *)
(* ahead for all of them, the row behind for those past the span.          *)
LEMMA RowsAreRequested ==
    ASSUME Inv, ExactInv, pc \notin {"cell", "done"},
           NEW first \in Nat, first <= span.east + 1, span.west <= input.nr_cols,
           Scanned(first, span.west - 1),
           requests' = Push(Push(requests, span.row, first, span.west - 1, span.direction),
                            span.row, span.east + 1, span.west - 1, -span.direction),
           UNCHANGED input
    PROVE  /\ \A c : IsRequested(c) => IsRequested(c)'
           /\ \A cell \in Cells, next \in Cells :
                /\ cell[1] = span.row /\ cell[2] \in first .. span.west - 1
                /\ next[1] # cell[1] /\ Touch(input.diagonal, cell, next)
                /\ next[1] = span.row + span.direction \/ cell[2] > span.east
                => IsRequested(next)'
<1>1. /\ TypeOK /\ Reach \in {0, 1} /\ (Reach = 1 <=> input.diagonal)
      /\ span.row \in 0 .. input.nr_rows - 1
      /\ span.west \in Nat /\ span.direction \in {-1, 1} /\ -span.direction \in {-1, 1}
      /\ span.east \in 0 .. input.nr_cols - 1
      /\ input.nr_cols \in Nat \ {0} /\ requests \in Seq(Requests) /\ ValidStack(requests)
      /\ \A c \in Cells : c[2] \in Int
    BY ScanFacts, SpanFacts
<1>2. PICK last, behind : last = span.west - 1 /\ behind = span.east + 1
    OBVIOUS
<1>3. /\ last \in Int /\ behind \in Int /\ first <= behind
      /\ first <= last => first \in 0 .. input.nr_cols - 1 /\ last \in 0 .. input.nr_cols - 1
      /\ behind <= last => behind \in 0 .. input.nr_cols - 1 /\ last \in 0 .. input.nr_cols - 1
      /\ \A col : col \in behind .. last => col \in first .. last
    BY <1>1, <1>2
<1>4. /\ \A col \in first .. last :
            <<span.row, col>> \in Cells /\ clump_elements[<<span.row, col>>] = clump_id
      /\ \A col \in behind .. last :
            <<span.row, col>> \in Cells /\ clump_elements[<<span.row, col>>] = clump_id
    BY <1>2, <1>3 DEF Scanned
<1> DEFINE ahead == Push(requests, span.row, first, last, span.direction)
           both == Push(ahead, span.row, behind, last, -span.direction)
<1>5. ahead \in Seq(Requests) /\ ValidStack(ahead)
    BY <1>1, <1>3, <1>4, PushIsValid DEF Directions
<1>6. requests' = both
    BY <1>2
<1>7. /\ \A c : IsOnStack(requests, c) => IsOnStack(ahead, c)
      /\ first <= last /\ RowAvailable(span.row, span.direction) =>
            \A c : c[1] = span.row + span.direction /\ c[2] \in first - Reach .. last + Reach
                => IsOnStack(ahead, c)
    BY <1>1, <1>5, PushFacts
<1> HIDE DEF ahead
<1>8. both \in Seq(Requests)
    BY <1>1, <1>3, <1>4, <1>5, PushIsValid DEF Directions
<1>9. /\ \A c : IsOnStack(ahead, c) => IsOnStack(both, c)
      /\ behind <= last /\ RowAvailable(span.row, -span.direction) =>
            \A c : c[1] = span.row + (-span.direction) /\ c[2] \in behind - Reach .. last + Reach
                => IsOnStack(both, c)
    BY <1>1, <1>5, <1>8, PushFacts
<1> HIDE DEF both
<1>10. \A c : IsRequested(c)' <=> IsOnStack(both, c)
    BY <1>6 DEF IsRequested, IsOnStack, Reach
<1>11. ASSUME NEW cell \in Cells, NEW next \in Cells,
              cell[1] = span.row, cell[2] \in first .. last,
              next[1] # cell[1], Touch(input.diagonal, cell, next),
              next[1] = span.row + span.direction \/ cell[2] >= behind
       PROVE  IsOnStack(both, next)
    <2>1. /\ next[1] = span.row + span.direction \/ next[1] = span.row - span.direction
          /\ next[1] = span.row + span.direction => RowAvailable(span.row, span.direction)
          /\ next[1] = span.row - span.direction => RowAvailable(span.row, -span.direction)
          /\ next[2] - cell[2] \in {-1, 0, 1}
          /\ ~input.diagonal => next[2] = cell[2]
        BY <1>1, <1>11, RowsNextTo
    <2>2. /\ cell[2] \in Int /\ next[2] \in Int
          /\ cell[2] - Reach <= next[2] /\ next[2] <= cell[2] + Reach
        BY <1>1, <2>1
    <2>3. CASE next[1] = span.row + span.direction
        <3>a. /\ first <= cell[2] /\ cell[2] <= last
              /\ first \in Int /\ last \in Int /\ Reach \in {0, 1}
            BY <1>1, <1>3, <1>11, <2>2
        <3>1. first <= last /\ next[2] \in first - Reach .. last + Reach
            BY <2>2, <3>a
        <3>2. IsOnStack(ahead, next)
            BY <1>7, <2>1, <2>3, <3>1
        <3> QED BY <1>9, <3>2
    <2>4. CASE next[1] = span.row - span.direction /\ cell[2] >= behind
        <3>a. cell[2] <= last /\ last \in Int /\ behind \in Int /\ Reach \in {0, 1}
            BY <1>1, <1>3, <1>11, <2>2
        <3>1. behind <= last /\ next[2] \in behind - Reach .. last + Reach
            BY <2>2, <2>4, <3>a
        <3>2. next[1] = span.row + (-span.direction)
            BY <1>1, <2>4
        <3> QED BY <1>9, <2>1, <2>4, <3>1, <3>2
    <2> QED BY <1>11, <2>1, <2>3, <2>4
<1>12. \A c : IsRequested(c) => IsRequested(c)'
    BY <1>7, <1>9, <1>10 DEF IsRequested
<1>13. \A cell \in Cells : cell[2] > span.east => cell[2] >= behind
    BY <1>1, <1>2
<1> QED BY <1>2, <1>10, <1>11, <1>12, <1>13

LEMMA PushRequestsKeepsExact ==
    ASSUME Inv, ExactInv, PushRequests
    PROVE  ExactInv'
<1>1. /\ pc = "push" /\ pc' = "skip"
      /\ UNCHANGED <<input, clump_elements, clump_id, cell_idxs>>
      /\ span.col <= span.west /\ span.col <= span.east /\ span.west <= input.nr_cols
      /\ Scanned(span.col, span.west - 1)
    BY DEF PushRequests, Inv, ScanInv
<1>2. /\ TypeOK /\ FillInv /\ OnlyTheClump /\ SpanInv
      /\ Reach \in {0, 1}
      /\ span.row \in 0 .. input.nr_rows - 1
      /\ span.west \in Nat /\ span.col \in Nat /\ span.direction \in {-1, 1}
      /\ span.east \in 0 .. input.nr_cols - 1
      /\ input.nr_rows \in Nat \ {0} /\ input.nr_cols \in Nat \ {0}
      /\ \A c : c \in Cells <=> /\ c = <<c[1], c[2]>>
                                /\ c[1] \in 0 .. input.nr_rows - 1
                                /\ c[2] \in 0 .. input.nr_cols - 1
    BY <1>1, ScanFacts
<1>3. /\ ClumpStays /\ OnlyAdds
      /\ AllClumps' = AllClumps /\ Cells' = Cells /\ TheClump' = TheClump /\ Reach' = Reach
      /\ \A r, k : CellIsConnected(r, k)' = CellIsConnected(r, k)
      /\ \A c : IsIn(c)' = IsIn(c) /\ IsDone(c)' = IsDone(c)
    BY <1>1, NoneIsAdded
<1>4. /\ span'.row = span.row /\ span'.east = span.east
      /\ span'.direction = span.direction /\ span'.west = span.west + 1
    BY SpanFacts DEF PushRequests, Spans
<1>5. /\ \A c : IsRequested(c) => IsRequested(c)'
      /\ \A cell \in Cells, next \in Cells :
            /\ cell[1] = span.row /\ cell[2] \in span.col .. span.west - 1
            /\ next[1] # cell[1] /\ Touch(input.diagonal, cell, next)
            /\ next[1] = span.row + span.direction \/ cell[2] > span.east
            => IsRequested(next)'
    <2>1. span.col <= span.east + 1 /\ pc \notin {"cell", "done"}
        BY <1>1, <1>2
    <2>2. requests' = Push(Push(requests, span.row, span.col, span.west - 1, span.direction),
                           span.row, span.east + 1, span.west - 1, -span.direction)
        BY DEF PushRequests, Pushed
    <2> QED BY <1>1, <1>2, <2>1, <2>2, RowsAreRequested
<1>6. GoesOn
    <2>1. \A cell, next : ~ToBeScanned(cell, next)
        BY <1>1 DEF ToBeScanned
    <2>2. ASSUME NEW next \in TheClump, IsAhead(next) PROVE IsTakenCareOf(next)'
        <3>1. /\ next \in Cells /\ next[1] = span.row /\ next[2] \in 0 .. input.nr_cols - 1
              /\ next[2] \in span.west .. span.east + Reach
            BY <1>1, <1>2, <2>2, FillFacts DEF IsAhead
        <3>2. CASE next[2] = span.west
            <4>1. next = <<span.row, span.west>> /\ span.west < input.nr_cols
                BY <1>2, <3>1, <3>2
            <4>2. IsDone(next)
                BY <1>1, <1>2, <4>1 DEF SpanInv
            <4> QED BY <1>3, <4>2 DEF IsTakenCareOf
        <3>3. CASE next[2] # span.west
            <4>1. next[2] \in span.west + 1 .. span.east + Reach
                BY <1>2, <3>1, <3>3
            <4>2. IsAhead(next)'
                BY <1>1, <1>3, <1>4, <3>1, <4>1 DEF IsAhead
            <4> QED BY <4>2 DEF IsTakenCareOf
        <3> QED BY <3>2, <3>3
    <2>3. ASSUME NEW cell \in Cells, NEW next \in TheClump,
                 next[1] # cell[1], Touch(input.diagonal, cell, next), ToBePushed(cell, next[1])
          PROVE  IsTakenCareOf(next)'
        <3>1. next \in Cells
            BY <1>2, FillFacts
        <3>2. /\ cell[1] = span.row /\ cell[2] \in span.col .. span.west - 1
              /\ next[1] = span.row + span.direction \/ cell[2] > span.east
            BY <1>1, <2>3 DEF ToBePushed
        <3>3. IsRequested(next)'
            BY <1>5, <2>3, <3>1, <3>2
        <3> QED BY <3>3 DEF IsTakenCareOf
    <2> QED BY <1>3, <1>5, <2>1, <2>2, <2>3 DEF GoesOn, IsTakenCareOf
<1>7. SpanInv'
    <2>1. ParentIsIn => ParentIsIn'
        BY <1>2, <1>3, <1>4 DEF ParentIsIn
    <2>2. SpanHasParent'
        BY <1>1, <1>2, <1>4, <2>1 DEF SpanInv, SpanHasParent, IsDownwards, IsUpwards
    <2>3. span.west < input.nr_cols => IsDone(<<span.row, span.west>>)
        BY <1>1, <1>2 DEF SpanInv
    <2>4. span'.west - 1 = span.west /\ (span.west + 1 \in 1 .. input.nr_cols => span.west < input.nr_cols)
        BY <1>2, <1>4
    <2>5. span'.west \in 1 .. input'.nr_cols => IsDone(<<span.row, span.west - 1>>)'
        BY <1>1, <1>3, <1>4, <2>3, <2>4 DEF IsDone, IsIn
    <2> QED BY <1>1, <2>2, <2>5 DEF SpanInv
<1> QED BY <1>3, <1>6, <1>7, StepKeepsExact

LEMMA SkipKeepsExact ==
    ASSUME Inv, ExactInv, SkipCell \/ EndSkip
    PROVE  ExactInv'
<1>1. /\ pc = "skip" /\ pc' \in {"skip", "span"}
      /\ UNCHANGED <<input, clump_elements, clump_id, cell_idxs, requests>>
    BY DEF SkipCell, EndSkip
<1>2. /\ TypeOK /\ FillInv /\ OnlyTheClump /\ SpanInv
      /\ Reach \in {0, 1}
      /\ span.row \in 0 .. input.nr_rows - 1
      /\ span.west \in Nat /\ span.col \in Nat /\ span.direction \in {-1, 1}
      /\ span.east \in 0 .. input.nr_cols - 1
      /\ input.nr_rows \in Nat \ {0} /\ input.nr_cols \in Nat \ {0}
      /\ \A c : c \in Cells <=> /\ c = <<c[1], c[2]>>
                                /\ c[1] \in 0 .. input.nr_rows - 1
                                /\ c[2] \in 0 .. input.nr_cols - 1
    BY <1>1, ScanFacts
<1>3. /\ ClumpStays /\ OnlyAdds
      /\ AllClumps' = AllClumps /\ Cells' = Cells /\ TheClump' = TheClump /\ Reach' = Reach
      /\ \A r, k : CellIsConnected(r, k)' = CellIsConnected(r, k)
      /\ \A c : IsIn(c)' = IsIn(c) /\ IsDone(c)' = IsDone(c)
    BY <1>1, NoneIsAdded
<1>4. \/ /\ SkipCell /\ pc' = "skip" /\ span.west <= span.east
         /\ ~CellIsConnected(span.row, span.west) /\ span'.west = span.west + 1
      \/ EndSkip /\ pc' = "span" /\ span'.west = span.west /\ span'.col = span.west
    BY SpanFacts DEF SkipCell, EndSkip, Spans
<1>5. span'.row = span.row /\ span'.east = span.east /\ span'.direction = span.direction
    BY SpanFacts DEF SkipCell, EndSkip, Spans
<1>6. ASSUME SkipCell, NEW c \in Cells, c[1] = span.row, c[2] = span.west
      PROVE  IsDone(c)
    <2>1. ~IsConnected(c)
        BY <1>6 DEF IsConnected, SkipCell
    <2> QED BY <1>2, <2>1, FillFacts
<1>7. GoesOn
    <2>1. \A cell, next : ~ToBeScanned(cell, next) /\ ~ToBePushed(cell, next)
        BY <1>1 DEF ToBeScanned, ToBePushed
    <2>2. ASSUME NEW next \in TheClump, IsAhead(next) PROVE IsTakenCareOf(next)'
        <3>1. /\ next \in Cells /\ next[1] = span.row /\ next[2] \in Int
              /\ next[2] \in span.west .. span.east + Reach
            BY <1>1, <1>2, <2>2, FillFacts DEF IsAhead
        <3>2. CASE SkipCell /\ next[2] = span.west
            BY <1>3, <1>6, <3>1, <3>2 DEF IsTakenCareOf
        <3>3. CASE ~(SkipCell /\ next[2] = span.west)
            <4>1. next[2] \in span'.west .. span.east + Reach
                BY <1>2, <1>4, <3>1, <3>3
            <4>2. IsAhead(next)'
                BY <1>1, <1>3, <1>5, <3>1, <4>1 DEF IsAhead
            <4> QED BY <4>2 DEF IsTakenCareOf
        <3> QED BY <3>2, <3>3
    <2>3. \A c : IsRequested(c) => IsRequested(c)'
        BY <1>1, <1>3 DEF IsRequested, IsOnStack
    <2> QED BY <1>3, <2>1, <2>2, <2>3 DEF GoesOn, IsTakenCareOf
<1>8. SpanInv'
    <2>1. ParentIsIn => ParentIsIn'
        BY <1>1, <1>2, <1>3, <1>4, <1>5 DEF ParentIsIn
    <2>2. SpanHasParent
        BY <1>1, <1>2 DEF SpanInv
    <2>3. SpanHasParent'
        BY <1>1, <1>2, <1>4, <1>5, <2>1, <2>2 DEF SpanHasParent, IsDownwards, IsUpwards
    <2>4. CASE EndSkip
        <3>1. pc' = "span" /\ span'.west = span.west
            BY <1>1, SpanFacts, <2>4 DEF EndSkip, Spans
        <3>2. span.west \in 1 .. input.nr_cols => IsDone(<<span.row, span.west - 1>>)
            BY <1>1, <1>2 DEF SpanInv
        <3>3. span'.west \in 1 .. input'.nr_cols - 1 => IsDone(<<span.row, span.west - 1>>)'
            BY <1>1, <1>2, <1>3, <1>5, <3>1, <3>2 DEF IsDone, IsIn
        <3> QED BY <2>3, <3>1, <3>3 DEF SpanInv
    <2>5. CASE SkipCell
        <3>1. PICK c : c = <<span.row, span.west>>
            OBVIOUS
        <3>2. pc' = "skip" /\ span'.west = span.west + 1 /\ span.west <= span.east
            BY <1>1, SpanFacts, <2>5 DEF SkipCell, Spans
        <3>3. c \in Cells /\ c[1] = span.row /\ c[2] = span.west
            BY <1>2, <3>1, <3>2
        <3>4. IsDone(c)'
            BY <1>3, <1>6, <2>5, <3>3
        <3>5. c = <<span.row, span.west - 1>>'
            BY <1>2, <1>5, <3>1, <3>2
        <3>6. IsDone(<<span.row, span.west - 1>>)'
            BY <3>4, <3>5 DEF IsDone, IsIn
        <3> QED BY <2>3, <3>2, <3>6 DEF SpanInv
    <2> QED BY <1>4, <2>4, <2>5
<1> QED BY <1>3, <1>7, <1>8, StepKeepsExact

(* The span is scanned: what is ahead is the corner, if anything.          *)
LEMMA EndSpanKeepsExact ==
    ASSUME Inv, ExactInv, EndSpan
    PROVE  ExactInv'
<1>1. /\ pc = "span" /\ span.west > span.east
      /\ pc' = IF input.diagonal /\ CornerIsNew THEN "corner" ELSE "request"
      /\ UNCHANGED <<input, clump_elements, clump_id, cell_idxs, requests, span>>
    BY DEF EndSpan
<1>2. /\ TypeOK /\ FillInv /\ OnlyTheClump /\ SpanInv
      /\ Reach \in {0, 1} /\ (Reach = 1 <=> input.diagonal)
      /\ span.row \in 0 .. input.nr_rows - 1
      /\ span.west \in Nat /\ span.direction \in {-1, 1}
      /\ span.east \in 0 .. input.nr_cols - 1
      /\ input.nr_rows \in Nat \ {0} /\ input.nr_cols \in Nat \ {0}
      /\ \A c : c \in Cells <=> /\ c = <<c[1], c[2]>>
                                /\ c[1] \in 0 .. input.nr_rows - 1
                                /\ c[2] \in 0 .. input.nr_cols - 1
    BY <1>1, ScanFacts
<1>3. /\ ClumpStays /\ OnlyAdds
      /\ AllClumps' = AllClumps /\ Cells' = Cells /\ TheClump' = TheClump /\ Reach' = Reach
      /\ \A r, k : CellIsConnected(r, k)' = CellIsConnected(r, k)
      /\ \A c : IsIn(c)' = IsIn(c) /\ IsDone(c)' = IsDone(c)
    BY <1>1, NoneIsAdded
<1>4. PICK corner : corner = <<span.row, span.east + 1>>
    OBVIOUS
<1>5. corner[1] = span.row /\ corner[2] = span.east + 1
    BY <1>4
<1>6. GoesOn
    <2>1. \A cell, next : ~ToBeScanned(cell, next) /\ ~ToBePushed(cell, next)
        BY <1>1, <1>2 DEF ToBeScanned, ToBePushed
    <2>2. ASSUME NEW next \in TheClump, IsAhead(next) PROVE IsTakenCareOf(next)'
        <3>1. /\ next \in Cells /\ IsConnected(next) /\ next[1] = span.row
              /\ next[2] \in 0 .. input.nr_cols - 1
              /\ next[2] \in span.west .. span.east + Reach
            BY <1>1, <1>2, <2>2, FillFacts DEF IsAhead
        <3>2. CASE pc' = "corner"
            <4>1. IsAhead(next)'
                BY <1>1, <1>3, <3>1, <3>2 DEF IsAhead
            <4> QED BY <4>1 DEF IsTakenCareOf
        <3>3. CASE pc' # "corner"
            <4>1. /\ input.diagonal /\ span.west = span.east + 1 /\ next[2] = span.west
                  /\ span.east < input.nr_cols - 1 /\ span.west - 1 = span.east
                BY <1>1, <1>2, <3>1
            <4>2. CellIsConnected(span.row, span.west)
                BY <3>1, <4>1 DEF IsConnected
            <4>3. AddedAlready(next[1], next[2])
                BY <1>1, <3>1, <3>3, <4>1, <4>2 DEF CornerIsNew
            <4>4. IsDone(next)
                BY <1>2, <3>1, <4>3, FillFacts
            <4> QED BY <1>3, <4>4 DEF IsTakenCareOf
        <3> QED BY <3>2, <3>3
    <2>3. \A c : IsRequested(c) => IsRequested(c)'
        BY <1>1, <1>3 DEF IsRequested, IsOnStack
    <2> QED BY <1>3, <2>1, <2>2, <2>3 DEF GoesOn, IsTakenCareOf
<1>7. SpanInv'
    <2>1. CASE pc' = "request"
        BY <2>1 DEF SpanInv
    <2>2. CASE pc' = "corner"
        <3>1. /\ input.diagonal /\ span.west = span.east + 1 /\ span.east < input.nr_cols - 1
              /\ CellIsConnected(span.row, span.east + 1)
            BY <1>1, <1>2, <2>2 DEF CornerIsNew
        <3>2. corner \in Cells /\ IsConnected(corner)
            BY <1>2, <1>4, <1>5, <3>1 DEF IsConnected
        <3>3. ~(IsUpwards /\ span.east = cell_idxs[2])
            <4> SUFFICES ASSUME IsUpwards, span.east = cell_idxs[2] PROVE FALSE
                OBVIOUS
            <4>1. /\ cell_idxs[1] \in Int /\ cell_idxs[2] \in Int
                  /\ corner[1] = cell_idxs[1] - 1 /\ corner[2] = cell_idxs[2] + 1
                BY <1>2, <1>5, ShapeFacts DEF IsUpwards
            <4>2. Touch(input.diagonal, cell_idxs, corner)
                BY <3>1, <4>1 DEF Touch
            <4>3. corner \in TheClump
                BY <1>2, <3>2, <4>2, FillFacts
            <4> QED BY <1>2, <4>1, <4>3, NothingUpwards
        <3>4. ParentIsIn => ParentIsIn'
            BY <1>1, <1>3 DEF ParentIsIn
        <3>5. SpanHasParent
            BY <1>1, <1>2 DEF SpanInv
        <3>6. SpanHasParent'
            BY <1>1, <3>3, <3>4, <3>5 DEF SpanHasParent, IsDownwards
        <3> QED BY <1>1, <1>2, <1>3, <2>2, <3>1, <3>6 DEF SpanInv
    <2> QED BY <1>1, <2>1, <2>2
<1> QED BY <1>3, <1>6, <1>7, StepKeepsExact

LEMMA PushFromCornerKeepsExact ==
    ASSUME Inv, ExactInv, PushFromCorner
    PROVE  ExactInv'
<1>1. /\ pc = "corner" /\ pc' = "request" /\ ~ConnectedToEast
      /\ UNCHANGED <<input, clump_elements, clump_id, cell_idxs, span>>
      /\ span.east < span.west /\ span.west <= input.nr_cols
      /\ Scanned(span.east + 1, span.west - 1)
    BY DEF PushFromCorner, Inv, ScanInv
<1>2. /\ TypeOK /\ FillInv /\ OnlyTheClump /\ SpanInv
      /\ Reach \in {0, 1}
      /\ span.row \in 0 .. input.nr_rows - 1
      /\ span.west \in Nat /\ span.direction \in {-1, 1}
      /\ span.east \in 0 .. input.nr_cols - 1
      /\ input.nr_rows \in Nat \ {0} /\ input.nr_cols \in Nat \ {0}
      /\ \A c : c \in Cells <=> /\ c = <<c[1], c[2]>>
                                /\ c[1] \in 0 .. input.nr_rows - 1
                                /\ c[2] \in 0 .. input.nr_cols - 1
    BY <1>1, ScanFacts
<1>3. /\ ClumpStays /\ OnlyAdds
      /\ AllClumps' = AllClumps /\ Cells' = Cells /\ TheClump' = TheClump /\ Reach' = Reach
      /\ \A r, k : CellIsConnected(r, k)' = CellIsConnected(r, k)
      /\ \A c : IsIn(c)' = IsIn(c) /\ IsDone(c)' = IsDone(c)
    BY <1>1, NoneIsAdded
<1>4. ASSUME NEW c \in Cells, c[1] = span.row, c[2] = span.west PROVE IsDone(c)
    <2>1. ~IsConnected(c)
        BY <1>1, <1>2, <1>4 DEF ConnectedToEast, IsConnected
    <2> QED BY <1>2, <2>1, FillFacts
<1>5. /\ \A c : IsRequested(c) => IsRequested(c)'
      /\ \A cell \in Cells, next \in Cells :
            /\ cell[1] = span.row /\ cell[2] \in span.east + 1 .. span.west - 1
            /\ next[1] # cell[1] /\ Touch(input.diagonal, cell, next)
            /\ next[1] = span.row + span.direction \/ cell[2] > span.east
            => IsRequested(next)'
    <2>1. span.east + 1 \in Nat /\ span.east + 1 <= span.east + 1 /\ pc \notin {"cell", "done"}
        BY <1>1, <1>2
    <2>2. requests' = Push(Push(requests, span.row, span.east + 1, span.west - 1, span.direction),
                           span.row, span.east + 1, span.west - 1, -span.direction)
        BY DEF PushFromCorner
    <2> QED BY <1>1, <2>1, <2>2, RowsAreRequested
<1>6. GoesOn
    <2>1. ASSUME NEW cell \in Cells, NEW next \in Cells,
                 next[1] = cell[1], ToBeScanned(cell, next)
          PROVE  IsDone(next)'
        <3>1. next[1] = span.row /\ next[2] = span.west
            BY <1>1, <2>1 DEF ToBeScanned
        <3> QED BY <1>3, <1>4, <3>1
    <2>2. ASSUME NEW next \in TheClump, IsAhead(next) PROVE IsTakenCareOf(next)'
        <3>1. next \in Cells /\ next[1] = span.row /\ next[2] = span.west
            BY <1>1, <1>2, <2>2, FillFacts DEF IsAhead
        <3> QED BY <1>3, <1>4, <3>1 DEF IsTakenCareOf
    <2>3. ASSUME NEW cell \in Cells, NEW next \in TheClump,
                 next[1] # cell[1], Touch(input.diagonal, cell, next), ToBePushed(cell, next[1])
          PROVE  IsTakenCareOf(next)'
        <3>1. next \in Cells
            BY <1>2, FillFacts
        <3>2. /\ cell[1] = span.row /\ cell[2] \in span.east + 1 .. span.west - 1
              /\ cell[2] > span.east
            BY <1>1, <1>2, <2>3 DEF ToBePushed
        <3>3. IsRequested(next)'
            BY <1>5, <2>3, <3>1, <3>2
        <3> QED BY <3>3 DEF IsTakenCareOf
    <2> QED BY <1>3, <1>5, <2>1, <2>2, <2>3 DEF GoesOn, IsTakenCareOf
<1>7. SpanInv'
    BY <1>1 DEF SpanInv
<1> QED BY <1>3, <1>6, <1>7, StepKeepsExact

LEMMA RestKeepsExact ==
    ASSUME Inv, ExactInv, NoMoreCells \/ UNCHANGED vars
    PROVE  ExactInv'
<1>1. CASE NoMoreCells
    <2>1. pc' = "done" /\ UNCHANGED <<input, clump_id>>
        BY <1>1 DEF NoMoreCells
    <2>2. /\ AllClumps' = AllClumps
          /\ \A k : Rank(k)' = Rank(k)
        BY <2>1, SameClump
    <2> QED BY <2>1, <2>2 DEF ExactInv, ClumpsAreCounted, ClumpsAreExact
<1>2. CASE UNCHANGED vars
    <2>1. UNCHANGED <<input, clump_elements, clump_id, cell_idxs, requests, span, pc>>
        BY <1>2 DEF vars
    <2>2. /\ AllClumps' = AllClumps /\ Cells' = Cells /\ TheClump' = TheClump /\ Reach' = Reach
          /\ \A r, k : CellIsConnected(r, k)' = CellIsConnected(r, k)
          /\ \A c, id : ExactId(c, id)' = ExactId(c, id)
          /\ \A k : Rank(k)' = Rank(k)
        BY <2>1, SameClump
    <2>3. /\ \A c : IsIn(c)' = IsIn(c) /\ IsDone(c)' = IsDone(c)
          /\ \A c : IsRequested(c)' = IsRequested(c) /\ IsAhead(c)' = IsAhead(c)
          /\ \A c, n : ToBeScanned(c, n)' = ToBeScanned(c, n) /\ ToBePushed(c, n)' = ToBePushed(c, n)
        BY <2>1, <2>2 DEF IsIn, IsDone, IsRequested, IsOnStack, IsAhead, ToBeScanned, ToBePushed
    <2>4. OnlyTheClump => OnlyTheClump'
        BY <2>1, <2>2 DEF OnlyTheClump
    <2>5. RunsAreWhole => RunsAreWhole'
        BY <2>1, <2>2, <2>3 DEF RunsAreWhole
    <2>6. NothingIsForgotten => NothingIsForgotten'
        <3>1. \A c : IsTakenCareOf(c)' = IsTakenCareOf(c)
            BY <2>3 DEF IsTakenCareOf
        <3>2. cell_idxs' = cell_idxs /\ input' = input
            BY <2>1
        <3>3. IsTakenCareOf(cell_idxs) => IsTakenCareOf(cell_idxs)'
            BY <2>1, <2>2 DEF IsTakenCareOf, IsDone, IsIn, IsRequested, IsOnStack, IsAhead
        <3> QED BY <2>2, <2>3, <3>1, <3>2, <3>3 DEF NothingIsForgotten
    <2>7. SpanInv => SpanInv'
        <3>1. SpanHasParent => SpanHasParent'
            BY <2>1, <2>2 DEF SpanHasParent, ParentIsIn, IsDownwards, IsUpwards, IsIn
        <3> QED BY <2>1, <2>2, <3>1 DEF SpanInv, IsDone, IsIn
    <2> QED BY <2>1, <2>2, <2>4, <2>5, <2>6, <2>7
            DEF ExactInv, FillInv, ClumpsAreCounted, ClumpsAreExact, Cells
<1> QED BY <1>1, <1>2

LEMMA ExactInvNext == Inv /\ ExactInv /\ [Next]_vars => ExactInv'
<1> SUFFICES ASSUME Inv, ExactInv, [Next]_vars PROVE ExactInv'
    OBVIOUS
<1>1. CASE StartClump
    BY <1>1, StartClumpKeepsExact
<1>2. CASE EndClump
    BY <1>2, EndClumpKeepsExact
<1>3. CASE PopRequest
    BY <1>3, PopKeepsExact
<1>4. CASE ScanWest
    BY <1>4, ScanWestKeepsExact
<1>5. CASE TurnWest
    BY <1>5, TurnWestKeepsExact
<1>6. CASE ScanSpan
    BY <1>6, ScanSpanKeepsExact
<1>7. CASE ScanEast
    BY <1>7, ScanEastKeepsExact
<1>8. CASE EndScanEast
    BY <1>8, EndScanEastKeepsExact
<1>9. CASE PushRequests
    BY <1>9, PushRequestsKeepsExact
<1>10. CASE SkipCell \/ EndSkip
    BY <1>10, SkipKeepsExact
<1>11. CASE EndSpan
    BY <1>11, EndSpanKeepsExact
<1>12. CASE PushFromCorner
    BY <1>12, PushFromCornerKeepsExact
<1>13. CASE NoMoreCells \/ Terminated \/ UNCHANGED vars
    BY <1>13, RestKeepsExact DEF Terminated
<1> QED BY <1>1, <1>2, <1>3, <1>4, <1>5, <1>6, <1>7, <1>8, <1>9, <1>10, <1>11, <1>12, <1>13
        DEF Next

(* Whenever a clump ends, the cells with an id are exactly those of the    *)
(* clumps so far, each with the id of its clump by definition: no cell is  *)
(* missed, none is added twice or to the wrong clump, whatever the shape   *)
(* of the array, its zones and the kind of connectivity.                   *)
THEOREM ClumpsAlwaysExact == Spec => []ClumpsAreExact
<1>1. Init => Inv /\ ExactInv
    BY InvInit, ExactInvInit
<1>2. Inv /\ ExactInv /\ [Next]_vars => (Inv /\ ExactInv)'
    BY InvNext, ExactInvNext
<1>3. ExactInv => ClumpsAreExact
    BY DEF ExactInv
<1> QED BY <1>1, <1>2, <1>3, PTL DEF Spec

-----------------------------------------------------------------------------
(***************************************************************************)
(* Merging the clumps of partitions.  Every local clump is part of one     *)
(* clump of the array and has an id of its own; whatever is merged or      *)
(* united, a collection only holds ids of one clump, and what a border or  *)
(* corner brought together stays together.  ClumpInv says so at every      *)
(* stage of the root.                                                      *)
(***************************************************************************)

(* A quotient, and what is left.                                           *)
LEMMA Division ==
    ASSUME NEW n \in Nat, NEW m \in Nat \ {0}
    PROVE  n \div m \in Nat /\ (n \div m) * m <= n /\ n < (n \div m) * m + m
OBVIOUS

LEMMA Product ==
    ASSUME NEW a \in Nat, NEW b \in Nat, NEW m \in Nat, a < b
    PROVE  a * m + m <= b * m
OBVIOUS

LEMMA Nonneg ==
    ASSUME NEW a \in Nat, NEW m \in Nat
    PROVE  a * m \in Nat
OBVIOUS

-----------------------------------------------------------------------------
(* How cells are divided over partitions, along one side of the array.     *)

Fits(n, m) == n \in Nat \ {0} /\ m \in Nat \ {0} /\ m <= n

Part(n, m, x) == IF x \div m < n \div m THEN x \div m ELSE n \div m - 1

LEMMA NumberOfParts ==
    ASSUME NEW n, NEW m, Fits(n, m)
    PROVE  /\ n \div m \in Nat \ {0} /\ (n \div m) * m <= n
           /\ n \in Nat /\ m \in Nat /\ m > 0
BY Division DEF Fits

LEMMA PartFacts ==
    ASSUME NEW n, NEW m, Fits(n, m), NEW x \in 0 .. n - 1
    PROVE  /\ Part(n, m, x) \in 0 .. n \div m - 1
           /\ Part(n, m, x) * m <= x
           /\ Part(n, m, x) < n \div m - 1 => x < (Part(n, m, x) + 1) * m
<1>1. x \div m \in Nat /\ (x \div m) * m <= x /\ x < (x \div m) * m + m
    BY Division DEF Fits
<1>2. n \div m \in Nat \ {0} /\ n \in Nat /\ m \in Nat
    BY NumberOfParts
<1> DEFINE a == x \div m
           b == n \div m
<1> HIDE DEF a, b
<1>3. a \in Nat /\ a * m <= x /\ x < a * m + m /\ b \in Nat \ {0} /\ m \in Nat
    BY <1>1, <1>2 DEF a, b
<1>4. Part(n, m, x) = IF a < b THEN a ELSE b - 1
    BY DEF Part, a, b
<1>5. CASE a < b
    <2>1. (a + 1) * m = a * m + m
        BY <1>3
    <2> QED BY <1>3, <1>4, <1>5, <2>1 DEF b
<1>6. CASE ~(a < b)
    <2>1. (b - 1) * m + m <= a * m
        <3>1. b - 1 \in Nat /\ b - 1 < a
            BY <1>3, <1>6
        <3> QED BY <1>3, <3>1, Product
    <2>2. (b - 1) * m \in Nat /\ a * m \in Nat
        BY <1>3, Nonneg
    <2> QED BY <1>3, <1>4, <1>6, <2>1, <2>2 DEF b
<1> QED BY <1>5, <1>6

(* The cells of a part are those from its first to its last.               *)
LEMMA PartIs ==
    ASSUME NEW n, NEW m, Fits(n, m), NEW x \in 0 .. n - 1, NEW k \in 0 .. n \div m - 1,
           k * m <= x, k < n \div m - 1 => x < (k + 1) * m
    PROVE  Part(n, m, x) = k
<1> DEFINE l == Part(n, m, x)
           b == n \div m
<1>1. l \in Nat /\ l <= b - 1 /\ l * m <= x /\ (l < b - 1 => x < (l + 1) * m)
    BY PartFacts, NumberOfParts
<1>2. b \in Nat /\ m \in Nat /\ k \in Nat /\ k <= b - 1 /\ x \in Nat
    BY NumberOfParts
<1> HIDE DEF l, b
<1>3. ~(l < k)
    <2> SUFFICES ASSUME l < k PROVE FALSE
        OBVIOUS
    <2>1. l * m + m <= k * m /\ (l + 1) * m = l * m + m /\ l * m \in Nat /\ k * m \in Nat
        BY <1>1, <1>2, Product, Nonneg
    <2> QED BY <1>1, <1>2, <2>1
<1>4. ~(k < l)
    <2> SUFFICES ASSUME k < l PROVE FALSE
        OBVIOUS
    <2>1. k * m + m <= l * m /\ (k + 1) * m = k * m + m /\ l * m \in Nat /\ k * m \in Nat
        BY <1>1, <1>2, Product, Nonneg
    <2>2. k < b - 1 => x < (k + 1) * m
        BY DEF b
    <2> QED BY <1>1, <1>2, <2>1, <2>2
<1>5. l = k
    BY <1>1, <1>2, <1>3, <1>4
<1> QED BY <1>5 DEF l

(* Neighbours in different parts are at the sides of parts that are next   *)
(* to each other.                                                          *)
LEMMA NextParts ==
    ASSUME NEW n, NEW m, Fits(n, m), NEW x \in 0 .. n - 1, x + 1 <= n - 1,
           Part(n, m, x) # Part(n, m, x + 1)
    PROVE  /\ Part(n, m, x + 1) = Part(n, m, x) + 1
           /\ x + 1 = (Part(n, m, x) + 1) * m
<1> DEFINE k == Part(n, m, x)
           l == Part(n, m, x + 1)
           b == n \div m
<1>1. x \in Nat /\ x + 1 \in 0 .. n - 1 /\ b \in Nat /\ m \in Nat /\ n \in Nat
    BY NumberOfParts
<1>2. k \in Nat /\ k <= b - 1 /\ k * m <= x /\ (k < b - 1 => x < (k + 1) * m)
    BY <1>1, PartFacts
<1>3. l \in Nat /\ l <= b - 1 /\ l * m <= x + 1
    <2> HIDE DEF k
    <2> QED BY <1>1, PartFacts
<1>4. k < b - 1 /\ x + 1 = (k + 1) * m
    <2> SUFFICES ASSUME ~(k < b - 1) \/ x + 1 < (k + 1) * m PROVE FALSE
        <3> HIDE DEF k, l, b
        <3>1. (k + 1) * m \in Nat
            BY <1>1, <1>2, Nonneg
        <3> QED BY <1>1, <1>2, <3>1
    <2>1. k \in 0 .. b - 1 /\ k * m <= x + 1 /\ (k < b - 1 => x + 1 < (k + 1) * m)
        <3>1. k * m \in Nat
            BY <1>1, <1>2, Nonneg
        <3> HIDE DEF k, l, b
        <3> QED BY <1>1, <1>2, <3>1
    <2>2. l = k
        <3> HIDE DEF k
        <3> QED BY <1>1, <2>1, PartIs
    <2> QED BY <2>2
<1>5. l = k + 1
    <2>1. k + 1 \in 0 .. b - 1 /\ (k + 1) * m <= x + 1 /\ (k + 1 < b - 1 => x + 1 < ((k + 1) + 1) * m)
        <3>1. (k + 1) * m \in Nat /\ ((k + 1) + 1) * m = (k + 1) * m + m /\ m > 0
            BY <1>1, <1>2, Nonneg, NumberOfParts
        <3> HIDE DEF k, l, b
        <3> QED BY <1>1, <1>2, <1>4, <3>1
    <2> HIDE DEF k
    <2> QED BY <1>1, <2>1, PartIs
<1> QED BY <1>4, <1>5

-----------------------------------------------------------------------------
(* The array and its partitions.                                           *)

ArrayOk ==
    /\ Fits(array.nr_rows, array.partition_rows) /\ Fits(array.nr_cols, array.partition_cols)
    /\ array.diagonal \in BOOLEAN
    /\ AllCells = Array(array.nr_rows, array.nr_cols)
    /\ NoData \notin Nat

LEMMA ArrayFacts ==
    ASSUME array \in Arrays
    PROVE  ArrayOk
BY ClumpAssumption DEF ArrayOk, Fits, AllCells

LEMMA AllCellsFacts ==
    ASSUME ArrayOk
    PROVE  /\ IsFiniteSet(AllCells) /\ AllCells \subseteq Nat \X Nat
           /\ \A cell \in AllCells :
                /\ cell[1] \in 0 .. array.nr_rows - 1 /\ cell[2] \in 0 .. array.nr_cols - 1
                /\ cell = <<cell[1], cell[2]>>
           /\ \A row \in 0 .. array.nr_rows - 1, col \in 0 .. array.nr_cols - 1 : <<row, col>> \in AllCells
<1>1. array.nr_rows \in Nat /\ array.nr_cols \in Nat /\ AllCells = Array(array.nr_rows, array.nr_cols)
    BY DEF ArrayOk, Fits
<1>2. IsFiniteSet(0 .. array.nr_rows - 1) /\ IsFiniteSet(0 .. array.nr_cols - 1)
    <2>1. 0 \in Int /\ array.nr_rows - 1 \in Int /\ array.nr_cols - 1 \in Int
        BY <1>1
    <2> QED BY <2>1, FS_Interval
<1> DEFINE rows == 0 .. array.nr_rows - 1
           cols == 0 .. array.nr_cols - 1
<1>3. AllCells = rows \X cols /\ rows \subseteq Nat /\ cols \subseteq Nat
    BY <1>1 DEF Array
<1> HIDE DEF rows, cols
<1>4. IsFiniteSet(AllCells)
    BY <1>2, <1>3, FS_Product DEF rows, cols
<1>5. AllCells \subseteq Nat \X Nat
    BY <1>3
<1>6. \A cell \in AllCells : cell[1] \in rows /\ cell[2] \in cols /\ cell = <<cell[1], cell[2]>>
    <2> SUFFICES ASSUME NEW row \in rows, NEW col \in cols
                 PROVE  <<row, col>>[1] = row /\ <<row, col>>[2] = col
        BY <1>3
    <2> QED OBVIOUS
<1>7. \A row \in rows, col \in cols : <<row, col>> \in AllCells
    BY <1>3
<1> QED BY <1>4, <1>5, <1>6, <1>7 DEF rows, cols

LEMMA PartitionFacts ==
    ASSUME ArrayOk
    PROVE  /\ \A cell \in AllCells :
                /\ PartitionOf(cell)[1] = Part(array.nr_rows, array.partition_rows, cell[1])
                /\ PartitionOf(cell)[2] = Part(array.nr_cols, array.partition_cols, cell[2])
                /\ PartitionOf(cell) \in Partitions
           /\ Shape.rows = array.nr_rows \div array.partition_rows
           /\ Shape.cols = array.nr_cols \div array.partition_cols
           /\ Shape.rows \in Nat \ {0} /\ Shape.cols \in Nat \ {0}
           /\ \A p \in Partitions :
                p[1] \in 0 .. Shape.rows - 1 /\ p[2] \in 0 .. Shape.cols - 1 /\ p = <<p[1], p[2]>>
           /\ Partitions \subseteq Nat \X Nat /\ Partitions # {} /\ IsFiniteSet(Partitions)
<1>1. /\ Shape.rows = array.nr_rows \div array.partition_rows
      /\ Shape.cols = array.nr_cols \div array.partition_cols
    BY DEF Shape
<1>2. Shape.rows \in Nat \ {0} /\ Shape.cols \in Nat \ {0}
    BY <1>1, NumberOfParts DEF ArrayOk
<1>3. ASSUME NEW cell \in AllCells
      PROVE  /\ PartitionOf(cell)[1] = Part(array.nr_rows, array.partition_rows, cell[1])
             /\ PartitionOf(cell)[2] = Part(array.nr_cols, array.partition_cols, cell[2])
             /\ PartitionOf(cell) \in Partitions
    <2>1. PartitionOf(cell) = <<Part(array.nr_rows, array.partition_rows, cell[1]),
                                Part(array.nr_cols, array.partition_cols, cell[2])>>
        BY <1>1 DEF PartitionOf, Part
    <2>2. Part(array.nr_rows, array.partition_rows, cell[1]) \in 0 .. Shape.rows - 1
        BY <1>1, AllCellsFacts, PartFacts DEF ArrayOk
    <2>3. Part(array.nr_cols, array.partition_cols, cell[2]) \in 0 .. Shape.cols - 1
        BY <1>1, AllCellsFacts, PartFacts DEF ArrayOk
    <2> QED BY <2>1, <2>2, <2>3 DEF Partitions, Array
<1>4. \A p \in Partitions : p[1] \in 0 .. Shape.rows - 1 /\ p[2] \in 0 .. Shape.cols - 1 /\ p = <<p[1], p[2]>>
    BY DEF Partitions, Array
<1>5. Partitions \subseteq Nat \X Nat /\ <<0, 0>> \in Partitions
    BY <1>2 DEF Partitions, Array
<1>6. IsFiniteSet(Partitions)
    <2>1. 0 \in Int /\ Shape.rows - 1 \in Int /\ Shape.cols - 1 \in Int
        BY <1>2
    <2>2. IsFiniteSet(0 .. Shape.rows - 1) /\ IsFiniteSet(0 .. Shape.cols - 1)
        BY <2>1, FS_Interval
    <2> QED BY <2>2, FS_Product DEF Partitions, Array
<1> QED BY <1>1, <1>2, <1>3, <1>4, <1>5, <1>6

(* The size of a part.                                                     *)
Size(n, m, k) == IF k < n \div m - 1 THEN m ELSE n - k * m

LEMMA PartSize ==
    ASSUME NEW n, NEW m, Fits(n, m), NEW k \in 0 .. n \div m - 1
    PROVE  /\ Size(n, m, k) \in Nat \ {0} /\ k * m \in Nat
           /\ k * m + Size(n, m, k) <= n
           /\ k < n \div m - 1 => (k + 1) * m = k * m + m /\ k * m + m <= n - 1
           /\ \A x \in 0 .. n - 1 : Part(n, m, x) = k <=> x \in k * m .. k * m + Size(n, m, k) - 1
<1> DEFINE b == n \div m
           f == k * m
<1>1. b \in Nat \ {0} /\ b * m <= n /\ n \in Nat /\ m \in Nat \ {0} /\ k \in 0 .. b - 1
    BY NumberOfParts
<1>2. f \in Nat /\ b * m \in Nat
    BY <1>1, Nonneg
<1>3. f + m <= b * m
    <2> HIDE DEF b, f
    <2>1. k \in Nat /\ b \in Nat /\ m \in Nat /\ k < b
        BY <1>1
    <2> QED BY <2>1, Product DEF f
<1>4. k < b - 1 => (k + 1) * m = f + m /\ f + m <= n - 1
    <2> SUFFICES ASSUME k < b - 1 PROVE (k + 1) * m = f + m /\ f + m <= n - 1
        OBVIOUS
    <2>1. (k + 1) * m = f + m
        BY <1>1
    <2>2. (k + 1) * m + m <= b * m
        <3> HIDE DEF b, f
        <3>1. k + 1 \in Nat /\ b \in Nat /\ m \in Nat /\ k + 1 < b
            BY <1>1
        <3> QED BY <3>1, Product
    <2> HIDE DEF b, f
    <2> QED BY <1>1, <1>2, <2>1, <2>2
<1>5. Size(n, m, k) = IF k < b - 1 THEN m ELSE n - f
    BY DEF Size
<1> HIDE DEF f, b
<1>6. Size(n, m, k) \in Nat \ {0} /\ f + Size(n, m, k) <= n
    BY <1>1, <1>2, <1>3, <1>4, <1>5
<1>7. ASSUME NEW x \in 0 .. n - 1
      PROVE  Part(n, m, x) = k <=> x \in f .. f + Size(n, m, k) - 1
    <2>1. ASSUME x \in f .. f + Size(n, m, k) - 1 PROVE Part(n, m, x) = k
        <3>1. k * m <= x /\ (k < n \div m - 1 => x < (k + 1) * m)
            <4>1. f <= x /\ (k < b - 1 => x < (k + 1) * m)
                BY <1>1, <1>2, <1>4, <1>5, <2>1
            <4> QED BY <4>1 DEF f, b
        <3> QED BY <3>1, PartIs
    <2>2. ASSUME Part(n, m, x) = k PROVE x \in f .. f + Size(n, m, k) - 1
        <3>1. f <= x /\ (k < b - 1 => x < (k + 1) * m)
            BY <2>2, PartFacts DEF f, b
        <3> QED BY <1>1, <1>2, <1>4, <1>5, <3>1
    <2> QED BY <2>1, <2>2
<1> QED BY <1>2, <1>4, <1>6, <1>7 DEF f, b

(* The sides along a border.                                               *)
IsBorder(direction, p) == p \in Partitions /\ direction \in {"south", "east"} /\ direction \in BordersOf(p)

LEMMA BorderFacts ==
    ASSUME ArrayOk, NEW direction, NEW p, IsBorder(direction, p)
    PROVE  /\ SideLength(direction, p) \in Nat
           /\ DOMAIN Sides(direction, p) = Array(2, SideLength(direction, p))
           /\ Array(2, SideLength(direction, p)) \subseteq Nat \X Nat
           /\ IsFiniteSet(Array(2, SideLength(direction, p)))
           /\ \A side \in Array(2, SideLength(direction, p)) :
                Sides(direction, p)[side] =
                    IF direction = "south"
                    THEN <<LastRow(p) + side[1], p[2] * array.partition_cols + side[2]>>
                    ELSE <<p[1] * array.partition_rows + side[2], LastCol(p) + side[1]>>
           /\ \A side \in Array(2, SideLength(direction, p)) : Sides(direction, p)[side] \in AllCells
           /\ LastRow(p) \in Int /\ LastCol(p) \in Int
           /\ p[2] * array.partition_cols \in Nat /\ p[1] * array.partition_rows \in Nat
<1> DEFINE rows == Shape.rows
           cols == Shape.cols
           height == array.partition_rows
           width == array.partition_cols
           f1 == p[1] * height
           f2 == p[2] * width
           s1 == Size(array.nr_rows, height, p[1])
           s2 == Size(array.nr_cols, width, p[2])
<1>1. p[1] \in 0 .. rows - 1 /\ p[2] \in 0 .. cols - 1 /\ p = <<p[1], p[2]>>
    BY PartitionFacts DEF IsBorder
<1>2. /\ s1 \in Nat \ {0} /\ f1 \in Nat /\ f1 + s1 <= array.nr_rows
      /\ p[1] < rows - 1 => (p[1] + 1) * height = f1 + height /\ f1 + height <= array.nr_rows - 1
    BY <1>1, PartSize, PartitionFacts DEF ArrayOk
<1>3. /\ s2 \in Nat \ {0} /\ f2 \in Nat /\ f2 + s2 <= array.nr_cols
      /\ p[2] < cols - 1 => (p[2] + 1) * width = f2 + width /\ f2 + width <= array.nr_cols - 1
    BY <1>1, PartSize, PartitionFacts DEF ArrayOk
<1>4. NrRows(p) = s1 /\ NrCols(p) = s2
    BY PartitionFacts DEF NrRows, NrCols, Size
<1>5. /\ direction = "south" => p[1] < rows - 1 /\ SideLength(direction, p) = s2
      /\ direction # "south" => direction = "east" /\ p[2] < cols - 1 /\ SideLength(direction, p) = s1
    BY <1>4 DEF IsBorder, BordersOf, SideLength
<1>6. LastRow(p) = (p[1] + 1) * height - 1 /\ LastCol(p) = (p[2] + 1) * width - 1
    BY DEF LastRow, LastCol
<1>7. height \in Nat \ {0} /\ width \in Nat \ {0} /\ array.nr_rows \in Nat /\ array.nr_cols \in Nat
    BY DEF ArrayOk, Fits
<1> DEFINE length == SideLength(direction, p)
           r == (p[1] + 1) * height
           c == (p[2] + 1) * width
<1>8. r \in Nat /\ c \in Nat
    <2>1. p[1] + 1 \in Nat /\ p[2] + 1 \in Nat
        BY <1>1, PartitionFacts
    <2> QED BY <1>7, <2>1, Nonneg
<1>9. length \in Nat
    BY <1>2, <1>3, <1>5
<1>10. /\ DOMAIN Sides(direction, p) = Array(2, length)
       /\ \A side \in Array(2, length) :
                Sides(direction, p)[side] =
                    IF direction = "south" THEN <<LastRow(p) + side[1], f2 + side[2]>>
                    ELSE <<f1 + side[2], LastCol(p) + side[1]>>
    BY DEF Sides
<1>11. \A side \in Array(2, length) : side[1] \in 0 .. 1 /\ side[2] \in 0 .. length - 1
    BY DEF Array
<1> HIDE DEF rows, cols, height, width, f1, f2, s1, s2, r, c, length
<1>12. LastRow(p) = r - 1 /\ LastCol(p) = c - 1
    BY <1>6 DEF r, c
<1>13. ASSUME NEW side \in Array(2, length) PROVE Sides(direction, p)[side] \in AllCells
    <2>1. side[1] \in 0 .. 1 /\ side[2] \in 0 .. length - 1
        BY <1>11
    <2>2. CASE direction = "south"
        <3>1. r = f1 + height /\ f1 + height <= array.nr_rows - 1 /\ length = s2
            BY <1>2, <1>5, <2>2 DEF r, rows, length
        <3>2. r - 1 + side[1] \in 0 .. array.nr_rows - 1 /\ f2 + side[2] \in 0 .. array.nr_cols - 1
            BY <1>2, <1>3, <1>7, <2>1, <3>1
        <3>3. Sides(direction, p)[side] = <<r - 1 + side[1], f2 + side[2]>>
            BY <1>10, <1>12, <2>2
        <3>4. \A row \in 0 .. array.nr_rows - 1, col \in 0 .. array.nr_cols - 1 : <<row, col>> \in AllCells
            BY AllCellsFacts
        <3>5. <<r - 1 + side[1], f2 + side[2]>> \in AllCells
            BY <3>2, <3>4
        <3> QED BY <3>3, <3>5
    <2>3. CASE direction # "south"
        <3>1. c = f2 + width /\ f2 + width <= array.nr_cols - 1 /\ length = s1
            BY <1>3, <1>5, <2>3 DEF c, cols, length
        <3>2. f1 + side[2] \in 0 .. array.nr_rows - 1 /\ c - 1 + side[1] \in 0 .. array.nr_cols - 1
            BY <1>2, <1>3, <1>7, <2>1, <3>1
        <3>3. Sides(direction, p)[side] = <<f1 + side[2], c - 1 + side[1]>>
            BY <1>10, <1>12, <2>3
        <3>4. \A row \in 0 .. array.nr_rows - 1, col \in 0 .. array.nr_cols - 1 : <<row, col>> \in AllCells
            BY AllCellsFacts
        <3>5. <<f1 + side[2], c - 1 + side[1]>> \in AllCells
            BY <3>2, <3>4
        <3> QED BY <3>3, <3>5
    <2> QED BY <2>2, <2>3
<1>14. Array(2, length) \subseteq Nat \X Nat /\ IsFiniteSet(Array(2, length))
    <2>1. 0 \in Int /\ 1 \in Int /\ length - 1 \in Int
        BY <1>9
    <2>2. IsFiniteSet(0 .. 1) /\ IsFiniteSet(0 .. length - 1)
        BY <2>1, FS_Interval
    <2>3. 0 .. 2 - 1 = 0 .. 1
        OBVIOUS
    <2> QED BY <1>9, <2>2, <2>3, FS_Product DEF Array
<1>15. LastRow(p) \in Int /\ LastCol(p) \in Int /\ f1 \in Nat /\ f2 \in Nat
    BY <1>2, <1>3, <1>8, <1>12
<1> QED BY <1>9, <1>10, <1>13, <1>14, <1>15 DEF length, f1, f2, height, width

(* Sides that touch are cells that touch.                                  *)
LEMMA SidesTouch ==
    ASSUME ArrayOk, NEW direction, NEW p, IsBorder(direction, p), NEW diagonal,
           NEW a \in Array(2, SideLength(direction, p)), NEW b \in Array(2, SideLength(direction, p))
    PROVE  Touch(diagonal, a, b) <=> Touch(diagonal, Sides(direction, p)[a], Sides(direction, p)[b])
<1>1. /\ a[1] \in Int /\ a[2] \in Int /\ b[1] \in Int /\ b[2] \in Int
      /\ a = <<a[1], a[2]>> /\ b = <<b[1], b[2]>>
    BY BorderFacts
<1>2. ASSUME NEW r \in Int, NEW c \in Int, NEW A, NEW B,
             \/ A = <<r + a[1], c + a[2]>> /\ B = <<r + b[1], c + b[2]>>
             \/ A = <<r + a[2], c + a[1]>> /\ B = <<r + b[2], c + b[1]>>
      PROVE  Touch(diagonal, a, b) <=> Touch(diagonal, A, B)
    <2>1. a = b <=> a[1] = b[1] /\ a[2] = b[2]
        BY <1>1
    <2>2. CASE A = <<r + a[1], c + a[2]>> /\ B = <<r + b[1], c + b[2]>>
        <3>1. A = B <=> r + a[1] = r + b[1] /\ c + a[2] = c + b[2]
            BY <2>2
        <3>2. A[1] = r + a[1] /\ A[2] = c + a[2] /\ B[1] = r + b[1] /\ B[2] = c + b[2]
            BY <2>2
        <3> QED BY <1>1, <2>1, <3>1, <3>2 DEF Touch
    <2>3. CASE A = <<r + a[2], c + a[1]>> /\ B = <<r + b[2], c + b[1]>>
        <3>1. A = B <=> r + a[2] = r + b[2] /\ c + a[1] = c + b[1]
            BY <2>3
        <3>2. A[1] = r + a[2] /\ A[2] = c + a[1] /\ B[1] = r + b[2] /\ B[2] = c + b[1]
            BY <2>3
        <3> QED BY <1>1, <2>1, <3>1, <3>2 DEF Touch
    <2> QED BY <1>2, <2>2, <2>3
<1> DEFINE A == Sides(direction, p)[a]
           B == Sides(direction, p)[b]
<1>3. CASE direction = "south"
    <2>1. /\ A = <<LastRow(p) + a[1], p[2] * array.partition_cols + a[2]>>
          /\ B = <<LastRow(p) + b[1], p[2] * array.partition_cols + b[2]>>
        BY <1>3, BorderFacts
    <2>3. LastRow(p) \in Int /\ p[2] * array.partition_cols \in Int
        <3>1. LastRow(p) \in Int /\ p[2] * array.partition_cols \in Nat
            BY BorderFacts
        <3> QED BY <3>1
    <2> HIDE DEF A, B
    <2>2. Touch(diagonal, a, b) <=> Touch(diagonal, A, B)
        BY <1>2, <2>1, <2>3
    <2> QED BY <2>2 DEF A, B
<1>4. CASE direction # "south"
    <2>1. /\ A = <<p[1] * array.partition_rows + a[2], LastCol(p) + a[1]>>
          /\ B = <<p[1] * array.partition_rows + b[2], LastCol(p) + b[1]>>
        <3>1. \A side \in Array(2, SideLength(direction, p)) :
                Sides(direction, p)[side] = <<p[1] * array.partition_rows + side[2], LastCol(p) + side[1]>>
            <4>1. \A side \in Array(2, SideLength(direction, p)) :
                    Sides(direction, p)[side] =
                        IF direction = "south"
                        THEN <<LastRow(p) + side[1], p[2] * array.partition_cols + side[2]>>
                        ELSE <<p[1] * array.partition_rows + side[2], LastCol(p) + side[1]>>
                BY BorderFacts
            <4> QED BY <1>4, <4>1
        <3> QED BY <3>1
    <2>3. LastCol(p) \in Int /\ p[1] * array.partition_rows \in Int
        <3>1. LastCol(p) \in Int /\ p[1] * array.partition_rows \in Nat
            BY BorderFacts
        <3> QED BY <3>1
    <2> HIDE DEF A, B
    <2>2. Touch(diagonal, a, b) <=> Touch(diagonal, A, B)
        BY <1>2, <2>1, <2>3
    <2> QED BY <2>2 DEF A, B
<1> QED BY <1>3, <1>4

-----------------------------------------------------------------------------
(* The clumps of the array, and those of its partitions.                   *)

Global == Clumps(array.zone, array.diagonal)

InSameClump(cell, other) == \E clump \in Global : cell \in clump /\ other \in clump

PartZone(p) == [cell \in PartCells(p) |-> array.zone[cell]]

IsSolved(p) == local[p] = ClumpIds(PartZone(p), array.diagonal)

Solved ==
    /\ ArrayOk
    /\ DOMAIN local = Partitions
    /\ \A p \in Partitions : IsSolved(p)

LEMMA GlobalFacts ==
    ASSUME ArrayOk
    PROVE  DivideIntoClumps(array.zone, array.diagonal, Global, Zoned)
<1>1. IsFiniteSet(DOMAIN array.zone) /\ DOMAIN array.zone \subseteq Int \X Int
    BY AllCellsFacts DEF AllCells
<1> QED BY <1>1, ClumpsDivide DEF Global, Zoned, AllCells

LEMMA GlobalClumps ==
    ASSUME ArrayOk
    PROVE  /\ \A clump \in Global : clump # {} /\ clump \subseteq Zoned
           /\ \A c \in Zoned : \E clump \in Global : c \in clump
           /\ \A clump, other \in Global : (\E c \in clump : c \in other) => clump = other
           /\ Zoned \subseteq AllCells /\ \A c \in Zoned : array.zone[c] # NoData
BY GlobalFacts DEF DivideIntoClumps, Zoned

(* A clump among some of the cells is part of a clump of the array, if     *)
(* what touches there touches in the array.                                *)
LEMMA PartOfClump ==
    ASSUME ArrayOk, NEW cells, NEW at, at \in [cells -> AllCells],
           IsFiniteSet(cells), cells \subseteq Nat \X Nat,
           \A a, b \in cells : Touch(array.diagonal, a, b) => Touch(array.diagonal, at[a], at[b]),
           NEW zone, zone = [c \in cells |-> array.zone[at[c]]],
           NEW some \in Clumps(zone, array.diagonal)
    PROVE  /\ some # {} /\ some \subseteq cells
           /\ \E clump \in Global : \A c \in some : at[c] \in clump
<1> DEFINE zoned == {c \in cells : zone[c] # NoData}
<1>1. /\ some # {} /\ some \subseteq zoned
      /\ \A part \in SUBSET zoned :
            IsClosed(zone, array.diagonal, part, zoned) /\ (\E c \in some : c \in part) => some \subseteq part
    <2>1. IsFiniteSet(DOMAIN zone) /\ DOMAIN zone \subseteq Int \X Int /\ DOMAIN zone = cells
        OBVIOUS
    <2>2. DivideIntoClumps(zone, array.diagonal, Clumps(zone, array.diagonal),
                            {c \in DOMAIN zone : zone[c] # NoData})
        BY <2>1, ClumpsDivide
    <2> HIDE DEF zoned
    <2>3. DivideIntoClumps(zone, array.diagonal, Clumps(zone, array.diagonal), zoned)
        BY <2>1, <2>2 DEF zoned
    <2> QED BY <2>3 DEF DivideIntoClumps
<1>2. PICK first \in some : first \in zoned
    BY <1>1
<1>3. \A c \in zoned : c \in cells /\ at[c] \in Zoned /\ zone[c] = array.zone[at[c]]
    BY DEF Zoned
<1>4. PICK clump \in Global : at[first] \in clump
    BY <1>2, <1>3, GlobalClumps
<1> DEFINE part == {c \in zoned : at[c] \in clump}
<1>5. IsClosed(zone, array.diagonal, part, zoned)
    <2> SUFFICES ASSUME NEW a \in part, NEW b \in zoned, zone[a] = zone[b], Touch(array.diagonal, a, b)
                 PROVE  b \in part
        BY DEF IsClosed
    <2>1. /\ at[a] \in clump /\ at[b] \in Zoned /\ array.zone[at[a]] = array.zone[at[b]]
          /\ Touch(array.diagonal, at[a], at[b])
        BY <1>3
    <2>2. IsClosed(array.zone, array.diagonal, clump, Zoned)
        BY GlobalFacts DEF DivideIntoClumps
    <2>3. at[b] \in clump
        BY <2>1, <2>2 DEF IsClosed
    <2> QED BY <2>3
<1>6. some \subseteq part
    <2>1. part \in SUBSET zoned /\ first \in part
        BY <1>2, <1>4
    <2> HIDE DEF part, zoned
    <2> QED BY <1>1, <1>5, <2>1
<1>7. \A c \in some : at[c] \in clump
    BY <1>6
<1> QED BY <1>1, <1>4, <1>7

LEMMA PartCellsFacts ==
    ASSUME ArrayOk, NEW p \in Partitions
    PROVE  /\ PartCells(p) \subseteq AllCells
           /\ IsFiniteSet(PartCells(p)) /\ PartCells(p) \subseteq Nat \X Nat
<1>1. PartCells(p) \subseteq AllCells
    BY DEF PartCells
<1> QED BY <1>1, AllCellsFacts, FS_Subset

(* The ids of a partition that is solved.                                  *)
LEMMA LocalFacts ==
    ASSUME ArrayOk, NEW p \in Partitions, IsSolved(p)
    PROVE  /\ DOMAIN local[p] = PartCells(p)
           /\ \A c \in PartCells(p) : array.zone[c] = NoData <=> local[p][c] = NoData
           /\ \A c \in PartCells(p) : array.zone[c] # NoData =>
                local[p][c] \in LocalIds(p) /\ local[p][c] < Cardinality(LocalIds(p))
           /\ \A c, d \in PartCells(p) : c \in Zoned /\ d \in Zoned /\ local[p][c] = local[p][d] =>
                InSameClump(c, d)
           /\ IsFiniteSet(LocalIds(p)) /\ LocalIds(p) \subseteq Nat
<1> DEFINE cells == PartCells(p)
           zone == PartZone(p)
           ids == local[p]
           at == [c \in cells |-> c]
           some == Clumps(zone, array.diagonal)
<1>1. DOMAIN zone = cells /\ \A c \in cells : zone[c] = array.zone[c]
    BY DEF PartZone
<1>2. IsFiniteSet(cells) /\ cells \subseteq Nat \X Nat /\ cells \subseteq AllCells
    BY PartCellsFacts
<1>3. /\ DOMAIN ids = DOMAIN zone
      /\ \A c \in DOMAIN zone : zone[c] = NoData => ids[c] = NoData
      /\ \A c \in DOMAIN zone : zone[c] # NoData =>
            ids[c] \in Nat /\ ids[c] < Cardinality({ids[d] : d \in DOMAIN zone} \ {NoData})
      /\ \A c, d \in DOMAIN zone : zone[c] # NoData /\ zone[d] # NoData /\ ids[c] = ids[d] =>
            \E clump \in some : c \in clump /\ d \in clump
    <2>1. ids = ClumpIds(zone, array.diagonal) /\ NoData \notin Nat
        BY DEF IsSolved, ArrayOk
    <2> HIDE DEF cells, zone, ids
    <2> QED BY <1>1, <1>2, <2>1, IdsOfClumps
<1>4. LocalIds(p) = {ids[d] : d \in cells} \ {NoData} /\ NoData \notin Nat
    BY DEF LocalIds, ArrayOk
<1>5. ASSUME NEW clump \in some, NEW c \in clump, NEW d \in clump PROVE InSameClump(c, d)
    <2>1. zone = [c_ \in cells |-> array.zone[at[c_]]]
        BY DEF PartZone
    <2>2. at \in [cells -> AllCells]
        BY <1>2
    <2>3. \A a, b \in cells : Touch(array.diagonal, a, b) => Touch(array.diagonal, at[a], at[b])
        OBVIOUS
    <2>4. clump \subseteq cells /\ \E g \in Global : \A c_ \in clump : at[c_] \in g
        <3> HIDE DEF cells, zone, at
        <3> QED BY <1>2, <2>1, <2>2, <2>3, PartOfClump
    <2>5. at[c] = c /\ at[d] = d
        BY <2>4
    <2> HIDE DEF at
    <2> QED BY <2>4, <2>5 DEF InSameClump
<1> HIDE DEF cells, zone, ids, some
<1>6. \A c \in cells : ids[c] \in LocalIds(p) <=> ids[c] # NoData
    BY <1>4
<1>7. IsFiniteSet(LocalIds(p)) /\ LocalIds(p) \subseteq Nat
    <2> DEFINE range == {ids[d] : d \in cells}
               f == [d \in cells |-> ids[d]]
    <2>1. f \in Surjection(cells, range)
        BY DEF Surjection
    <2>2. IsFiniteSet(range)
        <3> HIDE DEF f, range
        <3> QED BY <1>2, <2>1, FS_Surjection
    <2>3. IsFiniteSet(range \ {NoData})
        <3> HIDE DEF range
        <3> QED BY <2>2, FS_Difference
    <2> QED BY <1>1, <1>3, <1>4, <2>3
<1>8. \A c, d \in cells : c \in Zoned /\ d \in Zoned /\ ids[c] = ids[d] => InSameClump(c, d)
    BY <1>1, <1>3, <1>5 DEF Zoned
<1>9. \A c \in cells : array.zone[c] = NoData <=> ids[c] = NoData
    BY <1>1, <1>3, <1>4
<1>10. \A c \in cells : array.zone[c] # NoData => ids[c] \in LocalIds(p) /\ ids[c] < Cardinality(LocalIds(p))
    BY <1>1, <1>3, <1>4, <1>6
<1>11. DOMAIN ids = cells
    BY <1>1, <1>3
<1> QED BY <1>7, <1>8, <1>9, <1>10, <1>11 DEF cells, ids

-----------------------------------------------------------------------------
(* The global ids that local clumps have before the tables are updated.    *)

OldId(key) == FirstId(key[1]) + key[2]

IdsOf(clump) == {OldId(Key(cell)) : cell \in clump}

LEMMA FirstIdFacts ==
    ASSUME Solved
    PROVE  /\ IsFiniteSet(LocalClumps)
           /\ \A p \in Partitions : FirstId(p) \in Nat /\ Cardinality(LocalIds(p)) \in Nat
           /\ \A p, q \in Partitions : Before(p, q) => FirstId(p) + Cardinality(LocalIds(p)) <= FirstId(q)
<1>1. ArrayOk /\ \A p \in Partitions : IsFiniteSet(LocalIds(p)) /\ LocalIds(p) \subseteq Nat
    BY LocalFacts DEF Solved
<1>2. IsFiniteSet(LocalClumps)
    <2> DEFINE parts == {{p} \X LocalIds(p) : p \in Partitions}
               f == [p \in Partitions |-> {p} \X LocalIds(p)]
    <2>1. \A p \in Partitions : IsFiniteSet({p} \X LocalIds(p))
        BY <1>1, FS_Singleton, FS_Product
    <2>2. f \in Surjection(Partitions, parts)
        BY DEF Surjection
    <2>3. IsFiniteSet(parts)
        <3>1. IsFiniteSet(Partitions)
            BY <1>1, PartitionFacts
        <3> HIDE DEF f, parts
        <3> QED BY <2>2, <3>1, FS_Surjection
    <2>4. \A part \in parts : IsFiniteSet(part)
        BY <2>1
    <2>5. IsFiniteSet(UNION parts)
        <3> HIDE DEF parts
        <3> QED BY <2>3, <2>4, FS_UNION
    <2> QED BY <2>5 DEF LocalClumps
<1> DEFINE Earlier(p) == {key \in LocalClumps : Before(key[1], p)}
<1>3. \A p \in Partitions : IsFiniteSet(Earlier(p)) /\ FirstId(p) = Cardinality(Earlier(p))
    BY <1>2, FS_Subset DEF FirstId
<1>4. \A p \in Partitions : FirstId(p) \in Nat /\ Cardinality(LocalIds(p)) \in Nat
    BY <1>1, <1>3, FS_CardinalityType
<1>5. ASSUME NEW p \in Partitions, NEW q \in Partitions, Before(p, q)
      PROVE  FirstId(p) + Cardinality(LocalIds(p)) <= FirstId(q)
    <2> DEFINE own == {p} \X LocalIds(p)
    <2>1. own \subseteq LocalClumps /\ \A key \in own : key[1] = p
        BY DEF LocalClumps
    <2>2. \A key \in LocalClumps : key[1] \in Partitions
        BY DEF LocalClumps
    <2>3. Earlier(p) \cup own \in SUBSET Earlier(q)
        <3> SUFFICES ASSUME NEW key \in Earlier(p) \cup own PROVE key \in Earlier(q)
            OBVIOUS
        <3>1. CASE key \in own
            BY <1>5, <2>1, <3>1
        <3>2. CASE key \in Earlier(p)
            <4>1. Before(key[1], p) /\ key[1] \in Partitions /\ key \in LocalClumps
                BY <2>2, <3>2
            <4>2. key[1] \in Nat \X Nat /\ p \in Nat \X Nat /\ q \in Nat \X Nat
                BY <1>1, <4>1, PartitionFacts
            <4>3. Before(key[1], q)
                BY <1>5, <4>1, <4>2, CellsAreOrdered
            <4> QED BY <4>1, <4>3
        <3> QED BY <3>1, <3>2
    <2>4. Earlier(p) \cap own = {}
        <3>1. ~Before(p, p)
            BY <1>1, PartitionFacts, CellsAreOrdered
        <3> QED BY <2>1, <3>1
    <2>5. IsFiniteSet(own) /\ Cardinality(own) = Cardinality(LocalIds(p))
        <3>1. IsFiniteSet({p}) /\ Cardinality({p}) = 1
            BY FS_Singleton
        <3>2. IsFiniteSet(own) /\ Cardinality(own) = Cardinality({p}) * Cardinality(LocalIds(p))
            BY <1>1, <3>1, FS_Product
        <3> HIDE DEF own
        <3> QED BY <1>4, <3>1, <3>2
    <2> HIDE DEF own, Earlier
    <2>6. Cardinality(Earlier(p) \cup own) = Cardinality(Earlier(p)) + Cardinality(own) - 0
        BY <1>3, <2>4, <2>5, FS_Union, FS_EmptySet
    <2>7. Cardinality(Earlier(p) \cup own) <= Cardinality(Earlier(q))
        BY <1>3, <2>3, FS_Subset
    <2> QED BY <1>3, <1>4, <2>5, <2>6, <2>7
<1> QED BY <1>2, <1>4, <1>5

LEMMA KeyFacts ==
    ASSUME Solved
    PROVE  /\ \A cell \in Zoned : Key(cell) \in LocalClumps
           /\ \A key \in LocalClumps : key[1] \in Partitions /\ key[2] \in LocalIds(key[1]) /\ OldId(key) \in Nat
           /\ \A cell, other \in Zoned : OldId(Key(cell)) = OldId(Key(other)) =>
                Key(cell) = Key(other) /\ InSameClump(cell, other)
           /\ \A key \in LocalClumps : \E cell \in Zoned : Key(cell) = key
<1>1. ArrayOk /\ \A p \in Partitions : IsSolved(p)
    BY DEF Solved
<1>2. \A p \in Partitions : FirstId(p) \in Nat /\ LocalIds(p) \subseteq Nat
    BY <1>1, FirstIdFacts, LocalFacts
<1>3. ASSUME NEW key \in LocalClumps
      PROVE  /\ key[1] \in Partitions /\ key[2] \in LocalIds(key[1]) /\ OldId(key) \in Nat
             /\ key = <<key[1], key[2]>>
    <2>1. key[1] \in Partitions /\ key[2] \in LocalIds(key[1]) /\ key = <<key[1], key[2]>>
        BY DEF LocalClumps
    <2>2. FirstId(key[1]) \in Nat /\ key[2] \in Nat
        BY <1>2, <2>1
    <2> QED BY <2>1, <2>2 DEF OldId
<1>4. ASSUME NEW cell \in Zoned
      PROVE  /\ PartitionOf(cell) \in Partitions /\ cell \in PartCells(PartitionOf(cell))
             /\ Key(cell)[1] = PartitionOf(cell)
             /\ Key(cell)[2] = local[PartitionOf(cell)][cell]
             /\ Key(cell)[2] \in Nat /\ Key(cell)[2] < Cardinality(LocalIds(PartitionOf(cell)))
             /\ Key(cell) \in LocalClumps
    <2>1. cell \in AllCells /\ array.zone[cell] # NoData
        BY DEF Zoned
    <2>2. PartitionOf(cell) \in Partitions /\ cell \in PartCells(PartitionOf(cell))
        BY <1>1, <2>1, PartitionFacts DEF PartCells
    <2>3. /\ local[PartitionOf(cell)][cell] \in LocalIds(PartitionOf(cell))
          /\ local[PartitionOf(cell)][cell] < Cardinality(LocalIds(PartitionOf(cell)))
        BY <1>1, <2>1, <2>2, LocalFacts
    <2>4. Key(cell)[1] = PartitionOf(cell) /\ Key(cell)[2] = local[PartitionOf(cell)][cell]
        BY DEF Key
    <2>5. Key(cell) \in LocalClumps
        BY <2>2, <2>3 DEF Key, LocalClumps
    <2> QED BY <1>2, <2>2, <2>3, <2>4, <2>5
<1>5. ASSUME NEW cell \in Zoned, NEW other \in Zoned, OldId(Key(cell)) = OldId(Key(other))
      PROVE  Key(cell) = Key(other) /\ InSameClump(cell, other)
    <2> DEFINE p == PartitionOf(cell)
               q == PartitionOf(other)
               i == Key(cell)[2]
               j == Key(other)[2]
    <2>1. p \in Partitions /\ i \in Nat /\ i < Cardinality(LocalIds(p)) /\ Key(cell)[1] = p
        BY <1>4
    <2>2. q \in Partitions /\ j \in Nat /\ j < Cardinality(LocalIds(q)) /\ Key(other)[1] = q
        BY <1>4
    <2>3. FirstId(p) + i = FirstId(q) + j
        BY <1>5, <2>1, <2>2 DEF OldId
    <2>4. /\ FirstId(p) \in Nat /\ Cardinality(LocalIds(p)) \in Nat
          /\ FirstId(q) \in Nat /\ Cardinality(LocalIds(q)) \in Nat
          /\ Before(p, q) => FirstId(p) + Cardinality(LocalIds(p)) <= FirstId(q)
          /\ Before(q, p) => FirstId(q) + Cardinality(LocalIds(q)) <= FirstId(p)
        BY <2>1, <2>2, FirstIdFacts
    <2>5. p = q
        <3>1. p = q \/ Before(p, q) \/ Before(q, p)
            BY <1>1, <2>1, <2>2, PartitionFacts, CellsAreOrdered
        <3> HIDE DEF p, q, i, j
        <3> QED BY <2>1, <2>2, <2>3, <2>4, <3>1
    <2>6. i = j
        <3> HIDE DEF p, q, i, j
        <3> QED BY <2>1, <2>2, <2>3, <2>4, <2>5
    <2>7. Key(cell) = Key(other)
        <3>1. Key(cell) = <<p, i>> /\ Key(other) = <<q, j>>
            BY DEF Key
        <3> HIDE DEF p, q, i, j
        <3> QED BY <2>5, <2>6, <3>1
    <2>8. InSameClump(cell, other)
        <3>1. cell \in PartCells(p) /\ other \in PartCells(p) /\ local[p][cell] = local[p][other]
            BY <1>4, <2>5, <2>6
        <3>2. IsSolved(p)
            BY <1>1, <2>1
        <3> HIDE DEF p, q, i, j
        <3> QED BY <1>1, <2>1, <3>1, <3>2, LocalFacts
    <2> QED BY <2>7, <2>8
<1>6. ASSUME NEW key \in LocalClumps PROVE \E cell \in Zoned : Key(cell) = key
    <2>1. PICK cell \in PartCells(key[1]) : local[key[1]][cell] = key[2] /\ key[2] # NoData
        BY <1>3 DEF LocalIds
    <2>2. cell \in AllCells /\ PartitionOf(cell) = key[1]
        BY <2>1 DEF PartCells
    <2>3. array.zone[cell] # NoData
        BY <1>1, <1>3, <2>1, LocalFacts
    <2> QED BY <1>3, <2>1, <2>2, <2>3 DEF Zoned, Key
<1> QED BY <1>3, <1>4, <1>5, <1>6

(* Clumps have different ids.                                              *)
LEMMA IdsTellClumps ==
    ASSUME Solved
    PROVE  /\ \A clump \in Global : IdsOf(clump) \subseteq Nat /\ IdsOf(clump) # {}
           /\ \A clump, other \in Global : (\E id \in IdsOf(clump) : id \in IdsOf(other)) => clump = other
           /\ \A clump \in Global : \A cell \in clump : cell \in Zoned /\ OldId(Key(cell)) \in IdsOf(clump)
<1>1. \A clump \in Global : \A cell \in clump : cell \in Zoned /\ OldId(Key(cell)) \in IdsOf(clump)
    BY GlobalClumps DEF Solved, IdsOf
<1>2. \A clump \in Global : IdsOf(clump) \subseteq Nat /\ IdsOf(clump) # {}
    BY <1>1, KeyFacts, GlobalClumps DEF IdsOf, Solved
<1>3. ASSUME NEW clump \in Global, NEW other \in Global, NEW id \in IdsOf(clump), id \in IdsOf(other)
      PROVE  clump = other
    <2>1. PICK c \in clump : id = OldId(Key(c))
        BY DEF IdsOf
    <2>2. PICK d \in other : id = OldId(Key(d))
        BY <1>3 DEF IdsOf
    <2>3. PICK third \in Global : c \in third /\ d \in third
        BY <1>1, <2>1, <2>2, KeyFacts DEF InSameClump
    <2>4. clump = third /\ other = third
        BY <2>3, GlobalClumps DEF Solved
    <2> QED BY <2>4
<1> QED BY <1>1, <1>2, <1>3

-----------------------------------------------------------------------------
(* The collections, and the tables that say in which one a clump is.       *)

Tabled ==
    /\ Solved
    /\ lut = [p \in Partitions |-> [id \in LocalIds(p) |-> FirstId(p) + id]]

IsWithin(ids) == ids = {} \/ \E clump \in Global : ids \subseteq IdsOf(clump)

(* Collections hold ids of clumps that belong together, and those of the   *)
(* clumps that are said to be in them.                                     *)
Serves(state) ==
    /\ state.collections \in Seq(SUBSET Nat)
    /\ \A k \in DOMAIN state.collections : IsWithin(state.collections[k])
    /\ DOMAIN state.index \subseteq LocalClumps
    /\ \A key \in DOMAIN state.index :
        /\ state.index[key] \in DOMAIN state.collections
        /\ OldId(key) \in state.collections[state.index[key]]

Grown(before, after) ==
    /\ DOMAIN before \subseteq DOMAIN after
    /\ \A k \in DOMAIN before : before[k] \subseteq after[k]

AreTogether(ids, collections_) == \E k \in DOMAIN collections_ : ids \subseteq collections_[k]

OldIds(keys) == {OldId(key) : key \in keys}

LEMMA GlobalIdIsOld ==
    ASSUME Tabled
    PROVE  \A key \in LocalClumps : GlobalId(key) = OldId(key)
BY KeyFacts DEF Tabled, GlobalId, OldId

LEMMA GrownFurther ==
    ASSUME NEW a, NEW b, NEW c, Grown(a, b), Grown(b, c)
    PROVE  Grown(a, c)
BY DEF Grown

LEMMA StayTogether ==
    ASSUME NEW ids, NEW a, NEW b, Grown(a, b), AreTogether(ids, a)
    PROVE  AreTogether(ids, b)
BY DEF Grown, AreTogether

(* Ids of one clump are added to collections of that clump.                *)
Adds(extended, to, keys, clump) ==
    /\ keys \subseteq LocalClumps /\ OldIds(keys) \subseteq IdsOf(clump)
    /\ to \subseteq DOMAIN extended
    /\ \A k \in to : extended[k] = {} \/ \E id \in extended[k] : id \in IdsOf(clump)

Added(extended, to, keys) ==
    [k \in DOMAIN extended |-> IF k \in to THEN extended[k] \cup OldIds(keys) ELSE extended[k]]

LEMMA AddedServes ==
    ASSUME Solved, NEW state, Serves(state), NEW extended,
           extended = state.collections \/ extended = Append(state.collections, {}),
           NEW to, NEW keys, NEW clump \in Global, Adds(extended, to, keys, clump), NEW idx \in to,
           NEW after, after.collections = Added(extended, to, keys),
           after.index = Recorded(state.index, keys, idx)
    PROVE  /\ Serves(after)
           /\ Grown(state.collections, after.collections)
           /\ AreTogether(OldIds(keys), after.collections)
<1> DEFINE cs == after.collections
           ids == OldIds(keys)
<1>1. /\ state.collections \in Seq(SUBSET Nat)
      /\ \A k \in DOMAIN state.collections : IsWithin(state.collections[k])
    BY DEF Serves
<1>2. /\ extended \in Seq(SUBSET Nat)
      /\ DOMAIN state.collections \subseteq DOMAIN extended
      /\ \A k \in DOMAIN state.collections : extended[k] = state.collections[k]
      /\ \A k \in DOMAIN extended : k \notin DOMAIN state.collections => extended[k] = {}
    <2>1. CASE extended = state.collections
        BY <1>1, <2>1
    <2>2. CASE extended = Append(state.collections, {})
        <3>1. /\ Append(state.collections, {}) \in Seq(SUBSET Nat)
              /\ Len(Append(state.collections, {})) = Len(state.collections) + 1
              /\ \A k \in 1 .. Len(state.collections) : Append(state.collections, {})[k] = state.collections[k]
              /\ Append(state.collections, {})[Len(state.collections) + 1] = {}
            BY <1>1, AppendProperties
        <3>2. /\ DOMAIN extended = 1 .. Len(state.collections) + 1
              /\ DOMAIN state.collections = 1 .. Len(state.collections)
              /\ Len(state.collections) \in Nat
            BY <1>1, <2>2, <3>1
        <3>3. extended \in Seq(SUBSET Nat)
            BY <2>2, <3>1
        <3>4. \A k \in DOMAIN state.collections : extended[k] = state.collections[k]
            BY <2>2, <3>1, <3>2
        <3>5. DOMAIN state.collections \subseteq DOMAIN extended
            BY <3>2
        <3>6. ASSUME NEW k \in DOMAIN extended, k \notin DOMAIN state.collections PROVE extended[k] = {}
            <4>1. k = Len(state.collections) + 1
                BY <3>2, <3>6
            <4> QED BY <2>2, <3>1, <4>1
        <3> QED BY <3>3, <3>4, <3>5, <3>6
    <2> QED BY <2>1, <2>2
<1>3. ids \subseteq Nat /\ ids \subseteq IdsOf(clump) /\ to \subseteq DOMAIN extended
    BY IdsTellClumps DEF Adds
<1>4. /\ DOMAIN cs = DOMAIN extended
      /\ \A k \in DOMAIN extended : cs[k] = IF k \in to THEN extended[k] \cup ids ELSE extended[k]
    BY DEF Added
<1>5. \A k \in DOMAIN extended : IsWithin(extended[k])
    BY <1>1, <1>2 DEF IsWithin
<1>6. cs \in Seq(SUBSET Nat)
    <2>1. PICK n \in Nat : extended \in [1 .. n -> SUBSET Nat]
        BY <1>2, SeqDef
    <2>2. cs = [k \in DOMAIN extended |-> IF k \in to THEN extended[k] \cup ids ELSE extended[k]]
        BY DEF Added
    <2> HIDE DEF cs, ids
    <2>3. cs \in [1 .. n -> SUBSET Nat]
        BY <1>3, <2>1, <2>2
    <2> QED BY <2>3, SeqDef
<1> HIDE DEF cs, ids
<1>7. ASSUME NEW k \in DOMAIN cs PROVE IsWithin(cs[k])
    <2>1. CASE k \notin to
        BY <1>4, <1>5, <1>7, <2>1
    <2>2. CASE k \in to
        <3>1. cs[k] = extended[k] \cup ids /\ IsWithin(extended[k])
            BY <1>4, <1>5, <1>7, <2>2
        <3>2. CASE extended[k] = {}
            BY <1>3, <3>1, <3>2 DEF IsWithin
        <3>3. CASE extended[k] # {}
            <4>1. PICK other \in Global : extended[k] \subseteq IdsOf(other)
                BY <3>1, <3>3 DEF IsWithin
            <4>2. PICK id \in extended[k] : id \in IdsOf(clump)
                BY <2>2, <3>3 DEF Adds
            <4>3. other = clump
                BY <4>1, <4>2, IdsTellClumps
            <4> QED BY <1>3, <3>1, <4>1, <4>3 DEF IsWithin
        <3> QED BY <3>2, <3>3
    <2> QED BY <2>1, <2>2
<1>8. \A k \in DOMAIN extended : extended[k] \subseteq cs[k]
    BY <1>4
<1>9. Grown(state.collections, cs)
    BY <1>2, <1>4, <1>8 DEF Grown
<1>10. idx \in DOMAIN cs /\ ids \subseteq cs[idx]
    BY <1>3, <1>4
<1> DEFINE table == after.index
<1>11. /\ DOMAIN table = DOMAIN state.index \cup keys
       /\ \A key \in DOMAIN table : table[key] = IF key \in DOMAIN state.index THEN state.index[key] ELSE idx
    BY DEF Recorded
<1> HIDE DEF table
<1>12. DOMAIN table \subseteq LocalClumps
    BY <1>11 DEF Serves, Adds
<1>13. ASSUME NEW key \in DOMAIN table
       PROVE  table[key] \in DOMAIN cs /\ OldId(key) \in cs[table[key]]
    <2>1. CASE key \in DOMAIN state.index
        <3>1. /\ table[key] = state.index[key] /\ state.index[key] \in DOMAIN state.collections
              /\ OldId(key) \in state.collections[state.index[key]]
            BY <1>11, <2>1 DEF Serves
        <3> QED BY <1>9, <3>1 DEF Grown
    <2>2. CASE key \notin DOMAIN state.index
        <3>1. table[key] = idx /\ key \in keys
            BY <1>11, <1>13, <2>2
        <3> QED BY <1>10, <3>1 DEF ids, OldIds
    <2> QED BY <2>1, <2>2
<1>14. Serves(after)
    BY <1>6, <1>7, <1>12, <1>13 DEF Serves, cs, table
<1>15. AreTogether(ids, cs)
    BY <1>10 DEF AreTogether
<1> QED BY <1>9, <1>14, <1>15 DEF cs, ids

(* A clump of a border that is in one clump of the array is merged.        *)
LEMMA MergeServes ==
    ASSUME Tabled, NEW state, Serves(state),
           NEW sides, NEW clump, clump # {}, clump \subseteq Nat \X Nat,
           NEW whole \in Global, \A side \in clump : sides[side] \in whole,
           NEW after, after = Merge(state, sides, clump)
    PROVE  /\ Serves(after)
           /\ Grown(state.collections, after.collections)
           /\ AreTogether(OldIds({Key(sides[side]) : side \in clump}), after.collections)
<1> DEFINE keys == {Key(sides[side]) : side \in clump}
           known == {side \in clump : Key(sides[side]) \in DOMAIN state.index}
           first == CHOOSE side \in known : \A other \in known \ {side} : Before(side, other)
           idx == IF known = {} THEN Len(state.collections) + 1 ELSE state.index[Key(sides[first])]
           extended == IF known = {} THEN Append(state.collections, {}) ELSE state.collections
           ids == {GlobalId(key) : key \in keys}
<1>1. after = [collections |-> [extended EXCEPT ![idx] = @ \cup ids],
               index |-> Recorded(state.index, keys, idx)]
    BY DEF Merge
<1>2. Solved
    BY DEF Tabled
<1>3. \A side \in clump :
        /\ sides[side] \in Zoned /\ Key(sides[side]) \in LocalClumps
        /\ OldId(Key(sides[side])) \in IdsOf(whole)
    BY <1>2, KeyFacts, IdsTellClumps
<1>4. keys \subseteq LocalClumps /\ OldIds(keys) \subseteq IdsOf(whole)
    BY <1>3 DEF OldIds
<1>5. ids = OldIds(keys)
    <2> HIDE DEF keys
    <2> QED BY <1>4, GlobalIdIsOld DEF OldIds
<1>6. known # {} => first \in known
    <2> SUFFICES ASSUME known # {} PROVE first \in known
        OBVIOUS
    <2>1. \E side \in known : \A c \in known : c = side \/ Before(side, c)
        <3>1. known \subseteq Nat \X Nat
            OBVIOUS
        <3> HIDE DEF known
        <3> QED BY <3>1, FirstOfCells
    <2>2. \E side \in known : \A other \in known \ {side} : Before(side, other)
        BY <2>1
    <2> HIDE DEF known
    <2> QED BY <2>2
<1>7. known # {} =>
        /\ idx \in DOMAIN state.collections
        /\ \E id \in state.collections[idx] : id \in IdsOf(whole)
    <2> SUFFICES ASSUME known # {}
                 PROVE  /\ idx \in DOMAIN state.collections
                        /\ \E id \in state.collections[idx] : id \in IdsOf(whole)
        OBVIOUS
    <2>1. first \in clump /\ Key(sides[first]) \in DOMAIN state.index /\ idx = state.index[Key(sides[first])]
        BY <1>6
    <2> HIDE DEF first, idx, known
    <2> QED BY <1>3, <2>1 DEF Serves
<1>8. state.collections \in Seq(SUBSET Nat)
    BY DEF Serves
<1>9. /\ idx \in DOMAIN extended
      /\ extended[idx] = {} \/ \E id \in extended[idx] : id \in IdsOf(whole)
    <2>1. CASE known = {}
        <3>1. extended = Append(state.collections, {}) /\ idx = Len(state.collections) + 1
            BY <2>1
        <3> HIDE DEF extended, idx
        <3>2. idx \in 1 .. Len(extended) /\ extended[idx] = {} /\ extended \in Seq(SUBSET Nat)
            BY <1>8, <3>1, AppendProperties
        <3> QED BY <3>2
    <2>2. CASE known # {}
        <3>1. extended = state.collections
            BY <2>2
        <3> HIDE DEF extended, idx, known
        <3> QED BY <1>7, <2>2, <3>1
    <2> QED BY <2>1, <2>2
<1>10. Adds(extended, {idx}, keys, whole)
    <2> HIDE DEF extended, idx, keys
    <2> QED BY <1>4, <1>9 DEF Adds
<1>11. extended = state.collections \/ extended = Append(state.collections, {})
    OBVIOUS
<1> HIDE DEF extended, idx, keys, ids
<1>12. after.collections = Added(extended, {idx}, keys) /\ after.index = Recorded(state.index, keys, idx)
    <2>1. [extended EXCEPT ![idx] = @ \cup ids] = Added(extended, {idx}, keys)
        BY <1>5, <1>9 DEF Added
    <2> QED BY <1>1, <2>1
<1>13. idx \in {idx}
    OBVIOUS
<1>14. /\ Serves(after)
       /\ Grown(state.collections, after.collections)
       /\ AreTogether(OldIds(keys), after.collections)
    BY <1>2, <1>10, <1>11, <1>12, <1>13, AddedServes
<1> QED BY <1>14 DEF keys

-----------------------------------------------------------------------------
(* Merging over a border.                                                  *)

BorderZone(direction, p) ==
    [side \in DOMAIN Sides(direction, p) |-> array.zone[Sides(direction, p)[side]]]

(* The ids of the cells of a clump of a border.                            *)
SideIds(direction, p, clump) == OldIds({Key(Sides(direction, p)[side]) : side \in clump})

LEMMA BorderClumpFacts ==
    ASSUME ArrayOk, NEW direction, NEW p, IsBorder(direction, p)
    PROVE  /\ DivideIntoClumps(BorderZone(direction, p), array.diagonal,
                    Clumps(BorderZone(direction, p), array.diagonal),
                    {side \in Array(2, SideLength(direction, p)) :
                        array.zone[Sides(direction, p)[side]] # NoData})
           /\ \A clump \in BorderClumps(Sides(direction, p)) :
                /\ clump \in Clumps(BorderZone(direction, p), array.diagonal)
                /\ clump # {} /\ clump \subseteq Array(2, SideLength(direction, p))
                /\ \E whole \in Global : \A side \in clump : Sides(direction, p)[side] \in whole
           /\ \A clump \in Clumps(BorderZone(direction, p), array.diagonal) :
                {0, 1} \subseteq {side[1] : side \in clump} => clump \in BorderClumps(Sides(direction, p))
<1> DEFINE cells == Array(2, SideLength(direction, p))
           at == Sides(direction, p)
           zone == BorderZone(direction, p)
<1>1. /\ DOMAIN at = cells /\ cells \subseteq Nat \X Nat /\ IsFiniteSet(cells)
      /\ \A side \in cells : at[side] \in AllCells
    BY BorderFacts
<1>2. at \in [cells -> AllCells]
    <2>1. at = [side \in DOMAIN at |-> at[side]]
        BY DEF Sides
    <2> HIDE DEF at, cells
    <2> QED BY <1>1, <2>1
<1>3. zone = [c \in cells |-> array.zone[at[c]]]
    BY <1>1 DEF BorderZone
<1>4. \A a, b \in cells : Touch(array.diagonal, a, b) => Touch(array.diagonal, at[a], at[b])
    BY SidesTouch
<1>5. BorderClumps(at) =
        {clump \in Clumps(zone, array.diagonal) : {0, 1} \subseteq {side[1] : side \in clump}}
    BY DEF BorderClumps, BorderZone
<1> HIDE DEF cells, at, zone
<1>6. DivideIntoClumps(zone, array.diagonal, Clumps(zone, array.diagonal),
                       {side \in cells : array.zone[at[side]] # NoData})
    <2>1. IsFiniteSet(DOMAIN zone) /\ DOMAIN zone \subseteq Int \X Int
        BY <1>1, <1>3
    <2>2. {side \in DOMAIN zone : zone[side] # NoData} = {side \in cells : array.zone[at[side]] # NoData}
        BY <1>3
    <2>3. DivideIntoClumps(zone, array.diagonal, Clumps(zone, array.diagonal),
                       {side \in DOMAIN zone : zone[side] # NoData})
        BY <2>1, ClumpsDivide
    <2> QED BY <2>2, <2>3
<1>7. ASSUME NEW clump \in BorderClumps(at)
      PROVE  /\ clump \in Clumps(zone, array.diagonal)
             /\ clump # {} /\ clump \subseteq cells
             /\ \E whole \in Global : \A side \in clump : at[side] \in whole
    <2>1. clump \in Clumps(zone, array.diagonal)
        BY <1>5
    <2>2. /\ clump # {} /\ clump \subseteq cells
          /\ \E whole \in Global : \A side \in clump : at[side] \in whole
        BY <1>1, <1>2, <1>3, <1>4, <2>1, PartOfClump
    <2> QED BY <2>1, <2>2
<1>8. \A clump \in Clumps(zone, array.diagonal) :
        {0, 1} \subseteq {side[1] : side \in clump} => clump \in BorderClumps(at)
    BY <1>5
<1> QED BY <1>6, <1>7, <1>8 DEF cells, at, zone

LEMMA MergeStartingServes ==
    ASSUME Tabled, NEW direction, NEW p, IsBorder(direction, p), NEW col,
           NEW state, Serves(state), NEW after, after = MergeStarting(state, direction, p, col)
    PROVE  /\ Serves(after)
           /\ Grown(state.collections, after.collections)
           /\ \A clump \in BorderClumps(Sides(direction, p)) :
                StartsAt(clump, col) => AreTogether(SideIds(direction, p, clump), after.collections)
<1> DEFINE sides == Sides(direction, p)
           starting == {clump \in BorderClumps(sides) : StartsAt(clump, col)}
           chosen == CHOOSE clump \in starting : TRUE
<1>1. after = IF starting = {} THEN state ELSE Merge(state, sides, chosen)
    BY DEF MergeStarting
<1>2. ArrayOk
    BY DEF Tabled, Solved
<1>3. CASE starting = {}
    <2>1. Grown(state.collections, state.collections)
        BY DEF Grown
    <2> QED BY <1>1, <1>3, <2>1
<1>4. CASE starting # {}
    <2>1. chosen \in BorderClumps(sides) /\ StartsAt(chosen, col)
        <3>1. chosen \in starting
            BY <1>4
        <3> QED BY <3>1
    <2>2. after = Merge(state, sides, chosen)
        BY <1>1, <1>4
    <2> HIDE DEF starting, chosen
    <2>3. PICK whole \in Global : \A side \in chosen : sides[side] \in whole
        BY <1>2, <2>1, BorderClumpFacts
    <2>4. chosen # {} /\ chosen \subseteq Nat \X Nat
        BY <1>2, <2>1, BorderClumpFacts, BorderFacts
    <2>5. /\ Serves(after)
          /\ Grown(state.collections, after.collections)
          /\ AreTogether(OldIds({Key(sides[side]) : side \in chosen}), after.collections)
        <3> HIDE DEF sides
        <3> QED BY <2>2, <2>3, <2>4, MergeServes
    <2>6. AreTogether(SideIds(direction, p, chosen), after.collections)
        BY <2>5 DEF SideIds
    <2>7. ASSUME NEW clump \in BorderClumps(sides), StartsAt(clump, col) PROVE clump = chosen
        <3>1. <<0, col>> \in clump /\ <<0, col>> \in chosen
            BY <2>1, <2>7 DEF StartsAt
        <3>2. /\ clump \in Clumps(BorderZone(direction, p), array.diagonal)
              /\ chosen \in Clumps(BorderZone(direction, p), array.diagonal)
            BY <1>2, <2>1, BorderClumpFacts
        <3>3. \A k, l \in Clumps(BorderZone(direction, p), array.diagonal) :
                (\E c \in k : c \in l) => k = l
            BY <1>2, BorderClumpFacts DEF DivideIntoClumps
        <3> QED BY <3>1, <3>2, <3>3
    <2> QED BY <2>5, <2>6, <2>7
<1> QED BY <1>3, <1>4

(* The clumps are merged one after the other.                              *)
IsMerged(g, n, state, direction, p) ==
    g = [k \in 0 .. n |-> IF k = 0 THEN state ELSE MergeStarting(g[k - 1], direction, p, k - 1)]

LEMMA MergedExists ==
    ASSUME NEW n \in Nat, NEW state, NEW direction, NEW p
    PROVE  \E g : IsMerged(g, n, state, direction, p)
<1> DEFINE Bad == {k \in Nat : ~\E g : IsMerged(g, k, state, direction, p)}
<1> SUFFICES ASSUME Bad # {} PROVE FALSE
    OBVIOUS
<1>1. PICK k \in Bad : \A l \in Bad : k <= l
    <2>1. Bad \subseteq Nat
        OBVIOUS
    <2> HIDE DEF Bad
    <2> QED BY <2>1, SmallestNumber
<1>2. k \in Nat /\ ~\E g : IsMerged(g, k, state, direction, p)
    BY <1>1
<1>3. k # 0
    <2> DEFINE g == [l \in 0 .. 0 |-> state]
    <2>1. g = [l \in 0 .. 0 |-> IF l = 0 THEN state ELSE MergeStarting(g[l - 1], direction, p, l - 1)]
        OBVIOUS
    <2> HIDE DEF g
    <2>2. IsMerged(g, 0, state, direction, p)
        BY <2>1 DEF IsMerged
    <2> QED BY <1>2, <2>2
<1>4. k - 1 \in Nat /\ k - 1 \notin Bad
    BY <1>1, <1>2, <1>3
<1>5. PICK g : IsMerged(g, k - 1, state, direction, p)
    BY <1>4
<1> DEFINE h == [l \in 0 .. k |-> IF l = k THEN MergeStarting(g[k - 1], direction, p, k - 1) ELSE g[l]]
<1>6. ASSUME NEW l \in 0 .. k
      PROVE  h[l] = IF l = 0 THEN state ELSE MergeStarting(h[l - 1], direction, p, l - 1)
    <2>1. \A m \in 0 .. k - 1 :
            g[m] = IF m = 0 THEN state ELSE MergeStarting(g[m - 1], direction, p, m - 1)
        BY <1>5 DEF IsMerged
    <2>2. CASE l = k
        <3>1. k - 1 \in 0 .. k /\ k - 1 # k /\ l \in 0 .. k
            BY <1>2, <1>3
        <3>2. h[l] = MergeStarting(g[k - 1], direction, p, k - 1) /\ h[k - 1] = g[k - 1]
            BY <2>2, <3>1
        <3> HIDE DEF h
        <3> QED BY <1>3, <2>2, <3>2
    <2>3. CASE l # k
        <3>1. l \in 0 .. k - 1 /\ (l # 0 => l - 1 \in 0 .. k /\ l - 1 # k)
            BY <1>2, <2>3
        <3>2. h[l] = g[l] /\ (l # 0 => h[l - 1] = g[l - 1])
            BY <2>3, <3>1
        <3> HIDE DEF h
        <3> QED BY <2>1, <3>1, <3>2
    <2> QED BY <2>2, <2>3
<1>7. h = [l \in 0 .. k |-> h[l]]
    OBVIOUS
<1> HIDE DEF h
<1>8. IsMerged(h, k, state, direction, p)
    BY <1>6, <1>7, Zenon DEF IsMerged
<1> QED BY <1>2, <1>8

LEMMA MergeBorderServes ==
    ASSUME Tabled, NEW direction, NEW p, IsBorder(direction, p),
           NEW state, Serves(state), NEW after, after = MergeBorder(state, direction, p)
    PROVE  /\ Serves(after)
           /\ Grown(state.collections, after.collections)
           /\ \A clump \in BorderClumps(Sides(direction, p)), col \in 0 .. SideLength(direction, p) - 1 :
                StartsAt(clump, col) => AreTogether(SideIds(direction, p, clump), after.collections)
<1> DEFINE n == SideLength(direction, p)
           merged == CHOOSE g : g = [k \in 0 .. n |->
                IF k = 0 THEN state ELSE MergeStarting(g[k - 1], direction, p, k - 1)]
<1>1. n \in Nat
    BY BorderFacts DEF Tabled, Solved
<1>2. after = merged[n]
    BY Zenon DEF MergeBorder
<1>3. IsMerged(merged, n, state, direction, p)
    <2>1. \E g : IsMerged(g, n, state, direction, p)
        BY <1>1, MergedExists
    <2> HIDE DEF n
    <2> QED BY <2>1, Zenon DEF IsMerged
<1> HIDE DEF n, merged
<1>4. /\ merged[0] = state
      /\ \A k \in 1 .. n : k - 1 \in 0 .. n - 1 /\ merged[k] = MergeStarting(merged[k - 1], direction, p, k - 1)
    <2>1. \A k \in 0 .. n : merged[k] = IF k = 0 THEN state ELSE MergeStarting(merged[k - 1], direction, p, k - 1)
        BY <1>3 DEF IsMerged
    <2> QED BY <1>1, <2>1
<1> DEFINE Good(k) ==
            /\ Serves(merged[k])
            /\ Grown(state.collections, merged[k].collections)
            /\ \A clump \in BorderClumps(Sides(direction, p)), col \in 0 .. k - 1 :
                StartsAt(clump, col) => AreTogether(SideIds(direction, p, clump), merged[k].collections)
           Bad == {k \in 0 .. n : ~Good(k)}
<1>5. Bad = {}
    <2> SUFFICES ASSUME Bad # {} PROVE FALSE
        OBVIOUS
    <2>1. PICK k \in Bad : \A l \in Bad : k <= l
        <3>1. Bad \subseteq Nat
            BY <1>1
        <3> HIDE DEF Bad
        <3> QED BY <3>1, SmallestNumber
    <2>2. k \in 0 .. n /\ ~Good(k)
        BY <2>1
    <2>3. k # 0
        <3>1. Grown(state.collections, state.collections)
            BY DEF Grown
        <3>2. Good(0)
            BY <1>4, <3>1
        <3> HIDE DEF Good
        <3> QED BY <2>2, <3>2
    <2>4. k - 1 \in 0 .. n /\ k \in 1 .. n
        BY <1>1, <2>2, <2>3
    <2>5. Good(k - 1)
        <3>1. k - 1 \notin Bad
            BY <1>1, <2>1, <2>2, <2>3
        <3> HIDE DEF Good
        <3> QED BY <2>4, <3>1
    <2>6. merged[k] = MergeStarting(merged[k - 1], direction, p, k - 1)
        BY <1>4, <2>4
    <2>7. /\ Serves(merged[k])
          /\ Grown(merged[k - 1].collections, merged[k].collections)
          /\ \A clump \in BorderClumps(Sides(direction, p)) :
                StartsAt(clump, k - 1) => AreTogether(SideIds(direction, p, clump), merged[k].collections)
        BY <2>5, <2>6, MergeStartingServes
    <2>8. Grown(state.collections, merged[k].collections)
        BY <2>5, <2>7, GrownFurther
    <2>9. ASSUME NEW clump \in BorderClumps(Sides(direction, p)), NEW col \in 0 .. k - 1, StartsAt(clump, col)
          PROVE  AreTogether(SideIds(direction, p, clump), merged[k].collections)
        <3>1. CASE col = k - 1
            BY <2>7, <2>9, <3>1
        <3>2. CASE col # k - 1
            <4>1. col \in 0 .. (k - 1) - 1
                BY <2>4, <3>2
            <4>2. AreTogether(SideIds(direction, p, clump), merged[k - 1].collections)
                BY <2>5, <2>9, <4>1
            <4> QED BY <2>7, <4>2, StayTogether
        <3> QED BY <3>1, <3>2
    <2> QED BY <2>2, <2>7, <2>8, <2>9
<1>6. Good(n)
    <2> HIDE DEF Good
    <2> QED BY <1>1, <1>5
<1> QED BY <1>2, <1>6 DEF n

-----------------------------------------------------------------------------
(* Merging at a corner.                                                    *)

LEMMA TouchingCells ==
    ASSUME ArrayOk, NEW a \in Zoned, NEW b \in Zoned, Touch(array.diagonal, a, b),
           array.zone[a] = array.zone[b], NEW clump \in Global, a \in clump
    PROVE  b \in clump
BY GlobalFacts DEF DivideIntoClumps, IsClosed

LEMMA MergeDiagonallyServes ==
    ASSUME Tabled, NEW cell \in AllCells, NEW other \in AllCells, Touch(array.diagonal, cell, other),
           NEW state, Serves(state), NEW after, after = MergeDiagonally(state, cell, other)
    PROVE  /\ Serves(after)
           /\ Grown(state.collections, after.collections)
           /\ cell \in Zoned /\ array.zone[cell] = array.zone[other] =>
                AreTogether(OldIds({Key(cell), Key(other)}), after.collections)
<1> DEFINE keys == {Key(cell), Key(other)}
           known == keys \cap DOMAIN state.index
           extended == IF known = {} THEN Append(state.collections, {}) ELSE state.collections
           idx == IF known = {} THEN Len(extended) ELSE state.index[CHOOSE key \in known : TRUE]
           table == Recorded(state.index, keys, idx)
           ids == {GlobalId(key) : key \in keys}
           to == {k \in DOMAIN extended : k \in {table[key] : key \in keys}}
<1>1. after = IF array.zone[cell] = NoData \/ array.zone[cell] # array.zone[other] THEN state
              ELSE [collections |-> [k \in DOMAIN extended |->
                        IF k \in {table[key] : key \in keys} THEN extended[k] \cup ids ELSE extended[k]],
                    index |-> table]
    BY DEF MergeDiagonally
<1>2. Solved /\ ArrayOk
    BY DEF Tabled, Solved
<1>3. CASE array.zone[cell] = NoData \/ array.zone[cell] # array.zone[other]
    <2>1. after = state
        BY <1>1, <1>3
    <2>2. Grown(state.collections, state.collections)
        BY DEF Grown
    <2>3. ~(cell \in Zoned /\ array.zone[cell] = array.zone[other])
        BY <1>3 DEF Zoned
    <2> QED BY <2>1, <2>2, <2>3
<1>4. CASE array.zone[cell] # NoData /\ array.zone[cell] = array.zone[other]
    <2>1. cell \in Zoned /\ other \in Zoned
        BY <1>4 DEF Zoned
    <2>2. PICK whole \in Global : cell \in whole
        BY <1>2, <2>1, GlobalClumps
    <2>3. other \in whole
        BY <1>2, <1>4, <2>1, <2>2, TouchingCells
    <2>4. keys \subseteq LocalClumps /\ \A key \in keys : OldId(key) \in IdsOf(whole)
        BY <1>2, <2>1, <2>2, <2>3, KeyFacts, IdsTellClumps
    <2>5. ids = OldIds(keys) /\ OldIds(keys) \subseteq IdsOf(whole) /\ keys # {}
        <3>1. keys # {}
            OBVIOUS
        <3> HIDE DEF keys
        <3> QED BY <2>4, <3>1, GlobalIdIsOld DEF OldIds
    <2>6. after.collections = Added(extended, to, keys) /\ after.index = Recorded(state.index, keys, idx)
        <3>1. /\ after.collections = [k \in DOMAIN extended |->
                        IF k \in {table[key] : key \in keys} THEN extended[k] \cup ids ELSE extended[k]]
              /\ after.index = table
            <4> HIDE DEF extended, table, keys, ids
            <4> QED BY <1>1, <1>4
        <3> HIDE DEF extended, keys, ids
        <3>2. [k \in DOMAIN extended |->
                        IF k \in {table[key] : key \in keys} THEN extended[k] \cup ids ELSE extended[k]]
              = Added(extended, to, keys)
            BY <2>5 DEF Added
        <3> QED BY <3>1, <3>2
    <2>7. state.collections \in Seq(SUBSET Nat)
        BY DEF Serves
    <2>8. ASSUME NEW key \in known
          PROVE  /\ state.index[key] \in DOMAIN state.collections
                 /\ \E id \in state.collections[state.index[key]] : id \in IdsOf(whole)
        <3>1. key \in keys /\ key \in DOMAIN state.index
            OBVIOUS
        <3> HIDE DEF known, keys
        <3> QED BY <2>4, <3>1 DEF Serves
    <2>9. /\ DOMAIN table = DOMAIN state.index \cup keys
          /\ \A key \in keys : table[key] = IF key \in known THEN state.index[key] ELSE idx
        <3> HIDE DEF idx, keys
        <3> QED BY DEF Recorded
    <2>10. CASE known = {}
        <3>1. extended = Append(state.collections, {}) /\ idx = Len(extended)
            BY <2>10
        <3>2. \A key \in keys : table[key] = idx
            BY <2>9, <2>10
        <3> HIDE DEF extended, idx, keys, known, table
        <3>3. idx \in DOMAIN extended /\ extended[idx] = {}
            <4>1. /\ extended \in Seq(SUBSET Nat) /\ Len(extended) = Len(state.collections) + 1
                  /\ extended[Len(state.collections) + 1] = {}
                BY <2>7, <3>1, AppendProperties
            <4>2. Len(state.collections) \in Nat /\ DOMAIN extended = 1 .. Len(extended)
                BY <2>7, <4>1
            <4> QED BY <3>1, <4>1, <4>2
        <3>4. idx \in to /\ to \subseteq {idx}
            BY <2>5, <3>2, <3>3
        <3>5. \A k \in to : extended[k] = {}
            BY <3>3, <3>4
        <3> HIDE DEF to, ids
        <3>6. Adds(extended, to, keys, whole)
            <4>1. to \subseteq DOMAIN extended
                BY <3>3, <3>4
            <4> QED BY <2>4, <2>5, <3>5, <4>1 DEF Adds
        <3>7. /\ Serves(after)
              /\ Grown(state.collections, after.collections)
              /\ AreTogether(OldIds(keys), after.collections)
            BY <1>2, <2>6, <3>1, <3>4, <3>6, AddedServes
        <3> QED BY <3>7 DEF keys
    <2>11. CASE known # {}
        <3>1. extended = state.collections /\ idx = state.index[CHOOSE key \in known : TRUE]
            BY <2>11
        <3>2. PICK key \in known : idx = state.index[key]
            BY <2>11, <3>1
        <3>3. key \in keys /\ table[key] = idx
            BY <2>9, <3>2
        <3> HIDE DEF extended, idx, keys, known, table
        <3>4. idx \in DOMAIN extended
            BY <2>8, <3>1, <3>2
        <3>5. idx \in to
            BY <3>3, <3>4
        <3>6. ASSUME NEW k \in to PROVE \E id \in extended[k] : id \in IdsOf(whole)
            <4>1. PICK one \in keys : k = table[one]
                OBVIOUS
            <4>2. (k = state.index[one] /\ one \in known) \/ k = idx
                BY <2>9, <4>1
            <4>3. PICK known_one \in known : k = state.index[known_one]
                BY <3>2, <4>2
            <4> QED BY <2>8, <3>1, <4>3
        <3>7. to \subseteq DOMAIN extended
            OBVIOUS
        <3> HIDE DEF to, ids
        <3>8. Adds(extended, to, keys, whole)
            BY <2>4, <2>5, <3>6, <3>7 DEF Adds
        <3>9. /\ Serves(after)
              /\ Grown(state.collections, after.collections)
              /\ AreTogether(OldIds(keys), after.collections)
            BY <1>2, <2>6, <3>1, <3>5, <3>8, AddedServes
        <3> QED BY <3>9 DEF keys
    <2> QED BY <2>10, <2>11
<1> QED BY <1>3, <1>4

IsCorner(p) == p \in Partitions /\ "corner" \in BordersOf(p)

LEMMA CornerFacts ==
    ASSUME ArrayOk, NEW p, IsCorner(p)
    PROVE  /\ array.diagonal = TRUE
           /\ LastRow(p) \in Nat /\ LastCol(p) \in Nat
           /\ \A row \in {LastRow(p), LastRow(p) + 1}, col \in {LastCol(p), LastCol(p) + 1} :
                <<row, col>> \in AllCells
<1>1. p \in Partitions /\ p[1] < Shape.rows - 1 /\ p[2] < Shape.cols - 1 /\ array.diagonal
    BY DEF IsCorner, BordersOf
<1> DEFINE height == array.partition_rows
           width == array.partition_cols
           f1 == p[1] * height
           f2 == p[2] * width
<1>2. p[1] \in 0 .. Shape.rows - 1 /\ p[2] \in 0 .. Shape.cols - 1
    BY <1>1, PartitionFacts
<1>3. f1 \in Nat /\ (p[1] + 1) * height = f1 + height /\ f1 + height <= array.nr_rows - 1
    BY <1>1, <1>2, PartSize, PartitionFacts DEF ArrayOk
<1>4. f2 \in Nat /\ (p[2] + 1) * width = f2 + width /\ f2 + width <= array.nr_cols - 1
    BY <1>1, <1>2, PartSize, PartitionFacts DEF ArrayOk
<1>5. height \in Nat \ {0} /\ width \in Nat \ {0} /\ array.nr_rows \in Nat /\ array.nr_cols \in Nat
    BY DEF ArrayOk, Fits
<1>6. LastRow(p) = f1 + height - 1 /\ LastCol(p) = f2 + width - 1
    <2> DEFINE r == (p[1] + 1) * height
               c == (p[2] + 1) * width
    <2>1. LastRow(p) = r - 1 /\ LastCol(p) = c - 1
        BY DEF LastRow, LastCol
    <2>2. r = f1 + height /\ c = f2 + width
        BY <1>3, <1>4
    <2>3. f1 \in Nat /\ f2 \in Nat /\ height \in Nat /\ width \in Nat
        BY <1>3, <1>4, <1>5
    <2> HIDE DEF f1, f2, height, width, r, c
    <2> QED BY <2>1, <2>2, <2>3
<1> HIDE DEF height, width, f1, f2
<1>7. LastRow(p) \in Nat /\ LastRow(p) + 1 <= array.nr_rows - 1
    BY <1>3, <1>5, <1>6
<1>8. LastCol(p) \in Nat /\ LastCol(p) + 1 <= array.nr_cols - 1
    BY <1>4, <1>5, <1>6
<1>9. \A row \in {LastRow(p), LastRow(p) + 1}, col \in {LastCol(p), LastCol(p) + 1} :
        row \in 0 .. array.nr_rows - 1 /\ col \in 0 .. array.nr_cols - 1
    BY <1>5, <1>7, <1>8
<1>10. \A row \in {LastRow(p), LastRow(p) + 1}, col \in {LastCol(p), LastCol(p) + 1} :
        <<row, col>> \in AllCells
    BY <1>9, AllCellsFacts
<1>11. array.diagonal = TRUE
    BY <1>1 DEF ArrayOk
<1> QED BY <1>7, <1>8, <1>10, <1>11

(* The two pairs of cells at a corner.                                     *)
CornerPairs(p) ==
    {<<<<LastRow(p), LastCol(p)>>, <<LastRow(p) + 1, LastCol(p) + 1>>>>,
     <<<<LastRow(p), LastCol(p) + 1>>, <<LastRow(p) + 1, LastCol(p)>>>>}

LEMMA MergeCornerServes ==
    ASSUME Tabled, NEW p, IsCorner(p),
           NEW state, Serves(state), NEW after, after = MergeCorner(state, p)
    PROVE  /\ Serves(after)
           /\ Grown(state.collections, after.collections)
           /\ \A pair \in CornerPairs(p) :
                pair[1] \in Zoned /\ array.zone[pair[1]] = array.zone[pair[2]] =>
                    AreTogether(OldIds({Key(pair[1]), Key(pair[2])}), after.collections)
<1> DEFINE NW == <<LastRow(p), LastCol(p)>>
           NE == <<LastRow(p), LastCol(p) + 1>>
           SW == <<LastRow(p) + 1, LastCol(p)>>
           SE == <<LastRow(p) + 1, LastCol(p) + 1>>
           between == MergeDiagonally(state, NW, SE)
<1>1. after = MergeDiagonally(between, NE, SW)
    BY DEF MergeCorner
<1>2. ArrayOk
    BY DEF Tabled, Solved
<1>3. NW \in AllCells /\ NE \in AllCells /\ SW \in AllCells /\ SE \in AllCells
    BY <1>2, CornerFacts
<1>4. Touch(array.diagonal, NW, SE) /\ Touch(array.diagonal, NE, SW)
    <2>1. array.diagonal = TRUE /\ LastRow(p) \in Nat /\ LastCol(p) \in Nat
        BY <1>2, CornerFacts
    <2> QED BY <2>1 DEF Touch
<1> HIDE DEF NW, NE, SW, SE
<1>5. /\ Serves(between)
      /\ Grown(state.collections, between.collections)
      /\ NW \in Zoned /\ array.zone[NW] = array.zone[SE] =>
            AreTogether(OldIds({Key(NW), Key(SE)}), between.collections)
    BY <1>3, <1>4, MergeDiagonallyServes
<1> HIDE DEF between
<1>6. /\ Serves(after)
      /\ Grown(between.collections, after.collections)
      /\ NE \in Zoned /\ array.zone[NE] = array.zone[SW] =>
            AreTogether(OldIds({Key(NE), Key(SW)}), after.collections)
    BY <1>1, <1>3, <1>4, <1>5, MergeDiagonallyServes
<1>7. Grown(state.collections, after.collections)
    BY <1>5, <1>6, GrownFurther
<1>8. NW \in Zoned /\ array.zone[NW] = array.zone[SE] =>
            AreTogether(OldIds({Key(NW), Key(SE)}), after.collections)
    BY <1>5, <1>6, StayTogether
<1>9. CornerPairs(p) = {<<NW, SE>>, <<NE, SW>>}
    BY DEF CornerPairs, NW, NE, SW, SE
<1> QED BY <1>6, <1>7, <1>8, <1>9

-----------------------------------------------------------------------------
(* Uniting collections.                                                    *)

MovedBy(updates_, k) == IF k \in DOMAIN updates_ THEN updates_[k] ELSE k

(* Collections that were moved are empty; what they held is where they     *)
(* were moved to, which is not past last.                                  *)
Unites(state, last) ==
    /\ state.collections \in Seq(SUBSET Nat)
    /\ \A k \in DOMAIN state.collections : IsWithin(state.collections[k])
    /\ DOMAIN state.updates \subseteq DOMAIN state.collections
    /\ \A k \in DOMAIN state.updates :
        /\ state.collections[k] = {}
        /\ state.updates[k] \in DOMAIN state.collections /\ state.updates[k] <= last
    /\ DOMAIN index \subseteq LocalClumps
    /\ \A key \in DOMAIN index :
        /\ index[key] \in DOMAIN state.collections
        /\ OldId(key) \in state.collections[MovedBy(state.updates, index[key])]

LEMMA CompareUnites ==
    ASSUME Solved, idx1 \in Nat, NEW state, Unites(state, idx1), idx1 \in DOMAIN state.collections,
           NEW idx2 \in DOMAIN state.collections, idx1 < idx2,
           NEW after, after = Compare(state, idx2)
    PROVE  /\ Unites(after, idx1)
           /\ DOMAIN after.collections = DOMAIN state.collections
<1> DEFINE cs == state.collections
           ups == state.updates
<1>1. CASE ~ShareElement(cs[idx1], cs[idx2])
    BY <1>1 DEF Compare
<1>2. CASE ShareElement(cs[idx1], cs[idx2])
    <2>1. /\ after.collections = [cs EXCEPT ![idx1] = @ \cup cs[idx2], ![idx2] = {}]
          /\ after.updates = [k \in DOMAIN ups \cup {idx2} |-> IF k = idx2 THEN idx1 ELSE ups[k]]
        BY <1>2 DEF Compare
    <2>2. /\ cs \in Seq(SUBSET Nat)
          /\ \A k \in DOMAIN cs : IsWithin(cs[k])
          /\ DOMAIN ups \subseteq DOMAIN cs
          /\ \A k \in DOMAIN ups : cs[k] = {} /\ ups[k] \in DOMAIN cs /\ ups[k] <= idx1
          /\ DOMAIN index \subseteq LocalClumps
          /\ \A key \in DOMAIN index : index[key] \in DOMAIN cs /\ OldId(key) \in cs[MovedBy(ups, index[key])]
        BY DEF Unites
    <2>3. idx1 \in DOMAIN cs /\ idx2 \in DOMAIN cs /\ idx1 # idx2 /\ DOMAIN cs \subseteq Nat
        BY <2>2
    <2>4. PICK shared : shared \in cs[idx1] /\ shared \in cs[idx2]
        BY <1>2 DEF ShareElement
    <2> DEFINE ds == after.collections
               vps == after.updates
    <2> HIDE DEF cs, ups
    <2>5. /\ DOMAIN ds = DOMAIN cs
          /\ ds[idx1] = cs[idx1] \cup cs[idx2] /\ ds[idx2] = {}
          /\ \A k \in DOMAIN cs : k # idx1 /\ k # idx2 => ds[k] = cs[k]
        BY <2>1, <2>3
    <2>6. ds \in Seq(SUBSET Nat)
        <3>1. PICK n \in Nat : cs \in [1 .. n -> SUBSET Nat]
            BY <2>2, SeqDef
        <3>2. ds \in [1 .. n -> SUBSET Nat]
            BY <2>1, <2>3, <3>1
        <3> QED BY <3>2, SeqDef
    <2>7. /\ DOMAIN vps = DOMAIN ups \cup {idx2}
          /\ vps[idx2] = idx1 /\ \A k \in DOMAIN ups : k # idx2 => vps[k] = ups[k]
        BY <2>1
    <2>8. idx1 \notin DOMAIN ups /\ idx2 \notin DOMAIN ups
        BY <2>2, <2>4
    <2> HIDE DEF ds, vps
    <2>9. ASSUME NEW k \in DOMAIN ds PROVE IsWithin(ds[k])
        <3>1. CASE k = idx1
            <4>1. PICK clump \in Global : cs[idx1] \subseteq IdsOf(clump)
                BY <2>2, <2>3, <2>4 DEF IsWithin
            <4>2. PICK other \in Global : cs[idx2] \subseteq IdsOf(other)
                BY <2>2, <2>3, <2>4 DEF IsWithin
            <4>3. clump = other
                BY <2>4, <4>1, <4>2, IdsTellClumps
            <4> QED BY <2>5, <3>1, <4>1, <4>2, <4>3 DEF IsWithin
        <3>2. CASE k = idx2
            BY <2>5, <3>2 DEF IsWithin
        <3>3. CASE k # idx1 /\ k # idx2
            BY <2>2, <2>5, <2>9, <3>3
        <3> QED BY <3>1, <3>2, <3>3
    <2>10. ASSUME NEW k \in DOMAIN vps
           PROVE  ds[k] = {} /\ vps[k] \in DOMAIN ds /\ vps[k] <= idx1
        <3>1. CASE k = idx2
            BY <2>3, <2>5, <2>7, <3>1
        <3>2. CASE k # idx2
            <4>1. k \in DOMAIN ups /\ vps[k] = ups[k]
                BY <2>7, <2>10, <3>2
            <4>2. k # idx1 /\ k \in DOMAIN cs
                BY <2>2, <2>8, <4>1
            <4> QED BY <2>2, <2>5, <3>2, <4>1, <4>2
        <3> QED BY <3>1, <3>2
    <2>11. ASSUME NEW key \in DOMAIN index
           PROVE  index[key] \in DOMAIN ds /\ OldId(key) \in ds[MovedBy(vps, index[key])]
        <3> DEFINE l == MovedBy(ups, index[key])
        <3>1. index[key] \in DOMAIN cs /\ OldId(key) \in cs[l]
            BY <2>2
        <3>2. index[key] = idx2 => l = idx2 /\ MovedBy(vps, index[key]) = idx1
            BY <2>7, <2>8 DEF MovedBy
        <3>3. index[key] # idx2 => l \in DOMAIN cs /\ l # idx2 /\ MovedBy(vps, index[key]) = l
            <4> SUFFICES ASSUME index[key] # idx2
                         PROVE  l \in DOMAIN cs /\ l # idx2 /\ MovedBy(vps, index[key]) = l
                OBVIOUS
            <4>1. CASE index[key] \in DOMAIN ups
                <5>1. l = ups[index[key]] /\ l \in DOMAIN cs /\ l <= idx1
                    BY <2>2, <4>1 DEF MovedBy
                <5>2. MovedBy(vps, index[key]) = ups[index[key]]
                    BY <2>7, <4>1 DEF MovedBy
                <5>3. l # idx2
                    BY <2>3, <5>1
                <5> QED BY <5>1, <5>2, <5>3
            <4>2. CASE index[key] \notin DOMAIN ups
                BY <2>7, <3>1, <4>2 DEF MovedBy
            <4> QED BY <4>1, <4>2
        <3> HIDE DEF l
        <3>4. CASE index[key] = idx2
            BY <2>5, <3>1, <3>2, <3>4
        <3>5. CASE index[key] # idx2
            <4>1. cs[l] \subseteq ds[l]
                BY <2>5, <3>3, <3>5
            <4> QED BY <2>5, <3>1, <3>3, <3>5, <4>1
        <3> QED BY <3>4, <3>5
    <2>12. DOMAIN vps \subseteq DOMAIN ds
        BY <2>2, <2>3, <2>5, <2>7
    <2>13. Unites(after, idx1)
        BY <2>2, <2>6, <2>9, <2>10, <2>11, <2>12 DEF Unites, ds, vps
    <2> QED BY <2>5, <2>13 DEF ds, cs
<1> QED BY <1>1, <1>2

(* Collections are compared one after the other.                           *)
IsCompared(g, n, state) ==
    g = [k \in idx1 .. n |-> IF k = idx1 THEN state ELSE Compare(g[k - 1], k)]

LEMMA ComparedExists ==
    ASSUME idx1 \in Nat, NEW n \in Nat, idx1 <= n, NEW state
    PROVE  \E g : IsCompared(g, n, state)
<1> DEFINE Bad == {k \in Nat : idx1 <= k /\ ~\E g : IsCompared(g, k, state)}
<1> SUFFICES ASSUME Bad # {} PROVE FALSE
    OBVIOUS
<1>1. PICK k \in Bad : \A l \in Bad : k <= l
    <2>1. Bad \subseteq Nat
        OBVIOUS
    <2> HIDE DEF Bad
    <2> QED BY <2>1, SmallestNumber
<1>2. k \in Nat /\ idx1 <= k /\ ~\E g : IsCompared(g, k, state)
    BY <1>1
<1>3. k # idx1
    <2> SUFFICES ASSUME k = idx1 PROVE FALSE
        OBVIOUS
    <2> DEFINE g == [l \in idx1 .. k |-> state]
    <2>1. \A l \in idx1 .. k : l = idx1
        BY <1>2
    <2>2. g = [l \in idx1 .. k |-> IF l = idx1 THEN state ELSE Compare(g[l - 1], l)]
        BY <2>1
    <2> HIDE DEF g
    <2>3. IsCompared(g, k, state)
        BY <2>2, Zenon DEF IsCompared
    <2> QED BY <1>2, <2>3
<1>4. k - 1 \in Nat /\ idx1 <= k - 1 /\ k - 1 \notin Bad
    <2>1. k - 1 \in Nat /\ idx1 <= k - 1
        BY <1>2, <1>3
    <2>2. k - 1 \notin Bad
        <3> HIDE DEF Bad
        <3> QED BY <1>1, <1>2, <2>1
    <2> QED BY <2>1, <2>2
<1>5. PICK g : IsCompared(g, k - 1, state)
    BY <1>4
<1> DEFINE h == [l \in idx1 .. k |-> IF l = k THEN Compare(g[k - 1], k) ELSE g[l]]
<1>6. ASSUME NEW l \in idx1 .. k
      PROVE  h[l] = IF l = idx1 THEN state ELSE Compare(h[l - 1], l)
    <2>1. \A m \in idx1 .. k - 1 : g[m] = IF m = idx1 THEN state ELSE Compare(g[m - 1], m)
        BY <1>5 DEF IsCompared
    <2>2. CASE l = k
        <3>1. k - 1 \in idx1 .. k /\ k - 1 # k /\ l \in idx1 .. k
            BY <1>2, <1>4
        <3>2. h[l] = Compare(g[k - 1], k) /\ h[k - 1] = g[k - 1]
            BY <2>2, <3>1
        <3> HIDE DEF h
        <3> QED BY <1>3, <2>2, <3>2
    <2>3. CASE l # k
        <3>1. l \in idx1 .. k - 1 /\ (l # idx1 => l - 1 \in idx1 .. k /\ l - 1 # k)
            BY <1>2, <2>3
        <3>2. h[l] = g[l] /\ (l # idx1 => h[l - 1] = g[l - 1])
            BY <2>3, <3>1
        <3> HIDE DEF h
        <3> QED BY <2>1, <3>1, <3>2
    <2> QED BY <2>2, <2>3
<1>7. h = [l \in idx1 .. k |-> h[l]]
    OBVIOUS
<1> HIDE DEF h
<1>8. IsCompared(h, k, state)
    BY <1>6, <1>7, Zenon DEF IsCompared
<1> QED BY <1>2, <1>8

LEMMA UniteUnites ==
    ASSUME Solved, idx1 \in Nat \ {0}, idx1 <= Len(collections),
           Unites([collections |-> collections, updates |-> updates], idx1 - 1),
           NEW after, after = Unite
    PROVE  /\ Unites(after, idx1)
           /\ DOMAIN after.collections = DOMAIN collections
<1> DEFINE n == Len(collections)
           start == [collections |-> collections, updates |-> updates]
           compared == CHOOSE g : g = [k \in idx1 .. n |-> IF k = idx1 THEN start ELSE Compare(g[k - 1], k)]
<1>1. collections \in Seq(SUBSET Nat)
    BY DEF Unites
<1>2. n \in Nat /\ DOMAIN collections = 1 .. n
    BY <1>1
<1>3. after = compared[n]
    BY Zenon DEF Unite
<1>4. IsCompared(compared, n, start)
    <2>1. \E g : IsCompared(g, n, start)
        BY <1>2, ComparedExists
    <2> HIDE DEF n
    <2> QED BY <2>1, Zenon DEF IsCompared
<1>5. Unites(start, idx1)
    BY <1>1 DEF Unites
<1>6. DOMAIN start.collections = 1 .. n
    BY <1>2
<1> HIDE DEF n, start, compared
<1>7. \A k \in idx1 .. n : compared[k] = IF k = idx1 THEN start ELSE Compare(compared[k - 1], k)
    BY <1>4 DEF IsCompared
<1> DEFINE Good(k) == Unites(compared[k], idx1) /\ DOMAIN compared[k].collections = 1 .. n
           Bad == {k \in idx1 .. n : ~Good(k)}
<1>8. Bad = {}
    <2> SUFFICES ASSUME Bad # {} PROVE FALSE
        OBVIOUS
    <2>1. PICK k \in Bad : \A l \in Bad : k <= l
        <3>1. Bad \subseteq Nat
            BY <1>2
        <3> HIDE DEF Bad
        <3> QED BY <3>1, SmallestNumber
    <2>2. k \in idx1 .. n /\ ~Good(k)
        BY <2>1
    <2>3. k # idx1
        BY <1>5, <1>6, <1>7, <2>2
    <2>4. k - 1 \in idx1 .. n /\ k \in 1 .. n /\ idx1 \in 1 .. n /\ idx1 < k
        BY <1>2, <2>2, <2>3
    <2>5. Good(k - 1)
        <3>1. k - 1 \notin Bad
            <4> HIDE DEF Bad
            <4> QED BY <1>2, <2>1, <2>2, <2>3
        <3> HIDE DEF Good
        <3> QED BY <2>4, <3>1
    <2>6. compared[k] = Compare(compared[k - 1], k)
        BY <1>7, <2>2, <2>3
    <2>7. Good(k)
        <3>1. idx1 \in Nat
            OBVIOUS
        <3> QED BY <2>4, <2>5, <2>6, <3>1, CompareUnites
    <2> QED BY <2>2, <2>7
<1>9. Good(n)
    <2>1. n \in idx1 .. n
        BY <1>2 DEF n
    <2> HIDE DEF Good
    <2> QED BY <1>8, <2>1
<1> QED BY <1>2, <1>3, <1>9

-----------------------------------------------------------------------------
(* The inductive invariant.                                                *)

(* What a border or corner that was visited has brought together.          *)
IsCovered(border, collections_) ==
    /\ border[1] = "corner" =>
        \A pair \in CornerPairs(border[2]) :
            pair[1] \in Zoned /\ array.zone[pair[1]] = array.zone[pair[2]] =>
                AreTogether(OldIds({Key(pair[1]), Key(pair[2])}), collections_)
    /\ border[1] # "corner" =>
        \A clump \in BorderClumps(Sides(border[1], border[2])),
           col \in 0 .. SideLength(border[1], border[2]) - 1 :
            StartsAt(clump, col) => AreTogether(SideIds(border[1], border[2], clump), collections_)

AreCovered(left, collections_) == \A border \in Borders \ left : IsCovered(border, collections_)

TablesTellClumps ==
    \A clump \in Global : \A cell \in clump : GlobalId(Key(cell)) \in IdsOf(clump)

LocalInv ==
    /\ array \in Arrays
    /\ DOMAIN local \subseteq Partitions
    /\ \A p \in DOMAIN local : IsSolved(p)

StageInv ==
    /\ stage \in {"wait", "merge", "unite", "reclass"}
    /\ stage # "wait" => DOMAIN local = Partitions
    /\ stage \in {"wait", "merge"} => updates = [k \in {} |-> 0] /\ idx1 = 1
    /\ stage = "wait" => collections = <<>> /\ index = [key \in {} |-> 0]
    /\ stage \in {"merge", "unite"} => Tabled
    /\ stage = "merge" =>
        /\ borders \subseteq Borders
        /\ Serves([collections |-> collections, index |-> index])
        /\ AreCovered(borders, collections)
    /\ stage = "unite" =>
        /\ idx1 \in Nat \ {0}
        /\ Unites([collections |-> collections, updates |-> updates], idx1 - 1)
        /\ idx1 = 1 => AreCovered({}, collections)
    /\ stage = "reclass" => TablesTellClumps

OutputInv ==
    /\ DOMAIN output \subseteq Partitions
    /\ DOMAIN output # {} => stage = "reclass"
    /\ \A p \in DOMAIN output :
        output[p] = [cell \in PartCells(p) |-> IF local[p][cell] = NoData THEN NoData ELSE lut[p][local[p][cell]]]

ClumpInv == LocalInv /\ StageInv /\ OutputInv

LEMMA SolvedFromInv ==
    ASSUME LocalInv, DOMAIN local = Partitions
    PROVE  Solved
BY ArrayFacts DEF LocalInv, Solved

LEMMA ClumpInvInit == ClumpInit => ClumpInv
<1> SUFFICES ASSUME ClumpInit PROVE ClumpInv
    OBVIOUS
<1>1. LocalInv
    BY DEF ClumpInit, LocalInv
<1>2. StageInv
    BY DEF ClumpInit, StageInv
<1>3. OutputInv
    BY DEF ClumpInit, OutputInv
<1> QED BY <1>1, <1>2, <1>3 DEF ClumpInv

(* What does not change while the array and its local clumps do not.       *)
LEMMA SameArray ==
    ASSUME UNCHANGED array
    PROVE  /\ Partitions' = Partitions /\ AllCells' = AllCells /\ Zoned' = Zoned /\ Global' = Global
           /\ Borders' = Borders
           /\ \A p : PartCells(p)' = PartCells(p) /\ PartZone(p)' = PartZone(p)
           /\ \A cell : PartitionOf(cell)' = PartitionOf(cell)
<1>1. Shape' = Shape /\ AllCells' = AllCells
    BY DEF Shape, AllCells
<1>2. \A cell : PartitionOf(cell)' = PartitionOf(cell)
    BY <1>1 DEF PartitionOf
<1>3. \A p : PartCells(p)' = PartCells(p)
    BY <1>1, <1>2 DEF PartCells
<1>4. Partitions' = Partitions
    BY <1>1 DEF Partitions
<1>5. Borders' = Borders
    BY <1>1, <1>4 DEF Borders, BordersOf
<1>6. Zoned' = Zoned /\ Global' = Global
    BY <1>1 DEF Zoned, Global
<1>7. \A p : PartZone(p)' = PartZone(p)
    BY <1>3 DEF PartZone
<1> QED BY <1>1, <1>2, <1>3, <1>4, <1>5, <1>6, <1>7

LEMMA SameLocal ==
    ASSUME UNCHANGED <<array, local>>
    PROVE  /\ Solved' <=> Solved
           /\ LocalClumps' = LocalClumps
           /\ \A p : FirstId(p)' = FirstId(p) /\ LocalIds(p)' = LocalIds(p)
           /\ \A cell : Key(cell)' = Key(cell)
           /\ \A key : OldId(key)' = OldId(key)
           /\ \A clump : IdsOf(clump)' = IdsOf(clump)
           /\ \A ids : IsWithin(ids)' <=> IsWithin(ids)
           /\ \A keys : OldIds(keys)' = OldIds(keys)
<1>1. UNCHANGED array /\ UNCHANGED local
    OBVIOUS
<1>2. Partitions' = Partitions /\ Global' = Global
    BY <1>1, SameArray
<1>3. \A p : PartCells(p)' = PartCells(p) /\ PartZone(p)' = PartZone(p)
    BY <1>1, SameArray
<1>4. \A cell : PartitionOf(cell)' = PartitionOf(cell)
    BY <1>1, SameArray
<1>5. \A p : LocalIds(p)' = LocalIds(p)
    BY <1>1, <1>3 DEF LocalIds
<1>6. \A cell : Key(cell)' = Key(cell)
    BY <1>1, <1>4 DEF Key
<1>7. LocalClumps' = LocalClumps
    BY <1>2, <1>5 DEF LocalClumps
<1>8. \A p : FirstId(p)' = FirstId(p)
    BY <1>7 DEF FirstId
<1>9. \A key : OldId(key)' = OldId(key)
    BY <1>8 DEF OldId
<1>10. \A clump : IdsOf(clump)' = IdsOf(clump)
    BY <1>6, <1>9 DEF IdsOf
<1>11. \A ids : IsWithin(ids)' <=> IsWithin(ids)
    BY <1>2, <1>10 DEF IsWithin
<1>12. \A p : IsSolved(p)' <=> IsSolved(p)
    BY <1>1, <1>3 DEF IsSolved
<1>13. ArrayOk' <=> ArrayOk
    BY <1>1 DEF ArrayOk, Fits, AllCells
<1>14. Solved' <=> Solved
    BY <1>1, <1>2, <1>12, <1>13 DEF Solved
<1>15. \A keys : OldIds(keys)' = OldIds(keys)
    BY <1>9 DEF OldIds
<1> QED BY <1>5, <1>6, <1>7, <1>8, <1>9, <1>10, <1>11, <1>14, <1>15

LEMMA SameCovered ==
    ASSUME UNCHANGED <<array, local>>
    PROVE  /\ \A border, cs : IsCovered(border, cs)' <=> IsCovered(border, cs)
           /\ \A left, cs : AreCovered(left, cs)' <=> AreCovered(left, cs)
<1>1. UNCHANGED array /\ UNCHANGED local
    OBVIOUS
<1>2. Shape' = Shape /\ Zoned' = Zoned /\ Borders' = Borders
    BY <1>1, SameArray DEF Shape
<1>3. \A p : LastRow(p)' = LastRow(p) /\ LastCol(p)' = LastCol(p)
    BY <1>1 DEF LastRow, LastCol
<1>4. \A direction, p : SideLength(direction, p)' = SideLength(direction, p)
    BY <1>1, <1>2 DEF SideLength, NrRows, NrCols
<1>5. \A direction, p : Sides(direction, p)' = Sides(direction, p)
    BY <1>1, <1>3, <1>4 DEF Sides
<1>6. \A sides : BorderClumps(sides)' = BorderClumps(sides)
    BY <1>1 DEF BorderClumps
<1>7. \A p : CornerPairs(p)' = CornerPairs(p)
    BY <1>3 DEF CornerPairs
<1>8. \A direction, p, clump : SideIds(direction, p, clump)' = SideIds(direction, p, clump)
    BY <1>1, <1>5, SameLocal DEF SideIds
<1>9. \A cell : Key(cell)' = Key(cell)
    BY SameLocal
<1>10. \A keys : OldIds(keys)' = OldIds(keys)
    BY SameLocal
<1>11. /\ \A ids, cs : AreTogether(ids, cs)' <=> AreTogether(ids, cs)
       /\ \A clump, col : StartsAt(clump, col)' <=> StartsAt(clump, col)
    BY DEF AreTogether, StartsAt
<1>12. ASSUME NEW border, NEW cs PROVE IsCovered(border, cs)' <=> IsCovered(border, cs)
    <2>1. (\A pair \in CornerPairs(border[2]) :
            pair[1] \in Zoned /\ array.zone[pair[1]] = array.zone[pair[2]] =>
                AreTogether(OldIds({Key(pair[1]), Key(pair[2])}), cs))' <=>
          (\A pair \in CornerPairs(border[2]) :
            pair[1] \in Zoned /\ array.zone[pair[1]] = array.zone[pair[2]] =>
                AreTogether(OldIds({Key(pair[1]), Key(pair[2])}), cs))
        BY <1>1, <1>2, <1>7, <1>9, <1>10, <1>11
    <2>2. (\A clump \in BorderClumps(Sides(border[1], border[2])),
              col \in 0 .. SideLength(border[1], border[2]) - 1 :
            StartsAt(clump, col) => AreTogether(SideIds(border[1], border[2], clump), cs))' <=>
          (\A clump \in BorderClumps(Sides(border[1], border[2])),
              col \in 0 .. SideLength(border[1], border[2]) - 1 :
            StartsAt(clump, col) => AreTogether(SideIds(border[1], border[2], clump), cs))
        BY <1>4, <1>5, <1>6, <1>8, <1>11
    <2> QED BY <2>1, <2>2 DEF IsCovered
<1>13. \A left, cs : AreCovered(left, cs)' <=> AreCovered(left, cs)
    BY <1>2, <1>12 DEF AreCovered
<1> QED BY <1>12, <1>13

LEMMA NothingDoneKeepsInv ==
    ASSUME ClumpInv, UNCHANGED clump_vars
    PROVE  ClumpInv'
<1>1. UNCHANGED <<array, local>> /\ UNCHANGED array
    BY DEF clump_vars
<1>2. LocalInv'
    <2>1. \A p : IsSolved(p)' <=> IsSolved(p)
        BY <1>1, SameArray DEF IsSolved
    <2> QED BY <1>1, <2>1, SameArray DEF LocalInv, ClumpInv
<1>3. Tabled' <=> Tabled
    BY <1>1, SameArray, SameLocal DEF Tabled, clump_vars
<1>4. TablesTellClumps' <=> TablesTellClumps
    <2>1. \A key : GlobalId(key)' = GlobalId(key)
        BY DEF GlobalId, clump_vars
    <2> QED BY <1>1, <2>1, SameArray, SameLocal DEF TablesTellClumps
<1>5. Serves([collections |-> collections, index |-> index])' <=>
      Serves([collections |-> collections, index |-> index])
    BY <1>1, SameLocal DEF Serves, clump_vars
<1>6. Unites([collections |-> collections, updates |-> updates], idx1 - 1)' <=>
      Unites([collections |-> collections, updates |-> updates], idx1 - 1)
    <2>1. \A u, k : MovedBy(u, k)' = MovedBy(u, k)
        BY DEF MovedBy
    <2> QED BY <1>1, <2>1, SameLocal DEF Unites, clump_vars
<1>7. AreCovered(borders, collections)' <=> AreCovered(borders, collections)
    BY <1>1, SameCovered DEF clump_vars
<1>8. AreCovered({}, collections)' <=> AreCovered({}, collections)
    BY <1>1, SameCovered DEF clump_vars
<1>9. StageInv'
    BY <1>1, <1>3, <1>4, <1>5, <1>6, <1>7, <1>8, SameArray DEF StageInv, ClumpInv, clump_vars
<1>10. OutputInv'
    BY <1>1, SameArray DEF OutputInv, ClumpInv, clump_vars
<1> QED BY <1>2, <1>9, <1>10 DEF ClumpInv

LEMMA SolveLocallyKeepsInv ==
    ASSUME ClumpInv, NEW p \in Partitions, SolveLocally(p)
    PROVE  ClumpInv'
<1>1. /\ p \notin DOMAIN local
      /\ UNCHANGED <<array, lut, borders, collections, index, updates, idx1, output, stage>>
      /\ local' = [q \in DOMAIN local \cup {p} |->
                    IF q = p THEN ClumpIds(PartZone(p), array.diagonal) ELSE local[q]]
    BY DEF SolveLocally, PartZone
<1>2. stage = "wait" /\ DOMAIN output = {}
    BY <1>1 DEF ClumpInv, StageInv, OutputInv
<1>3. LocalInv'
    <2>1. ASSUME NEW q \in DOMAIN local \cup {p} PROVE IsSolved(q)'
        <3>1. PartZone(q)' = PartZone(q) /\ array' = array
            BY <1>1, SameArray
        <3>2. local'[q] = ClumpIds(PartZone(q), array.diagonal)
            BY <1>1, <2>1 DEF ClumpInv, LocalInv, IsSolved
        <3> QED BY <3>1, <3>2 DEF IsSolved
    <2>2. DOMAIN local' = DOMAIN local \cup {p}
        BY <1>1
    <2> QED BY <1>1, <2>1, <2>2, SameArray DEF ClumpInv, LocalInv
<1>4. StageInv'
    BY <1>1, <1>2 DEF ClumpInv, StageInv
<1>5. OutputInv'
    BY <1>1, <1>2 DEF OutputInv
<1> QED BY <1>3, <1>4, <1>5 DEF ClumpInv

(* What keeps the array and its local clumps keeps what is known of them.  *)
LEMMA LocalInvKept ==
    ASSUME LocalInv, UNCHANGED <<array, local>>
    PROVE  LocalInv' /\ (DOMAIN local = Partitions => (DOMAIN local = Partitions)' /\ Solved')
<1>1. UNCHANGED array /\ UNCHANGED local
    OBVIOUS
<1>2. \A p : IsSolved(p)' <=> IsSolved(p)
    BY <1>1, SameArray DEF IsSolved
<1>3. LocalInv'
    BY <1>1, <1>2, SameArray DEF LocalInv
<1>4. DOMAIN local = Partitions => (DOMAIN local = Partitions)' /\ Solved'
    BY <1>1, SameArray, SolvedFromInv, SameLocal
<1> QED BY <1>3, <1>4

LEMMA WhenAllSolvedKeepsInv ==
    ASSUME ClumpInv, WhenAllSolved
    PROVE  ClumpInv'
<1>1. /\ stage = "wait" /\ stage' = "merge" /\ DOMAIN local = Partitions
      /\ lut' = [p \in Partitions |-> [id \in LocalIds(p) |-> FirstId(p) + id]]
      /\ borders' = Borders
      /\ UNCHANGED <<array, local, collections, index, updates, idx1, output>>
      /\ UNCHANGED <<array, local>> /\ UNCHANGED array
    BY DEF WhenAllSolved
<1>2. LocalInv' /\ Solved' /\ DOMAIN local' = Partitions'
    BY <1>1, LocalInvKept DEF ClumpInv
<1>3. DOMAIN output = {}
    BY <1>1 DEF ClumpInv, OutputInv
<1>4. Tabled'
    BY <1>1, <1>2, SameArray, SameLocal DEF Tabled
<1>5. /\ collections' = <<>> /\ index' = [key \in {} |-> 0]
      /\ updates' = [k \in {} |-> 0] /\ idx1' = 1
    BY <1>1 DEF ClumpInv, StageInv
<1>6. Serves([collections |-> collections, index |-> index])'
    BY <1>5 DEF Serves
<1>7. Borders' = Borders
    BY <1>1, SameArray
<1>8. AreCovered(borders, collections)'
    BY <1>1, <1>7 DEF AreCovered
<1>9. StageInv'
    BY <1>1, <1>2, <1>4, <1>5, <1>6, <1>7, <1>8 DEF StageInv
<1>10. OutputInv'
    BY <1>1, <1>3 DEF OutputInv
<1> QED BY <1>2, <1>9, <1>10 DEF ClumpInv

LEMMA EndMergeKeepsInv ==
    ASSUME ClumpInv, EndMerge
    PROVE  ClumpInv'
<1>1. /\ stage = "merge" /\ stage' = "unite" /\ borders = {}
      /\ UNCHANGED <<array, local, lut, borders, collections, index, updates, idx1, output>>
      /\ UNCHANGED <<array, local>> /\ UNCHANGED array
    BY DEF EndMerge
<1>2. DOMAIN local = Partitions /\ Tabled
    BY <1>1 DEF ClumpInv, StageInv
<1>3. LocalInv' /\ DOMAIN local' = Partitions'
    BY <1>1, <1>2, LocalInvKept DEF ClumpInv
<1>4. Tabled'
    BY <1>1, <1>2, SameArray, SameLocal DEF Tabled
<1>5. updates = [k \in {} |-> 0] /\ idx1 = 1 /\ Serves([collections |-> collections, index |-> index])
    BY <1>1 DEF ClumpInv, StageInv
<1>6. Unites([collections |-> collections, updates |-> updates], idx1 - 1)'
    <2>1. /\ collections \in Seq(SUBSET Nat) /\ \A k \in DOMAIN collections : IsWithin(collections[k])
          /\ DOMAIN index \subseteq LocalClumps
          /\ \A key \in DOMAIN index :
                index[key] \in DOMAIN collections /\ OldId(key) \in collections[index[key]]
        BY <1>5 DEF Serves
    <2>2. DOMAIN updates = {}
        BY <1>5
    <2>3. \A k : MovedBy(updates, k) = k
        BY <2>2 DEF MovedBy
    <2>4. Unites([collections |-> collections, updates |-> updates], idx1 - 1)
        BY <2>1, <2>2, <2>3 DEF Unites
    <2>5. \A u, k : MovedBy(u, k)' = MovedBy(u, k)
        BY DEF MovedBy
    <2> QED BY <1>1, <2>4, <2>5, SameLocal DEF Unites
<1>7. AreCovered({}, collections)'
    <2>1. AreCovered({}, collections)
        BY <1>1 DEF ClumpInv, StageInv
    <2> QED BY <1>1, <2>1, SameCovered
<1>8. StageInv'
    BY <1>1, <1>3, <1>4, <1>5, <1>6, <1>7 DEF StageInv
<1>9. OutputInv'
    BY <1>1, SameArray DEF ClumpInv, OutputInv
<1> QED BY <1>3, <1>8, <1>9 DEF ClumpInv

LEMMA CoveredStays ==
    ASSUME NEW border, NEW cs, NEW ds, IsCovered(border, cs), Grown(cs, ds)
    PROVE  IsCovered(border, ds)
BY StayTogether DEF IsCovered

LEMMA MergeClumpsKeepsInv ==
    ASSUME ClumpInv, MergeClumps
    PROVE  ClumpInv'
<1> DEFINE before == [collections |-> collections, index |-> index]
<1>1. /\ stage = "merge" /\ stage' = "merge"
      /\ UNCHANGED <<array, local, lut, updates, idx1, output>>
      /\ UNCHANGED <<array, local>> /\ UNCHANGED array
    BY DEF MergeClumps
<1>2. PICK border \in borders :
        /\ borders' = borders \ {border}
        /\ LET after == IF border[1] = "corner" THEN MergeCorner(before, border[2])
                        ELSE MergeBorder(before, border[1], border[2])
           IN  collections' = after.collections /\ index' = after.index
    BY DEF MergeClumps
<1>3. PICK after :
        /\ after = IF border[1] = "corner" THEN MergeCorner(before, border[2])
                   ELSE MergeBorder(before, border[1], border[2])
        /\ collections' = after.collections /\ index' = after.index
    BY <1>2
<1>4. /\ DOMAIN local = Partitions /\ Tabled /\ borders \subseteq Borders
      /\ Serves(before) /\ AreCovered(borders, collections)
      /\ updates = [k \in {} |-> 0] /\ idx1 = 1 /\ LocalInv
    BY <1>1 DEF ClumpInv, StageInv
<1>5. /\ border[2] \in Partitions /\ border[1] \in {"south", "east", "corner"}
      /\ border[1] \in BordersOf(border[2])
    BY <1>2, <1>4 DEF Borders
<1>6. before.collections = collections
    OBVIOUS
<1> HIDE DEF before
<1>7. Serves(after) /\ Grown(collections, after.collections) /\ IsCovered(border, after.collections)
    <2>1. CASE border[1] = "corner"
        <3>1. IsCorner(border[2]) /\ after = MergeCorner(before, border[2])
            BY <1>3, <1>5, <2>1 DEF IsCorner
        <3> QED BY <1>4, <1>6, <2>1, <3>1, MergeCornerServes DEF IsCovered
    <2>2. CASE border[1] # "corner"
        <3>1. IsBorder(border[1], border[2]) /\ after = MergeBorder(before, border[1], border[2])
            BY <1>3, <1>5, <2>2 DEF IsBorder
        <3> QED BY <1>4, <1>6, <2>2, <3>1, MergeBorderServes DEF IsCovered
    <2> QED BY <2>1, <2>2
<1>8. LocalInv' /\ DOMAIN local' = Partitions'
    BY <1>1, <1>4, LocalInvKept
<1>9. Tabled'
    BY <1>1, <1>4, SameArray, SameLocal DEF Tabled
<1>10. Serves([collections |-> collections, index |-> index])'
    BY <1>1, <1>3, <1>7, SameLocal DEF Serves
<1>11. AreCovered(borders, collections)'
    <2>1. ASSUME NEW b \in Borders \ (borders \ {border}) PROVE IsCovered(b, after.collections)
        <3>1. CASE b = border
            BY <1>7, <3>1
        <3>2. CASE b # border
            <4>1. IsCovered(b, collections)
                BY <1>4, <2>1, <3>2 DEF AreCovered
            <4> QED BY <1>7, <4>1, CoveredStays
        <3> QED BY <3>1, <3>2
    <2>2. AreCovered(borders \ {border}, after.collections)
        BY <2>1 DEF AreCovered
    <2>3. \A left, cs : AreCovered(left, cs)' <=> AreCovered(left, cs)
        BY <1>1, SameCovered
    <2> QED BY <1>2, <1>3, <2>2, <2>3
<1>12. borders' \subseteq Borders'
    BY <1>1, <1>2, <1>4, SameArray
<1>13. StageInv'
    BY <1>1, <1>4, <1>8, <1>9, <1>10, <1>11, <1>12 DEF StageInv
<1>14. OutputInv'
    BY <1>1, SameArray DEF ClumpInv, OutputInv
<1> QED BY <1>8, <1>13, <1>14 DEF ClumpInv

LEMMA UniteCollectionsKeepsInv ==
    ASSUME ClumpInv, UniteCollections
    PROVE  ClumpInv'
<1>1. /\ stage = "unite" /\ stage' = "unite" /\ idx1 <= Len(collections)
      /\ idx1' = idx1 + 1
      /\ UNCHANGED <<array, local, lut, borders, index, output>>
      /\ UNCHANGED <<array, local>> /\ UNCHANGED array
    BY DEF UniteCollections
<1>2. PICK after : after = Unite /\ collections' = after.collections /\ updates' = after.updates
    BY DEF UniteCollections
<1>3. /\ DOMAIN local = Partitions /\ Tabled /\ LocalInv /\ Solved
      /\ idx1 \in Nat \ {0}
      /\ Unites([collections |-> collections, updates |-> updates], idx1 - 1)
    BY <1>1 DEF ClumpInv, StageInv, Tabled
<1>4. Unites(after, idx1)
    BY <1>1, <1>2, <1>3, UniteUnites
<1>5. LocalInv' /\ DOMAIN local' = Partitions'
    BY <1>1, <1>3, LocalInvKept
<1>6. Tabled'
    BY <1>1, <1>3, SameArray, SameLocal DEF Tabled
<1>7. idx1' \in Nat \ {0} /\ idx1' - 1 = idx1 /\ idx1' # 1
    BY <1>1, <1>3
<1>8. Unites([collections |-> collections, updates |-> updates], idx1 - 1)'
    <2>1. \A u, k : MovedBy(u, k)' = MovedBy(u, k)
        BY DEF MovedBy
    <2> QED BY <1>1, <1>2, <1>4, <1>7, <2>1, SameLocal DEF Unites
<1>9. StageInv'
    BY <1>1, <1>5, <1>6, <1>7, <1>8 DEF StageInv
<1>10. OutputInv'
    BY <1>1, SameArray DEF ClumpInv, OutputInv
<1> QED BY <1>5, <1>9, <1>10 DEF ClumpInv

LEMMA LowestIsOne ==
    ASSUME NEW ids, ids \subseteq Nat, ids # {}
    PROVE  Lowest(ids) \in ids
<1>1. \E id \in ids : \A other \in ids : id <= other
    BY SmallestNumber
<1> QED BY <1>1 DEF Lowest

LEMMA UpdateTablesKeepsInv ==
    ASSUME ClumpInv, UpdateTables
    PROVE  ClumpInv'
<1>1. /\ stage = "unite" /\ stage' = "reclass"
      /\ UNCHANGED <<array, local, borders, collections, updates, idx1, output>>
      /\ UNCHANGED <<array, local>> /\ UNCHANGED array
      /\ index' = [key \in DOMAIN index |-> Moved(index[key])]
      /\ lut' = [p \in Partitions |-> [id \in DOMAIN lut[p] |->
                    IF <<p, id>> \in DOMAIN index THEN Lowest(collections[index'[<<p, id>>]])
                    ELSE lut[p][id]]]
    BY DEF UpdateTables
<1>2. /\ DOMAIN local = Partitions /\ Tabled /\ LocalInv /\ Solved /\ DOMAIN output = {}
      /\ Unites([collections |-> collections, updates |-> updates], idx1 - 1)
    BY <1>1 DEF ClumpInv, StageInv, OutputInv, Tabled
<1>3. LocalInv' /\ DOMAIN local' = Partitions'
    BY <1>1, <1>2, LocalInvKept
<1>4. /\ collections \in Seq(SUBSET Nat) /\ \A k \in DOMAIN collections : IsWithin(collections[k])
      /\ DOMAIN updates \subseteq DOMAIN collections
      /\ \A k \in DOMAIN updates : updates[k] \in DOMAIN collections
      /\ \A key \in DOMAIN index :
            index[key] \in DOMAIN collections /\ OldId(key) \in collections[MovedBy(updates, index[key])]
    BY <1>2 DEF Unites
<1>5. \A k : Moved(k) = MovedBy(updates, k)
    BY DEF Moved, MovedBy
<1>6. ASSUME NEW clump \in Global, NEW cell \in clump
      PROVE  lut'[Key(cell)[1]][Key(cell)[2]] \in IdsOf(clump)
    <2> DEFINE p == Key(cell)[1]
               id == Key(cell)[2]
    <2>1. cell \in Zoned /\ OldId(Key(cell)) \in IdsOf(clump)
        BY <1>2, <1>6, IdsTellClumps
    <2>2. p \in Partitions /\ id \in LocalIds(p) /\ Key(cell) = <<p, id>>
        <3>1. Key(cell) = <<p, id>>
            BY DEF Key
        <3> QED BY <1>2, <2>1, <3>1, KeyFacts
    <2> HIDE DEF p, id
    <2>3. DOMAIN lut[p] = LocalIds(p) /\ lut[p][id] = OldId(Key(cell))
        BY <1>2, <2>2 DEF Tabled, OldId
    <2>4. lut'[p][id] = IF Key(cell) \in DOMAIN index THEN Lowest(collections[index'[Key(cell)]])
                        ELSE lut[p][id]
        BY <1>1, <2>2, <2>3
    <2>5. CASE Key(cell) \notin DOMAIN index
        BY <2>1, <2>3, <2>4, <2>5 DEF p, id
    <2>6. CASE Key(cell) \in DOMAIN index
        <3> DEFINE k == MovedBy(updates, index[Key(cell)])
        <3>1. index'[Key(cell)] = k /\ OldId(Key(cell)) \in collections[k]
            BY <1>1, <1>4, <1>5, <2>6
        <3>2. k \in DOMAIN collections
            BY <1>4, <2>6 DEF MovedBy
        <3> HIDE DEF k
        <3>3. collections[k] \subseteq Nat
            BY <1>4, <3>2
        <3>4. Lowest(collections[k]) \in collections[k]
            BY <3>1, <3>3, LowestIsOne
        <3>5. PICK other \in Global : collections[k] \subseteq IdsOf(other)
            BY <1>4, <3>1, <3>2 DEF IsWithin
        <3>6. other = clump
            BY <1>2, <2>1, <3>1, <3>5, IdsTellClumps
        <3>7. lut'[p][id] \in IdsOf(clump)
            BY <2>4, <2>6, <3>1, <3>4, <3>5, <3>6
        <3> QED BY <3>7 DEF p, id
    <2> QED BY <2>5, <2>6
<1>7. TablesTellClumps'
    <2>1. Global' = Global /\ \A cell : Key(cell)' = Key(cell)
        BY <1>1, SameArray, SameLocal
    <2>2. \A clump : IdsOf(clump)' = IdsOf(clump)
        BY <1>1, SameLocal
    <2>3. \A key : GlobalId(key)' = lut'[key[1]][key[2]]
        BY DEF GlobalId
    <2> QED BY <1>6, <2>1, <2>2, <2>3 DEF TablesTellClumps
<1>8. StageInv'
    BY <1>1, <1>3, <1>7 DEF StageInv
<1>9. OutputInv'
    BY <1>1, <1>2 DEF OutputInv
<1> QED BY <1>3, <1>8, <1>9 DEF ClumpInv

LEMMA ReclassKeepsInv ==
    ASSUME ClumpInv, NEW p \in Partitions, Reclass(p)
    PROVE  ClumpInv'
<1>1. /\ stage = "reclass"
      /\ UNCHANGED <<array, local, lut, borders, collections, index, updates, idx1, stage>>
      /\ UNCHANGED <<array, local>> /\ UNCHANGED array
      /\ output' = [q \in DOMAIN output \cup {p} |->
                    IF q # p THEN output[q]
                    ELSE [cell \in PartCells(p) |->
                            IF local[p][cell] = NoData THEN NoData ELSE lut[p][local[p][cell]]]]
    BY DEF Reclass
<1>2. DOMAIN local = Partitions /\ LocalInv /\ TablesTellClumps
    BY <1>1 DEF ClumpInv, StageInv
<1>3. LocalInv' /\ DOMAIN local' = Partitions'
    BY <1>1, <1>2, LocalInvKept
<1>4. TablesTellClumps'
    <2>1. \A key : GlobalId(key)' = GlobalId(key)
        BY <1>1 DEF GlobalId
    <2> QED BY <1>1, <1>2, <2>1, SameArray, SameLocal DEF TablesTellClumps
<1>5. StageInv'
    BY <1>1, <1>3, <1>4 DEF StageInv
<1>6. OutputInv'
    <2>1. \A q \in DOMAIN output : q # p => output'[q] = output[q]
        BY <1>1
    <2>2. output'[p] = [cell \in PartCells(p) |->
                            IF local[p][cell] = NoData THEN NoData ELSE lut[p][local[p][cell]]]
        BY <1>1
    <2>3. DOMAIN output' = DOMAIN output \cup {p}
        BY <1>1
    <2> QED BY <1>1, <2>1, <2>2, <2>3, SameArray DEF ClumpInv, OutputInv
<1> QED BY <1>3, <1>5, <1>6 DEF ClumpInv

LEMMA ClumpInvNext == ClumpInv /\ [ClumpNext]_clump_vars => ClumpInv'
<1> SUFFICES ASSUME ClumpInv, [ClumpNext]_clump_vars PROVE ClumpInv'
    OBVIOUS
<1>1. ASSUME NEW p \in Partitions, SolveLocally(p) PROVE ClumpInv'
    BY <1>1, SolveLocallyKeepsInv
<1>2. ASSUME NEW p \in Partitions, Reclass(p) PROVE ClumpInv'
    BY <1>2, ReclassKeepsInv
<1>3. CASE WhenAllSolved
    BY <1>3, WhenAllSolvedKeepsInv
<1>4. CASE MergeClumps
    BY <1>4, MergeClumpsKeepsInv
<1>5. CASE EndMerge
    BY <1>5, EndMergeKeepsInv
<1>6. CASE UniteCollections
    BY <1>6, UniteCollectionsKeepsInv
<1>7. CASE UpdateTables
    BY <1>7, UpdateTablesKeepsInv
<1>8. CASE ClumpTerminated \/ UNCHANGED clump_vars
    BY <1>8, NothingDoneKeepsInv DEF ClumpTerminated
<1> QED BY <1>1, <1>2, <1>3, <1>4, <1>5, <1>6, <1>7, <1>8 DEF ClumpNext

(* What the result tells apart is apart: cells with the same id are in the *)
(* same clump, and cells without an id are those in no zone, for arrays,   *)
(* partitions and zones of any shape, however often clumps cross borders.  *)
THEOREM SameIdsAreSameClumps == ClumpSpec => []SameIdSameClump
<1>1. ClumpInv => SameIdSameClump
    <2> SUFFICES ASSUME ClumpInv, Done PROVE SameIdSameClump
        BY DEF SameIdSameClump
    <2>1. LocalInv /\ OutputInv /\ ArrayOk
        BY ArrayFacts DEF ClumpInv, LocalInv
    <2>2. stage = "reclass"
        BY <2>1, PartitionFacts DEF Done, OutputInv
    <2>3. TablesTellClumps /\ Solved
        BY <2>1, <2>2, SolvedFromInv DEF ClumpInv, StageInv
    <2>4. ASSUME NEW cell \in AllCells
          PROVE  Result[cell] = IF array.zone[cell] = NoData THEN NoData ELSE GlobalId(Key(cell))
        <3> DEFINE p == PartitionOf(cell)
        <3>1. p \in Partitions /\ cell \in PartCells(p)
            BY <2>1, PartitionFacts DEF PartCells
        <3>2. output[p] = [c \in PartCells(p) |->
                    IF local[p][c] = NoData THEN NoData ELSE lut[p][local[p][c]]]
            BY <2>1, <3>1 DEF Done, OutputInv
        <3>3. local[p][cell] = NoData <=> array.zone[cell] = NoData
            BY <2>1, <2>3, <3>1, LocalFacts DEF Solved
        <3>4. Result[cell] = output[p][cell] /\ GlobalId(Key(cell)) = lut[p][local[p][cell]]
            BY DEF Result, GlobalId, Key
        <3> HIDE DEF p
        <3> QED BY <3>1, <3>2, <3>3, <3>4
    <2>5. ASSUME NEW clump \in Global, NEW cell \in clump
          PROVE  Result[cell] \in IdsOf(clump) /\ Result[cell] \in Nat /\ cell \in AllCells
        <3>1. cell \in Zoned /\ cell \in AllCells /\ array.zone[cell] # NoData
            BY <2>1, GlobalClumps
        <3>2. Result[cell] = GlobalId(Key(cell))
            BY <2>4, <3>1
        <3> QED BY <2>3, <3>1, <3>2, IdsTellClumps DEF TablesTellClumps
    <2>6. ASSUME NEW cell \in AllCells PROVE Result[cell] = NoData <=> array.zone[cell] = NoData
        <3>1. CASE array.zone[cell] = NoData
            BY <2>4, <3>1
        <3>2. CASE array.zone[cell] # NoData
            <4>1. PICK clump \in Global : cell \in clump
                BY <2>1, <3>2, GlobalClumps DEF Zoned
            <4>2. Result[cell] \in Nat /\ NoData \notin Nat
                BY <2>1, <2>5, <4>1 DEF ArrayOk
            <4> QED BY <3>2, <4>2
        <3> QED BY <3>1, <3>2
    <2>7. ASSUME NEW clump \in Global, NEW other \in Global, clump # other
          PROVE  {Result[cell] : cell \in clump} \cap {Result[cell] : cell \in other} = {}
        <3>1. {Result[cell] : cell \in clump} \subseteq IdsOf(clump)
            BY <2>5
        <3>2. {Result[cell] : cell \in other} \subseteq IdsOf(other)
            BY <2>5
        <3> QED BY <2>3, <2>7, <3>1, <3>2, IdsTellClumps
    <2> QED BY <2>6, <2>7 DEF SameIdSameClump, Global
<1> QED BY <1>1, ClumpInvInit, ClumpInvNext, PTL DEF ClumpSpec

-----------------------------------------------------------------------------
(* What touches across a border or corner is brought together there.       *)

LEMMA SidesTogether ==
    ASSUME ArrayOk, NEW direction, NEW p, IsBorder(direction, p),
           NEW cs, IsCovered(<<direction, p>>, cs),
           NEW i \in 0 .. SideLength(direction, p) - 1, NEW j \in 0 .. SideLength(direction, p) - 1,
           NEW a \in Zoned, NEW b \in Zoned, Touch(array.diagonal, a, b), array.zone[a] = array.zone[b],
           a = Sides(direction, p)[<<0, i>>], b = Sides(direction, p)[<<1, j>>]
    PROVE  AreTogether(OldIds({Key(a), Key(b)}), cs)
<1> DEFINE length == SideLength(direction, p)
           cells == Array(2, length)
           sides == Sides(direction, p)
           zone == BorderZone(direction, p)
           zoned == {side \in cells : array.zone[sides[side]] # NoData}
           clumps == Clumps(zone, array.diagonal)
<1>1. length \in Nat /\ DOMAIN sides = cells
    BY BorderFacts
<1>2. <<0, i>> \in cells /\ <<1, j>> \in cells
    <2>1. 0 \in 0 .. 2 - 1 /\ 1 \in 0 .. 2 - 1
        OBVIOUS
    <2> QED BY <2>1 DEF Array
<1>3. <<0, i>> \in zoned /\ <<1, j>> \in zoned
    BY <1>2 DEF Zoned
<1>4. DivideIntoClumps(zone, array.diagonal, clumps, zoned)
    BY BorderClumpFacts
<1>5. zone[<<0, i>>] = array.zone[a] /\ zone[<<1, j>>] = array.zone[b]
    BY <1>1, <1>2 DEF BorderZone
<1>6. Touch(array.diagonal, <<0, i>>, <<1, j>>)
    BY <1>2, SidesTouch
<1> HIDE DEF zone, zoned, clumps, cells
<1>7. PICK clump \in clumps : <<0, i>> \in clump
    BY <1>3, <1>4 DEF DivideIntoClumps
<1>8. <<1, j>> \in clump
    BY <1>3, <1>4, <1>5, <1>6, <1>7 DEF DivideIntoClumps, IsClosed
<1>9. clump \in BorderClumps(sides)
    <2>1. {0, 1} \subseteq {side[1] : side \in clump}
        <3>1. <<0, i>>[1] = 0 /\ <<1, j>>[1] = 1
            OBVIOUS
        <3> QED BY <1>7, <1>8, <3>1
    <2> QED BY <2>1, BorderClumpFacts DEF clumps, zone
<1> DEFINE cols == {col \in Nat : <<0, col>> \in clump}
<1>10. PICK col \in cols : \A other \in cols : col <= other
    <2>1. i \in cols /\ cols \subseteq Nat
        BY <1>1, <1>7
    <2> HIDE DEF cols
    <2> QED BY <2>1, SmallestNumber
<1>11. col \in Nat /\ col <= i /\ <<0, col>> \in clump
    BY <1>1, <1>7, <1>10
<1>12. col \in 0 .. length - 1
    BY <1>1, <1>11
<1>13. StartsAt(clump, col)
    <2>1. ASSUME NEW c \in 0 .. col - 1, <<0, c>> \in clump PROVE FALSE
        <3>1. c \in cols /\ c < col /\ c \in Nat
            BY <1>11, <2>1
        <3> HIDE DEF cols
        <3>2. col <= c
            BY <1>10, <3>1
        <3> QED BY <1>11, <3>1, <3>2
    <2> QED BY <1>11, <2>1 DEF StartsAt
<1> HIDE DEF cols
<1>14. AreTogether(SideIds(direction, p, clump), cs)
    <2>1. direction # "corner"
        BY DEF IsBorder
    <2>2. <<direction, p>>[1] = direction /\ <<direction, p>>[2] = p
        OBVIOUS
    <2>3. \A k \in BorderClumps(Sides(direction, p)), c \in 0 .. SideLength(direction, p) - 1 :
            StartsAt(k, c) => AreTogether(SideIds(direction, p, k), cs)
        BY <2>1, <2>2 DEF IsCovered
    <2> QED BY <1>9, <1>12, <1>13, <2>3
<1>15. OldIds({Key(a), Key(b)}) \subseteq SideIds(direction, p, clump)
    BY <1>7, <1>8 DEF OldIds, SideIds
<1> QED BY <1>14, <1>15 DEF AreTogether

RowsMeet(a, b) ==
    /\ PartitionOf(b)[1] = PartitionOf(a)[1] + 1
    /\ b[1] = a[1] + 1 /\ a[1] = LastRow(PartitionOf(a))

ColsMeet(a, b) ==
    /\ PartitionOf(b)[2] = PartitionOf(a)[2] + 1
    /\ b[2] = a[2] + 1 /\ a[2] = LastCol(PartitionOf(a))

(* Neighbours are in the same row of partitions, or on both sides of its   *)
(* border; and likewise for columns.                                       *)
LEMMA Neighbours ==
    ASSUME ArrayOk, NEW a \in AllCells, NEW b \in AllCells, NEW diagonal, Touch(diagonal, a, b)
    PROVE  /\ PartitionOf(a)[1] = PartitionOf(b)[1] \/ RowsMeet(a, b) \/ RowsMeet(b, a)
           /\ PartitionOf(a)[2] = PartitionOf(b)[2] \/ ColsMeet(a, b) \/ ColsMeet(b, a)
<1>1. \A c \in AllCells :
        /\ c[1] \in 0 .. array.nr_rows - 1 /\ c[2] \in 0 .. array.nr_cols - 1
        /\ PartitionOf(c)[1] = Part(array.nr_rows, array.partition_rows, c[1])
        /\ PartitionOf(c)[2] = Part(array.nr_cols, array.partition_cols, c[2])
    BY AllCellsFacts, PartitionFacts
<1>2. a[1] - b[1] \in -1 .. 1 /\ a[2] - b[2] \in -1 .. 1
    BY DEF Touch
<1>3. /\ Fits(array.nr_rows, array.partition_rows) /\ Fits(array.nr_cols, array.partition_cols)
      /\ array.nr_rows \in Nat /\ array.nr_cols \in Nat
    BY DEF ArrayOk, Fits
<1>4. ASSUME NEW c \in AllCells, NEW d \in AllCells, d[1] = c[1] + 1,
             PartitionOf(c)[1] # PartitionOf(d)[1]
      PROVE  RowsMeet(c, d)
    <2> DEFINE n == array.nr_rows
               m == array.partition_rows
               x == c[1]
    <2>1. Fits(n, m) /\ x \in 0 .. n - 1 /\ x + 1 <= n - 1 /\ Part(n, m, x) # Part(n, m, x + 1)
        BY <1>1, <1>3, <1>4
    <2> HIDE DEF n, m, x
    <2>2. Part(n, m, x + 1) = Part(n, m, x) + 1 /\ x + 1 = (Part(n, m, x) + 1) * m
        BY <2>1, NextParts
    <2>3. LastRow(PartitionOf(c)) = (Part(n, m, x) + 1) * m - 1
        BY <1>1 DEF LastRow, n, m, x
    <2>4. LastRow(PartitionOf(c)) = x
        <3>1. x \in Int
            BY <1>1, <1>3 DEF x, n
        <3> DEFINE r == (Part(n, m, x) + 1) * m
        <3>2. x + 1 = r /\ LastRow(PartitionOf(c)) = r - 1
            BY <2>2, <2>3
        <3> HIDE DEF r
        <3> QED BY <3>1, <3>2
    <2> QED BY <1>1, <1>4, <2>2, <2>4 DEF RowsMeet, n, m, x
<1>5. ASSUME NEW c \in AllCells, NEW d \in AllCells, d[2] = c[2] + 1,
             PartitionOf(c)[2] # PartitionOf(d)[2]
      PROVE  ColsMeet(c, d)
    <2> DEFINE n == array.nr_cols
               m == array.partition_cols
               x == c[2]
    <2>1. Fits(n, m) /\ x \in 0 .. n - 1 /\ x + 1 <= n - 1 /\ Part(n, m, x) # Part(n, m, x + 1)
        BY <1>1, <1>3, <1>5
    <2> HIDE DEF n, m, x
    <2>2. Part(n, m, x + 1) = Part(n, m, x) + 1 /\ x + 1 = (Part(n, m, x) + 1) * m
        BY <2>1, NextParts
    <2>3. LastCol(PartitionOf(c)) = (Part(n, m, x) + 1) * m - 1
        BY <1>1 DEF LastCol, n, m, x
    <2>4. LastCol(PartitionOf(c)) = x
        <3>1. x \in Int
            BY <1>1, <1>3 DEF x, n
        <3> DEFINE r == (Part(n, m, x) + 1) * m
        <3>2. x + 1 = r /\ LastCol(PartitionOf(c)) = r - 1
            BY <2>2, <2>3
        <3> HIDE DEF r
        <3> QED BY <3>1, <3>2
    <2> QED BY <1>1, <1>5, <2>2, <2>4 DEF ColsMeet, n, m, x
<1>6. a[1] = b[1] \/ b[1] = a[1] + 1 \/ a[1] = b[1] + 1
    <2>1. a[1] \in Int /\ b[1] \in Int
        BY <1>1, <1>3
    <2> QED BY <1>2, <2>1
<1>7. a[2] = b[2] \/ b[2] = a[2] + 1 \/ a[2] = b[2] + 1
    <2>1. a[2] \in Int /\ b[2] \in Int
        BY <1>1, <1>3
    <2> QED BY <1>2, <2>1
<1>8. PartitionOf(a)[1] = PartitionOf(b)[1] \/ RowsMeet(a, b) \/ RowsMeet(b, a)
    BY <1>1, <1>4, <1>6
<1>9. PartitionOf(a)[2] = PartitionOf(b)[2] \/ ColsMeet(a, b) \/ ColsMeet(b, a)
    BY <1>1, <1>5, <1>7
<1> QED BY <1>8, <1>9

(* The columns and rows of a partition, counted from its first.            *)
LEMMA WithinPartition ==
    ASSUME ArrayOk, NEW a \in AllCells, NEW p \in Partitions
    PROVE  /\ p[1] * array.partition_rows \in Nat /\ p[2] * array.partition_cols \in Nat
           /\ PartitionOf(a)[1] = p[1] => a[1] - p[1] * array.partition_rows \in 0 .. NrRows(p) - 1
           /\ PartitionOf(a)[2] = p[2] => a[2] - p[2] * array.partition_cols \in 0 .. NrCols(p) - 1
<1>1. /\ a[1] \in 0 .. array.nr_rows - 1 /\ a[2] \in 0 .. array.nr_cols - 1
      /\ PartitionOf(a)[1] = Part(array.nr_rows, array.partition_rows, a[1])
      /\ PartitionOf(a)[2] = Part(array.nr_cols, array.partition_cols, a[2])
      /\ p[1] \in 0 .. Shape.rows - 1 /\ p[2] \in 0 .. Shape.cols - 1
    BY AllCellsFacts, PartitionFacts
<1>2. /\ NrRows(p) = Size(array.nr_rows, array.partition_rows, p[1])
      /\ NrCols(p) = Size(array.nr_cols, array.partition_cols, p[2])
    BY PartitionFacts DEF NrRows, NrCols, Size
<1>3. /\ NrRows(p) \in Nat /\ p[1] * array.partition_rows \in Nat
      /\ PartitionOf(a)[1] = p[1] <=>
            a[1] \in p[1] * array.partition_rows .. p[1] * array.partition_rows + NrRows(p) - 1
    BY <1>1, <1>2, PartSize, PartitionFacts DEF ArrayOk
<1>4. /\ NrCols(p) \in Nat /\ p[2] * array.partition_cols \in Nat
      /\ PartitionOf(a)[2] = p[2] <=>
            a[2] \in p[2] * array.partition_cols .. p[2] * array.partition_cols + NrCols(p) - 1
    BY <1>1, <1>2, PartSize, PartitionFacts DEF ArrayOk
<1> DEFINE f1 == p[1] * array.partition_rows
           f2 == p[2] * array.partition_cols
<1>5. a[1] \in Int /\ a[2] \in Int
    BY <1>1 DEF ArrayOk, Fits
<1> HIDE DEF f1, f2
<1>6. PartitionOf(a)[1] = p[1] => a[1] - f1 \in 0 .. NrRows(p) - 1
    BY <1>3, <1>5 DEF f1
<1>7. PartitionOf(a)[2] = p[2] => a[2] - f2 \in 0 .. NrCols(p) - 1
    BY <1>4, <1>5 DEF f2
<1> QED BY <1>3, <1>4, <1>6, <1>7 DEF f1, f2

(* Over the border to the south.                                           *)
LEMMA SouthCovered ==
    ASSUME ArrayOk, NEW cs, AreCovered({}, cs),
           NEW a \in Zoned, NEW b \in Zoned, Touch(array.diagonal, a, b), array.zone[a] = array.zone[b],
           RowsMeet(a, b), PartitionOf(a)[2] = PartitionOf(b)[2]
    PROVE  AreTogether(OldIds({Key(a), Key(b)}), cs)
<1> DEFINE p == PartitionOf(a)
           f == p[2] * array.partition_cols
           i == a[2] - f
           j == b[2] - f
<1>1. a \in AllCells /\ b \in AllCells
    BY DEF Zoned
<1>2. p \in Partitions /\ PartitionOf(b) \in Partitions
    BY <1>1, PartitionFacts
<1>3. IsBorder("south", p)
    <2>1. /\ p[1] \in 0 .. Shape.rows - 1 /\ PartitionOf(b)[1] \in 0 .. Shape.rows - 1
          /\ Shape.rows \in Nat
        BY <1>2, PartitionFacts
    <2>2. PartitionOf(b)[1] = p[1] + 1
        BY DEF RowsMeet
    <2> HIDE DEF p
    <2>3. p[1] < Shape.rows - 1
        BY <2>1, <2>2
    <2> QED BY <1>2, <2>3 DEF IsBorder, BordersOf
<1>4. SideLength("south", p) = NrCols(p)
    BY DEF SideLength
<1>5. f \in Nat /\ i \in 0 .. NrCols(p) - 1 /\ j \in 0 .. NrCols(p) - 1
    <2>1. /\ f \in Nat
          /\ PartitionOf(a)[2] = p[2] => a[2] - f \in 0 .. NrCols(p) - 1
          /\ PartitionOf(b)[2] = p[2] => b[2] - f \in 0 .. NrCols(p) - 1
        <3>1. /\ f \in Nat
              /\ PartitionOf(a)[2] = p[2] => a[2] - f \in 0 .. NrCols(p) - 1
            <4> HIDE DEF p
            <4> QED BY <1>1, <1>2, WithinPartition
        <3>2. PartitionOf(b)[2] = p[2] => b[2] - f \in 0 .. NrCols(p) - 1
            <4> HIDE DEF p
            <4> QED BY <1>1, <1>2, WithinPartition
        <3> QED BY <3>1, <3>2
    <2> QED BY <2>1
<1>6. /\ a[1] = LastRow(p) /\ b[1] = a[1] + 1 /\ a = <<a[1], a[2]>> /\ b = <<b[1], b[2]>>
      /\ a[2] \in Int /\ b[2] \in Int /\ a[1] \in Int
    <2>1. a[1] = LastRow(p) /\ b[1] = a[1] + 1
        BY DEF RowsMeet
    <2>2. \A c \in AllCells : c \in Nat \X Nat /\ c = <<c[1], c[2]>>
        BY AllCellsFacts
    <2> HIDE DEF p
    <2> QED BY <1>1, <2>1, <2>2
<1>7. a = Sides("south", p)[<<0, i>>] /\ b = Sides("south", p)[<<1, j>>]
    <2>1. \A side \in Array(2, NrCols(p)) :
            Sides("south", p)[side] = <<LastRow(p) + side[1], f + side[2]>>
        BY <1>4 DEF Sides
    <2>2. <<0, i>> \in Array(2, NrCols(p)) /\ <<1, j>> \in Array(2, NrCols(p))
        <3>1. 0 \in 0 .. 2 - 1 /\ 1 \in 0 .. 2 - 1
            OBVIOUS
        <3> HIDE DEF i, j, p
        <3> QED BY <1>5, <3>1 DEF Array
    <2>3. f + i = a[2] /\ f + j = b[2]
        <3> HIDE DEF f
        <3> QED BY <1>5, <1>6
    <2> HIDE DEF p, i, j, f
    <2>4. Sides("south", p)[<<0, i>>] = <<LastRow(p) + 0, f + i>>
        BY <2>1, <2>2
    <2>5. Sides("south", p)[<<1, j>>] = <<LastRow(p) + 1, f + j>>
        BY <2>1, <2>2
    <2>6. LastRow(p) + 0 = a[1] /\ LastRow(p) + 1 = b[1]
        BY <1>6
    <2> QED BY <1>6, <2>3, <2>4, <2>5, <2>6
<1>8. IsCovered(<<"south", p>>, cs)
    <2>1. <<"south", p>> \in Borders
        BY <1>2, <1>3 DEF IsBorder, Borders
    <2> QED BY <2>1 DEF AreCovered
<1> HIDE DEF p, i, j, f
<1> QED BY <1>3, <1>4, <1>5, <1>7, <1>8, SidesTogether

(* Over the border to the east.                                            *)
LEMMA EastCovered ==
    ASSUME ArrayOk, NEW cs, AreCovered({}, cs),
           NEW a \in Zoned, NEW b \in Zoned, Touch(array.diagonal, a, b), array.zone[a] = array.zone[b],
           ColsMeet(a, b), PartitionOf(a)[1] = PartitionOf(b)[1]
    PROVE  AreTogether(OldIds({Key(a), Key(b)}), cs)
<1> DEFINE p == PartitionOf(a)
           f == p[1] * array.partition_rows
           i == a[1] - f
           j == b[1] - f
<1>1. a \in AllCells /\ b \in AllCells
    BY DEF Zoned
<1>2. p \in Partitions /\ PartitionOf(b) \in Partitions
    BY <1>1, PartitionFacts
<1>3. IsBorder("east", p)
    <2>1. /\ p[2] \in 0 .. Shape.cols - 1 /\ PartitionOf(b)[2] \in 0 .. Shape.cols - 1
          /\ Shape.cols \in Nat
        BY <1>2, PartitionFacts
    <2>2. PartitionOf(b)[2] = p[2] + 1
        BY DEF ColsMeet
    <2> HIDE DEF p
    <2>3. p[2] < Shape.cols - 1
        BY <2>1, <2>2
    <2> QED BY <1>2, <2>3 DEF IsBorder, BordersOf
<1>4. SideLength("east", p) = NrRows(p)
    BY DEF SideLength
<1>5. f \in Nat /\ i \in 0 .. NrRows(p) - 1 /\ j \in 0 .. NrRows(p) - 1
    <2>1. /\ f \in Nat
          /\ PartitionOf(a)[1] = p[1] => a[1] - f \in 0 .. NrRows(p) - 1
        <3> HIDE DEF p
        <3> QED BY <1>1, <1>2, WithinPartition
    <2>2. PartitionOf(b)[1] = p[1] => b[1] - f \in 0 .. NrRows(p) - 1
        <3> HIDE DEF p
        <3> QED BY <1>1, <1>2, WithinPartition
    <2> QED BY <2>1, <2>2
<1>6. /\ a[2] = LastCol(p) /\ b[2] = a[2] + 1 /\ a = <<a[1], a[2]>> /\ b = <<b[1], b[2]>>
      /\ a[1] \in Int /\ b[1] \in Int /\ a[2] \in Int
    <2>1. a[2] = LastCol(p) /\ b[2] = a[2] + 1
        BY DEF ColsMeet
    <2>2. \A c \in AllCells : c \in Nat \X Nat /\ c = <<c[1], c[2]>>
        BY AllCellsFacts
    <2> HIDE DEF p
    <2> QED BY <1>1, <2>1, <2>2
<1>7. a = Sides("east", p)[<<0, i>>] /\ b = Sides("east", p)[<<1, j>>]
    <2>1. \A side \in Array(2, NrRows(p)) :
            Sides("east", p)[side] = <<f + side[2], LastCol(p) + side[1]>>
        BY <1>4 DEF Sides
    <2>2. <<0, i>> \in Array(2, NrRows(p)) /\ <<1, j>> \in Array(2, NrRows(p))
        <3>1. 0 \in 0 .. 2 - 1 /\ 1 \in 0 .. 2 - 1
            OBVIOUS
        <3> HIDE DEF i, j, p
        <3> QED BY <1>5, <3>1 DEF Array
    <2>3. f + i = a[1] /\ f + j = b[1]
        <3> HIDE DEF f
        <3> QED BY <1>5, <1>6
    <2> HIDE DEF p, i, j, f
    <2>4. Sides("east", p)[<<0, i>>] = <<f + i, LastCol(p) + 0>>
        BY <2>1, <2>2
    <2>5. Sides("east", p)[<<1, j>>] = <<f + j, LastCol(p) + 1>>
        BY <2>1, <2>2
    <2>6. LastCol(p) + 0 = a[2] /\ LastCol(p) + 1 = b[2]
        BY <1>6
    <2> QED BY <1>6, <2>3, <2>4, <2>5, <2>6
<1>8. IsCovered(<<"east", p>>, cs)
    <2>1. <<"east", p>> \in Borders
        BY <1>2, <1>3 DEF IsBorder, Borders
    <2> QED BY <2>1 DEF AreCovered
<1> HIDE DEF p, i, j, f
<1> QED BY <1>3, <1>4, <1>5, <1>7, <1>8, SidesTogether

(* In the corner of a partition: the cells that touch there are a pair.    *)
LEMMA PairCovered ==
    ASSUME NEW cs, AreCovered({}, cs), NEW p \in Partitions,
           p[1] < Shape.rows - 1, p[2] < Shape.cols - 1, array.diagonal = TRUE,
           NEW a \in Zoned, NEW b \in Zoned, array.zone[a] = array.zone[b],
           <<a, b>> \in CornerPairs(p)
    PROVE  AreTogether(OldIds({Key(a), Key(b)}), cs)
<1>1. <<"corner", p>> \in Borders
    BY DEF Borders, BordersOf
<1>2. IsCovered(<<"corner", p>>, cs)
    BY <1>1 DEF AreCovered
<1>3. \A pair \in CornerPairs(p) :
        pair[1] \in Zoned /\ array.zone[pair[1]] = array.zone[pair[2]] =>
            AreTogether(OldIds({Key(pair[1]), Key(pair[2])}), cs)
    BY <1>2 DEF IsCovered
<1>4. <<a, b>>[1] = a /\ <<a, b>>[2] = b
    OBVIOUS
<1> QED BY <1>3, <1>4

LEMMA CornerCovered ==
    ASSUME ArrayOk, NEW cs, AreCovered({}, cs),
           NEW a \in Zoned, NEW b \in Zoned, Touch(array.diagonal, a, b), array.zone[a] = array.zone[b],
           RowsMeet(a, b), ColsMeet(a, b) \/ ColsMeet(b, a)
    PROVE  AreTogether(OldIds({Key(a), Key(b)}), cs)
<1>1. a \in AllCells /\ b \in AllCells
    BY DEF Zoned
<1>2. \A c \in AllCells :
        /\ c = <<c[1], c[2]>> /\ c[1] \in Nat /\ c[2] \in Nat
        /\ PartitionOf(c) \in Partitions
        /\ PartitionOf(c)[1] \in 0 .. Shape.rows - 1 /\ PartitionOf(c)[2] \in 0 .. Shape.cols - 1
    BY AllCellsFacts, PartitionFacts
<1>3. Shape.rows \in Nat /\ Shape.cols \in Nat
    BY PartitionFacts
<1>4. PartitionOf(b)[1] = PartitionOf(a)[1] + 1 /\ b[1] = a[1] + 1 /\ a[1] = LastRow(PartitionOf(a))
    BY DEF RowsMeet
<1>5. PartitionOf(a)[1] < Shape.rows - 1
    BY <1>1, <1>2, <1>3, <1>4
<1>6. array.diagonal = TRUE
    <2>1. a[1] # b[1] /\ a[2] # b[2]
        BY <1>1, <1>2, <1>4 DEF ColsMeet
    <2> QED BY <2>1 DEF Touch, ArrayOk
<1>7. CASE ColsMeet(a, b)
    <2> DEFINE p == PartitionOf(a)
    <2>1. PartitionOf(b)[2] = p[2] + 1 /\ b[2] = a[2] + 1 /\ a[2] = LastCol(p)
        BY <1>7 DEF ColsMeet
    <2>2. p[2] < Shape.cols - 1
        BY <1>1, <1>2, <1>3, <2>1
    <2>3. <<a, b>> \in CornerPairs(p)
        <3>1. a = <<LastRow(p), LastCol(p)>> /\ b = <<LastRow(p) + 1, LastCol(p) + 1>>
            BY <1>1, <1>2, <1>4, <2>1
        <3> HIDE DEF p
        <3> QED BY <3>1 DEF CornerPairs
    <2>4. p \in Partitions
        BY <1>1, <1>2
    <2> QED BY <1>5, <1>6, <2>2, <2>3, <2>4, PairCovered
<1>8. CASE ColsMeet(b, a)
    <2> DEFINE p == <<PartitionOf(a)[1], PartitionOf(b)[2]>>
    <2>1. PartitionOf(a)[2] = PartitionOf(b)[2] + 1 /\ a[2] = b[2] + 1 /\ b[2] = LastCol(PartitionOf(b))
        BY <1>8 DEF ColsMeet
    <2>2. p[1] = PartitionOf(a)[1] /\ p[2] = PartitionOf(b)[2]
        OBVIOUS
    <2> HIDE DEF p
    <2>3. p[1] < Shape.rows - 1 /\ p[2] < Shape.cols - 1
        BY <1>1, <1>2, <1>3, <1>5, <2>1, <2>2
    <2>4. p \in Partitions
        BY <1>1, <1>2 DEF p, Partitions, Array
    <2>5. LastRow(p) = a[1] /\ LastCol(p) = b[2]
        BY <1>4, <2>1, <2>2 DEF LastRow, LastCol
    <2>6. <<a, b>> \in CornerPairs(p)
        <3>1. a = <<LastRow(p), LastCol(p) + 1>> /\ b = <<LastRow(p) + 1, LastCol(p)>>
            BY <1>1, <1>2, <1>4, <2>1, <2>5
        <3> QED BY <3>1 DEF CornerPairs
    <2> QED BY <1>6, <2>3, <2>4, <2>6, PairCovered
<1> QED BY <1>7, <1>8

(* All together: whatever touches in different partitions.                 *)
LEMMA BetweenCovered ==
    ASSUME ArrayOk, NEW cs, AreCovered({}, cs),
           NEW a \in Zoned, NEW b \in Zoned, Touch(array.diagonal, a, b), array.zone[a] = array.zone[b],
           PartitionOf(a) # PartitionOf(b)
    PROVE  AreTogether(OldIds({Key(a), Key(b)}), cs)
<1>1. a \in AllCells /\ b \in AllCells
    BY DEF Zoned
<1>2. PartitionOf(a)[1] # PartitionOf(b)[1] \/ PartitionOf(a)[2] # PartitionOf(b)[2]
    BY <1>1, PartitionFacts
<1>3. /\ PartitionOf(a)[1] = PartitionOf(b)[1] \/ RowsMeet(a, b) \/ RowsMeet(b, a)
      /\ PartitionOf(a)[2] = PartitionOf(b)[2] \/ ColsMeet(a, b) \/ ColsMeet(b, a)
    BY <1>1, Neighbours
<1>4. Touch(array.diagonal, b, a)
    BY <1>1, TouchIsMutual, AllCellsFacts
<1>5. {Key(a), Key(b)} = {Key(b), Key(a)}
    OBVIOUS
<1>6. CASE RowsMeet(a, b)
    BY <1>3, <1>6, SouthCovered, CornerCovered
<1>7. CASE RowsMeet(b, a)
    BY <1>3, <1>4, <1>5, <1>7, SouthCovered, CornerCovered
<1>8. CASE PartitionOf(a)[1] = PartitionOf(b)[1]
    BY <1>2, <1>3, <1>4, <1>5, <1>8, EastCovered
<1> QED BY <1>3, <1>6, <1>7, <1>8

(* Whatever borders were visited and collections united, the collections   *)
(* hold ids of one clump each, bring together what touches across borders, *)
(* and are found by the local clumps they hold, also when they were moved. *)
THEOREM CollectionsAlwaysServe == ClumpSpec => []CollectionsServe
<1>1. ClumpInv => CollectionsServe
    <2> SUFFICES ASSUME ClumpInv, stage = "unite" PROVE CollectionsServe
        BY DEF CollectionsServe, CollectionsAreConnected, BordersAreCovered, MovedWithCollection
    <2>1. /\ Tabled /\ Solved /\ ArrayOk
          /\ Unites([collections |-> collections, updates |-> updates], idx1 - 1)
          /\ idx1 = 1 => AreCovered({}, collections)
        BY DEF ClumpInv, StageInv, Tabled, Solved
    <2>2. /\ \A k \in DOMAIN collections : IsWithin(collections[k])
          /\ DOMAIN index \subseteq LocalClumps
          /\ \A key \in DOMAIN index : OldId(key) \in collections[MovedBy(updates, index[key])]
        BY <2>1 DEF Unites
    <2>3. \A cell \in Zoned : GlobalId(Key(cell)) = OldId(Key(cell))
        BY <2>1, KeyFacts, GlobalIdIsOld
    <2>4. CollectionsAreConnected
        <3> SUFFICES ASSUME NEW clump \in Global, NEW k \in DOMAIN collections,
                            collections[k] \cap {GlobalId(Key(cell)) : cell \in clump} # {}
                     PROVE  collections[k] \subseteq {GlobalId(Key(cell)) : cell \in clump}
            BY DEF CollectionsAreConnected, Global
        <3>1. {GlobalId(Key(cell)) : cell \in clump} = IdsOf(clump)
            BY <2>1, <2>3, GlobalClumps DEF IdsOf
        <3>2. PICK other \in Global : collections[k] \subseteq IdsOf(other)
            BY <2>2 DEF IsWithin
        <3>3. other = clump
            BY <2>1, <3>1, <3>2, IdsTellClumps
        <3> QED BY <3>1, <3>2, <3>3
    <2>5. BordersAreCovered
        <3> SUFFICES ASSUME idx1 = 1, NEW cell \in Zoned, NEW other \in Zoned,
                            PartitionOf(cell) # PartitionOf(other),
                            Touch(array.diagonal, cell, other), array.zone[cell] = array.zone[other]
                     PROVE  \E k \in DOMAIN collections :
                                {GlobalId(Key(cell)), GlobalId(Key(other))} \subseteq collections[k]
            BY DEF BordersAreCovered
        <3>1. AreTogether(OldIds({Key(cell), Key(other)}), collections)
            BY <2>1, BetweenCovered
        <3>2. OldId(Key(cell)) \in OldIds({Key(cell), Key(other)}) /\
              OldId(Key(other)) \in OldIds({Key(cell), Key(other)})
            BY DEF OldIds
        <3> QED BY <2>3, <3>1, <3>2 DEF AreTogether
    <2>6. MovedWithCollection
        <3>1. \A k : Moved(k) = MovedBy(updates, k)
            BY DEF Moved, MovedBy
        <3>2. \A key \in DOMAIN index : GlobalId(key) = OldId(key)
            BY <2>1, <2>2, GlobalIdIsOld
        <3> QED BY <2>2, <3>1, <3>2 DEF MovedWithCollection
    <2> QED BY <2>4, <2>5, <2>6 DEF CollectionsServe
<1> QED BY <1>1, ClumpInvInit, ClumpInvNext, PTL DEF ClumpSpec

=============================================================================
