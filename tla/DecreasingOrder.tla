--------------------------- MODULE DecreasingOrder ---------------------------
(***************************************************************************)
(* Routes along the cells of a partitioned array, one per zone, from the   *)
(* cell with the highest value to the cell with the lowest.                *)
(*                                                                         *)
(* A component per partition sorts the values of its cells.  A route is    *)
(* recorded by a chain of calls: a component records the cells that come   *)
(* next, as long as no other partition has a higher value, and calls the   *)
(* component that has.  The call carries the maximum of every partition    *)
(* that still has values.  When a route is long enough the partitions that *)
(* are left are told to skip it.  A component that has nothing left to do  *)
(* finishes: its fragments of routes move to the result.                   *)
(***************************************************************************)
EXTENDS Integers, Sequences, FiniteSets, SequencesExt

CONSTANTS
    Partitions,     \* the partitions of the array
    NoPartition,    \* marks the end of a route
    Zones,          \* the zones; a single one for a route over the whole array
    Inputs,         \* the values of the cells, per partition and zone
    MinValue,       \* std::numeric_limits<Value>::min()
    MaxNrCells,     \* the maximum length of a route
    Zonal           \* whether there are zones; the two versions lock differently

ASSUME InputsAssumption ==
    /\ Inputs \subseteq [Partitions \X Zones -> Seq(Int)]
    /\ IsFiniteSet(Partitions)
    /\ NoPartition \notin Partitions
    /\ MinValue \in Int
    /\ MaxNrCells \in Nat
    /\ Zonal \in BOOLEAN
    /\ ~Zonal => Cardinality(Zones) = 1

VARIABLES
    values,     \* the values of the cells, an input
    sorted,     \* the partitions whose values are sorted
    local,      \* per partition and zone: the cells left, the highest value first
    started,    \* per zone: "no", "yes", or "undefined" behaviour
    start,      \* per zone: the partition where its route starts
    tasks,      \* the calls that record fragments, called, read or updated
    skips,      \* the calls that tell a partition to skip a route
    locked,     \* the partitions whose lock is held for writing
    fragments,  \* per partition and zone: the fragments recorded
    result,     \* per partition and zone: the fragments of the result
    finished,   \* per partition: how often finish_partition was called
    returned,   \* the calls that returned the location of their fragment
    asked,      \* per partition: whether its result was asked for in time
    published   \* the partitions of the result that are ready

vars == <<values, sorted, local, started, start, tasks, skips, locked, fragments,
          result, finished, returned, asked, published>>

Places == Partitions \X Zones

(* A cell of a place is named by its position in the input.                *)
CellsAt(place) == DOMAIN values[place]

Value(place, k) == values[place][k]

HasValues(cells, p) == \E z \in Zones : cells[<<p, z>>] # <<>>

(* The ways std::sort may arrange a set per zone, by decreasing value: it  *)
(* may put equal values in any order.                                      *)
Arrangements(S, value) ==
    {s \in SetToSeqs(S) : \A i, j \in DOMAIN s : i < j => value[s[i]] >= value[s[j]]}

OnePerZone(choices) ==
    {f \in [Zones -> UNION Range(choices)] : \A z \in Zones : f[z] \in choices[z]}

-----------------------------------------------------------------------------
Init ==
    /\ values \in Inputs
    /\ sorted = {}
    /\ local = [x \in Places |-> <<>>]
    /\ started = [z \in Zones |-> "no"]
    /\ start = [z \in Zones |-> NoPartition]
    /\ tasks = {}
    /\ skips = {}
    /\ locked = {}
    /\ fragments = [x \in Places |-> <<>>]
    /\ result = [x \in Places |-> <<>>]
    /\ finished = [p \in Partitions |-> 0]
    /\ returned = {}
    /\ asked = [p \in Partitions |-> "no"]
    /\ published = {}

(* finish_partition: the fragments move to the result.                     *)
Finish(p, recorded) ==
    /\ finished' = [finished EXCEPT ![p] = @ + 1]
    /\ result' = [x \in Places |-> IF x[1] = p /\ finished[p] = 0
                                   THEN recorded[x] ELSE result[x]]
    /\ fragments' = [x \in Places |-> IF x[1] = p THEN <<>> ELSE recorded[x]]

FinishIfDone(p, cells, recorded) ==
    IF HasValues(cells, p)
    THEN fragments' = recorded /\ UNCHANGED <<finished, result>>
    ELSE Finish(p, recorded)

(* sort_values.                                                            *)
Sort(p) ==
    LET orders == [z \in Zones |-> Arrangements(CellsAt(<<p, z>>), values[<<p, z>>])]
    IN  /\ p \notin sorted
        /\ \E order \in OnePerZone(orders) :
            local' = [x \in Places |-> IF x[1] = p THEN order[x[2]] ELSE local[x]]
        /\ sorted' = sorted \cup {p}
        /\ FinishIfDone(p, local', fragments)
        /\ UNCHANGED <<values, started, start, tasks, skips, locked, returned, asked,
                       published>>

(* route_partition: the result is asked for by a call of its own.  The     *)
(* promise it takes the future of moves when the component finishes.       *)
AskRoutePartition(p) ==
    /\ asked[p] = "no"
    /\ asked' = [asked EXCEPT ![p] = IF finished[p] = 0 THEN "yes" ELSE "lost"]
    /\ UNCHANGED <<values, sorted, local, started, start, tasks, skips, locked,
                   fragments, result, finished, returned, published>>

Maximum(cells, place) == [value |-> Value(place, cells[place][1]), at |-> place[1]]

Call(zone, at, maxima, nr, hop) ==
    [pc |-> "called", zone |-> zone, at |-> at, maxima |-> maxima,
     nr |-> nr, cells |-> <<>>, next |-> NoPartition, hop |-> hop]

(* All maxima are known: call the partition with the highest value, for    *)
(* every zone that has values.  The version without zones assumes that     *)
(* there are values: it takes the front of the maxima as they are.         *)
Maxima(z) == {Maximum(local, x) : x \in {x \in Partitions \X {z} : local[x] # <<>>}}

Start ==
    LET orders == [z \in Zones |->
                    Arrangements(Maxima(z), [m \in Maxima(z) |-> m.value])]
        nonempty == {z \in Zones : Maxima(z) # {}}
    IN  /\ sorted = Partitions
        /\ \A z \in Zones : started[z] = "no"
        /\ \E order \in OnePerZone(orders) :
            /\ tasks' = {Call(z, order[z][1].at, order[z], 0, 1) : z \in nonempty}
            /\ start' = [z \in Zones |-> IF z \in nonempty THEN order[z][1].at
                                         ELSE NoPartition]
        /\ started' = [z \in Zones |-> IF z \in nonempty \/ Zonal THEN "yes" ELSE "undefined"]
        /\ UNCHANGED <<values, sorted, local, skips, locked, fragments, result, finished,
                       returned, asked, published>>

-----------------------------------------------------------------------------
(* The number of cells to record: as many as the length of the route       *)
(* allows that are at least as high as the next maximum elsewhere.         *)
NextMaximum(maxima) == IF Len(maxima) > 1 THEN maxima[2].value ELSE MinValue

NrToRecordMore(place, cells, maxima, nr) ==     \* a mutant: one cell too many
    Cardinality({i \in DOMAIN cells : /\ nr + i <= MaxNrCells + 1
                                      /\ Value(place, cells[i]) >= NextMaximum(maxima)})

NrToRecord(place, cells, maxima, nr) ==
    Cardinality({i \in DOMAIN cells : /\ nr + i <= MaxNrCells
                                      /\ Value(place, cells[i]) >= NextMaximum(maxima)})

(* record_route_fragment, the section under the shared lock: select the    *)
(* cells.                                                                  *)
Read(t) ==
    LET place == <<t.at, t.zone>>
        nr == NrToRecord(place, local[place], t.maxima, t.nr)
    IN  /\ t.pc = "called"
        /\ t.at \notin locked
        /\ tasks' = (tasks \ {t}) \cup
                {[t EXCEPT !.pc = "read", !.nr = @ + nr, !.cells = SubSeq(local[place], 1, nr)]}
        /\ UNCHANGED <<values, sorted, local, started, start, skips, locked, fragments,
                       result, finished, returned, asked, published>>

(* Put a maximum in front of the first one that is not higher.             *)
InsertMaximumLast(maxima, m) == Append(maxima, m)   \* a mutant: not ordered

InsertMaximum(maxima, m) ==
    LET higher == Cardinality({i \in DOMAIN maxima : maxima[i].value > m.value})
    IN  InsertAt(maxima, higher + 1, m)

(* The partitions to notify that a route ends without them.                *)
ToSkip(zone, maxima) == {<<maxima[i].at, zone>> : i \in DOMAIN maxima}

(* The section under the exclusive lock, up to the call that goes on with  *)
(* the route: remove the cells, update the maxima, and either call the     *)
(* next partition or tell all others to skip the route.                    *)
Update(t) ==
    LET place == <<t.at, t.zone>>
        left == SubSeq(local[place], Len(t.cells) + 1, Len(local[place]))
        rest == Tail(t.maxima)
        maxima == IF left = <<>> THEN rest
                  ELSE InsertMaximum(rest, [value |-> Value(place, left[1]), at |-> t.at])
        continue == t.nr < MaxNrCells /\ rest # <<>>
    IN  /\ t.pc = "read"
        /\ t.at \notin locked
        /\ locked' = locked \cup {t.at}
        /\ IF continue
           THEN /\ local' = [local EXCEPT ![place] = left]
                /\ tasks' = (tasks \ {t}) \cup
                        {[t EXCEPT !.pc = "updated", !.next = rest[1].at],
                         Call(t.zone, rest[1].at, maxima, t.nr, t.hop + 1)}
                /\ UNCHANGED skips
           ELSE /\ local' = [local EXCEPT ![place] = <<>>]
                /\ tasks' = (tasks \ {t}) \cup {[t EXCEPT !.pc = "updated"]}
                /\ skips' = skips \cup ToSkip(t.zone, rest)
        /\ UNCHANGED <<values, sorted, started, start, fragments, result, finished,
                       returned, asked, published>>

(* The rest of that section: store the fragment, finish if no values are   *)
(* left in the partition, and return the location of the fragment.         *)
Store(t) ==
    LET fragment == [cells |-> t.cells, next |-> t.next, hop |-> t.hop]
        recorded == [fragments EXCEPT ![<<t.at, t.zone>>] = Append(@, fragment)]
    IN  /\ t.pc = "updated"
        /\ FinishIfDone(t.at, local, recorded)
        /\ tasks' = tasks \ {t}
        /\ locked' = locked \ {t.at}
        /\ returned' = returned \cup {<<t.zone, t.hop>>}
        /\ UNCHANGED <<values, sorted, local, started, start, skips, asked, published>>

(* skip_recording_route_fragments.  Only the zonal version locks.          *)
MaySkipAlways(p) == TRUE            \* a mutant: no version locks

MaySkip(p) == Zonal => p \notin locked

Skip(place) ==
    /\ place \in skips
    /\ MaySkip(place[1])
    /\ skips' = skips \ {place}
    /\ local' = [local EXCEPT ![place] = <<>>]
    /\ FinishIfDone(place[1], local', fragments)
    /\ UNCHANGED <<values, sorted, started, start, tasks, locked, returned, asked, published>>

(* The continuation of finish_partition: the location each fragment is     *)
(* followed by is known, and the partition of the result is ready.         *)
Publish(p) ==
    /\ finished[p] > 0
    /\ p \notin published
    /\ \A z \in Zones : \A k \in DOMAIN result[<<p, z>>] :
            LET fragment == result[<<p, z>>][k]
            IN  fragment.next # NoPartition => <<z, fragment.hop + 1>> \in returned
    /\ published' = published \cup {p}
    /\ UNCHANGED <<values, sorted, local, started, start, tasks, skips, locked, fragments,
                   result, finished, returned, asked>>

Done ==
    /\ published = Partitions
    /\ tasks = {} /\ skips = {}
    /\ \A p \in Partitions : asked[p] # "no"
    /\ \A z \in Zones : started[z] # "no"

Terminated == Done /\ UNCHANGED vars

Step ==
    \/ Start
    \/ \E p \in Partitions : Sort(p) \/ AskRoutePartition(p) \/ Publish(p)
    \/ \E t \in tasks : Read(t) \/ Update(t) \/ Store(t)
    \/ \E x \in Places : Skip(x)

Next == Step \/ Terminated

(* Every step is enabled once and stays so until it is taken: the runtime  *)
(* runs all tasks, so that steps go on as long as there are any.           *)
Spec == Init /\ [][Next]_vars /\ WF_vars(Step)

-----------------------------------------------------------------------------
MaximumRecord == [value : Int, at : Partitions]

Task == [pc : {"called", "read", "updated"}, zone : Zones, at : Partitions,
         maxima : Seq(MaximumRecord), nr : 0 .. MaxNrCells,
         cells : Seq(Nat), next : Partitions \cup {NoPartition}, hop : Nat]

Fragment == [cells : Seq(Nat), next : Partitions \cup {NoPartition}, hop : Nat]

TypeOK ==
    /\ values \in Inputs
    /\ sorted \subseteq Partitions
    /\ \A x \in Places : local[x] \in Seq(CellsAt(x))
    /\ started \in [Zones -> {"no", "yes", "undefined"}]
    /\ start \in [Zones -> Partitions \cup {NoPartition}]
    /\ tasks \subseteq Task
    /\ skips \subseteq Places
    /\ locked \subseteq Partitions
    /\ fragments \in [Places -> Seq(Fragment)]
    /\ result \in [Places -> Seq(Fragment)]
    /\ finished \in [Partitions -> Nat]
    /\ returned \subseteq Zones \X Nat
    /\ asked \in [Partitions -> {"no", "yes", "lost"}]
    /\ published \subseteq {p \in Partitions : finished[p] > 0}

(* A component finishes once, and no call to record or skip is under way   *)
(* to it or running in it when it has: its members are moved from.         *)
FinishIsLast ==
    \A p \in Partitions :
        finished[p] > 0 =>
            /\ finished[p] = 1
            /\ \A t \in tasks : t.at # p
            /\ \A z \in Zones : <<p, z>> \notin skips /\ local[<<p, z>>] = <<>>

(* The maxima that travel with a route are what the partitions have,       *)
(* although nobody looks there: each partition that has values left is     *)
(* listed once, with the highest value left, from high to low, and the     *)
(* partition that is called comes first (the assertions at the top of      *)
(* record_route_fragment).                                                 *)
MaximaAreExact ==
    \A t \in tasks :
        t.pc \in {"called", "read"} =>
            /\ t.maxima # <<>> /\ t.at = t.maxima[1].at
            /\ \A i, j \in DOMAIN t.maxima :
                i < j => /\ t.maxima[i].value >= t.maxima[j].value
                         /\ t.maxima[i].at # t.maxima[j].at
            /\ Range(t.maxima) = Maxima(t.zone)

(* Following the locations from the start, using the fragments of a        *)
(* partition in the order in which they are stored there.                  *)
RouteFragments(z) ==
    LET hops == Cardinality(UNION {{x} \X CellsAt(x) : x \in Partitions \X {z}}) + 1
        visit[i \in 0 .. hops] ==
            IF i = 0 THEN <<>>
            ELSE LET before == visit[i - 1]
                     p == IF before = <<>> THEN start[z] ELSE Last(before).fragment.next
                     k == Cardinality({j \in DOMAIN before : before[j].at = p}) + 1
                 IN  IF p = NoPartition \/ k > Len(result[<<p, z>>])
                     THEN before
                     ELSE Append(before, [at |-> p, fragment |-> result[<<p, z>>][k]])
    IN  visit[hops]

(* The route of a zone: its cells in the order in which they are visited.  *)
Route(z) ==
    LET cellsOf(v) == [i \in DOMAIN v.fragment.cells |-> <<v.at, v.fragment.cells[i]>>]
    IN  FlattenSeq([i \in DOMAIN RouteFragments(z) |-> cellsOf(RouteFragments(z)[i])])

(* The documentation: a route visits the cells in decreasing order, from   *)
(* highest to lowest value, up to the maximum length, and a zone without   *)
(* values has no route.                                                    *)
RouteComplete ==
    Done => \A z \in Zones :
        LET cells == UNION {{p} \X CellsAt(<<p, z>>) : p \in Partitions}
            route == Route(z)
            value(c) == Value(<<c[1], z>>, c[2])
        IN  /\ start[z] = NoPartition <=> cells = {}
            /\ Len(route) = IF Cardinality(cells) < MaxNrCells THEN Cardinality(cells)
                            ELSE MaxNrCells
            /\ \A i, j \in DOMAIN route :
                i < j => route[i] # route[j] /\ value(route[i]) >= value(route[j])
            /\ \A c \in cells \ Range(route) : \A i \in DOMAIN route :
                value(route[i]) >= value(c)
=============================================================================
