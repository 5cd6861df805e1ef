------------------------------- MODULE FirstN -------------------------------
(***************************************************************************)
(* A walk along the first cells of every route that a DecreasingOrder      *)
(* makes.  Each partition of the route gets a component as soon as it is   *)
(* ready.  When all components know the components downstream of them, the *)
(* walks start.  A walk is a chain of calls, one per fragment: visit the   *)
(* cells of the fragment, then let the component of the next fragment go   *)
(* on, or skip once enough cells were visited.  A component that expects   *)
(* no more fragments finishes its output partition.                        *)
(***************************************************************************)
EXTENDS DecreasingOrder

CONSTANT MaxNrsToVisit      \* the numbers of cells that may be asked for

ASSUME FirstNAssumption == MaxNrsToVisit \subseteq Nat

VARIABLES
    max_nr_cells,           \* CellCounter::_max_nr_cells_to_visit
    created,                \* the partitions whose component exists
    downstream_components,  \* per partition: the partitions whose component it knows
    configured,             \* the partitions that were told their downstream components
    fragment_idxs,          \* per partition and route with fragments left: the next one
    walks,                  \* the calls that walk or skip a fragment
    walking,                \* whether the walks were started
    write_locked,           \* the partitions whose component is in such a call
    output,                 \* per partition and route: the cells that are marked
    requested,              \* per partition: whether its result was asked for, and in time
    output_finished         \* per partition: how often finish_partition was called

walk_vars == <<max_nr_cells, created, downstream_components, configured, fragment_idxs, walks,
               walking, write_locked, output, requested, output_finished>>

FirstNInit ==
    /\ Init
    /\ max_nr_cells \in MaxNrsToVisit
    /\ created = {}
    /\ downstream_components = [p \in Partitions |-> {}]
    /\ configured = {}
    /\ fragment_idxs = [place \in {} |-> 0]
    /\ walks = {}
    /\ walking = FALSE
    /\ write_locked = {}
    /\ output = [place \in Places |-> {}]
    /\ requested = [p \in Partitions |-> "no"]
    /\ output_finished = [p \in Partitions |-> 0]

-----------------------------------------------------------------------------
(* The constructor: the first fragment of every route is to be visited.    *)
CreateWalk(p) ==
    LET routes == {z \in Zones : result[<<p, z>>] # <<>>}
    IN  /\ p \in published
        /\ p \notin created
        /\ created' = created \cup {p}
        /\ fragment_idxs' = [place \in DOMAIN fragment_idxs \cup ({p} \X routes) |->
                                IF place \in DOMAIN fragment_idxs THEN fragment_idxs[place] ELSE 1]
        /\ UNCHANGED <<max_nr_cells, downstream_components, configured, walks, walking,
                       write_locked, output, requested, output_finished>>

(* All fragments of all routes in a partition were visited or skipped.     *)
NothingLeftOfRoute(idxs, p) ==      \* a mutant: looks at a single route
    \E z \in Zones : <<p, z>> \notin DOMAIN idxs

NothingLeft(idxs, p) == \A place \in DOMAIN idxs : place[1] # p

FinishOutput(p) ==
    /\ output_finished' = [output_finished EXCEPT ![p] = @ + 1]
    /\ downstream_components' = [downstream_components EXCEPT ![p] = {}]

(* result_partition: takes no lock.  Asked for after the walks were over   *)
(* here, it finishes the partition again: the promise was kept already.    *)
AskOutputPartition(p) ==
    /\ p \in created
    /\ requested[p] = "no"
    /\ requested' = [requested EXCEPT ![p] = IF output_finished[p] = 0 THEN "yes" ELSE "late"]
    /\ IF NothingLeft(fragment_idxs, p) THEN FinishOutput(p)
       ELSE UNCHANGED <<output_finished, downstream_components>>
    /\ UNCHANGED <<max_nr_cells, created, configured, fragment_idxs, walks, walking,
                   write_locked, output>>

(* The partitions that hold the fragments that follow those of a partition. *)
Downstream(p) ==
    {fragment.next : fragment \in UNION {Range(result[<<p, z>>]) : z \in Zones}} \ {NoPartition}

SetDownstreamComponents(p) ==
    /\ created = Partitions
    /\ p \notin configured
    /\ configured' = configured \cup {p}
    /\ downstream_components' = [downstream_components EXCEPT ![p] = Downstream(p)]
    /\ UNCHANGED <<max_nr_cells, created, fragment_idxs, walks, walking, write_locked, output,
                   requested, output_finished>>

WalkCall(zone, at, nr, hop) ==
    [zone |-> zone, at |-> at, kind |-> "walk", nr |-> nr, hop |-> hop, pc |-> "called"]

SkipCall(zone, at, nr, hop) ==
    [zone |-> zone, at |-> at, kind |-> "skip", nr |-> nr, hop |-> hop, pc |-> "called"]

(* The barrier in front of the start of the walks.                         *)
AllConfigured == configured = Partitions

StartWalks ==
    /\ AllConfigured
    /\ ~walking
    /\ walking' = TRUE
    /\ \A z \in Zones : started[z] # "no"
    /\ walks' = {WalkCall(z, start[z], 0, 1) : z \in {z \in Zones : start[z] # NoPartition}}
    /\ UNCHANGED <<max_nr_cells, created, downstream_components, configured, fragment_idxs,
                   write_locked, output, requested, output_finished>>

-----------------------------------------------------------------------------
FragmentOf(w) == result[<<w.at, w.zone>>][fragment_idxs[<<w.at, w.zone>>]]

(* The cells that are visited of a fragment: data.keep_walking() is asked  *)
(* before every cell.                                                      *)
NrToVisit(w) ==
    LET nr == Len(FragmentOf(w).cells)
    IN  IF w.nr + nr <= max_nr_cells THEN nr ELSE max_nr_cells - w.nr

MayEnterAlways(w) == TRUE       \* a mutant: no lock

MayEnter(w) == w.at \notin write_locked

(* The calls that follow the one for a fragment.                           *)
CallsAfterAll(w, nr) ==         \* a mutant: nobody is told to skip
    LET next == FragmentOf(w).next
    IN  IF next = NoPartition \/ nr >= max_nr_cells THEN {}
        ELSE {WalkCall(w.zone, next, nr, w.hop + 1)}

CallsAfter(w, nr) ==
    LET next == FragmentOf(w).next
    IN  IF next = NoPartition THEN {}
        ELSE IF w.kind = "walk" /\ nr < max_nr_cells THEN {WalkCall(w.zone, next, nr, w.hop + 1)}
        ELSE {SkipCall(w.zone, next, nr, w.hop + 1)}

(* walk and skip_walking_route_fragments, up to the call that goes on with *)
(* the route: the lock is held from here on.                               *)
Visit(w) ==
    LET nr == IF w.kind = "walk" THEN NrToVisit(w) ELSE 0
        visited == SubSeq(FragmentOf(w).cells, 1, nr)
    IN  /\ w.pc = "called"
        /\ MayEnter(w)
        /\ write_locked' = write_locked \cup {w.at}
        /\ output' = [output EXCEPT ![<<w.at, w.zone>>] = @ \cup Range(visited)]
        /\ walks' = (walks \ {w}) \cup {[w EXCEPT !.pc = "visited"]} \cup CallsAfter(w, w.nr + nr)
        /\ UNCHANGED <<max_nr_cells, created, downstream_components, configured, fragment_idxs,
                       walking, requested, output_finished>>

(* The rest of that section: count the fragment, forget the route after    *)
(* its last fragment here, finish the partition after its last route.      *)
Leave(w) ==
    LET place == <<w.at, w.zone>>
        idxs == IF fragment_idxs[place] = Len(result[place])
                THEN Restrict(fragment_idxs, DOMAIN fragment_idxs \ {place})
                ELSE [fragment_idxs EXCEPT ![place] = @ + 1]
    IN  /\ w.pc = "visited"
        /\ fragment_idxs' = idxs
        /\ walks' = walks \ {w}
        /\ write_locked' = write_locked \ {w.at}
        /\ IF NothingLeft(idxs, w.at) THEN FinishOutput(w.at)
           ELSE UNCHANGED <<output_finished, downstream_components>>
        /\ UNCHANGED <<max_nr_cells, created, configured, walking, output, requested>>

WalkStep ==
    /\ \/ StartWalks
       \/ \E p \in Partitions : CreateWalk(p) \/ AskOutputPartition(p) \/ SetDownstreamComponents(p)
       \/ \E w \in walks : Visit(w) \/ Leave(w)
    /\ UNCHANGED vars

OrderStep == Step /\ UNCHANGED walk_vars

-----------------------------------------------------------------------------
WalksAreOver == Done /\ walking /\ walks = {} /\ \A p \in Partitions : requested[p] # "no"

FirstNTerminated == WalksAreOver /\ UNCHANGED <<vars, walk_vars>>

FirstNNext == OrderStep \/ WalkStep \/ FirstNTerminated

(* As for DecreasingOrder: every step is enabled once and stays so until   *)
(* it is taken, also while the other operation goes on.                    *)
FirstNSpec ==
    /\ FirstNInit
    /\ [][FirstNNext]_<<vars, walk_vars>>
    /\ WF_<<vars, walk_vars>>(OrderStep) /\ WF_<<vars, walk_vars>>(WalkStep)

-----------------------------------------------------------------------------
(* The assertions in walk and skip_walking_route_fragments, for every call *)
(* from the moment it is made: the component has the route, expects one    *)
(* more of its fragments, is given the fragments in the order of the       *)
(* route, and knows the component of the fragment that follows.  The call  *)
(* for the next fragment may arrive here before the one for this fragment  *)
(* returns.                                                                *)
CallsAreExpected ==
    \A w \in walks :
        LET place == <<w.at, w.zone>>
            earlier == {other \in walks : other.at = w.at /\ other.zone = w.zone /\ other.hop < w.hop}
        IN  /\ place \in DOMAIN fragment_idxs
            /\ LET idx == fragment_idxs[place] + Cardinality(earlier)
               IN  /\ idx <= Len(result[place])
                   /\ result[place][idx].hop = w.hop
                   /\ result[place][idx].next \in downstream_components[w.at] \cup {NoPartition}

(* An output partition is finished after everything else: no call to its   *)
(* component is under way and none of its routes has fragments left.  If   *)
(* it was asked for in time it is finished once.                           *)
OutputIsFinal ==
    \A p \in Partitions :
        output_finished[p] > 0 =>
            /\ \A w \in walks : w.at # p
            /\ \A z \in Zones : <<p, z>> \notin DOMAIN fragment_idxs
            /\ requested[p] = "late" \/ output_finished[p] = 1

(* The documentation of first_n: the first cells of every route are        *)
(* marked, as many as asked for, and no others.                            *)
FirstCellsMarked ==
    WalksAreOver => \A z \in Zones :
        LET route == Route(z)
            n == IF Len(route) < max_nr_cells THEN Len(route) ELSE max_nr_cells
        IN  UNION {{p} \X output[<<p, z>>] : p \in Partitions} = Range(SubSeq(route, 1, n))

(* What first_n hands out: final when it is ready, and the cells asked for.*)
OutputComplete == OutputIsFinal /\ FirstCellsMarked

(* Every output partition becomes ready, those that are skipped included.  *)
EventuallyFinished == <>(\A p \in Partitions : output_finished[p] > 0)
=============================================================================
