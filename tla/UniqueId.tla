------------------------------- MODULE UniqueId -------------------------------
(***************************************************************************)
(* Numbering the cells of a partitioned array for which a condition holds. *)
(* Partitions are numbered in the order in which they become ready: a task *)
(* waits for any of them, and gives each a range of ids as long as the     *)
(* partition is large, so that partitions are filled independently.        *)
(*                                                                         *)
(* The task keeps two sequences in step: the futures of the sizes of the   *)
(* partitions, which it waits for, and the indices of these partitions.    *)
(* What was handled is rotated out of the front part of both.              *)
(***************************************************************************)
EXTENDS Integers, Sequences, FiniteSets

CONSTANTS
    Conditions,     \* the possible inputs: per partition, the condition of each cell
    NrIdValues      \* the number of values of the type of the ids

(* Of a cell the condition holds, does not hold, or is not known.          *)
ASSUME UniqueIdAssumption ==
    /\ NrIdValues \in Nat \ {0}
    /\ \A condition \in Conditions :
        /\ condition \in Seq(Seq({"true", "false", "no_data"}))
        /\ \A p \in DOMAIN condition : condition[p] # <<>>

VARIABLES
    condition,      \* the input
    ready,          \* the input partitions that are ready
    sizes,          \* the futures of the sizes: the partition each belongs to
    idxs,           \* the indices of partitions
    to_handle,      \* the number of partitions to handle
    start_value,    \* the first id that was not given out, before it is wrapped
    tasks,          \* the tasks that are numbering a partition, with their start value
    promises,       \* the partitions whose promise was not handed to a task
    ids             \* the partitions of the result that are ready

vars == <<condition, ready, sizes, idxs, to_handle, start_value, tasks, promises, ids>>

Partitions == DOMAIN condition

Size(p) == Len(condition[p])

(* Arithmetic on the type of the ids.                                      *)
Wrapped(value) == value % NrIdValues

-----------------------------------------------------------------------------
Init ==
    /\ condition \in Conditions
    /\ ready = {}
    /\ sizes = [p \in Partitions |-> p]
    /\ idxs = [p \in Partitions |-> p]
    /\ to_handle = Len(condition)
    /\ start_value = 1
    /\ tasks = {}
    /\ promises = Partitions
    /\ ids = <<>>

(* An input partition becomes ready, and with it its size.                 *)
BecomeReady(p) ==
    /\ p \notin ready
    /\ ready' = ready \cup {p}
    /\ UNCHANGED <<condition, sizes, idxs, to_handle, start_value, tasks, promises, ids>>

(* std::rotate of the front part, by one, from the handled place on.       *)
RotatedNot(seq, place) == seq       \* a mutant: does not move what was handled

RotatedSwap(seq, place) ==          \* a mutant: swaps with the last one
    [k \in DOMAIN seq |-> IF k = place THEN seq[to_handle]
                          ELSE IF k = to_handle THEN seq[place] ELSE seq[k]]

RotatedIdxs(seq, place) ==
    [k \in DOMAIN seq |-> IF k < place \/ k > to_handle THEN seq[k]
                          ELSE IF k = to_handle THEN seq[place] ELSE seq[k + 1]]

RotatedSizes(seq, place) ==
    [k \in 1 .. to_handle |-> IF k < place THEN seq[k]
                              ELSE IF k = to_handle THEN seq[place] ELSE seq[k + 1]]

(* Some size is known: a task is spawned for the partition, which is given *)
(* the promise for that part of the result.                                *)
HandleAny ==
    \E place \in 1 .. to_handle :
        LET p == idxs[place]
        IN  /\ sizes[place] \in ready
            /\ tasks' = tasks \cup {<<p, start_value>>}
            /\ promises' = promises \ {p}
            /\ start_value' = start_value + Size(sizes[place])
            /\ sizes' = RotatedSizes(sizes, place)
            /\ idxs' = RotatedIdxs(idxs, place)
            /\ to_handle' = to_handle - 1
            /\ UNCHANGED <<condition, ready, ids>>

(* The id of a cell: the cells for which the condition holds are counted   *)
(* on from the start value.                                                *)
TrueBefore(p, i) == {k \in 1 .. i - 1 : condition[p][k] = "true"}

IdOf(p, start, i) ==
    CASE condition[p][i] = "true" -> Wrapped(start + Cardinality(TrueBefore(p, i)))
      [] condition[p][i] = "false" -> 0
      [] OTHER -> -1

(* unique_id_partition, and the continuation that keeps the promise.       *)
Number(p, start) ==
    /\ <<p, start>> \in tasks
    /\ p \in ready
    /\ tasks' = tasks \ {<<p, start>>}
    /\ ids' = [q \in DOMAIN ids \cup {p} |->
                IF q = p THEN [i \in 1 .. Size(p) |-> IdOf(p, start, i)] ELSE ids[q]]
    /\ UNCHANGED <<condition, ready, sizes, idxs, to_handle, start_value, promises>>

Done == DOMAIN ids = Partitions

Terminated == Done /\ UNCHANGED vars

Next ==
    \/ \E p \in Partitions : BecomeReady(p)
    \/ HandleAny
    \/ \E task \in tasks : Number(task[1], task[2])
    \/ Terminated

(* Partitions become ready, and the runtime runs every task.               *)
Fairness == WF_vars(Next)

Spec == Init /\ [][Next]_vars /\ Fairness

-----------------------------------------------------------------------------
(* Types of all variables; a partition has a promise, a task or a result,  *)
(* and for each partition to handle there is a promise to hand out.        *)
TypeOK ==
    /\ condition \in Conditions
    /\ ready \subseteq Partitions
    /\ idxs \in [Partitions -> Partitions]
    /\ to_handle \in 0 .. Len(condition)
    /\ sizes \in Seq(Partitions) /\ to_handle <= Len(sizes)
    /\ start_value \in Nat \ {0}
    /\ tasks \subseteq Partitions \X (Nat \ {0})
    /\ promises \subseteq Partitions
    /\ DOMAIN ids \subseteq Partitions
    /\ \A p \in DOMAIN ids : ids[p] \in [1 .. Size(p) -> Int]
    /\ \A p \in Partitions :
        p \in promises <=> p \notin DOMAIN ids /\ \A task \in tasks : task[1] # p
    /\ Cardinality(promises) = to_handle

(* As long as the ids given out fit in their type, cells for which the     *)
(* condition holds have positive ids that no other cell of the array has,  *)
(* in whichever order partitions are ready and tasks are run ("for each    *)
(* true element a unique positive ID").                                    *)
IsNumbered(p, i) == p \in DOMAIN ids /\ i \in 1 .. Size(p) /\ condition[p][i] = "true"

IdsAreUnique ==
    start_value <= NrIdValues =>
        \A p, q \in Partitions : \A i \in 1 .. Size(p), j \in 1 .. Size(q) :
            IsNumbered(p, i) /\ IsNumbered(q, j) =>
                /\ ids[p][i] > 0
                /\ ids[p][i] = ids[q][j] => p = q /\ i = j

(* Every partition of the result becomes ready.  If the condition holds    *)
(* everywhere "the sequence of IDs in the array returned" is then "a       *)
(* continuous range", which starts at one.                                 *)
IsContinuous ==
    (\A p \in Partitions : \A i \in 1 .. Size(p) : condition[p][i] = "true") =>
        UNION {{ids[p][i] : i \in 1 .. Size(p)} : p \in Partitions}
            = {Wrapped(value) : value \in 1 .. start_value - 1}

EventuallyNumbered == <>(Done /\ IsContinuous)
=============================================================================
