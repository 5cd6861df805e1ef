------------------------------ MODULE DatasetIO ------------------------------
(***************************************************************************)
(* Reading arrays from and writing arrays to one LUE dataset (an HDF5      *)
(* file) from several processes, without parallel I/O.                     *)
(*                                                                         *)
(* The root process calls from_lue and to_lue, which return at once: each  *)
(* call is spread over the localities that have partitions of its array,   *)
(* and is made dependent on earlier calls to the same dataset.  Within a   *)
(* locality the tasks of several calls are ordered by serializers: a       *)
(* promise per call, counted per kind of call, that is kept when the       *)
(* dataset was opened, and one that is kept when it was closed.            *)
(***************************************************************************)
EXTENDS Integers, Sequences, FiniteSets

CONSTANTS
    Localities,     \* the processes
    Calls,          \* the calls the root makes, in order
    ThreadSafe      \* whether the HDF5 library is thread-safe

(* Of a call: from_lue or to_lue, whether its property is constant or      *)
(* variable (written per time step), and the localities, in the order in   *)
(* which the root visits them.                                             *)
ASSUME CallsAssumption ==
    /\ Calls \in Seq([op : {"from", "to"}, kind : {"constant", "variable"},
                      at : Seq(Localities)])
    /\ \A i \in DOMAIN Calls :
        /\ Calls[i].at # <<>>
        /\ \A m, n \in DOMAIN Calls[i].at : Calls[i].at[m] = Calls[i].at[n] => m = n
    /\ ThreadSafe \in BOOLEAN

VARIABLES
    issued,     \* the number of calls the root made
    stage,      \* per call and locality: how far the task is
    created,    \* per serializer and locality: the last generation with a promise
    kept        \* the promises whose value is set

vars == <<issued, stage, created, kept>>

CallIdxs == DOMAIN Calls

At(i) == {Calls[i].at[n] : n \in DOMAIN Calls[i].at}

Tasks == UNION {{i} \X At(i) : i \in CallIdxs}

Serializers == {"from", "to"} \X {"open", "close"}

Stages == {"none", "spawned", "open", "transferred", "closed"}

-----------------------------------------------------------------------------
(* Calls are counted per operation: from_lue_order and to_lue_order count  *)
(* the call itself, current_from_lue_order and current_to_lue_order do not.*)
EarlierOrSame(op, i) == {j \in CallIdxs : j <= i /\ Calls[j].op = op}    \* a mutant

Earlier(op, i) == {j \in CallIdxs : j < i /\ Calls[j].op = op}

Order(i) == Cardinality(Earlier(Calls[i].op, i)) + 1

CurrentOrder(op, i) == Cardinality(Earlier(op, i))

(* The last call of an operation before call i.                            *)
LastEarlier(op, i) == {j \in Earlier(op, i) : \A k \in Earlier(op, i) : k <= j}

(* The calls whose results a call waits for at the root.  A write waits    *)
(* for the last write and the last read.  A read waits for the last write; *)
(* for the last read only if the library is not thread-safe.               *)
DependsOnWrites(i) == LastEarlier("to", i)  \* a mutant: nothing waits for reads

DependsOn(i) ==
    LastEarlier("to", i) \cup
        (IF Calls[i].op = "to" \/ ~ThreadSafe THEN LastEarlier("from", i) ELSE {})

Finished(i) == \A l \in At(i) : stage[<<i, l>>] = "closed"

(* The localities that write before l does, one after the other; a read    *)
(* starts at all localities at the same time.                              *)
BeforeLocalityNone(i, l) == {}      \* a mutant: all localities write at once

BeforeLocality(i, l) ==
    IF Calls[i].op = "from" THEN {}
    ELSE {Calls[i].at[m] : m \in {m \in DOMAIN Calls[i].at :
            \E n \in DOMAIN Calls[i].at : m < n /\ Calls[i].at[n] = l}}

-----------------------------------------------------------------------------
(* The serializers of a locality.  promise_for makes the promises of all   *)
(* generations up to the one asked for; generation zero is kept at once.   *)
PromiseForMore(s, l, generation) ==     \* a mutant: counts on from the last generation
    [created EXCEPT ![<<s, l>>] = @ + generation]

PromiseFor(s, l, generation) ==
    [created EXCEPT ![<<s, l>>] = IF generation > @ THEN generation ELSE @]

Contains(s, l, generation) == generation <= created[<<s, l>>]

Done(s, l, generation) == generation = 0 \/ <<s, l, generation>> \in kept

PredecessorDone(s, l, generation) == Done(s, l, generation - 1)

-----------------------------------------------------------------------------
Init ==
    /\ issued = 0
    /\ stage = [t \in Tasks |-> "none"]
    /\ created = [x \in Serializers \X Localities |-> 0]
    /\ kept = {}

(* The root makes the next call of from_lue or to_lue.                     *)
Call ==
    /\ issued < Len(Calls)
    /\ issued' = issued + 1
    /\ UNCHANGED <<stage, created, kept>>

(* The root's dependencies are ready: a task starts at a locality and      *)
(* takes its promise for opening the dataset.                              *)
Spawn(i, l) ==
    /\ i <= issued
    /\ stage[<<i, l>>] = "none"
    /\ \A j \in DependsOn(i) : Finished(j)
    /\ \A m \in BeforeLocality(i, l) : stage[<<i, m>>] = "closed"
    /\ stage' = [stage EXCEPT ![<<i, l>>] = "spawned"]
    /\ created' = PromiseFor(<<Calls[i].op, "open">>, l, Order(i))
    /\ UNCHANGED <<issued, kept>>

(* Whether a task waits at its locality until the call before it opened    *)
(* the dataset.                                                            *)
WaitsToOpen(i) ==
    \/ Calls[i].kind = "constant"
    \/ Calls[i].op = "from" /\ ThreadSafe

(* The array's partitions are ready, as is what the task waits for.        *)
Open(i, l) ==
    /\ stage[<<i, l>>] = "spawned"
    /\ WaitsToOpen(i) => PredecessorDone(<<Calls[i].op, "open">>, l, Order(i))
    /\ stage' = [stage EXCEPT ![<<i, l>>] = "open"]
    /\ kept' = kept \cup {<< <<Calls[i].op, "open">>, l, Order(i)>>}
    /\ UNCHANGED <<issued, created>>

(* All partitions of the locality are read or written.                     *)
Transfer(i, l) ==
    /\ stage[<<i, l>>] = "open"
    /\ stage' = [stage EXCEPT ![<<i, l>>] = "transferred"]
    /\ created' = PromiseFor(<<Calls[i].op, "close">>, l, Order(i))
    /\ UNCHANGED <<issued, kept>>

(* A task for a constant property closes the dataset when the call before  *)
(* it has, a task for a variable property at once.                         *)
WaitsToClose(i) == Calls[i].kind = "constant"

Close(i, l) ==
    /\ stage[<<i, l>>] = "transferred"
    /\ WaitsToClose(i) => PredecessorDone(<<Calls[i].op, "close">>, l, Order(i))
    /\ stage' = [stage EXCEPT ![<<i, l>>] = "closed"]
    /\ kept' = kept \cup {<< <<Calls[i].op, "close">>, l, Order(i)>>}
    /\ UNCHANGED <<issued, created>>

AllFinished == issued = Len(Calls) /\ \A i \in CallIdxs : Finished(i)

Terminated == AllFinished /\ UNCHANGED vars

Step(i, l) == Spawn(i, l) \/ Open(i, l) \/ Transfer(i, l) \/ Close(i, l)

Next ==
    \/ Call
    \/ \E t \in Tasks : Step(t[1], t[2])
    \/ Terminated

(* The root goes on, partitions become ready and ready tasks are run.      *)
Fairness == WF_vars(Call) /\ \A t \in Tasks : WF_vars(Step(t[1], t[2]))

Spec == Init /\ [][Next]_vars /\ Fairness

-----------------------------------------------------------------------------
NrCalls(op) == Cardinality({i \in CallIdxs : Calls[i].op = op})

TypeOK ==
    /\ issued \in 0 .. Len(Calls)
    /\ stage \in [Tasks -> Stages]
    /\ created \in [Serializers \X Localities -> Nat]
    /\ \A x \in Serializers \X Localities : created[x] <= NrCalls(x[1][1])
    /\ kept \subseteq Serializers \X Localities \X (1 .. Len(Calls))

IsOpen(i, l) == stage[<<i, l>>] \in {"open", "transferred"}

(* A dataset that is open for writing is open nowhere else, in no process  *)
(* and for no other call; HDF5 refuses to open it otherwise.               *)
WriterIsAlone ==
    \A t, u \in Tasks :
        IsOpen(t[1], t[2]) /\ IsOpen(u[1], u[2]) /\ Calls[t[1]].op = "to" => t = u

(* What is read and written is as if the calls were done one at a time: a  *)
(* write is not started before all earlier calls are finished, a read not  *)
(* before all earlier writes are.                                          *)
CallsInOrder ==
    \A t \in Tasks : \A j \in CallIdxs :
        /\ stage[t] \in {"open", "transferred", "closed"}
        /\ j < t[1]
        /\ "to" \in {Calls[j].op, Calls[t[1]].op}
        => Finished(j)

(* Without a thread-safe library a process has the dataset open once.      *)
OneTaskPerProcess ==
    ~ThreadSafe =>
        \A t, u \in Tasks :
            IsOpen(t[1], t[2]) /\ IsOpen(u[1], u[2]) /\ t[2] = u[2] => t = u

(* The dataset is opened as HDF5 allows: a writer is alone, a process      *)
(* without a thread-safe library has it open once.                         *)
AccessIsExclusive == WriterIsAlone /\ OneTaskPerProcess

(* What the tasks assert when they start: this locality has closed the     *)
(* dataset for the calls this call depends on, and, without a thread-safe  *)
(* library, the read before has been opened.                               *)
SpawnAssertions ==
    \A t \in Tasks :
        LET i == t[1]
            before(op) == CurrentOrder(op, i)
            closed(op) == /\ before(op) > 0 => Contains(<<op, "close">>, t[2], before(op))
                          /\ Done(<<op, "close">>, t[2], before(op))
        IN  stage[t] = "spawned" =>
                /\ Calls[i].op = "from" => closed("to")
                /\ Calls[i].op = "to" => closed("from")
                /\ Calls[i].op = "to" /\ Calls[i].kind = "variable" => closed("to")
                /\ Calls[i].op = "from" /\ Calls[i].kind = "variable" /\ ~ThreadSafe =>
                        PredecessorDone(<<"from", "open">>, t[2], Order(i))

(* What the tasks for a variable property assert when they close the       *)
(* dataset: the call before has closed it already.                         *)
CloseAssertion ==
    \A t \in Tasks :
        stage[t] = "transferred" /\ Calls[t[1]].kind = "variable" =>
            PredecessorDone(<<Calls[t[1]].op, "close">>, t[2], Order(t[1]))

(* The assertions of the tasks, at the start and before closing.           *)
AssertionsHold == SpawnAssertions /\ CloseAssertion

(* Every call is finished: no task waits for a promise nobody keeps.       *)
EventuallyFinished == <>AllFinished
=============================================================================
