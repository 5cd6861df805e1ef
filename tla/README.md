# A formal model of LUE

LUE is an environment for models of earth systems: a *data model* that stores
rasters and objects in HDF5 files, and a *modelling framework* that computes with
arrays that are cut in partitions and spread over the processes of a computer
cluster. The framework is written against HPX: an operation returns at once, with
arrays whose partitions are futures; tasks run when what they depend on is ready.

Most operations are simple data flow: one task per partition, nothing shared, the
result the same whatever the order. This project is about the operations that are
not: those whose tasks send each other messages, share state within a partition,
call each other back and forth, or are ordered by counters and promises. Their
correctness depends on interleavings that a test does not control.

All paths below are relative to `src/source/`; `algorithm/` stands for
`framework/algorithm/include/lue/framework/algorithm/`.

## 1. Inventory

### Accumulating router (`algorithm/definition/accumulating_router.hpp`, `algorithm/definition/inflow_count.hpp`)

Routes material (water, say) downstream over a field of flow directions. Each cell
flows to one of its eight neighbours, which may be in another partition; a *stream*
may leave a partition and come back many times.

*State.* Per partition: the flow directions, the inflow counts, the outflow; per
side and corner the list of cells that receive from the neighbour (input cells) and
the list that send to it (output cells). Per pair of neighbours: two channels, one
for lists of cells, one for material.

*Operations.* Per partition a chain of tasks: list the output cells and tell the
neighbours (`connectivity_ready`); receive the input cells and count inflow
(`monitor_cell_idx_inputs`, `inflow_count_ready`); solve the streams that start in
the partition; solve the streams that enter it, by a monitor per neighbour
(`monitor_material_inputs`). A stream is followed by `accumulate` until it reaches a
sink, a confluence that awaits more inflow, or the border of the partition.

*Hard.* Up to eight monitors add to the same cells. Material arrives in any order.
Whether a monitor ends depends on counts that another process made. Partitions wait
for each other in circles. The geometry of corners and sides is written out several
times and must agree.

*Correct if* the outflow is what it would be without partitions, each cell is
entered once and only when everything upstream is in, monitors expect exactly what
neighbours will send, no channel is closed under a reader, and everything ends.

### Accumulation functors (`algorithm/definition/accu*.hpp`)

What is done at a cell. `accu` adds; `accu_threshold`, `accu_trigger`,
`accu_fraction`, `accu_capacity` split material into what stays and what flows on;
`accu_info` counts streams. Correct if missing data spreads downstream and nowhere
else and no material is lost.

### Communicators (`algorithm/detail/communicator.hpp`, `communicator_array.hpp`)

A send channel and a receive channel per neighbour, found by name in HPX's registry;
a counter makes the names of an invocation unique. Hard: registering, connecting and
unregistering happen in different processes in any order.

### Routes (`algorithm/definition/decreasing_order.hpp`, `framework/partitioned_route/`)

A route visits the cells of an array, or of each zone, from the highest value to the
lowest. A component per partition sorts its values; a route is recorded by a chain
of remote calls that jump to whichever partition has the highest value left. The
call carries the maxima of all partitions.

*Hard.* Several routes are recorded in a partition at the same time; a route returns
to a partition before the earlier call there has ended; partitions that a route will
not reach must be told; a component must find out that it is done, finish exactly
once, and only after everything else.

### First n, walk (`algorithm/definition/first_n.hpp`, `algorithm/walk.hpp`)

Visits the first cells of each route and marks them. A component per partition of
the route; a walk is a chain of remote calls, one per fragment, and goes on as a chain
of calls that skip once enough cells were visited.

*State.* Per component: the fragments it has, the next one of each route, the
components that hold the fragments that follow, the partition of the result.

*Hard.* The caller goes on to the next component before it has left its own. Nothing
orders the call that asks for the result against the calls that finish it. A component
must not be entered before it knows those downstream.

*Correct if* every call finds the fragment it is about, the first cells of every route
are marked and no others, and every part of the result becomes ready, once, and last.

### Clump (`algorithm/definition/clump.hpp`)

Labels connected cells with equal values. Per partition a flood fill by spans; then
one task visits all borders and corners between partitions and collects the ids that
must become one; then the partitions replace their ids.

*State.* Per partition: the labelled cells, and a table from local to global ids. At
the root: collections of global ids, and the collection of each local clump.

*Hard.* The loops of the flood fill move both ends of a span while scanning it. The
collections grow, and are united, in the order in which borders are visited.

*Correct if* cells have the same id exactly if they are connected.

### Unique ids (`algorithm/definition/unique_id.hpp`)

Numbers the cells for which a condition holds. A task waits for any of the partitions,
gives it a range of ids, and spawns a task that fills it.

*Hard.* Four collections must stay in step while elements are taken out in any order.

*Correct if* ids are unique and every partition is numbered.

### Focal operations and halos (`algorithm/definition/focal_operation.hpp`, `algorithm/detail/halo_partition.hpp`)

The value of a cell is computed from the cells in a window around it. A task per
partition, with the eight neighbours as input, or partitions that stand for the halo.

*Hard.* Nine cases for the place of a partition in the array, and nine regions within
the partition, each with its own slices of neighbours of different shapes.

*Correct if* every cell sees the window it has in the undivided array.

### Model simulation (`framework/model/include/lue/framework/model/simulate.hpp`)

Runs the time steps of a model without waiting for their results. A sliding
semaphore keeps the loop from getting too far ahead. Hard: time steps finish in any
order; the semaphore is on the stack and is used by continuations.

### Dataset I/O (`framework/io/`: `from_lue.hpp`, `to_lue.hpp`, `serializer.hpp`, `lue.cpp`)

Reads and writes arrays, asynchronously, in every process that has partitions. HDF5
allows one writer, or any number of readers, and possibly only one thread. Calls are
counted; futures at the root order calls, and promises per process order the tasks
of different calls. Hard: a promise that nobody keeps blocks all that follow.

### Everything else

Local, zonal and reducing operations (data flow), kinematic wave (the router's task
graph with numerical iteration), arrays and partitions (domain decomposition, a buffer
shared between partitions), raster I/O with GDAL, bindings, data model and its
utilities, the viewer, and the scalability scripts. `PROJECT.json` lists each, with the
reason when it is not modelled.

## 2. Modules

| module | models | depends on |
|---|---|---|
| `FlowDirection` | index geometry: offsets, sides, corners, the index that names a neighbour's cell | |
| `FlowAccumulation` | what the router promises: routing over the undivided array (abstract), for every functor | |
| `AccumulatingRouter` | the tasks, channels and monitors of the router, with the `accu` functor | extends `FlowDirection`; implements `FlowAccumulation` |
| `DecreasingOrder` | recording routes over partitions | |
| `FirstN` | walking along the first cells of routes, while they are being made | extends `DecreasingOrder` |
| `Connectivity` | what a clump is: connected cells of a zone (reference) | |
| `FloodFill` | the clumps of one partition, span by span | extends `Connectivity` |
| `Clump` | merging the clumps of partitions | extends `Connectivity` |
| `UniqueId` | numbering partitions in the order they become ready | |
| `FocalOperation` | input partitions, halos, slices and windows | |
| `Simulation` | the time step loop and its semaphore | |
| `DatasetIO` | the ordering of reads and writes of one dataset | |
| `*_proofs` | theorems about the module they are named after; `DecreasingOrder_proofs` also about `FirstN`, `Clump_proofs` also about `FloodFill` and `Connectivity` | extends these modules |
| `MC*` | the inputs for TLC | extends the module |

Definitions whose comment says *a mutant* play no part in a specification. Each is a
plausible mistake in the definition that follows it, kept to show that a property
would notice.

### `FlowDirection`

A partition is split in nine parts: interior, four sides without corners, four
corners, because that is how the code loops over it. `OutputEntries` has a cell once
for each part it is in, as the lists in the code do; for a partition of one row or
column that is more than once. `InputIdx` and `IdxToIdxs` are the conversion of a
cell to the index sent to a neighbour, and back. `DestinationCell` is
`destination_cell`, which decides anew where an output cell flows.
`Downstream` is the reference: it uses positions in the whole array and knows no
partitions.

### `AccumulatingRouter`

`phase[p]` is the task that partition `p` is at; `stream[p]` is the cell at which a
running stream is. Every action is one iteration of a loop of the code, or one
message received:

| action | code |
|---|---|
| `Connect` | `connectivity_ready`: output cells listed, input cells and the closing empty list sent |
| `ReceiveInputCells` | one iteration of `monitor_cell_idx_inputs` |
| `CountInflow` | `inflow_count_ready` |
| `EnterRidge` | the loop over cells without inflow in `solve_intra_partition_stream_cells` |
| `StopAtSink`, `StopAtOutput`, `FlowOn` | one iteration of `accumulate`, with the functor |
| `FinishIntra` | the monitors are started |
| `ReceiveMaterial` | one iteration of `monitor_material_inputs`, up to the stream it starts |
| `Finish` | `wait_all` of the monitors |

The monitors of a partition share a mutex, which a stream holds until it stops: that
is `stream[p] # Idle`. In the code a monitor takes material off its channel before
it locks the mutex; `ReceiveMaterial` does both at once. This loses nothing: what it
does before the lock involves the monitor's own copy of the input cells and a channel
only it reads, so it commutes with everything done between.

A cell of the outflow first gathers what flows in, and becomes the outflow when the
cell is entered, as in the code. `solved` and `delivered` are history variables: the
cells that were entered, and the cells whose material was counted off downstream.

Left out: keep-alive of communicators (`keep_communicators_alive`), registration of
channels under names, the domain policies, `accu_info`, and everything about types.

### `FlowAccumulation`

The router with partitions and messages left out. `Stop` and `Pass` are a stream that
ends or goes on, `Arrive` is material that was sent before. `functor`, `bound` and
`remainder` stand for the five functors and their second argument and result; `Lacks`
is the test for missing data and for the domain in `enter_cell`, `SplitOf` the
arithmetic of it. The router itself routes with `accu` (it calls all functors in the
same places); the functors that split are checked and proved here, in the abstract.
Materials are natural numbers; a fraction is a number of parts of `Whole`, and the
division rounds down. Rounding of floating-point numbers is not modelled.

### `DecreasingOrder`

A call to `record_route_fragment` is a task with three steps: `Read` (under the
shared lock), `Update` (under the exclusive lock, up to the point where the next
partition is called) and `Store` (the rest; the lock is released). `Skip` is
`skip_recording_route_fragments`. The zonal and the global version of the code differ
in one respect that matters: only the zonal `Skip` takes the lock (`Zonal`). `Finish`
is `finish_partition`; `Publish` is its continuation. `Start` is the continuation
that knows all maxima. `std::sort` may put equal values in any order, so
`Arrangements` yields all orders.

`AskRoutePartition` is the call of `route_partition`. It is sent before
`sort_values` is, but both are asynchronous and nothing orders them. In a partition
without values `sort_values` calls `finish_partition`, which moves the promise
`route_partition` needs; the action then yields `"lost"`. That state is reachable.
`Start` yields `"undefined"` in the global version when there are no values at all,
where the code takes the front of an empty vector. That is reachable too.

### `FirstN`

`walk` and `skip_walking_route_fragments` have two steps, both under the component's
lock: `Visit`, up to the call of the next component, which runs from then on at the
same time, and `Leave`. `CreateWalk` is the constructor, which needs the partition of
the route, so walks are created while routes are still being made elsewhere;
`SetDownstreamComponents` and `StartWalks` are the configuration in `walk.hpp` and the
barrier behind it. `AskOutputPartition` is `result_partition`, without a lock, as in
the code. `FirstNNext` interleaves all this with the steps of `DecreasingOrder`.

### `Connectivity`, `FloodFill` and `Clump`

`Clumps` is the definition of the result: sets of cells that are connected within a
zone. `FloodFill` has an action per iteration of each loop of `flood_fill`: `ScanWest`
and `TurnWest` are the part to the west of the span, `ScanSpan`, `ScanEast`,
`PushRequests` and `SkipCell` the span itself, `PushFromCorner` the extra corner of
diagonal connectivity. `requests` is the stack, `span.west` and `span.col` the
variables the loops move.

`Clump` takes what `FloodFill` establishes as given: `SolveLocally` labels a partition
by `ClumpIds`. Each iteration of the loops at the root is an action: `MergeClumps`
visits a border or a corner, `UniteCollections` is one round of the nested loop over
the collections, `UpdateTables` computes the tables, `Reclass` is the task per
partition. A border is, as in the code, an array of two rows whose clumps are found
by the same operation; `MergeStarting` merges the one that starts at a column of the
first row. The loops over partitions, columns and pairs of collections are the order
`VisitedBefore` and recursive functions over the indices of the loops.

### `UniqueId`

`sizes` and `idxs` are the collections that are rotated; the collection of promises is
the set `promises`. `HandleAny` takes any partition that is ready, as
`hpx::when_any` does. Ids have the width of their type (`NrIdValues`).

### `FocalOperation`

A behaviour is the computation of one partition of the result: the partitions of
output share nothing. Data of the 3 by 3 partitions arrives in any order; `ComputeInner`
is the task that needs the center only, `ComputeBorder` the one that needs all.
`InputPartitions` are the nine cases of `focal_operation_2d`, `CornerWindow`,
`NorthSouthWindow` and `WestEastWindow` the regions of a partition. The value of a
cell is its position in the array, that of a halo cell the side or corner it is at, so
that a window shows where its cells came from. The functions that are applied to a
window are left out.

### `Simulation`

The loop is a program counter (`pc`); the time steps are started by it and finish in
any order. `signalled` is the last signaller that ran; a signaller runs after the one
before it and after its own time step. `lower` is the limit of
`hpx::sliding_semaphore`, which is modelled from its use: it starts at the first time
step, and a signal raises it.

### `DatasetIO`

The root makes the calls of a given program in order (`Call`). A call is spread over
the localities with partitions; a task per call and locality goes from `spawned` to
`open`, `transferred` and `closed`. `Spawn` waits for the futures at the root
(`DependsOn`), and for the localities that write before it (`BeforeLocality`). The
serializers are the generations with a promise (`created`) and the promises kept
(`kept`). `ThreadSafe` tells the two serial configurations of HDF5 apart; parallel
I/O is not modelled.

## 3. What is checked

| run | instance | shows |
|---|---|---|
| `accumulating_router` | 2 partitions of 2×2; 171 networks in which most cells choose from 2 or 3 directions; with and without missing data | all properties of the router, its liveness, and that it implements `FlowAccumulation` |
| `router_grid` | 2×2 partitions of 2×2 and 2×3 cells, 2 hand-made networks | the geometry: corners crossed in all four directions, sides with cells that are no corner, streams that leave the array |
| `router_column` | a partition of 3×1 | **violation** of `InflowCountExact` |
| `flow_accumulation` | every network of 4 cells, cyclic ones included; five functors, arguments below, at and above the material, and missing | the abstract specification and the functors |
| `simulation` | 2 samples of 6 time steps, limit 3 | bounds, order and end of the time step loop |
| `dataset_io` | 2 processes, 7 calls that mix reading and writing, and both kinds of properties; no thread-safe library | order, exclusion, the code's assertions, and the end |
| `decreasing_order_zonal` | 3 partitions, 2 zones, 3 inputs, routes of at most 4 cells; walks of 0, 3 and 4 cells | routes and walks along them, made at the same time |
| `flood_fill` | all arrays of 3×4 cells in one zone, of 2×3 and 3×2 cells in two zones; both kinds of connectivity | the clumps of a partition, the requests, and the end of the loop |
| `clump` | all arrays of 2×5, 5×2 and 3×3 cells in three or four partitions, two zones in 2×3 cells, an array of four larger partitions | merging, and that different clumps keep different ids |
| `clump_transitive` | 2×2 partitions of 3×3 and a clump that crosses borders five times | **violation** of `SameClumpSameId` |
| `unique_id` | 3 and 4 partitions, 35 arrays; one whose ids do not fit | unique ids, bookkeeping, and the end |
| `focal_operation` | arrays of 1 to 3 partitions along each dimension, regular and enlarged; kernels of radius 0, 1 and 2 | windows |

### Properties of the router

* `CountsServe`: the inflow count of a cell is at any time the number of cells
  upstream, in the whole array, whose material has not arrived, and a stream is only
  ever at a cell that awaits nothing and was not entered before. It relates the
  geometry (who is counted by whom) with the streams and messages (who counts down).
  Its first part by itself is `InflowCountExact`, which `router_column` refutes for
  partitions that are a single column.
* `ChannelsServe`: the input cells a monitor still awaits are, as a bag, the cells
  named by messages on their way plus the output cells the neighbour has yet to send;
  and closing a channel does not cancel a read. It fails when `destination_cell` and
  the lists of `connectivity_ready` disagree, when the wrong output cell is erased, or
  when a message is lost.
* `OutflowComplete`: the outflow of an entered cell is the sum of what flows out
  upstream, and in the end nothing is left over (two TODO comments at the end of the
  inter-partition task). The external inflows are different powers of two, so a total
  shows which cells contributed, and how often.
* `ImplementsFlowAccumulation`: the refinement mapping hides partitions and messages.
  A cell's `inflowCount` is, before its partition has counted, the one it will find.
  A stop at a confluence or sink and each flow-on are `Stop` and `Pass`, a received
  message is `Arrive`; everything else stutters.
* `EventuallyDone`: every partition finishes, although each waits for its neighbours.

`FlowAccumulation` has its own: `CountExact`, `UpstreamFirst`, `NoDataExact` (missing
data comes from upstream or from the cell itself, and from nowhere else, and outflow
and remainder lack data together), `MaterialConserved` (what came into a cell is what
flows out of it and what remains), `SolvedIsFinal`. They hold for networks with cycles
too, of which the cells on and below a cycle are never entered.

### Properties of the other modules

* `Simulation`: `SignalledIsFinished` (a signal for a time step means that it and all
  before it are finished), `InFlightBounded`, `NothingOutlivesSimulate` (no signaller
  uses the semaphore after `simulate` has returned), `EventuallyDone`.
* `DatasetIO`: `AccessIsExclusive` (a writer is alone; a process has one task in the
  library), `CallsInOrder`, `AssertionsHold` (those of the code), `EventuallyFinished`.
* `DecreasingOrder`: `FinishIsLast` (a component finishes once, when no call to it is
  under way), `MaximaAreExact` (the maxima a call carries are what the partitions have
  left), `RouteComplete` (what the documentation says of a route).
* `FirstN`: `CallsAreExpected` (the assertions of `walk` and
  `skip_walking_route_fragments`, from the moment a call is made), `OutputComplete`
  (what is handed out is final and is what was asked for), `EventuallyFinished`.
* `FloodFill`: `RequestsValid` (`assert_request_is_valid`, for all requests on the
  stack and not only the one that was popped), `ClumpsAreExact` (against
  `Connectivity`, after every clump), `EventuallyDone`.
* `Clump`: `CollectionsServe` (collections hold what touches, hold nothing that is not
  connected, and every local clump finds its own), `SameIdSameClump`. The converse,
  `SameClumpSameId`, is what `clump_transitive` refutes.
* `UniqueId`: `TypeOK` relates promises, tasks, results and both collections;
  `IdsAreUnique`; `EventuallyNumbered` (with the continuous range the documentation
  promises when the condition holds everywhere).
* `FocalOperation`: `WindowsAreExact` (every window is that of the undivided array,
  and a task fails exactly for partitions that are smaller than the kernel).

### Bounds, and why they are enough

The router's inputs are fields of flow directions. Two partitions suffice for streams
that cross a border several times, in both directions, join streams of the other
partition there, or start from messages; the product of choices per cell contains
such fields and many others, and `IsValidNetwork` drops fields with cycles. Corners
need four partitions, and one enlarged partition gives sides with inner cells; there
the number of interleavings limits the run to two fields, made so that every
direction over the common corner, and confluences of a corner and a side, occur.
Partitions of one row or column are the subject of `router_column` only, since the
code is wrong there.

`FlowAccumulation` has four cells: enough for confluences of three, and for two that
follow each other. Walks stop within a fragment, at the end of one, and at the end of a
route, and at once. Arrays of 3 by 4 cells have spans that are passed on both sides and
a clump around a cell that is not in it; both rest on `RequestsValid`, which is proved
for every array. The clumps of small arrays, all of them, cross each border at most a
few times; they cannot show what `clump_transitive` does, which takes five crossings,
and are there for what holds in every array. Along each dimension a window depends on
whether a partition is first, in between, last or the only one, regular or enlarged, and
smaller, as large as or larger than the kernel: `focal_operation` has every combination
of two dimensions.

Nothing in these specifications counts without end, so no state constraint is used.
The size of the instance is the bound: the number of time steps, calls, cells, zones.
`MaxNrCells` is a parameter of the code.

### Fairness

Everything runs as HPX tasks; HPX runs every task that is ready. The router assumes
weak fairness of each partition's next step, `Simulation` of the loop and of each
time step and signaller (a time step that never finishes is a model that never does),
`DatasetIO` of the root and of each task. In `DecreasingOrder` weak fairness of any
step is enough, since every step is taken once; `FirstN` has it for the steps of
either operation. `FloodFill` is a single task, and in `UniqueId` every step is taken
once. Nothing is assumed to be strongly
fair. Waiting for a mutex needs no more: it is released by the stream itself.

### Disagreements between the code and what it says of itself

Two are shown by runs:

1. `inflow_count` in partitions of one row or column (`router_column`). The sides and
   corners coincide and cells are counted more than once (`inflow_count.hpp:670`: "must
   be equal to upstream(flow_direction, material=1)").
2. Uniting collections of ids in one pass (`clump_transitive`). A collection that shares
   no id with an earlier one is not compared again after that one has grown, so a clump
   can keep two ids (`clump.hpp:1001`, `:1785`).

These were met while reading and are described here only:

3. The rate limit (`simulate.hpp:53`, `:76`). The semaphore counts the first time step as
   finished from the start, so rate limit + 1 time steps are in flight until the first
   one signals. `InFlightBounded` states what does hold.
4. Reading twice and writing, with a thread-safe HDF5 library (`to_lue.hpp:27`, `:459`).
   A write waits for the last read, which may finish before an earlier one. `DatasetIO`
   with `ThreadSafe = TRUE` has this behaviour; its properties are checked, and proved,
   for libraries that are not thread-safe.
5. Calls for arrays that have partitions in some processes only
   (`serializer.hpp:82`). Generations are counted for all processes, so such a call
   leaves a promise that is never kept.
6. Skipping a global route without a lock (`decreasing_order.hpp:1016`, against `:971`).
   `DecreasingOrder` with `Zonal = FALSE` has this behaviour.
7. `numeric_limits<Value>::min()` for floating-point values (`decreasing_order.hpp:364`);
   `MinValue` is a parameter, so that a value above the lowest one can be given.
8. `first_n.hpp:100` says of `result_partition` that it must be called exactly once, and
   it is; but called after all calls to the component it finishes the partition a
   second time (`requested[p] = "late"` in `FirstN`).
9. In focal operations the check that neighbours are large enough never fails when the
   one of the center partition has not. The corner in the north-west takes extents from
   places other than those it reads, which happen to be equal.

## 4. What is proved

For every value of the constants that satisfies the named assumptions; the proofs
are in the modules `*_proofs`.

**`AccumulatingRouter_proofs`**: `TypeCorrect`, `CountsAlwaysServe`,
`ChannelsAlwaysServe`, `OutflowAlwaysComplete` and `RouterImplements`: all safety
properties the runs check, and the refinement. They hold for arrays of any shape, cut in
any rows and columns of partitions, any external inflow, with two hypotheses.
`AtLeastTwo`: partitions have at least two rows and columns; without it the first
property is false (disagreement 1). `NetworksAreValid`: streams end, and none enters a
cell without data, which is what the code requires of its input.

The first half relates the definitions the tasks use to the cells upstream and
downstream in the undivided array (`Downstream`, by position). `StepArithmetic` and
`StepInArray` translate a step in the array to a step between partitions; from these
follow that the parts, `WithinPartition` and `DestinationCell` agree on where a cell
flows (`LeavesIs`, `DestinationIs`, `FlowCases`), that a list of output cells has every
sender once (`OutputCellsIs`), that the reader of a channel finds in the names it gets
the cells the senders flow into (`NamedFacts`), and that the count is the number of
cells upstream (`InflowCountIs`).

The second half is the inductive invariant, `Inv`. `ListInv` says how far each list of
names has come: not sent, on its way, read, or read to its end. `OutputInv` and `SentInv`
say of each channel that the cells that leave over it are still listed, or named once by
a message that carries their outflow, or delivered; `CountInv` that a partition that has
counted knows the number of cells upstream not yet delivered; `StreamInv` that
everything has come in for the cell a stream is at; `StageInv` what a task has not done
yet. None is inductive alone: a count is only right if a message is for the cell it names
and no cell is delivered twice, which rests on the lists and messages, and these are
right because a stream enters a cell once, which rests on the counts. There is one lemma
per action. On top of it come `Awaits`, for `ChannelsServe`; `EndInv`, that channels are
closed and no cell for which everything came in is forgotten; and `Sums`, that what a
cell has is what was delivered to it. When all partitions are done nothing is awaited,
so each cell not solved has another one upstream, and the network would have a cycle
(`DoneSolved`, `NoCycle`). For the refinement (`NextRefines`), stopping, flowing on and
receiving are shown to be `Stop`, `Pass` and `Arrive`; all else is a stutter because the
abstract count is, before a partition counts too, the number of cells not delivered
(`CountOfIs`).

Three recursive functions occur: the position of a partition (`ExtentBefore`), the cells
that streams reach (`IsAcyclic`) and the fold that adds up material. The provers cannot
use the induction theorems of the library, but they can use that a set of numbers has a
smallest element, and a set of finite sets a smallest set: that each function exists, and
what it computes, is shown by looking at the smallest counterexample
(`ExtentSumsExist`, `ReachExists`, `FoldExists`, `FoldSwaps`).

**`FlowAccumulation_proofs`**: `TypeCorrect`, `CountsAreExact`, `UpstreamComesFirst`,
`NoDataIsExact`, `SolvedStaysFinal`, `SplitConserves`, `MaterialIsConserved`. Assumed: a finite set of cells,
`NoCell` not a cell, `NoData` not a number. `CountExact` needs types only: each step that
decrements a count delivers a cell that was not delivered, so the cardinality of the
cells awaited drops by one (the library's theorem on removing an element).
`UpstreamFirst` is not inductive alone: with `CountExact`, a count of zero means that no
cell upstream is awaited. From it follows that no cell delivers to a solved cell, hence
`SolvedIsFinal`. `NoDataExact` needs all of these, and that a cell delivers the value it
was solved with; that outflow and remainder lack data together is an invariant of its
own. `SplitConserves` says of every functor that outflow and remainder are natural
numbers that add up to the total. `MaterialConserved` adds up over all upstream cells
that delivered: the sum of the community modules is shown to exist and to take any cell
first (`SumExists`, `SumSwaps`), so that a cell that delivers adds its outflow to it
(`SumAdd`); `NoDataExact` says that all terms are numbers when the sum is looked at.

**`Simulation_proofs`**: `TypeCorrect`, `SignalsAreSound`, `RateIsBounded`,
`NothingIsLeft`, for any number of samples and time steps and any rate limit. The
invariant adds to the types that the lower limit is the last signal, or one before
the first; that the loop, once past the wait, is ahead of it by at most the
difference; and what is known at each place of the program.

**`DatasetIO_proofs`**: `TypeCorrect`, `CallsAreInOrder`, `WritersAreAlone`,
`ProcessesDoOneTask`, the last two together, `AccessesAreExclusive`, and
`AssertionsAlwaysHold`, for any program and any number of processes; all but the first
if the library is not thread-safe. The
invariant `IInv` says that once a task of a call was spawned, all earlier calls are
finished (`OneCallAtATime`), not only the last one of each kind that it waits for
(`DependsOn`): one of those is the call just before it, and when that one finished it
had been spawned, so the invariant says the rest. `OneLocalityAtATime` says the same
of the localities of a write. `PromiseInv` says which promises a task has made and kept
at each stage. What the tasks assert follows: the generation they ask about is the order
of the last earlier call (`LastHasOrder`), which is finished, so its task at the same
locality has kept its promises. That there is such a task is the hypothesis
`CallsAreNested`: a locality that a call visits was visited by all calls before it. It
holds when all arrays are spread over the same localities, as in the run; without it the
assertions are false (disagreement 5).

**`DecreasingOrder_proofs`**: `TypeCorrect`, `MaximaExact`, `FinishesOnceAndLast`,
`RoutesAreComplete`, and of `FirstN`, `CallsAlwaysExpected` and `OutputAlwaysComplete`,
for any finite number of partitions, any number of zones, and any values. The first two hold in both versions of the code, the others are proved for the
version with zones; `FinishIsLast` is false for the other (disagreement 6). `RouteInv` adds to the types and to
`MaximaAreExact` that a route is recorded at one place at a time (`OneActive`), that
cells are ordered (`LocalIsOrdered`), that a task that does not end the route took all
cells at least as high as the next maximum (`SelectsAll`; this is why the partition
it inserts never comes before the one it calls), and that routes are skipped after
they end, by partitions with cells left (`SkipsAfterEnd`). `FinishInv` says that a
component has finished exactly when it has sorted, has nothing left and is not
locked, and that each task past its update holds the lock. `Skip` is the step where
the lock is needed: without it, a component may be finished by a skip while a task
still has a fragment to store.

`RoutesAreComplete` states all `RouteComplete` says, of any zone and maximum length, once
everything is done. It has one more hypothesis, `NoLowerValue`: no value is lower than
`MinValue`, which is what the code takes for the next maximum when there is none. That
holds for integers; for floating-point values `numeric_limits::min()` is positive
(disagreement 7). The state does not contain the route: its fragments are spread over
partitions, on their way in tasks, and moved away by components that finish. `HistoryInv`
says that there is a history, the pieces in the order in which they were selected and the
cells visited so far, that explains them: pieces are chained (`AreChained`), each cell
visited comes before all that are not (`InOrder`), the task that is selecting goes on
where the history ends (`FollowsOn`), every partition has left what was not visited
(`HoldsRest`), and each piece is in a fragment, stored or about to be, in the order of
the history (`ArePieces`). Only the update of a task adds a piece: `NextMaximumFacts`
relates the values of all partitions to the one the call carries, and `OrderGrows`
concludes that what is selected is next. At the end all pieces are in the result. The
fragment to use at the n-th visit of a partition is the n-th stored there because pieces
are stored in order (`PlaceOfPiece` counts them), so that following the locations yields
the history (`RouteFragmentsFacts`), and its concatenation the cells visited
(`FlattenHistory`).

`CallsAlwaysExpected` and `OutputAlwaysComplete` are about the walks of `FirstN`, which
run along routes that `DecreasingOrder` records; a step of either leaves the variables of
the other alone, so the three invariants above carry over (`OrderInv`), and the two
theorems have the hypotheses of `RoutesAreComplete`. Nothing in the state says how far a
route is walked: several calls of it may be under way, the last one ahead of those
that are about to leave. A walk starts when every component has been created, thus when
all fragments are in the result (`HistoryIsRecorded`), so there is a history to measure
by. `WalkInv` says that each route is walked up to one piece of its history
(`WalkedUpTo`). The one call that has not visited yet is for that piece, all others are
for earlier ones, one each (`CallsUpTo`). At every place the next fragment is the first
that was not left, and only if it is being left is it before that piece (`IdxsUpTo`).
The cells marked are those of the pieces before it, up to the number asked for, and
the call carries their number (`MarkedUpTo`); that number also decides between walking
and skipping. `Visit` moves a route on by one piece, `Leave` moves a place on by one
fragment. The rest of `WalkInv` is what these steps need: a component that expects
fragments knows its downstream components (`DownstreamIsKnown`), which is why finishing
the output, which forgets them, must come last (`NothingLeftWhenFinished`), and a call
that has visited holds the lock (`WalkLockIsHeld`), so that calls for two fragments of
a place leave it in the order in which they visited.

**`Clump_proofs`** is about `Connectivity`, `FloodFill` and `Clump`, for arrays of any
shape, any zones and both kinds of connectivity.

What `Clumps` is: the recursion takes a cell from a set and joins the clumps of the
others that it touches; whatever cell it takes, the clumps of a set are the division of
its cells into the smallest parts that are closed under touching in the same zone
(`DivideIntoClumps`, `ClumpsDivide`). Induction over data is not available, so the lemma
takes a smallest set of cells for which it fails, which exists because the sets are
finite and ordered by inclusion (`WellFoundedInduction`). What an id is: clumps are
ordered by their first cells, so the id of a clump is the number of clumps before it
(`ClumpsAreNumbered`, `IdsOfClumps`).

Of `FloodFill`, `TypeCorrect`, `RequestsAreValid` and `ClumpsAlwaysExact`. The first
says that no scan leaves the array; it needs to know, at each place of the program, how
far `span.west` and `span.col` can be. The second is inductive together with what is
known of the span at hand: the cells scanned so far, between the column where the scan
began and the one it has reached, are in the clump, and those are the ones the new
requests name. For the third, the cell that is found first without an id is the first of
the clump whose id is next (`ClumpsAreCounted`), and `FillInv` says at every place of
the program that only cells of the clump were added, and that everything that touches a
cell that was added is in the clump, or is named by a request on the stack, or is ahead
of the scan, or is next to cells that were scanned and for which the request is still to
be pushed (`NothingIsForgotten`, `RunsAreWhole`). It needs to know why a request leaves
out the cells behind the scan: those the span is next to are in the clump already
(`ParentIsIn`), except for the two requests a clump starts with, of which the one
downwards turns back to a row in which nothing of the clump can be, as the clump would
have started there (`NothingUpwards`). When the stack is empty the cells that were added
are closed, and the clump is the smallest such set. TLC checked the inductive invariant
`ExactInv` on the instance of the run before it was proved.

Of `Clump`, `SameIdsAreSameClumps` and `CollectionsAlwaysServe`, with partitions of any
shape that fit in the array. Arithmetic first: where the parts of an array begin and end
and which are next to each other (`Part`, `NextParts`, `PartSize`), so that the sides of a
border are cells of the array, and touch exactly if the cells do (`BorderFacts`,
`SidesTouch`). What is a clump among some of the cells, of a partition or of a border, is
part of one clump of the array (`PartOfClump`). The ids a partition starts with are
different from those of all others (`FirstIdFacts`), so an id tells the clump of the array
it belongs to (`KeyFacts`, `IdsTellClumps`). The invariant `ClumpInv` says what the root
has, stage by stage. While merging, each collection holds ids of one clump, every local
clump in the table is in the collection the table names (`Serves`), and what the visited
borders and corners brought together is together (`AreCovered`): `MergeServes` and
`MergeDiagonallyServes` show this of one clump and one pair, `MergeBorderServes` and
`MergeCornerServes` of the loops over them; collections only grow. While uniting,
collections that were moved are empty, were moved to one that is not compared as the
second again, and the id of a local clump is where its collection was moved to
(`Unites`): this is why the lowest id is never asked of an empty collection, although a
collection is moved once and moves are not followed. Afterwards the tables give every
cell an id of its own clump (`TablesTellClumps`), which is all that the first theorem
needs. For the second, cells that touch across partitions are on two sides of one border
or a pair of one corner (`Neighbours`), which was visited. That uniting in one pass does
not bring all collections of a clump together, as `clump_transitive` shows, contradicts
neither.

**`UniqueId_proofs`**: `TypeCorrect`, `IdsUnique`, for any number of partitions of any
sizes. `IndexInv`: the front parts of both collections are equal and without duplicates,
and are the partitions that have a promise. `RangeInv`: there are start values for the
partitions handled so far whose ranges of ids are disjoint and below the next start
value. An id is its start value plus the number of cells counted before it, which is less
than the size of the partition.

**`FocalOperation_proofs`** shows `WindowsExact` for every shape of array and partitions
and kernels of any radius. Nothing about a state but the windows of the interior is
needed (`InnerExact`); the argument is about the definitions. All nine cases of
`focal_operation_2d` give the neighbour in the direction of a place, or the halo where
there is none (`InputPartitionsAre`). So a cell of the data that is read is at a known
position of the array surrounded by its halo (`Along`, `DataIs`). Where a window is cut,
the two slices have as many cells as the kernel, were read, and are at adjacent positions
(`CutFacts`), whichever of the places their extents are taken from. Exactly one of the
views covers a cell of the kernel (`CopiedFromFour`, `CopiedFromRows`, `CopiedFromCols`).
Reading does not fail (`ReadingSucceeds`): the enlarged last partition is less than twice
as large as the others (`ExtentFacts`), so if it contains the kernel, the others have the
cells within its reach.

Only model-checked: liveness under fairness (`EventuallyDone`, `EventuallyFinished` and
the like), which is beyond the prover. All other properties of the passing runs are
stated by a theorem.

Not everything checked holds in all configurations; the theorems state the
configuration as an assumption, as the runs do.

## 5. What is not modelled

* Registration, connection and unregistration of communicators, and the counter in
  their names: how long a name lives is decided by HPX's reference counts and name
  service, which the code uses in two places without saying what it relies on.
* `accu_info`, and the functors within the partitioned router: they are called in the
  same places as `accu`.
* Errors raised by HDF5, parallel I/O.
* Kinematic wave's iteration on real numbers: out of TLC's reach.
* Shared buffers and the mapping of partitions to processes: containers, and a curve.
* Local, zonal and reducing operations, bindings, viewers, file converters and the data
  model: nothing in them depends on order, and nothing is shared.

Much of the repository by size is of the last kind, or is data: fonts, noise tables,
wrappers of the HDF5 interface, one file per operation and element type. The models
cover the operations whose tasks interact.

## 6. Plan

Done, in this order: `FlowDirection`, `AccumulatingRouter`, `FlowAccumulation`,
`Simulation`, `DatasetIO`, `DecreasingOrder`; then the functors, `Connectivity`,
`FloodFill`, `Clump`, `FirstN`, `UniqueId`, `FocalOperation`, with the proofs above.

What would come next:

1. `Clump` with the steps of `FloodFill` in place of `SolveLocally`, which labels a
   partition by `ClumpIds`: `ClumpsAlwaysExact` says that these are the ids the flood fill
   ends with, but the two are joined by this argument and not by a module.
2. The converse of `SameIdsAreSameClumps`, for a pass over the collections that is repeated
   until no two of them share an id.
