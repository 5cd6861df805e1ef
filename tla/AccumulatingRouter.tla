------------------------- MODULE AccumulatingRouter -------------------------
(***************************************************************************)
(* The accumulating router: material is routed downstream over a network   *)
(* of flow directions that is cut in partitions.  Every partition has its  *)
(* own chain of tasks:                                                     *)
(*                                                                         *)
(*   connect    tell each neighbour which of its border cells receive flow *)
(*   count      wait for the same news from each neighbour, count inflows  *)
(*   intra      solve the streams that start in this partition             *)
(*   inter      solve the streams that enter from a neighbour, one monitor *)
(*              per neighbour, all sharing one mutex                       *)
(*   done       the result partition is ready                              *)
(*                                                                         *)
(* Partitions only share channels.  A channel belongs to its sender and is *)
(* first in, first out; closing it leaves what it holds to the receiver.   *)
(***************************************************************************)
EXTENDS FlowDirection

CONSTANTS
    FlowFields,         \* the flow direction fields of the possible inputs
    ExternalInflows,    \* the material that enters each cell from outside
    NoData              \* the value that marks a cell without data

ASSUME InputsAssumption ==
    /\ \A field \in FlowFields : field \in [Cells -> FlowValues]
    /\ \A inflow \in ExternalInflows : inflow \in [Cells -> Nat \cup {NoData}]
    /\ NoData \notin Nat

VARIABLES
    flow,           \* the flow direction field, an input
    external,       \* the external inflow, an input
    down,           \* the cell each cell flows into, according to flow (reference)
    phase,          \* the task each partition is at
    inflowChannel,  \* per channel: lists of input cells on their way
    inputCells,     \* per partition and direction: the cells fed from there
    inputReady,     \* the directions from which the input cells are all known
    outputCells,    \* per partition and direction: the cells still to send
    inflowCount,    \* per cell: the number of upstream cells awaited
    outflow,        \* per cell: the material gathered so far
    ridges,         \* the cells from which an intra-partition stream must start
    stream,         \* per partition: the cell the running stream is at
    material,       \* per channel: material on its way, with its origin (history)
    closed,         \* the material channels that are closed
    awaited,        \* per partition and direction: the cells its monitor awaits
    solved,         \* history: the cells that were entered
    delivered       \* history: the cells whose outflow reached the cell downstream

inputs == <<flow, external, down>>
connectivity == <<inflowChannel, inputCells, inputReady>>
history == <<solved, delivered>>
vars == <<flow, external, down, phase, inflowChannel, inputCells, inputReady, outputCells,
          inflowCount, outflow, ridges, stream, material, closed, awaited,
          solved, delivered>>

Sides == Partitions \X Directions

(* A channel is named by its sender and the direction it sends in.         *)
Channels == {s \in Sides : HasNeighbour(s[1], s[2])}

(* The channel that partition p reads for the neighbour at direction d.    *)
Source(p, d) == <<Neighbour(p, d), SenderDirection[d]>>

Idle == <<>>

-----------------------------------------------------------------------------
Init ==
    /\ flow \in FlowFields
    /\ external \in ExternalInflows
    /\ down = Downstream(flow)
    /\ phase = [p \in Partitions |-> "connect"]
    /\ inflowChannel = [ch \in Channels |-> <<>>]
    /\ inputCells = [s \in Sides |-> <<>>]
    /\ inputReady = {}
    /\ outputCells = [s \in Sides |-> <<>>]
    /\ inflowCount = [c \in Cells |-> 0]
    /\ outflow = [c \in Cells |-> 0]
    /\ ridges = [p \in Partitions |-> {}]
    /\ stream = [p \in Partitions |-> Idle]
    /\ material = [ch \in Channels |-> <<>>]
    /\ closed = {}
    /\ awaited = [s \in Sides |-> <<>>]
    /\ solved = {}
    /\ delivered = {}

(* connectivity_ready: list the output cells of every border, tell each    *)
(* neighbour which of its cells receive flow, and end every channel with   *)
(* an empty list.  A border without a neighbour has nothing to wait for.   *)
Connect(p) ==
    LET output == [d \in Directions |-> OutputCells(flow, p, d)]
        lists(d) == IF output[d] = <<>> THEN << <<>> >>
                    ELSE <<InputIdxs(flow, p, d, output[d]), <<>> >>
    IN  /\ phase[p] = "connect"
        /\ phase' = [phase EXCEPT ![p] = "count"]
        /\ outputCells' = [s \in Sides |-> IF s[1] = p THEN output[s[2]] ELSE outputCells[s]]
        /\ inflowChannel' = [ch \in Channels |->
                                IF ch[1] = p THEN lists(ch[2]) ELSE inflowChannel[ch]]
        /\ inputReady' = inputReady \cup (({p} \X Directions) \ Channels)
        /\ UNCHANGED <<inputs, inputCells, inflowCount, outflow, ridges, stream,
                       material, closed, awaited, history>>

(* A mutant: the empty list is looked at, but never taken.                 *)
ReceiveInputCellsPeeking(p, d) ==
    LET ch == Source(p, d)
    IN  /\ phase[p] = "count"
        /\ <<p, d>> \in Channels \ inputReady
        /\ inflowChannel[ch] # <<>>
        /\ IF Head(inflowChannel[ch]) = <<>>
           THEN UNCHANGED <<inflowChannel, inputCells>>
           ELSE /\ inflowChannel' = [inflowChannel EXCEPT ![ch] = Tail(@)]
                /\ inputCells' = [inputCells EXCEPT ![<<p, d>>] =
                        [k \in DOMAIN Head(inflowChannel[ch]) |->
                            IdxToIdxs(p, d, Head(inflowChannel[ch])[k])]]
        /\ UNCHANGED <<inputs, phase, inputReady, outputCells, inflowCount, outflow, ridges,
                       stream, material, closed, awaited, history>>

(* monitor_cell_idx_inputs: gather the cells a neighbour names, until the  *)
(* empty list that ends the channel.                                       *)
ReceiveInputCells(p, d) ==
    /\ phase[p] = "count"
    /\ <<p, d>> \in Channels \ inputReady
    /\ inflowChannel[Source(p, d)] # <<>>
    /\ inflowChannel' = [inflowChannel EXCEPT ![Source(p, d)] = Tail(@)]
    /\ LET idxs == Head(inflowChannel[Source(p, d)])
       IN  IF idxs = <<>>
           THEN /\ inputReady' = inputReady \cup {<<p, d>>}
                /\ UNCHANGED inputCells
           ELSE /\ inputCells' = [inputCells EXCEPT ![<<p, d>>] =
                        @ \o [k \in DOMAIN idxs |-> IdxToIdxs(p, d, idxs[k])]]
                /\ UNCHANGED inputReady
    /\ UNCHANGED <<inputs, phase, outputCells, inflowCount, outflow, ridges, stream,
                   material, closed, awaited, history>>

(* inflow_count_ready: the flow from the partition's own cells plus the    *)
(* flow from each received input cell.  The cells without inflow are the   *)
(* ridge cells, where the intra-partition streams start; cells without     *)
(* data take no part.                                                      *)
NrInputsOnce(p, idxs) ==    \* a mutant: a cell counts once per neighbour
    Cardinality({d \in Directions : idxs \in Range(inputCells[<<p, d>>])})

NrInputs(p, idxs) ==
    LET naming(d) == {k \in DOMAIN inputCells[<<p, d>>] : inputCells[<<p, d>>][k] = idxs}
    IN  Cardinality(UNION {{d} \X naming(d) : d \in Directions})

CountInflow(p) ==
    LET count == [idxs \in CellsOf(p) |->
                    PartitionInflowCount(flow, p, idxs) + NrInputs(p, idxs)]
        valid == {idxs \in CellsOf(p) : flow[<<p, idxs>>] # "no_data"}
    IN  /\ phase[p] = "count"
        /\ {p} \X Directions \subseteq inputReady
        /\ phase' = [phase EXCEPT ![p] = "intra"]
        /\ inflowCount' = [c \in Cells |-> IF c[1] = p THEN count[c[2]] ELSE inflowCount[c]]
        /\ ridges' = [ridges EXCEPT ![p] = {idxs \in valid : count[idxs] = 0}]
        /\ outflow' = [c \in Cells |-> IF c[1] = p /\ c[2] \notin valid THEN NoData
                                       ELSE outflow[c]]
        /\ UNCHANGED <<inputs, connectivity, outputCells, stream, material, closed,
                       awaited, history>>

-----------------------------------------------------------------------------
(* Material is added up; a cell that lacks data, or receives material that *)
(* lacks data, has no data.                                                *)
AddMaterial(inflow, value) ==
    IF inflow = NoData \/ value = NoData THEN NoData ELSE inflow + value

(* enter_cell: all material from upstream is there, add the external part. *)
TotalOfUpstream(c) == outflow[c]    \* a mutant: the external part is forgotten

Total(c) == AddMaterial(outflow[c], external[c])

(* The loop over the cells, row by row, starts a stream at each ridge.     *)
EnterRidge(p) ==
    /\ phase[p] = "intra"
    /\ stream[p] = Idle
    /\ \E idxs \in ridges[p] :
        /\ \A other \in ridges[p] :
            idxs[1] < other[1] \/ (idxs[1] = other[1] /\ idxs[2] <= other[2])
        /\ stream' = [stream EXCEPT ![p] = idxs]
        /\ ridges' = [ridges EXCEPT ![p] = @ \ {idxs}]
    /\ UNCHANGED <<inputs, phase, connectivity, outputCells, inflowCount, outflow,
                   material, closed, awaited, history>>

(* stop_at_sink_cell: the end of the stream.                               *)
StopAtSink(p) ==
    LET c == <<p, stream[p]>>
    IN  /\ stream[p] # Idle
        /\ flow[c] = "sink"
        /\ outflow' = [outflow EXCEPT ![c] = Total(c)]
        /\ solved' = solved \cup {c}
        /\ stream' = [stream EXCEPT ![p] = Idle]
        /\ UNCHANGED <<inputs, phase, connectivity, outputCells, inflowCount, ridges,
                       material, closed, awaited, delivered>>

(* stop_at_partition_output_cell: take the cell off the list of output     *)
(* cells and send its outflow to the neighbour, if there is one; close the *)
(* channel behind the last one.                                            *)
AfterSending(cells, idxs) == RemoveFirst(cells, idxs)

LastOutputEarly(left) == Len(left) <= 1     \* a mutant: one output cell is left

LastOutput(left) == left = <<>>

StopAtOutput(p) ==
    LET c == <<p, stream[p]>>
        to == DestinationCell(Extent0(p), Extent1(p), stream[p], Offset[flow[c]])
        side == <<p, to[1]>>
        left == AfterSending(outputCells[side], stream[p])
    IN  /\ stream[p] # Idle
        /\ ~WithinPartition(p, stream[p], flow[c])
        /\ outflow' = [outflow EXCEPT ![c] = Total(c)]
        /\ solved' = solved \cup {c}
        /\ outputCells' = [outputCells EXCEPT ![side] = left]
        /\ IF side \in Channels
           THEN /\ material' = [material EXCEPT ![side] = Append(@, <<to[2], Total(c), c>>)]
                /\ closed' = IF LastOutput(left) THEN closed \cup {side} ELSE closed
           ELSE UNCHANGED <<material, closed>>
        /\ stream' = [stream EXCEPT ![p] = Idle]
        /\ UNCHANGED <<inputs, phase, connectivity, inflowCount, ridges, awaited, delivered>>

(* leave_cell: push the outflow to the downstream cell.  The stream goes   *)
(* on from there unless the cell awaits more inflow: stop_at_confluence.   *)
ConfluenceLate(c) == inflowCount[c] > 2     \* a mutant: one inflow too early

Confluence(c) == inflowCount[c] > 1

FlowOn(p) ==
    LET c == <<p, stream[p]>>
        next == Plus(stream[p], DownstreamOffset(flow[c]))
        to == <<p, next>>
    IN  /\ stream[p] # Idle
        /\ flow[c] # "sink"
        /\ WithinPartition(p, stream[p], flow[c])
        /\ outflow' = [outflow EXCEPT ![c] = Total(c), ![to] = AddMaterial(@, Total(c))]
        /\ inflowCount' = [inflowCount EXCEPT ![to] = @ - 1]
        /\ stream' = [stream EXCEPT ![p] = IF Confluence(to) THEN Idle ELSE next]
        /\ solved' = solved \cup {c}
        /\ delivered' = delivered \cup {c}
        /\ UNCHANGED <<inputs, phase, connectivity, outputCells, ridges, material,
                       closed, awaited>>

(* All ridges are done: a monitor per direction starts with a copy of the  *)
(* input cells of that direction.                                          *)
FinishIntra(p) ==
    /\ phase[p] = "intra"
    /\ stream[p] = Idle
    /\ ridges[p] = {}
    /\ phase' = [phase EXCEPT ![p] = "inter"]
    /\ awaited' = [s \in Sides |-> IF s[1] = p THEN inputCells[s] ELSE awaited[s]]
    /\ UNCHANGED <<inputs, connectivity, outputCells, inflowCount, outflow, ridges,
                   stream, material, closed, history>>

(* monitor_material_inputs: take the next material from the channel, tick  *)
(* off its cell and, under the mutex that the monitors of the partition    *)
(* share, add it to the cell; start a stream if it was the last inflow.    *)
(* The mutex is held until that stream stops.                              *)
ReceiveMaterial(p, d) ==
    LET received == Head(material[Source(p, d)])
        idxs == IdxToIdxs(p, d, received[1])
        c == <<p, idxs>>
    IN  /\ phase[p] = "inter"
        /\ awaited[<<p, d>>] # <<>>
        /\ material[Source(p, d)] # <<>>
        /\ stream[p] = Idle
        /\ material' = [material EXCEPT ![Source(p, d)] = Tail(@)]
        /\ awaited' = [awaited EXCEPT ![<<p, d>>] = RemoveFirst(@, idxs)]
        /\ outflow' = [outflow EXCEPT ![c] = AddMaterial(@, received[2])]
        /\ inflowCount' = [inflowCount EXCEPT ![c] = @ - 1]
        /\ stream' = [stream EXCEPT ![p] = IF Confluence(c) THEN Idle ELSE idxs]
        /\ delivered' = delivered \cup {received[3]}
        /\ UNCHANGED <<inputs, phase, connectivity, outputCells, ridges, closed, solved>>

(* All monitors have ended: the result partition is ready.                 *)
Finish(p) ==
    /\ phase[p] = "inter"
    /\ stream[p] = Idle
    /\ \A d \in Directions : awaited[<<p, d>>] = <<>>
    /\ phase' = [phase EXCEPT ![p] = "done"]
    /\ UNCHANGED <<inputs, connectivity, outputCells, inflowCount, outflow, ridges,
                   stream, material, closed, awaited, history>>

Done == \A p \in Partitions : phase[p] = "done"

Terminated == Done /\ UNCHANGED vars

Step(p) ==
    \/ Connect(p)
    \/ \E d \in Directions : ReceiveInputCells(p, d)
    \/ CountInflow(p)
    \/ EnterRidge(p)
    \/ StopAtSink(p)
    \/ StopAtOutput(p)
    \/ FlowOn(p)
    \/ FinishIntra(p)
    \/ \E d \in Directions : ReceiveMaterial(p, d)
    \/ Finish(p)

Next == (\E p \in Partitions : Step(p)) \/ Terminated

(* The runtime runs every task that is ready.                              *)
Fairness == \A p \in Partitions : WF_vars(Step(p))

Spec == Init /\ [][Next]_vars /\ Fairness
-----------------------------------------------------------------------------
(* The cells that flow into a cell, from any partition.                    *)
UpstreamOf(c) == {x \in Cells : down[x] = c}

TypeOK ==
    /\ flow \in [Cells -> FlowValues]
    /\ external \in [Cells -> Nat \cup {NoData}]
    /\ down \in [Cells -> Cells \cup {NoCell}]
    /\ phase \in [Partitions -> {"connect", "count", "intra", "inter", "done"}]
    /\ inflowChannel \in [Channels -> Seq(Seq(Int))]
    /\ inputReady \subseteq Sides
    /\ \A s \in Sides : \A cells \in {inputCells[s], outputCells[s], awaited[s]} :
            cells \in Seq(CellsOf(s[1]))
    /\ inflowCount \in [Cells -> 0 .. 8]
    /\ outflow \in [Cells -> Nat \cup {NoData}]
    /\ \A p \in Partitions : ridges[p] \subseteq CellsOf(p)
    /\ \A p \in Partitions : stream[p] \in CellsOf(p) \cup {Idle}
    /\ material \in [Channels -> Seq(Int \X (Nat \cup {NoData}) \X Cells)]
    /\ closed \subseteq Channels
    /\ delivered \subseteq solved
    /\ solved \subseteq Cells

(* At any time after its partition has counted, the inflow count of a cell *)
(* is the number of cells of the whole array that flow into it and whose   *)
(* material has not reached it: counting by lists of border cells and      *)
(* counting down by streams and messages never disagree, although no task  *)
(* sees more than one partition.                                           *)
InflowCountExact ==
    \A c \in Cells :
        phase[c[1]] \in {"intra", "inter", "done"} /\ flow[c] # "no_data" =>
            inflowCount[c] = Cardinality(UpstreamOf(c) \ delivered)

(* Nothing a monitor waits for is missing or superfluous: the cells it     *)
(* still awaits are the cells named by the material on its way and by the  *)
(* output cells the neighbour still has to send.                           *)
Bag(seq) == [x \in Range(seq) |-> Cardinality({k \in DOMAIN seq : seq[k] = x})]

Expecting(p, d) ==
    IF phase[p] \in {"inter", "done"} THEN awaited[<<p, d>>] ELSE inputCells[<<p, d>>]

Underway(ch, p, d) ==
    [k \in DOMAIN material[ch] |-> IdxToIdxs(p, d, material[ch][k][1])]

Unsent(ch, p, d) ==
    LET idxs == InputIdxs(flow, ch[1], ch[2], outputCells[ch])
    IN  [k \in DOMAIN idxs |-> IdxToIdxs(p, d, idxs[k])]

AwaitedIsUnderway ==
    \A p \in Partitions, d \in Directions : <<p, d>> \in Channels \cap inputReady =>
        Bag(Expecting(p, d)) = Bag(Underway(Source(p, d), p, d) \o Unsent(Source(p, d), p, d))

(* A channel that is closed holds everything its reader still expects, so  *)
(* that closing it never cancels a pending read (the assertion of          *)
(* Communicator::close that no requests are pending) and never ends the    *)
(* loop of a monitor early.                                                *)
ClosedChannelServes ==
    \A p \in Partitions, d \in Directions :
        <<p, d>> \in Channels \cap inputReady /\ Source(p, d) \in closed =>
            /\ Len(Expecting(p, d)) = Len(material[Source(p, d)])
            /\ outputCells[Source(p, d)] = <<>>

(* No task of a partition touches a cell before everything from upstream   *)
(* is in, wherever upstream is: the cell a stream is at has no outstanding *)
(* inflow and was not entered before.                                      *)
StreamAtReadyCell ==
    \A p \in Partitions :
        stream[p] # Idle =>
            /\ UpstreamOf(<<p, stream[p]>>) \subseteq delivered
            /\ <<p, stream[p]>> \notin solved

(* The outflow of a solved cell is what flows out of all cells directly    *)
(* upstream, in whichever partition, plus the external inflow, in every    *)
(* order in which tasks and messages are interleaved.  In a network        *)
(* without cycles this equation has one solution.                          *)
OutflowCorrect ==
    \A c \in solved :
        outflow[c] = FoldFunctionOnSet(AddMaterial, external[c], outflow, UpstreamOf(c))

(* When all partitions are done every cell is solved, every list of output *)
(* cells is used up, no inflow is awaited and a channel over which         *)
(* material went is closed (two TODOs at the end of the inter-partition    *)
(* task).                                                                  *)
DoneIsComplete ==
    Done =>
        /\ solved = {c \in Cells : flow[c] # "no_data"}
        /\ \A s \in Sides : outputCells[s] = <<>>
        /\ \A c \in solved : inflowCount[c] = 0
        /\ \A ch \in Channels :
              material[ch] = <<>> /\ (OutputCells(flow, ch[1], ch[2]) # <<>> => ch \in closed)

(* Counting and counting down agree at all times, so a stream enters a     *)
(* cell exactly when the last of its inflow, from wherever, has arrived.   *)
CountsServe == InflowCountExact /\ StreamAtReadyCell

(* Every monitor is served: what it awaits is underway or is still to be   *)
(* sent, and a channel is not closed before.                               *)
ChannelsServe == AwaitedIsUnderway /\ ClosedChannelServes

(* The outflow is that of the undivided array for the cells solved so far, *)
(* and in the end no cell, list or message is left over.                   *)
OutflowComplete == OutflowCorrect /\ DoneIsComplete

(* Every partition gets its result.                                        *)
EventuallyDone == <>Done

-----------------------------------------------------------------------------
(* Seen from outside, the partitions and their messages implement the      *)
(* routing over the undivided array.  Until a partition has counted its    *)
(* inflow the abstract count is the one it will find.                      *)
Valid == {c \in Cells : flow[c] # "no_data"}

CountOf(c) ==
    IF phase[c[1]] \in {"connect", "count"} \/ c \notin Valid
    THEN Cardinality(UpstreamOf(c)) ELSE inflowCount[c]

Abstract == INSTANCE FlowAccumulation WITH
    Materials <- Nat \cup {NoData},
    valid <- Valid,
    inflowCount <- [c \in Cells |-> CountOf(c)],
    outflow <- [c \in Cells |-> IF c \in Valid THEN outflow[c] ELSE NoData],
    functor <- "accu",
    Functors <- {"accu"},
    bound <- [c \in Cells |-> NoData],
    BoundFields <- {},
    Whole <- 1,
    remainder <- [c \in Cells |-> IF c \in Valid /\ outflow[c] # NoData THEN 0 ELSE NoData]

ImplementsFlowAccumulation == Abstract!Spec
=============================================================================
