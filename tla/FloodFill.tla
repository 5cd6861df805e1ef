------------------------------ MODULE FloodFill ------------------------------
(***************************************************************************)
(* The clumps of a single partition, found by scanning spans of cells.  A  *)
(* request names a span of a row that is part of the clump, and asks for   *)
(* the row next to it to be scanned.  Scanning a row adds cells to the     *)
(* clump and puts new requests on a stack: to go on in the same direction, *)
(* and to turn back where the scan got past the ends of the span.          *)
(***************************************************************************)
EXTENDS Sequences, Connectivity

CONSTANT Inputs     \* the arrays: their shapes, zones and kinds of connectivity

ASSUME FloodFillAssumption ==
    /\ NoData \notin Nat
    /\ \A input \in Inputs :
        /\ input.nr_rows \in Nat \ {0} /\ input.nr_cols \in Nat \ {0}
        /\ input.diagonal \in BOOLEAN
        /\ DOMAIN input.zone = Array(input.nr_rows, input.nr_cols)

VARIABLES
    input,          \* the array
    clump_elements, \* per cell: the id of its clump, if any yet
    clump_id,       \* the id of the clump that is being filled
    cell_idxs,      \* the cell that clump starts from
    requests,       \* the stack of requests, the top first
    span,           \* the request at hand, and the columns reached to the west and east
    pc              \* what is done next

vars == <<input, clump_elements, clump_id, cell_idxs, requests, span, pc>>

Cells == Array(input.nr_rows, input.nr_cols)

zone_id == input.zone[cell_idxs]

CellIsConnected(row, col) ==
    input.zone[<<row, col>>] # NoData /\ input.zone[<<row, col>>] = zone_id

AddedAlready(row, col) == clump_elements[<<row, col>>] # NoData

AddToClump(row, col) ==
    clump_elements' = [clump_elements EXCEPT ![<<row, col>>] = clump_id]

RowAvailable(row, direction) ==
    \/ direction = -1 /\ row > 0
    \/ direction = 1 /\ row < input.nr_rows - 1

SpanRequest(row, west, east, direction) ==
    [row |-> row, west |-> west, east |-> east, direction |-> direction]

(* Puts the request for the row next to a scanned row on a stack.          *)
Push(stack, row, west, east, direction) ==
    IF west <= east /\ RowAvailable(row, direction)
    THEN <<SpanRequest(row + direction, west, east, direction)>> \o stack
    ELSE stack

Init ==
    /\ input \in Inputs
    /\ clump_elements = [cell \in Cells |-> NoData]
    /\ clump_id = 0
    /\ cell_idxs = <<0, 0>>
    /\ requests = <<>>
    /\ span = [row |-> 0, west |-> 0, east |-> 0, direction |-> 1, col |-> 0]
    /\ pc = "cell"

(* The first cell in a zone that is in no clump yet starts a clump.        *)
Unassigned == {cell \in Cells : input.zone[cell] # NoData /\ clump_elements[cell] = NoData}

Seeds == {cell \in Unassigned : \A other \in Unassigned \ {cell} : Before(cell, other)}

StartRequests(row, col) ==
    LET down == SpanRequest(row, col, col, 1)
        up == SpanRequest(row - 1, col, col, -1)
    IN  IF RowAvailable(row, -1) THEN <<up, down>> ELSE <<down>>

StartClump ==
    /\ pc = "cell"
    /\ \E cell \in Seeds :
        /\ cell_idxs' = cell
        /\ requests' = StartRequests(cell[1], cell[2])
    /\ pc' = "request"
    /\ UNCHANGED <<input, clump_elements, clump_id, span>>

NoMoreCells ==
    /\ pc = "cell"
    /\ Unassigned = {}
    /\ pc' = "done"
    /\ UNCHANGED <<input, clump_elements, clump_id, cell_idxs, requests, span>>

(* The first row that is scanned holds the cell the clump starts from.     *)
EndClump ==
    /\ pc = "request"
    /\ requests = <<>>
    /\ clump_id' = clump_id + 1
    /\ pc' = "cell"
    /\ UNCHANGED <<input, clump_elements, cell_idxs, requests, span>>

WestIsNew(request) ==
    /\ request.west > 0
    /\ CellIsConnected(request.row, IF input.diagonal THEN request.west - 1 ELSE request.west)
    /\ ~AddedAlready(request.row, request.west - 1)

PopRequest ==
    /\ pc = "request"
    /\ requests # <<>>
    /\ LET request == Head(requests)
       IN  /\ span' = [row |-> request.row, west |-> request.west, east |-> request.east,
                       direction |-> request.direction, col |-> request.west]
           /\ pc' = IF WestIsNew(request) THEN "west" ELSE "span"
    /\ requests' = Tail(requests)
    /\ UNCHANGED <<input, clump_elements, clump_id, cell_idxs>>

(* Cells to the west of the span of the request.                           *)
ConnectedToWest == span.col > 0 /\ CellIsConnected(span.row, span.col - 1)

ScanWest ==
    /\ pc = "west"
    /\ ConnectedToWest
    /\ AddToClump(span.row, span.col - 1)
    /\ span' = [span EXCEPT !.col = @ - 1]
    /\ UNCHANGED <<input, clump_id, cell_idxs, requests, pc>>

LastToTurnWest ==        \* a mutant: turns back with the cell the scan started from
    IF input.diagonal THEN span.west ELSE span.west - 1

LastToTurn == IF input.diagonal THEN span.west - 1 ELSE span.west - 2

TurnWest ==
    /\ pc = "west"
    /\ ~ConnectedToWest
    /\ requests' = Push(requests, span.row, span.col, LastToTurn, -span.direction)
    /\ pc' = "span"
    /\ UNCHANGED <<input, clump_elements, clump_id, cell_idxs, span>>

(* Cells of the span of the request, and to the east of it.                *)
ScanSpan ==
    /\ pc = "span"
    /\ span.west <= span.east
    /\ pc' = IF AddedAlready(span.row, span.west) THEN "push" ELSE "east"
    /\ UNCHANGED <<input, clump_elements, clump_id, cell_idxs, requests, span>>

ConnectedToEast == span.west < input.nr_cols /\ CellIsConnected(span.row, span.west)

ScanEast ==
    /\ pc \in {"east", "corner"}
    /\ ConnectedToEast
    /\ AddToClump(span.row, span.west)
    /\ span' = [span EXCEPT !.west = @ + 1]
    /\ UNCHANGED <<input, clump_id, cell_idxs, requests, pc>>

EndScanEast ==
    /\ pc = "east"
    /\ ~ConnectedToEast
    /\ pc' = "push"
    /\ UNCHANGED <<input, clump_elements, clump_id, cell_idxs, requests, span>>

PushedOnlyAhead ==      \* a mutant: never turns back to the east
    Push(requests, span.row, span.col, span.west - 1, span.direction)

PushedFromWest ==       \* a mutant: turns back with a column too many
    Push(Push(requests, span.row, span.col, span.west - 1, span.direction),
         span.row, span.east + 1, span.west, -span.direction)

Pushed ==
    Push(Push(requests, span.row, span.col, span.west - 1, span.direction),
         span.row, span.east + 1, span.west - 1, -span.direction)

PushRequestsOnly ==     \* a mutant: does not move on to the next cell
    /\ pc = "push"
    /\ requests' = Pushed
    /\ pc' = "skip"
    /\ UNCHANGED <<input, clump_elements, clump_id, cell_idxs, span>>

PushRequests ==
    /\ pc = "push"
    /\ requests' = Pushed
    /\ span' = [span EXCEPT !.west = @ + 1]
    /\ pc' = "skip"
    /\ UNCHANGED <<input, clump_elements, clump_id, cell_idxs>>

SkipCell ==
    /\ pc = "skip"
    /\ span.west <= span.east
    /\ ~CellIsConnected(span.row, span.west)
    /\ span' = [span EXCEPT !.west = @ + 1]
    /\ UNCHANGED <<input, clump_elements, clump_id, cell_idxs, requests, pc>>

EndSkip ==
    /\ pc = "skip"
    /\ span.west <= span.east => CellIsConnected(span.row, span.west)
    /\ span' = [span EXCEPT !.col = span.west]
    /\ pc' = "span"
    /\ UNCHANGED <<input, clump_elements, clump_id, cell_idxs, requests>>

(* The cell that touches the corner to the east of the span.               *)
CornerIsNew ==
    /\ span.east < input.nr_cols - 1
    /\ span.west - 1 = span.east
    /\ CellIsConnected(span.row, span.west)
    /\ ~AddedAlready(span.row, span.west)

EndSpan ==
    /\ pc = "span"
    /\ span.west > span.east
    /\ pc' = IF input.diagonal /\ CornerIsNew THEN "corner" ELSE "request"
    /\ UNCHANGED <<input, clump_elements, clump_id, cell_idxs, requests, span>>

PushFromCorner ==
    /\ pc = "corner"
    /\ ~ConnectedToEast
    /\ requests' = Push(Push(requests, span.row, span.east + 1, span.west - 1, span.direction),
                        span.row, span.east + 1, span.west - 1, -span.direction)
    /\ pc' = "request"
    /\ UNCHANGED <<input, clump_elements, clump_id, cell_idxs, span>>

Terminated == pc = "done" /\ UNCHANGED vars

Next ==
    \/ StartClump \/ NoMoreCells \/ EndClump
    \/ PopRequest
    \/ ScanWest \/ TurnWest
    \/ ScanSpan \/ ScanEast \/ EndScanEast \/ PushRequests \/ SkipCell \/ EndSkip \/ EndSpan
    \/ PushFromCorner
    \/ Terminated

(* A single task runs the loop; the runtime does not starve a task.        *)
Spec == Init /\ [][Next]_vars /\ WF_vars(Next)

-----------------------------------------------------------------------------
Directions == {-1, 1}

Requests ==
    [row : 0 .. input.nr_rows - 1, west : 0 .. input.nr_cols - 1, east : 0 .. input.nr_cols - 1,
     direction : Directions]

Spans ==
    [row : 0 .. input.nr_rows - 1, west : 0 .. input.nr_cols + 1, east : 0 .. input.nr_cols - 1,
     direction : Directions, col : 0 .. input.nr_cols + 1]

(* Types of all variables; the columns of a scan never leave the array by  *)
(* more than the column behind the end.                                    *)
TypeOK ==
    /\ input \in Inputs
    /\ clump_id \in Nat
    /\ cell_idxs \in Cells
    /\ clump_elements \in [Cells -> 0 .. clump_id \cup {NoData}]
    /\ requests \in Seq(Requests)
    /\ span \in Spans
    /\ pc \in {"cell", "request", "west", "span", "east", "push", "skip", "corner", "done"}

(* The assertions of assert_request_is_valid, for every request a scan     *)
(* puts on the stack and for as long as it is there: all cells of the span *)
(* it names are in the clump.  The two requests a clump starts with name a *)
(* span that is not in the clump yet.                                      *)
SpanIsInClump(request) ==
    /\ request.west <= request.east
    /\ \A col \in request.west .. request.east :
        LET cell == <<request.row - request.direction, col>>
        IN  cell \in Cells /\ clump_elements[cell] = clump_id

IsStart(request) ==
    /\ request.west = cell_idxs[2] /\ request.east = cell_idxs[2]
    /\ request.row = IF request.direction = 1 THEN cell_idxs[1] ELSE cell_idxs[1] - 1

RequestsValid ==
    \A k \in DOMAIN requests : IsStart(requests[k]) \/ SpanIsInClump(requests[k])

(* Whenever a clump ends, the cells that have an id have the one of the    *)
(* clump they are in by definition; all others belong to later clumps.     *)
ClumpsAreExact ==
    pc = "cell" =>
        LET ids == ClumpIds(input.zone, input.diagonal)
        IN  clump_elements = [cell \in Cells |->
                IF ids[cell] # NoData /\ ids[cell] < clump_id THEN ids[cell] ELSE NoData]

(* The loop ends: the stack runs empty for every clump.                    *)
EventuallyDone == <>(pc = "done")

=============================================================================
