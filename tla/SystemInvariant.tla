--------------------------- MODULE SystemInvariant ---------------------------
(***************************************************************************)
(* The inductive invariant behind the safety properties of the system.     *)
(***************************************************************************)
EXTENDS SystemProperties

\* What ends a run early, and that it ends.
Halting == /\ OnlyTwoAssertionsFail
           /\ failed # {} => phase = "halted"

(***************************************************************************)
(* A read buffer's slots: the current one lies inside the windows, the     *)
(* next one is empty exactly at their end, and nothing is ready that was   *)
(* not sent.                                                               *)
(***************************************************************************)
SlotsInRange(b) == /\ b.current.window \in Index
                   /\ b.next.empty <=> b.next.window = end
ReadyWasSent(b) == /\ b.current.ready => b.current.sent
                   /\ b.current.sent => ~b.current.empty
                   /\ ~b.next.empty /\ b.next.ready => b.next.sent

\* A slot that was sent, or sent and consumed, has had a request.
HasRequest(b) == /\ b.current.sent \/ b.current.empty => b.current.req # NoReq
                 /\ b.next.sent /\ ~b.next.empty => b.next.req # NoReq

ReadBuffers == /\ SlotsInRange(input_buffer) /\ ReadyWasSent(input_buffer)
               /\ SlotsInRange(edge_buffer) /\ HasRequest(edge_buffer)
               /\ failed = {} => ReadyWasSent(edge_buffer)

(***************************************************************************)
(* The input buffer is exactly one window ahead of the aggregator, or at   *)
(* its window while that is in work or just consumed; without work there   *)
(* are no cycles left.                                                     *)
(***************************************************************************)
InputPosition ==
  /\ input_buffer.next.window = input_buffer.current.window + 1
  /\ input_buffer.current.window =
       IF aggregator.working \/ input_buffer.current.empty
       THEN current_sliding_window ELSE current_sliding_window + 1
  /\ aggregator.working => input_buffer.current.ready /\ edge_buffer.current.ready
  /\ ~aggregator.working => IdleAssert

(***************************************************************************)
(* The aggregation buffer's ports: the write port holds an incomplete      *)
(* column exactly while the aggregator is inside a column; the read port   *)
(* holds a column while the systolic array multiplies.                     *)
(***************************************************************************)
InsideColumn == \/ aggregator.working
                \/ current_sliding_window # NoWindow
                   /\ ~Windows[current_sliding_window].final_row

WritePort ==
  /\ agg_buffer.write_empty <=> agg_buffer.write_window = NoWindow
  /\ InsideColumn <=> ~agg_buffer.write_empty /\ ~agg_buffer.write_ready
  /\ agg_buffer.write_ready => ~agg_buffer.write_empty

ReadPort ==
  /\ agg_buffer.read_ready <=> ~agg_buffer.read_empty
  /\ agg_buffer.read_ready => agg_buffer.read_window # NoWindow
  /\ ~systolic.empty => agg_buffer.read_ready /\ agg_buffer.read_busy
  /\ systolic.empty <=> systolic.remaining_cycle = 0

(***************************************************************************)
(* The output buffer: flags and requests go together, and the column that  *)
(* is being multiplied is not finished.                                    *)
(***************************************************************************)
Output ==
  LET to_buffer == output_buffer.to_buffer
      to_memory == output_buffer.to_memory
  IN  /\ to_buffer.started <=> ~to_buffer.empty
      /\ to_buffer.finished => to_buffer.started
      /\ to_buffer.empty <=> to_buffer.req = NoReq
      /\ to_memory.started => ~to_memory.empty
      /\ to_memory.empty <=> to_memory.req = NoReq
      /\ ~to_buffer.empty => to_buffer.req.t = "output_buffer"
      /\ ~to_memory.empty => to_memory.req.t = "output_buffer"
      /\ ~systolic.empty => ~to_buffer.empty /\ ~to_buffer.finished

(***************************************************************************)
(* The requests the memory owes an answer: reads are told apart by their   *)
(* ids, which are known to their buffer, and the answer to a write is the  *)
(* one the output buffer waits for.                                        *)
(***************************************************************************)
Outstanding ==
  /\ pending \cap task_return_queue = {}
  /\ \A req \in outstanding :
       /\ req.t # "output_buffer" => req.id < global_id
       /\ req.t = "input_buffer" => req.id \in input_buffer.start_cycle_map
       /\ req.t = "edge_buffer" => req.id \in edge_buffer.start_cycle_map
       /\ req.t = "output_buffer" => /\ output_buffer.to_memory.started
                                     /\ req = output_buffer.to_memory.req
  /\ \A req, other \in outstanding :
       req.t = other.t /\ req.id = other.id => req = other

(***************************************************************************)
(* The input buffer and the memory agree: a slot that was sent holds the   *)
(* request for its own window, on its way until the slot is ready, and     *)
(* every request on its way is awaited by a slot.                          *)
(***************************************************************************)
SentForItsWindow(slot) ==
  slot.sent /\ ~slot.empty =>
    /\ slot.req # NoReq
    /\ slot.req.window = slot.window
    /\ ~slot.ready => slot.req \in outstanding /\ slot.req.t = "input_buffer"

InputAnswers ==
  /\ SentForItsWindow(input_buffer.current)
  /\ SentForItsWindow(input_buffer.next)
  /\ \A req \in outstanding : req.t = "input_buffer" =>
       \/ input!Awaits(input_buffer.current, req)
       \/ input!Awaits(input_buffer.next, req)

(***************************************************************************)
(* All of this together is inductive by itself, and is what the assertions *)
(* of the components depend on.                                            *)
(***************************************************************************)
BufferInvariant ==
  /\ TypeOK /\ Halting
  /\ ReadBuffers /\ InputPosition /\ WritePort /\ ReadPort /\ Output
  /\ Outstanding /\ InputAnswers
-----------------------------------------------------------------------------
(***************************************************************************)
(* Which column is where.  Between the last column written and the window  *)
(* in work lie, one column after the other, the one being written back,    *)
(* the one in the output buffer, the one in the read port and the one in   *)
(* the write port, as far as these are taken.  A column that has not been  *)
(* multiplied to the end is in the output buffer and in the read port.     *)
(***************************************************************************)
LastLeft   == IF output_buffer.to_memory.empty
              THEN written ELSE output_buffer.to_memory.req.window
LastRead   == IF agg_buffer.read_empty THEN combined ELSE agg_buffer.read_window
LastFilled == IF agg_buffer.write_empty THEN LastRead ELSE agg_buffer.write_window

ColumnsInOrder ==
  LET to_buffer == output_buffer.to_buffer
      to_memory == output_buffer.to_memory
  IN  /\ ~to_memory.empty => to_memory.req.window = find_next_col(written)
      /\ ~to_buffer.empty => to_buffer.req.window = find_next_col(LastLeft)
      /\ combined = IF to_buffer.finished THEN to_buffer.req.window ELSE LastLeft
      /\ ~agg_buffer.read_empty  => agg_buffer.read_window  = find_next_col(combined)
      /\ ~agg_buffer.write_empty => agg_buffer.write_window = find_next_col(LastRead)

Multiplication ==
  LET to_buffer == output_buffer.to_buffer
  IN  /\ ~to_buffer.empty /\ ~to_buffer.finished => ~systolic.empty
      /\ agg_buffer.read_busy => ~systolic.empty
      /\ ~systolic.empty => /\ systolic.current_sliding_window = agg_buffer.read_window
                            /\ to_buffer.req.window = agg_buffer.read_window

(***************************************************************************)
(* The newest of these columns is the one of the aggregator's window.      *)
(***************************************************************************)
InColumn(column, w) ==
  /\ column \in 1 .. w
  /\ Windows[column].first_row
  /\ \A k \in column + 1 .. w : ~Windows[k].first_row
  /\ Windows[column].x           = Windows[w].x
  /\ Windows[column].final_col   = Windows[w].final_col
  /\ Windows[column].final_layer = Windows[w].final_layer

AggregatedColumn ==
  IF current_sliding_window = NoWindow THEN LastFilled = NoWindow
                                       ELSE InColumn(LastFilled, current_sliding_window)

(***************************************************************************)
(* The edge buffer serves one column after the other: the aggregator's     *)
(* until its last row is done, the next one as soon as the slots have      *)
(* moved.  What it holds then is of this column or of the one before, and  *)
(* it does not run out of windows as long as there is a column to serve.   *)
(***************************************************************************)
ServedColumn ==
  IF InsideColumn \/ edge_buffer.current.empty
  THEN ColumnNumber(current_sliding_window)
  ELSE ColumnNumber(current_sliding_window) + 1

EdgePosition ==
  LET current == edge_buffer.current
      next    == edge_buffer.next
  IN  /\ InsideColumn => ~current.empty
      /\ ColumnNumber(current.window) \in {ServedColumn - 1, ServedColumn}
      /\ ~next.empty => ColumnNumber(next.window) \in {ServedColumn, ServedColumn + 1}
      /\ next.empty  => ColumnNumber(Len(Windows)) <= ServedColumn

(***************************************************************************)
(* The edge buffer's requests on their way: one for each slot that was     *)
(* sent and is not ready, as long as its assertion has not failed.  "first"*)
(* is the one for the current slot, which current.req may have lost.       *)
(***************************************************************************)
EdgesOnTheirWay == {req \in outstanding : req.t = "edge_buffer"}

EdgeRequests ==
  LET current == edge_buffer.current
      next    == edge_buffer.next
  IN  /\ \A slot \in {current, next} : slot.req # NoReq => slot.req.id < global_id
      /\ \E first \in outstanding \cup {NoReq} :
           /\ EdgesOnTheirWay \subseteq {first, next.req}
           /\ failed = {} =>
                /\ first \in EdgesOnTheirWay <=> current.sent /\ ~current.ready
                /\ next.req \in EdgesOnTheirWay \ {first} <=>
                     ~next.empty /\ next.sent /\ ~next.ready
                /\ \A req \in EdgesOnTheirWay : edge!Awaits(current, req) => req = first

(***************************************************************************)
(* Ids are unique among all that is on its way or waits to be written, and *)
(* a write that was sent stays on its way until its answer is taken.       *)
(***************************************************************************)
WriteRequests ==
  LET to_buffer == output_buffer.to_buffer
      to_memory == output_buffer.to_memory
  IN  /\ \A req \in outstanding : req.id < global_id
      /\ \A req, other \in outstanding : req.id = other.id => req = other
      /\ ~to_buffer.empty =>
            /\ to_buffer.req = WriteReq(to_buffer.req.id, to_buffer.req.window)
            /\ to_buffer.req.id < global_id
            /\ \A req \in outstanding : req.id # to_buffer.req.id
            /\ ~to_memory.empty => to_memory.req.id # to_buffer.req.id
      /\ ~to_memory.empty =>
            /\ to_memory.req = WriteReq(to_memory.req.id, to_memory.req.window)
            /\ to_memory.req.id < global_id
            /\ ~to_memory.started => \A req \in outstanding : req.id # to_memory.req.id
      /\ to_memory.started => to_memory.req \in outstanding

(***************************************************************************)
(* What has been written so far decides whether the run is over, and how   *)
(* many layers are.                                                        *)
(***************************************************************************)
LayersUpTo(w) == Cardinality({i \in 1 .. w : Windows[i].final_col /\ Windows[i].first_row})

RunState ==
  /\ written # NoWindow => Windows[written].first_row
  /\ finished <=> /\ written # NoWindow
                  /\ Windows[written].final_col /\ Windows[written].final_layer
  /\ finished => phase = "halted"
  /\ finished_time_stamp = LayersUpTo(written)

(***************************************************************************)
(* The columns' way through the pipeline is inductive together with the    *)
(* buffers' invariant.                                                     *)
(***************************************************************************)
PipelineInvariant ==
  /\ ColumnsInOrder /\ Multiplication /\ AggregatedColumn
  /\ EdgePosition /\ EdgeRequests /\ WriteRequests /\ RunState

InductiveInvariant == BufferInvariant /\ PipelineInvariant
=============================================================================
