--------------------------- MODULE SystemProperties ---------------------------
(***************************************************************************)
(* What the sliding-window accelerator is expected to satisfy.             *)
(***************************************************************************)
EXTENDS System

\* The assertions, look-ups and the dead-lock detection that end the program.
Assertions ==
  {"Aggregator::cycle while working", "Aggregator::cycle while idle",
   "Aggregator_buffer::cycle", "WriteBuffer::cycle", "finished_current", "finish_write",
   "add_new_task", "start_write_to_buffer", "remaining_cycle", "start_read", "finish_read",
   "finished_write_to_buffer", "dead lock", "InputBuffer::pop_next", "EdgeBuffer::pop_next",
   "start_write_memory", "InputBuffer start_cycle_map.at", "InputBuffer::receive",
   "EdgeBuffer start_cycle_map.at", "EdgeBuffer::receive", "InputBuffer null request",
   "EdgeBuffer null request", "finished_write_memory"}

(***************************************************************************)
(* The types of the variables: the flags, iterators and request pointers   *)
(* of every component stay in range, end() included where the code allows  *)
(* it.                                                                     *)
(***************************************************************************)
TypeOK ==
  /\ phase \in Phases
  /\ failed \subseteq Assertions
  /\ global_id \in Nat
  /\ input_buffer \in input!ReadBufferState
  /\ edge_buffer \in edge!ReadBufferState
  /\ agg_buffer \in agg!AggBufferState
  /\ output_buffer \in output!WriteBufferState
  /\ aggregator \in AggregatorState
  /\ systolic \in SystolicState
  /\ combined \in Index \cup {NoWindow}
  /\ pending \subseteq Req
  /\ task_return_queue \subseteq Req
  /\ dead_lock \in [left : Nat, total_detected_times : Nat]
  /\ finished \in BOOLEAN
  /\ finished_time_stamp \in Nat
  /\ written \in Index \cup {NoWindow}

outstanding == pending \cup task_return_queue

(***************************************************************************)
(* Of the assertions in the cycle() of the buffers, the aggregator, the    *)
(* systolic array and the system and in what they call on one another, and *)
(* of the look-ups that throw, only two can fail: the one of               *)
(* EdgeBuffer::receive(), and the one with which the aggregator's cycle()  *)
(* begins, and this one only for a window that takes no cycle, never for   *)
(* want of a window.  Besides them only the dead-lock detection ends a run *)
(* early.  Not among them: the checks of a model's dimensions and of the   *)
(* settings in calculate_remaining_cycle() and cal_remaining_cycle().      *)
(***************************************************************************)
OnlyTwoAssertionsFail ==
  /\ failed \subseteq {"EdgeBuffer::receive", "Aggregator::cycle while working", "dead lock"}
  /\ "Aggregator::cycle while working" \in failed =>
       aggregator.remaining_cycles = 0 /\ current_sliding_window # NoWindow

(***************************************************************************)
(* Prefetching never mixes up windows: every answer the memory still owes  *)
(* the input buffer is awaited by a slot, whose window it was asked for,   *)
(* and a slot that is ready holds the features of its own window.          *)
(***************************************************************************)
AnswersFindTheirSlot ==
  LET slots == {input_buffer.current, input_buffer.next}
  IN  /\ \A req \in outstanding : req.t = "input_buffer" =>
           \E slot \in slots : input!Awaits(slot, req) /\ slot.window = req.window
      /\ \A slot \in slots :
           slot.ready /\ ~slot.empty => slot.req.window = slot.window

(***************************************************************************)
(* While a window is aggregated, the edges that lie in the edge buffer are *)
(* those of its column or of the column before: the edge buffer may lag,   *)
(* but it is never ahead and never falls back further.                     *)
(***************************************************************************)
EdgesAtMostOneColumnBehind ==
  aggregator.working =>
    LET column == ColumnNumber(current_sliding_window)
    IN  ColumnNumber(edge_buffer.current.window) \in {column - 1, column}

(***************************************************************************)
(* How far the input runs ahead of the output: no window is requested that *)
(* is more than six columns after the last one written to memory.  This is *)
(* how much of a layer may still be missing in memory when the next layer  *)
(* starts to read it.                                                      *)
(***************************************************************************)
LastRequested ==
  IF input_buffer.next.empty \/ ~input_buffer.next.sent
  THEN input_buffer.current.window ELSE input_buffer.next.window

ColumnsWritten == IF written = NoWindow THEN 0 ELSE ColumnNumber(written)

ReadAheadBounded == ColumnNumber(LastRequested) - ColumnsWritten <= 6

(***************************************************************************)
(* The memory never holds more than two requests of each read buffer and   *)
(* one write, so the assertion of memory_interface::send() on its queue of *)
(* 64 entries cannot fail and available() never makes the system wait.     *)
(***************************************************************************)
AtMostFiveRequests == Cardinality(outstanding) <= 5

(***************************************************************************)
(* run() stops when the last column of the last layer is in memory, with   *)
(* nothing left in the buffers behind the aggregator, and with exactly one *)
(* time stamp for each layer: run() indexes its per-layer arrays by them.  *)
(***************************************************************************)
Layers == Cardinality({i \in Index : Windows[i].final_col /\ Windows[i].first_row})

RunEndsComplete ==
  finished =>
    /\ written = ColumnOf(Len(Windows))
    /\ finished_time_stamp = Layers
    /\ agg_buffer.write_empty /\ agg_buffer.read_empty
    /\ output_buffer.to_buffer.empty /\ output_buffer.to_memory.empty
    /\ \A req \in outstanding : req.t = "edge_buffer"

(***************************************************************************)
(* No circular wait: the aggregator waits for the read buffers and for a   *)
(* free write port, the systolic array for a column and for the output     *)
(* buffer, the output buffer for the memory.  As long as the run goes on,  *)
(* somebody works, an answer is due, or something can be moved or sent.    *)
(***************************************************************************)
NeverStuck ==
  phase = "buffers" =>
    \/ aggregator.working \/ CanStart
    \/ ~systolic.empty \/ CanTakeColumn
    \/ input!MustMove \/ edge!MustMove \/ output!MustMove
    \/ agg_buffer.write_ready /\ agg_buffer.read_empty
    \/ ~NoReadUnsent \/ output!WriteUnsent
    \/ outstanding # {}

(***************************************************************************)
(* The system implements the pipeline of columns: whatever the durations   *)
(* and the order of the answers, no window is skipped or aggregated twice, *)
(* no column is multiplied before it is complete or written before it is   *)
(* multiplied, and columns leave in the order of the windows.              *)
(***************************************************************************)
Aggregated == IF aggregator.working THEN current_sliding_window - 1
                                    ELSE current_sliding_window

columns == INSTANCE ColumnPipeline WITH
             aggregated <- Aggregated, layers_finished <- finished_time_stamp

ImplementsColumnPipeline == columns!Spec

(***************************************************************************)
(* The memory, as the system is modelled with it, is the port that the     *)
(* memory interface implements: ids are unique across the read buffers and *)
(* the output buffer, and every answer is taken once.                      *)
(***************************************************************************)
IdsOf(requests) == {req.id : req \in requests}

port == INSTANCE MemoryPort WITH pending  <- IdsOf(pending),
                                 returned <- IdsOf(task_return_queue)

UsesMemoryPort == port!Spec
-----------------------------------------------------------------------------
\* A run ends: it finishes, or an assertion or the dead-lock detection ends it.
RunHalts == <>(phase = "halted")

(***************************************************************************)
(* The write back is last in the order in which the system serves the      *)
(* memory port, and yet is not starved by the reads.                       *)
(***************************************************************************)
WriteBackHappens ==
  ~output_buffer.to_memory.empty ~> (output_buffer.to_memory.empty \/ phase = "halted")
-----------------------------------------------------------------------------
(***************************************************************************)
(* buffer.cc:441 asserts that an answer belongs to the next slot when it   *)
(* does not belong to the current one.  For the edge buffer it may belong  *)
(* to a slot that has become the current one while it was on its way.      *)
(***************************************************************************)
EdgeAnswersFindTheirSlot == "EdgeBuffer::receive" \notin failed

(***************************************************************************)
(* buffer.cc:14 has the edge buffer prefetch "the first rol of the next    *)
(* col based on current col", so that the aggregator works with the edges  *)
(* of the column it aggregates.                                            *)
(***************************************************************************)
EdgesOfTheAggregatedColumn ==
  aggregator.working =>
    ColumnNumber(edge_buffer.current.window) = ColumnNumber(current_sliding_window)

(***************************************************************************)
(* System.cc:340 warns of a dead lock "if there are 1000 cycle nothing     *)
(* happen": a report is due only if nobody works.                          *)
(***************************************************************************)
ReportsOnlyDeadLocks ==
  phase = "dead lock" /\ SuspectsDeadLock /\ dead_lock.left = 0 =>
    ~aggregator.working /\ systolic.empty
=============================================================================
