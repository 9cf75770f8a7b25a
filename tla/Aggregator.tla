----------------------------- MODULE Aggregator -----------------------------
(***************************************************************************)
(* Aggregator::cycle(): the aggregator takes the window at the head of the *)
(* input buffer, works on it for as many cycles as its edges need, and     *)
(* releases the input buffer, and after the last row of a column the edge  *)
(* buffer and the column's sums.                                           *)
(***************************************************************************)
EXTENDS PipelineState

(***************************************************************************)
(* What calculate_remaining_cycle() may return.  It truncates, and returns *)
(* 0 for a window that less than one element is left of when the share of  *)
(* zero features is taken off.                                             *)
(***************************************************************************)
CONSTANT AggregationTimes

ASSUME AggregationTimesAssumption == AggregationTimes \subseteq Nat

VARIABLE aggregator

AggregatorState == [working : BOOLEAN, remaining_cycles : Nat,
                    current_sliding_window : Index \cup {NoWindow}]

AggregatorInit == aggregator = [working |-> FALSE, remaining_cycles |-> 0,
                                current_sliding_window |-> NoWindow]

current_sliding_window == aggregator.current_sliding_window
-----------------------------------------------------------------------------
(***************************************************************************)
(* cycle() first asserts that there is work to do.  A window that takes no *)
(* cycle fails this in the cycle after its start.                          *)
(***************************************************************************)
WorkingAssert == aggregator.remaining_cycles # 0 /\ current_sliding_window # NoWindow

NothingToWorkOn ==
  /\ aggregator.working
  /\ ~WorkingAssert
  /\ failed' = {"Aggregator::cycle while working"}
  /\ UNCHANGED <<aggregator, buffers>>

Aggregate ==
  /\ aggregator.working /\ WorkingAssert
  /\ aggregator.remaining_cycles > 1
  /\ aggregator' = [aggregator EXCEPT !.remaining_cycles = @ - 1]
  /\ UNCHANGED <<buffers, failed>>

(***************************************************************************)
(* The last cycle of a window.  The same call goes on to look for a new    *)
(* window, but finds current_ready reset, or the column it has just        *)
(* finished in the write port, and only counts the wait.                   *)
(***************************************************************************)
\* The column is handed over when its first row is done.
FinishWindowOnFirstRow ==
  /\ aggregator.working /\ WorkingAssert
  /\ aggregator.remaining_cycles = 1
  /\ aggregator' = [aggregator EXCEPT !.working = FALSE, !.remaining_cycles = 0]
  /\ input!FinishedCurrent
  /\ IF Windows[current_sliding_window].first_row
     THEN edge!FinishedCurrent /\ agg!FinishWrite
     ELSE UNCHANGED <<edge_buffer, agg_buffer>>
  /\ UNCHANGED <<output_buffer, failed>>

FinishWindow ==
  /\ aggregator.working /\ WorkingAssert
  /\ aggregator.remaining_cycles = 1
  /\ aggregator' = [aggregator EXCEPT !.working = FALSE, !.remaining_cycles = 0]
  /\ input!FinishedCurrent
  /\ IF Windows[current_sliding_window].final_row
     THEN /\ edge!FinishedCurrent
          /\ agg!FinishWrite
          /\ failed' = Check("finished_current", input!FinishedCurrentAssert
                                                 /\ edge!FinishedCurrentAssert)
                       \cup Check("finish_write", agg!FinishWriteAssert)
     ELSE /\ UNCHANGED <<edge_buffer, agg_buffer>>
          /\ failed' = Check("finished_current", input!FinishedCurrentAssert)
  /\ UNCHANGED output_buffer

\* A column's sums are complete and still in the write port.
ColumnWaits == ~agg_buffer.write_empty /\ agg_buffer.write_ready

\* What cycle() asserts of an aggregator without work.
IdleAssert == aggregator.remaining_cycles = 0

CanStart ==
  /\ ~aggregator.working
  /\ ~ColumnWaits
  /\ input_buffer.current.ready
  /\ edge_buffer.current.ready
  /\ ~agg_buffer.write_empty =>
        /\ current_sliding_window # NoWindow
        /\ Windows[agg_buffer.write_window].x = Windows[current_sliding_window].x

StartWindow ==
  /\ CanStart
  /\ LET w == input_buffer.current.window
     IN  /\ \E cycles \in AggregationTimes :
              aggregator' = [working |-> TRUE, remaining_cycles |-> cycles,
                             current_sliding_window |-> w]
         /\ IF Windows[w].first_row
            THEN /\ agg!AddNewTask(w)
                 /\ failed' = Check("Aggregator::cycle while idle", IdleAssert)
                              \cup Check("add_new_task", agg!AddNewTaskAssert)
            ELSE /\ UNCHANGED agg_buffer
                 /\ failed' = Check("Aggregator::cycle while idle", IdleAssert)
  /\ UNCHANGED <<input_buffer, edge_buffer, output_buffer>>

WaitForWindow ==
  /\ ~aggregator.working
  /\ ~CanStart
  /\ failed' = Check("Aggregator::cycle while idle", IdleAssert)
  /\ UNCHANGED <<aggregator, buffers>>

AggregatorCycle ==
  NothingToWorkOn \/ Aggregate \/ FinishWindow \/ StartWindow \/ WaitForWindow
=============================================================================
