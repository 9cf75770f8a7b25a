---------------------------- MODULE SystolicArray ----------------------------
(***************************************************************************)
(* SystolicArray::cycle(): the systolic array multiplies a complete column *)
(* of the aggregation buffer with the weights, into the output buffer, for *)
(* as many cycles as cal_remaining_cycle() says.                           *)
(***************************************************************************)
EXTENDS PipelineState

CONSTANT CombinationTimes      \* what cal_remaining_cycle() may return

\* Rows, columns and node dimension are added up, each at least 1.
ASSUME CombinationTimesAssumption == CombinationTimes \subseteq Nat \ {0, 1, 2}

VARIABLES systolic,
          combined       \* history: the last column that was multiplied

SystolicState == [empty : BOOLEAN, remaining_cycle : Nat,
                  current_sliding_window : Index \cup {NoWindow}]

SystolicInit == /\ systolic = [empty |-> TRUE, remaining_cycle |-> 0,
                               current_sliding_window |-> NoWindow]
                /\ combined = NoWindow
-----------------------------------------------------------------------------
CanTakeColumn ==
  /\ systolic.empty
  /\ agg_buffer.read_ready /\ ~agg_buffer.read_busy /\ ~agg_buffer.read_empty
  /\ output_buffer.to_buffer.empty

(***************************************************************************)
(* The cycle that takes a column also counts as its first cycle of work,   *)
(* and a column needs at least three.                                      *)
(***************************************************************************)
TakeColumn ==
  /\ CanTakeColumn
  /\ \E cycles \in CombinationTimes :
       systolic' = [empty |-> FALSE, remaining_cycle |-> cycles - 1,
                    current_sliding_window |-> agg_buffer.read_window]
  /\ output!StartWriteToBuffer(WriteReq(global_id, agg_buffer.read_window))
  /\ global_id' = global_id + 1
  /\ agg!StartRead
  /\ failed' = Check("start_write_to_buffer", output!StartWriteToBufferAssert)
               \cup Check("remaining_cycle", systolic.remaining_cycle = 0)
               \cup Check("start_read", agg!StartReadAssert)
  /\ UNCHANGED <<input_buffer, edge_buffer, combined>>

Multiply ==
  /\ ~CanTakeColumn
  /\ systolic.remaining_cycle > 1
  /\ systolic' = [systolic EXCEPT !.remaining_cycle = @ - 1]
  /\ UNCHANGED <<buffers, failed, global_id, combined>>

\* The read port is not given back.
FinishColumnKeepingRead ==
  /\ ~CanTakeColumn
  /\ systolic.remaining_cycle = 1
  /\ systolic' = [empty |-> TRUE, remaining_cycle |-> 0,
                  current_sliding_window |-> NoWindow]
  /\ output!FinishedWriteToBuffer
  /\ combined' = systolic.current_sliding_window
  /\ UNCHANGED <<input_buffer, edge_buffer, agg_buffer, global_id, failed>>

FinishColumn ==
  /\ ~CanTakeColumn
  /\ systolic.remaining_cycle = 1
  /\ systolic' = [empty |-> TRUE, remaining_cycle |-> 0,
                  current_sliding_window |-> NoWindow]
  /\ agg!FinishRead
  /\ output!FinishedWriteToBuffer
  /\ failed' = Check("finish_read", agg!FinishReadAssert)
               \cup Check("finished_write_to_buffer", output!FinishedWriteToBufferAssert)
  /\ combined' = systolic.current_sliding_window
  /\ UNCHANGED <<input_buffer, edge_buffer, global_id>>

WaitForColumn ==
  /\ ~CanTakeColumn
  /\ systolic.remaining_cycle = 0
  /\ UNCHANGED <<systolic, buffers, failed, global_id, combined>>

SystolicCycle == TakeColumn \/ Multiply \/ FinishColumn \/ WaitForColumn
=============================================================================
