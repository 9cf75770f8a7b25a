-------------------------- MODULE AggregatorBuffer --------------------------
(***************************************************************************)
(* Aggregator_buffer: the double buffer between the aggregator, which      *)
(* fills the write port with the sums of one column, and the systolic      *)
(* array, which reads a complete column from the read port.                *)
(***************************************************************************)
EXTENDS WindowStream

VARIABLE agg_buffer

AggBufferState == [write_empty  : BOOLEAN, write_ready : BOOLEAN,
                   write_window : Index \cup {NoWindow},
                   read_empty   : BOOLEAN, read_ready  : BOOLEAN,
                   read_busy    : BOOLEAN,
                   read_window  : Index \cup {NoWindow}]

Constructed == agg_buffer =
  [write_empty |-> TRUE, write_ready |-> FALSE, write_window |-> NoWindow,
   read_empty  |-> TRUE, read_ready  |-> FALSE, read_busy |-> FALSE,
   read_window |-> NoWindow]
-----------------------------------------------------------------------------
(***************************************************************************)
(* cycle(): a complete column moves to the read port once that is free.    *)
(* write_window is moved from, so it becomes null.                         *)
(***************************************************************************)
CycleAssert == agg_buffer.write_ready /\ agg_buffer.read_empty =>
                 ~agg_buffer.write_empty /\ ~agg_buffer.read_ready

MoveToRead == [agg_buffer EXCEPT !.write_empty  = TRUE, !.read_ready = TRUE,
                                 !.write_ready  = FALSE, !.read_empty = FALSE,
                                 !.read_window  = agg_buffer.write_window,
                                 !.write_window = NoWindow]

\* cycle() that moves without waiting for the read port.
CycleOverwritingRead ==
  agg_buffer' = IF agg_buffer.write_ready THEN MoveToRead ELSE agg_buffer

Cycle == agg_buffer' = IF agg_buffer.write_ready /\ agg_buffer.read_empty
                       THEN MoveToRead ELSE agg_buffer
-----------------------------------------------------------------------------
\* The write port, used by the aggregator.
AddNewTaskAssert == agg_buffer.write_empty /\ ~agg_buffer.write_ready
                    /\ agg_buffer.write_window = NoWindow
AddNewTask(w) ==
  agg_buffer' = [agg_buffer EXCEPT !.write_empty = ~@, !.write_window = w]

FinishWriteAssert == ~agg_buffer.write_empty /\ ~agg_buffer.write_ready
FinishWrite == agg_buffer' = [agg_buffer EXCEPT !.write_ready = ~@]

\* The read port, used by the systolic array.
StartReadAssert == agg_buffer.read_ready /\ ~agg_buffer.read_busy
                   /\ ~agg_buffer.read_empty
StartRead == agg_buffer' = [agg_buffer EXCEPT !.read_busy = TRUE]

FinishReadAssert == ~agg_buffer.read_empty /\ agg_buffer.read_ready
                    /\ agg_buffer.read_busy
FinishRead == agg_buffer' = [agg_buffer EXCEPT !.read_ready = FALSE,
                               !.read_busy = FALSE, !.read_empty = TRUE]
=============================================================================
