---------------------------- MODULE ColumnPipeline ----------------------------
(***************************************************************************)
(* What the accelerator promises, without buffers, cycles and requests:    *)
(* the windows are aggregated one after the other; a column is multiplied  *)
(* once all of its windows are aggregated, and written back once it is     *)
(* multiplied, each in the order of the columns and exactly once; a layer  *)
(* is done when its last column is written, the run when the last layer's  *)
(* last column is.                                                         *)
(***************************************************************************)
EXTENDS WindowStream

VARIABLES aggregated,       \* the last window that was aggregated
          combined,         \* the last column that was multiplied
          written,          \* the last column that was written back
          layers_finished,  \* how many layers are done
          finished          \* the run is over

pipeline == <<aggregated, combined, written, layers_finished, finished>>

Init == /\ aggregated = NoWindow
        /\ combined = NoWindow
        /\ written = NoWindow
        /\ layers_finished = 0
        /\ finished = FALSE

AggregateWindow ==
  /\ aggregated + 1 \in Index
  /\ aggregated' = aggregated + 1
  /\ UNCHANGED <<combined, written, layers_finished, finished>>

MultiplyColumn ==
  /\ combined' = find_next_col(combined)
  /\ combined' # end
  /\ find_next_col(combined') <= aggregated + 1
  /\ UNCHANGED <<aggregated, written, layers_finished, finished>>

WriteColumn ==
  /\ written' = find_next_col(written)
  /\ written' <= combined
  /\ layers_finished' = IF Windows[written'].final_col
                        THEN layers_finished + 1 ELSE layers_finished
  /\ finished' = (finished \/ (Windows[written'].final_col /\ Windows[written'].final_layer))
  /\ UNCHANGED <<aggregated, combined>>

Next == AggregateWindow \/ MultiplyColumn \/ WriteColumn

Spec == Init /\ [][Next]_pipeline
=============================================================================
