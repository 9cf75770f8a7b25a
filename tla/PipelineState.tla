---------------------------- MODULE PipelineState ----------------------------
(***************************************************************************)
(* What the components of the sliding-window accelerator share: the three  *)
(* kinds of buffers between them, and the outcome of the assertions.       *)
(*                                                                         *)
(* The simulator is built without NDEBUG, so a failed assertion aborts it. *)
(* "failed" collects the assertions a step fails; the system halts when it *)
(* is not empty.                                                           *)
(***************************************************************************)
EXTENDS Requests

VARIABLES input_buffer, edge_buffer, agg_buffer, output_buffer,
          failed,
          global_id       \* the static counter of Req's constructor

input  == INSTANCE ReadBuffer WITH buffer <- input_buffer
edge   == INSTANCE ReadBuffer WITH buffer <- edge_buffer
agg    == INSTANCE AggregatorBuffer
output == INSTANCE WriteBuffer

buffers == <<input_buffer, edge_buffer, agg_buffer, output_buffer>>

\* assert(holds), known by the name of the function it stands in.
Check(name, holds) == IF holds THEN {} ELSE {name}
=============================================================================
