------------------------------ MODULE Requests ------------------------------
(***************************************************************************)
(* The memory request Req and the two devices' view of it.  An address     *)
(* range is abstracted to the window it belongs to: the input features of  *)
(* a window, the edges of its column, or the output rows of its column.    *)
(***************************************************************************)
EXTENDS WindowStream

CONSTANT NoReq        \* a null std::shared_ptr<Req>

Devices == {"input_buffer", "edge_buffer", "output_buffer"}

Req == [id     : Nat,
        t      : Devices,
        window : Index,
        the_final_request : BOOLEAN,
        the_final_request_of_the_layer : BOOLEAN]

ASSUME NoReqAssumption == NoReq \notin Req

\* A read leaves the two flags of a write at their default.
ReadReq(id, device, w) ==
  [id |-> id, t |-> device, window |-> w,
   the_final_request |-> FALSE, the_final_request_of_the_layer |-> FALSE]

\* A write that takes every column of the last layer for the last one.
WriteReqEndingWithLayer(id, w) ==
  [id |-> id, t |-> "output_buffer", window |-> w,
   the_final_request |-> Windows[w].final_layer,
   the_final_request_of_the_layer |-> Windows[w].final_col]

\* A write whose column is the last one of the last layer if it is also the first.
WriteReqNeverFinal(id, w) ==
  [id |-> id, t |-> "output_buffer", window |-> w,
   the_final_request |-> Windows[w].final_col /\ Windows[w].final_layer /\ w = 1,
   the_final_request_of_the_layer |-> Windows[w].final_col]

(***************************************************************************)
(* The write SystolicArray::cycle() makes for the column whose first row   *)
(* is w.                                                                   *)
(***************************************************************************)
WriteReq(id, w) ==
  [id |-> id, t |-> "output_buffer", window |-> w,
   the_final_request |-> Windows[w].final_col /\ Windows[w].final_layer,
   the_final_request_of_the_layer |-> Windows[w].final_col]
=============================================================================
