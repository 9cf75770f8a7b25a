------------------------------ MODULE MCSystem ------------------------------
(***************************************************************************)
(* Instances of the sliding-window accelerator for TLC: two layers, with   *)
(* columns of one or two row groups.                                       *)
(***************************************************************************)
EXTENDS SystemInvariant

\* The row groups of a column: all of a short one, top and bottom of a high one.
Row(x, first_row, final_row, final_col, final_layer) ==
  [x |-> x, first_row |-> first_row, final_row |-> final_row,
   final_col |-> final_col, final_layer |-> final_layer]
Single(x, final_col, final_layer) == Row(x, TRUE, TRUE, final_col, final_layer)
Top(x, final_col, final_layer)    == Row(x, TRUE, FALSE, final_col, final_layer)
Bottom(x, final_col, final_layer) == Row(x, FALSE, TRUE, final_col, final_layer)

\* The first column has two row groups: the edge buffer lags behind.
LaggingWindows ==
  << Top(0, FALSE, FALSE), Bottom(0, FALSE, FALSE), Top(1, TRUE, FALSE),
     Bottom(1, TRUE, FALSE), Single(0, FALSE, TRUE), Single(1, TRUE, TRUE) >>

\* The first column has one row group: the edge buffer keeps up.
AlignedWindows ==
  << Single(0, FALSE, FALSE), Top(1, TRUE, FALSE), Bottom(1, TRUE, FALSE),
     Top(0, FALSE, TRUE), Bottom(0, FALSE, TRUE), Single(1, TRUE, TRUE) >>

\* Enough columns to fill the pipeline from the input to the memory.
LongWindows ==
  << Single(0, FALSE, FALSE), Single(1, FALSE, FALSE), Single(2, TRUE, FALSE),
     Single(0, FALSE, TRUE), Single(1, FALSE, TRUE), Single(2, FALSE, TRUE),
     Single(3, TRUE, TRUE) >>
=============================================================================
