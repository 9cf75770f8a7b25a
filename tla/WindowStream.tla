---------------------------- MODULE WindowStream ----------------------------
(***************************************************************************)
(* The windows the simulator works through, in the order in which          *)
(* dense_window_set's constructor builds them: layer by layer, inside a    *)
(* layer column by column, inside a column from the first row group to the *)
(* last.  A window stands for itself by its index; what is kept of it is   *)
(* what the control of the pipeline looks at.                              *)
(***************************************************************************)
EXTENDS Integers, Sequences, FiniteSets

CONSTANT Windows      \* m_sliding_window_vec, a sequence of window records

Window == [x         : Nat,      \* the first node of the column: getX()
           first_row : BOOLEAN,  \* isTheFirstRow()
           final_row : BOOLEAN,  \* isTheFinalRow()
           final_col : BOOLEAN,  \* isTheFinalCol(): the last column of a layer
           final_layer : BOOLEAN]

Index    == 1 .. Len(Windows)
end      == Len(Windows) + 1     \* m_sliding_window_vec.end()
NoWindow == 0                    \* a null window pointer

(***************************************************************************)
(* What the constructor guarantees of the sequence: it begins with a first *)
(* row and ends with the last row of the last column of the last layer; a  *)
(* row is followed by a first row exactly when it is the last of its       *)
(* column; the rows of a column agree on everything else; and nothing      *)
(* follows the last column of the last layer.  There are at least two      *)
(* windows: at least two node dimensions are required, models have at      *)
(* least two layers, and a layer has at least one window because the graph *)
(* reader gives each node a self edge.                                     *)
(***************************************************************************)
ColumnsAreContiguous ==
  \A i \in Index : i + 1 \in Index =>
     /\ Windows[i].final_row <=> Windows[i + 1].first_row
     /\ ~Windows[i].final_row =>
           /\ Windows[i + 1].x           = Windows[i].x
           /\ Windows[i + 1].final_col   = Windows[i].final_col
           /\ Windows[i + 1].final_layer = Windows[i].final_layer

OneLastColumn ==
  \A i, j \in Index :
     Windows[i].final_col /\ Windows[i].final_layer /\ i < j => ~Windows[j].first_row

ASSUME WindowsAssumption ==
  /\ Windows \in Seq(Window)
  /\ Len(Windows) >= 2
  /\ Windows[1].first_row
  /\ Windows[Len(Windows)].final_row
  /\ Windows[Len(Windows)].final_col /\ Windows[Len(Windows)].final_layer
  /\ ColumnsAreContiguous
  /\ OneLastColumn

(***************************************************************************)
(* find_next_col(): the first window after i that starts a column, end()   *)
(* if there is none.                                                       *)
(***************************************************************************)
find_next_col(i) ==
  LET later == {j \in Index : j > i /\ Windows[j].first_row}
  IN  IF later = {} THEN end
      ELSE CHOOSE j \in later : \A k \in later : j <= k

\* The column of a window, named by its first row; its number among all columns.
ColumnOf(i)     == CHOOSE j \in Index :
                      /\ j <= i /\ Windows[j].first_row
                      /\ \A k \in j + 1 .. i : ~Windows[k].first_row
ColumnNumber(i) == Cardinality({j \in 1 .. i : Windows[j].first_row})
=============================================================================
