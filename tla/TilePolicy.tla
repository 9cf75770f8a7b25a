----------------------------- MODULE TilePolicy -----------------------------
(***************************************************************************)
(* __setup_sliding_window and __setup_dense_window: the outputs are cut    *)
(* into columns of max_output_num, and each column is walked row by row,   *)
(* a row being an input.  A sliding window spans max_input_num rows from   *)
(* the first row with an edge and is shrunk to its last row with an edge;  *)
(* a dense window counts only the rows that have an edge.                  *)
(***************************************************************************)
EXTENDS WindowBase

CONSTANT Dense   \* TRUE for the dense windows

VARIABLES column,         \* i of the code
          row,            \* j of the code
          starting_row,
          last_existing,
          pc

tileVars == <<column, row, starting_row, last_existing>>
vars == <<windowVars, tileVars, pc>>

Init ==
    /\ working_set = array
    /\ window = EmptyWindow
    /\ plan = EmptyWindow
    /\ column = 0
    /\ row = 0
    /\ starting_row = 0
    /\ last_existing = 0
    /\ pc = "skip"

\* The last column is lost unless it is full.
TotalColsFloor == NumOutputs \div conf.max_output_num

TotalCols == (NumOutputs + conf.max_output_num - 1) \div conf.max_output_num

Least(a, b) == IF a < b THEN a ELSE b

Column(c) ==
    c * conf.max_output_num .. Least((c + 1) * conf.max_output_num, NumOutputs) - 1

\* The outputs of column c that need input j.
RowOf(j, c) == {o \in Column(c) : j \in array[o]}

SkipRow ==
    /\ pc = "skip"
    /\ row < NumOutputs
    /\ RowOf(row, column) = {}
    /\ row' = row + 1
    /\ UNCHANGED <<windowVars, column, starting_row, last_existing, pc>>

NextColumn ==
    /\ pc = "skip"
    /\ row = NumOutputs
    /\ column' = column + 1
    /\ row' = 0
    /\ pc' = IF column + 1 = TotalCols THEN "done" ELSE "skip"
    /\ UNCHANGED <<windowVars, starting_row, last_existing>>

BeginWindow ==
    /\ pc = "skip"
    /\ row < NumOutputs
    /\ RowOf(row, column) # {}
    /\ window' = FreshWindow(Column(column), Cardinality(Column(column)))
    /\ starting_row' = row
    /\ last_existing' = 0
    /\ pc' = "build"
    /\ UNCHANGED <<graphVars, working_set, plan, column, row>>

\* A dense window counts every row.
AddRowCountingEmpty ==
    LET found == RowOf(row, column)
    IN  /\ pc = "build"
        /\ row < NumOutputs
        /\ window.input_num < conf.max_input_num
        /\ window' = [window EXCEPT
                        !.edges     = @ + Cardinality(found),
                        !.all_edges = @ \cup ({row} \X found),
                        !.inputs    = @ \cup {row},
                        !.input_num = @ + 1]
        /\ last_existing' = IF found = {} THEN last_existing ELSE row
        /\ row' = row + 1
        /\ UNCHANGED <<graphVars, working_set, plan, column, starting_row, pc>>

\* While the window is built, input_num is the loop's input_len.
AddRow ==
    LET found == RowOf(row, column)
    IN  /\ pc = "build"
        /\ row < NumOutputs
        /\ window.input_num < conf.max_input_num
        /\ window' = [window EXCEPT
                        !.edges     = @ + Cardinality(found),
                        !.all_edges = @ \cup ({row} \X found),
                        !.inputs    = IF found = {} THEN @ ELSE @ \cup {row},
                        !.input_num = IF Dense /\ found = {} THEN @ ELSE @ + 1]
        /\ last_existing' = IF found = {} THEN last_existing ELSE row
        /\ row' = row + 1
        /\ UNCHANGED <<graphVars, working_set, plan, column, starting_row, pc>>

\* A sliding window is shrunk to the rows from its first to its last edge.
Shrunk ==
    IF Dense THEN window
    ELSE [window EXCEPT !.input_num = last_existing - starting_row + 1,
                        !.inputs    = starting_row .. last_existing]

CloseWindow ==
    /\ pc = "build"
    /\ row = NumOutputs \/ window.input_num >= conf.max_input_num
    /\ plan' = Shrunk
    /\ window' = EmptyWindow
    /\ starting_row' = 0
    /\ last_existing' = 0
    /\ pc' = "skip"
    /\ UNCHANGED <<graphVars, working_set, column, row>>

Next ==
    \/ SkipRow
    \/ NextColumn
    \/ BeginWindow
    \/ AddRow
    \/ CloseWindow

Spec == Init /\ [][Next]_vars /\ WF_vars(Next)

-----------------------------------------------------------------------------
\* What the walk has not passed: the open window's rows count as not passed.
\* An input that is not a line of the file is never reached.
Remaining ==
    LET passed == IF pc = "build" THEN starting_row ELSE row
    IN  {e \in EdgesOf(array) :
            \/ e[1] \notin Outputs
            \/ e[2] >= (column + 1) * conf.max_output_num
            \/ e[2] \in Column(column) /\ e[1] >= passed}

Plan == INSTANCE WindowPlan WITH remaining <- Remaining
=============================================================================
