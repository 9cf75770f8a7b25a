----------------------------- MODULE GraphProofs -----------------------------
(***************************************************************************)
(* Theorems about Graph.setup_window: all policies of graph.py and of      *)
(* get_graph.py, called one after the other, for every graph, every size   *)
(* of the hardware and every order of the steps.                           *)
(*                                                                         *)
(* The two tile policies have five kinds of steps, and an invariant of the *)
(* rows they have passed (TileInv).  GraphInv joins it with the invariant  *)
(* of the queue policies for the policy that runs.  The bloom filter is    *)
(* bounded by sums over the outputs read (FilterInv), the windows of the   *)
(* tile policies are counted column by column (CountInv); a sum is handled *)
(* as the number of elements of a set.                                     *)
(***************************************************************************)
EXTENDS QueueProofs

-----------------------------------------------------------------------------
\* The outputs of the column that is walked.
Tile == Sliding!Column(column)

\* The rows from `first' to `last' with an edge in the column.
EdgeRows(first, last) == {j \in first .. last : \E o \in Tile : j \in array[o]}

\* The edges of these rows.
RowEdges(first, last) == {e \in (first .. last) \X Tile : e[1] \in array[e[2]]}

\* The window holds the edges of the rows it has passed.
TileWindow ==
    /\ WindowIsRecord
    /\ starting_row \in Outputs /\ starting_row <= row
    /\ \E o \in Tile : starting_row \in array[o]
    /\ window.outputs = Tile
    /\ window.output_num = Cardinality(Tile)
    /\ window.inputs = EdgeRows(starting_row, row - 1)
    /\ window.all_edges = RowEdges(starting_row, row - 1)
    /\ IsFiniteSet(window.all_edges)
    /\ window.edges = Cardinality(window.all_edges)
    /\ Running = "dense" => window.input_num = Cardinality(window.inputs)
    /\ Running = "sliding" => window.input_num = row - starting_row
    /\ window.input_num <= conf.max_input_num
    /\ row > starting_row => /\ last_existing \in window.inputs
                             /\ \A j \in window.inputs : j <= last_existing

\* The walk over the columns.
TileInv ==
    /\ pc \in {"skip", "build", "done"}
    /\ column \in Nat
    /\ row \in 0 .. NumOutputs
    /\ pc # "done" => column < Sliding!TotalCols
    /\ pc = "done" => column = Sliding!TotalCols
    /\ pc = "build" => TileWindow
    /\ pc # "build" => window = EmptyWindow

-----------------------------------------------------------------------------
\* What a division rounds down to.
LEMMA DivisionBounds ==
  ASSUME NEW a \in Nat, NEW m \in Nat \ {0}
  PROVE  /\ a \div m \in Nat
         /\ (a \div m) * m <= a
         /\ a < ((a \div m) + 1) * m
  OBVIOUS

\* The columns cover the outputs, and the first is there.
LEMMA TotalColumns ==
  ASSUME SetupInv
  PROVE  /\ Sliding!TotalCols \in 1 .. NumOutputs
         /\ NumOutputs <= Sliding!TotalCols * conf.max_output_num
         /\ \A c \in Nat : c < Sliding!TotalCols => c * conf.max_output_num < NumOutputs
<1> DEFINE N == NumOutputs
           m == conf.max_output_num
           q == (N + m - 1) \div m
<1>1. N \in Nat \ {0} /\ m \in Nat \ {0}
  BY DEF SetupInv, Config
<1>2. Sliding!TotalCols = q
  BY DEF Sliding!TotalCols, Sliding!NumOutputs, NumOutputs, Sliding!Cardinality, Cardinality,
         Sliding!Outputs, Outputs
<1> HIDE DEF N, m
<1>3. N + m - 1 \in Nat
  BY <1>1
<1>4. q \in Nat /\ q * m <= N + m - 1 /\ N + m - 1 < (q + 1) * m
  BY <1>1, <1>3, DivisionBounds
<1> HIDE DEF q
<1>5. (q + 1) * m = q * m + m
  BY <1>1, <1>4
<1>6. N <= q * m /\ q * m <= N + m - 1
  BY <1>1, <1>4, <1>5
<1>7. q >= 1
  <2>1. q = 0 => q * m = 0
    BY <1>1
  <2> QED
    BY <1>1, <1>4, <1>6, <2>1
<1>8. q <= N
  <2>1. CASE q > N
    <3>1. (N + 1) * m <= q * m
      BY <1>1, <1>4, <2>1
    <3>2. (N + 1) * m = N * m + m /\ N * m >= N
      BY <1>1
    <3>3. N * m \in Nat /\ q * m \in Nat
      BY <1>1, <1>4
    <3> QED
      BY <1>1, <1>6, <3>1, <3>2, <3>3
  <2> QED
    BY <1>1, <1>4, <2>1
<1>9. ASSUME NEW c \in Nat, c < q PROVE c * m < N
  <2>1. (c + 1) * m <= q * m /\ (c + 1) * m = c * m + m
    BY <1>1, <1>4, <1>9
  <2>2. c * m \in Nat
    BY <1>1
  <2> QED
    BY <1>1, <1>4, <1>6, <2>1, <2>2
<1> QED
  BY <1>1, <1>2, <1>4, <1>6, <1>7, <1>8, <1>9 DEF N, m

\* The outputs of a column.
LEMMA ColumnOutputs ==
  ASSUME SetupInv, NEW c \in Nat
  PROVE  /\ Sliding!Column(c) \subseteq Outputs
         /\ \A o \in Outputs : o \in Sliding!Column(c)
                                 <=> /\ c * conf.max_output_num <= o
                                     /\ o < (c + 1) * conf.max_output_num
<1>1. c * conf.max_output_num \in Nat /\ (c + 1) * conf.max_output_num \in Nat
      /\ NumOutputs \in Nat /\ Outputs = 0 .. NumOutputs - 1
  BY DEF SetupInv, Config
<1>2. Sliding!Column(c) =
        c * conf.max_output_num ..
          (IF (c + 1) * conf.max_output_num < NumOutputs
           THEN (c + 1) * conf.max_output_num ELSE NumOutputs) - 1
  BY DEF Sliding!Column, Sliding!Least, Sliding!NumOutputs, NumOutputs, Sliding!Cardinality,
         Cardinality, Sliding!Outputs, Outputs
<1> DEFINE low == c * conf.max_output_num
           high == (c + 1) * conf.max_output_num
<1>3. low \in Nat /\ high \in Nat /\ Sliding!Column(c) =
        low .. (IF high < NumOutputs THEN high ELSE NumOutputs) - 1
  BY <1>1, <1>2
<1> HIDE DEF low, high
<1>4. /\ Sliding!Column(c) \subseteq Outputs
      /\ \A o \in Outputs : o \in Sliding!Column(c) <=> low <= o /\ o < high
  BY <1>1, <1>3
<1> QED
  BY <1>4 DEF low, high

\* A column has an output and fits the hardware.
LEMMA ColumnFits ==
  ASSUME SetupInv, NEW c \in Nat, c < Sliding!TotalCols
  PROVE  /\ IsFiniteSet(Sliding!Column(c))
         /\ Cardinality(Sliding!Column(c)) \in 1 .. conf.max_output_num
<1> DEFINE low == c * conf.max_output_num
           m == conf.max_output_num
           high == IF (c + 1) * m < NumOutputs THEN (c + 1) * m ELSE NumOutputs
<1>1. NumOutputs \in Nat \ {0} /\ m \in Nat \ {0} /\ low \in Nat /\ (c + 1) * m = low + m
  BY DEF SetupInv, Config
<1>2. low < NumOutputs
  BY TotalColumns
<1>3. Sliding!Column(c) = low .. high - 1
  BY DEF Sliding!Column, Sliding!Least, Sliding!NumOutputs, NumOutputs, Sliding!Cardinality,
         Cardinality, Sliding!Outputs, Outputs
<1> HIDE DEF low, m
<1>4. high \in Nat /\ low < high /\ high <= low + m
  BY <1>1, <1>2
<1> HIDE DEF high
<1>5. IsFiniteSet(low .. high - 1) /\ Cardinality(low .. high - 1) = high - low
  <2>1. low \in Int /\ high - 1 \in Int
    BY <1>1, <1>4
  <2>2. /\ IsFiniteSet(low .. high - 1)
        /\ Cardinality(low .. high - 1) = IF low > high - 1 THEN 0 ELSE (high - 1) - low + 1
    BY <2>1, FS_Interval
  <2> QED
    BY <1>1, <1>4, <2>2
<1>6. high - low \in 1 .. m
  BY <1>1, <1>4
<1> QED
  BY <1>3, <1>5, <1>6 DEF m

\* Both tile policies cut the outputs into the same columns.
LEMMA TilesShare ==
  /\ DenseTile!TotalCols = Sliding!TotalCols
  /\ \A c : DenseTile!Column(c) = Sliding!Column(c)
  /\ \A j, c : DenseTile!RowOf(j, c) = Sliding!RowOf(j, c)
  /\ DenseTile!NumOutputs = NumOutputs /\ Sliding!NumOutputs = NumOutputs
  /\ \A S : DenseTile!Cardinality(S) = Cardinality(S) /\ Sliding!Cardinality(S) = Cardinality(S)
  BY DEF DenseTile!TotalCols, Sliding!TotalCols, DenseTile!Column, Sliding!Column,
         DenseTile!RowOf, Sliding!RowOf, DenseTile!Least, Sliding!Least,
         DenseTile!NumOutputs, Sliding!NumOutputs, NumOutputs, DenseTile!Outputs,
         Sliding!Outputs, Outputs, DenseTile!Cardinality, Sliding!Cardinality, Cardinality

-----------------------------------------------------------------------------
\* A row without an edge is passed.
PassRow ==
    /\ pc = "skip" /\ pc' = pc
    /\ row < NumOutputs
    /\ \A o \in Tile : row \notin array[o]
    /\ row' = row + 1
    /\ UNCHANGED <<windowVars, column>>

\* The walk turns to the next column.
TurnColumn ==
    /\ pc = "skip"
    /\ row = NumOutputs
    /\ column' = column + 1
    /\ row' = 0
    /\ pc' = IF column' = Sliding!TotalCols THEN "done" ELSE "skip"
    /\ UNCHANGED windowVars

\* A window is begun at a row with an edge.
BeginTile ==
    /\ pc = "skip" /\ pc' = "build"
    /\ row < NumOutputs
    /\ \E o \in Tile : row \in array[o]
    /\ window' = FreshWindow(Tile, Cardinality(Tile))
    /\ starting_row' = row
    /\ UNCHANGED <<array, conf, working_set, plan, column, row>>

\* The outputs of the column with an edge in this row.
Found == {o \in Tile : row \in array[o]}

\* The row's edges enter the window.
AddTileRow ==
    /\ pc = "build" /\ pc' = pc
    /\ row < NumOutputs
    /\ window.input_num < conf.max_input_num
    /\ window' = [window EXCEPT
                    !.edges     = @ + Cardinality(Found),
                    !.all_edges = @ \cup ({row} \X Found),
                    !.inputs    = IF Found = {} THEN @ ELSE @ \cup {row},
                    !.input_num = IF Running = "dense" /\ Found = {} THEN @ ELSE @ + 1]
    /\ last_existing' = IF Found = {} THEN last_existing ELSE row
    /\ row' = row + 1
    /\ UNCHANGED <<array, conf, working_set, plan, column, starting_row>>

\* The window is appended, a sliding one shrunk to its edges.
CloseTile ==
    /\ pc = "build" /\ pc' = "skip"
    /\ row = NumOutputs \/ window.input_num >= conf.max_input_num
    /\ Running = "dense" => plan' = window
    /\ Running = "sliding" =>
         plan' = [window EXCEPT !.input_num = last_existing - starting_row + 1,
                                !.inputs    = starting_row .. last_existing]
    /\ window' = EmptyWindow
    /\ UNCHANGED <<array, conf, working_set, column, row>>

\* The steps of either tile policy.
LEMMA TileSteps ==
  ASSUME TileStep
  PROVE  PassRow \/ TurnColumn \/ BeginTile \/ AddTileRow \/ CloseTile
<1>1. /\ DenseTile!TotalCols = Sliding!TotalCols
      /\ DenseTile!NumOutputs = NumOutputs /\ Sliding!NumOutputs = NumOutputs
      /\ \A S : DenseTile!Cardinality(S) = Cardinality(S)
                /\ Sliding!Cardinality(S) = Cardinality(S)
      /\ DenseTile!Column(column) = Tile /\ Sliding!Column(column) = Tile
  BY TilesShare DEF Tile
<1>2. Sliding!RowOf(row, column) = Found /\ DenseTile!RowOf(row, column) = Found
  BY <1>1, TilesShare DEF Found, Sliding!RowOf
<1>3. Found = {} <=> \A o \in Tile : row \notin array[o]
  BY DEF Found
<1>4. CASE Running = "sliding" /\ Sliding!Next
  <2>1. CASE Sliding!SkipRow
    BY <1>1, <1>2, <1>3, <2>1 DEF Sliding!SkipRow, PassRow, Sliding!windowVars, windowVars
  <2>2. CASE Sliding!NextColumn
    BY <1>1, <2>2 DEF Sliding!NextColumn, TurnColumn, Sliding!windowVars, windowVars
  <2>3. CASE Sliding!BeginWindow
    BY <1>1, <1>2, <1>3, <2>3
       DEF Sliding!BeginWindow, BeginTile, Sliding!graphVars, Sliding!FreshWindow, FreshWindow,
           Sliding!EmptyWindow, EmptyWindow
  <2>4. CASE Sliding!AddRow
    <3>1. window' = [window EXCEPT
                       !.edges     = @ + Cardinality(Found),
                       !.all_edges = @ \cup ({row} \X Found),
                       !.inputs    = IF Found = {} THEN @ ELSE @ \cup {row},
                       !.input_num = IF FALSE /\ Found = {} THEN @ ELSE @ + 1]
      BY <1>1, <1>2, <2>4, Zenon DEF Sliding!AddRow
    <3>2. FALSE <=> Running = "dense"
      BY <1>4
    <3>3. window' = [window EXCEPT
                       !.edges     = @ + Cardinality(Found),
                       !.all_edges = @ \cup ({row} \X Found),
                       !.inputs    = IF Found = {} THEN @ ELSE @ \cup {row},
                       !.input_num = IF Running = "dense" /\ Found = {} THEN @ ELSE @ + 1]
      BY <3>1, <3>2, Zenon
    <3>4. /\ pc = "build" /\ pc' = pc /\ row < NumOutputs
          /\ window.input_num < conf.max_input_num
          /\ row' = row + 1
          /\ UNCHANGED <<array, conf, working_set, plan, column, starting_row>>
      BY <1>1, <2>4, Zenon DEF Sliding!AddRow, Sliding!graphVars
    <3>5. last_existing' = IF Found = {} THEN last_existing ELSE row
      BY <1>2, <2>4, Zenon DEF Sliding!AddRow
    <3> QED
      BY <3>3, <3>4, <3>5, Zenon DEF AddTileRow
  <2>5. CASE Sliding!CloseWindow
    BY <1>1, <1>4, <2>5 DEF Sliding!CloseWindow, Sliding!Shrunk, CloseTile, Sliding!graphVars,
       Sliding!EmptyWindow, EmptyWindow
  <2> QED
    BY <1>4, <2>1, <2>2, <2>3, <2>4, <2>5 DEF Sliding!Next
<1>5. CASE Running = "dense" /\ DenseTile!Next
  <2>1. CASE DenseTile!SkipRow
    BY <1>1, <1>2, <1>3, <2>1 DEF DenseTile!SkipRow, PassRow, DenseTile!windowVars, windowVars
  <2>2. CASE DenseTile!NextColumn
    BY <1>1, <2>2 DEF DenseTile!NextColumn, TurnColumn, DenseTile!windowVars, windowVars
  <2>3. CASE DenseTile!BeginWindow
    BY <1>1, <1>2, <1>3, <2>3
       DEF DenseTile!BeginWindow, BeginTile, DenseTile!graphVars, DenseTile!FreshWindow,
           FreshWindow, DenseTile!EmptyWindow, EmptyWindow
  <2>4. CASE DenseTile!AddRow
    <3>1. window' = [window EXCEPT
                       !.edges     = @ + Cardinality(Found),
                       !.all_edges = @ \cup ({row} \X Found),
                       !.inputs    = IF Found = {} THEN @ ELSE @ \cup {row},
                       !.input_num = IF TRUE /\ Found = {} THEN @ ELSE @ + 1]
      BY <1>1, <1>2, <2>4, Zenon DEF DenseTile!AddRow
    <3>2. TRUE <=> Running = "dense"
      BY <1>5
    <3>3. window' = [window EXCEPT
                       !.edges     = @ + Cardinality(Found),
                       !.all_edges = @ \cup ({row} \X Found),
                       !.inputs    = IF Found = {} THEN @ ELSE @ \cup {row},
                       !.input_num = IF Running = "dense" /\ Found = {} THEN @ ELSE @ + 1]
      BY <3>1, <3>2, Zenon
    <3>4. /\ pc = "build" /\ pc' = pc /\ row < NumOutputs
          /\ window.input_num < conf.max_input_num
          /\ row' = row + 1
          /\ UNCHANGED <<array, conf, working_set, plan, column, starting_row>>
      BY <1>1, <2>4, Zenon DEF DenseTile!AddRow, DenseTile!graphVars
    <3>5. last_existing' = IF Found = {} THEN last_existing ELSE row
      BY <1>2, <2>4, Zenon DEF DenseTile!AddRow
    <3> QED
      BY <3>3, <3>4, <3>5, Zenon DEF AddTileRow
  <2>5. CASE DenseTile!CloseWindow
    BY <1>1, <1>5, <2>5 DEF DenseTile!CloseWindow, DenseTile!Shrunk, CloseTile,
       DenseTile!graphVars, DenseTile!EmptyWindow, EmptyWindow
  <2> QED
    BY <1>5, <2>1, <2>2, <2>3, <2>4, <2>5 DEF DenseTile!Next
<1> QED
  BY <1>4, <1>5 DEF TileStep, Runs

\* What the window holds after a row was added.
LEMMA AddedRow ==
  ASSUME WindowIsRecord, AddTileRow
  PROVE  /\ window'.edges = window.edges + Cardinality(Found)
         /\ window'.all_edges = window.all_edges \cup ({row} \X Found)
         /\ window'.inputs = IF Found = {} THEN window.inputs ELSE window.inputs \cup {row}
         /\ window'.input_num = IF Running = "dense" /\ Found = {} THEN window.input_num
                                ELSE window.input_num + 1
         /\ window'.output_num = window.output_num
         /\ window'.outputs = window.outputs
         /\ WindowIsRecord'
<1> DEFINE number == IF Running = "dense" /\ Found = {} THEN window.input_num
                     ELSE window.input_num + 1
           rows == IF Found = {} THEN window.inputs ELSE window.inputs \cup {row}
<1>1. window' = [window EXCEPT
                   !.edges     = @ + Cardinality(Found),
                   !.all_edges = @ \cup ({row} \X Found),
                   !.inputs    = rows,
                   !.input_num = number]
  BY Zenon DEF AddTileRow
<1> HIDE DEF number, rows
<1>2. /\ window'.edges = window.edges + Cardinality(Found)
      /\ window'.all_edges = window.all_edges \cup ({row} \X Found)
      /\ window'.inputs = rows
      /\ window'.input_num = number
      /\ window'.output_num = window.output_num
      /\ window'.outputs = window.outputs
      /\ WindowIsRecord'
  BY <1>1, Zenon DEF WindowIsRecord
<1> QED
  BY <1>2 DEF number, rows

-----------------------------------------------------------------------------
\* Rows without an edge add nothing to the window.
LEMMA RowAdded ==
  ASSUME NEW first \in Int, NEW last \in Int, first <= last
  PROVE  /\ EdgeRows(first, last) = EdgeRows(first, last - 1)
                                      \cup {j \in {last} : \E o \in Tile : j \in array[o]}
         /\ RowEdges(first, last) = RowEdges(first, last - 1)
                                      \cup ({last} \X {o \in Tile : last \in array[o]})
<1>1. first .. last = (first .. last - 1) \cup {last}
  OBVIOUS
<1> QED
  BY <1>1 DEF EdgeRows, RowEdges

\* No row of the window is the next one.
LEMMA RowsBefore ==
  ASSUME NEW first \in Int, NEW last \in Int
  PROVE  /\ EdgeRows(first, last) \subseteq first .. last
         /\ RowEdges(first, last) \subseteq EdgeRows(first, last) \X Tile
         /\ last < first => EdgeRows(first, last) = {} /\ RowEdges(first, last) = {}
  BY DEF EdgeRows, RowEdges

\* A window is begun with a row of the column.
LEMMA BeginTileKeeps ==
  ASSUME SetupInv, TileInv, BeginTile, UNCHANGED Running
  PROVE  TileInv'
<1>1. UNCHANGED <<array, conf, column, row, Tile, NumOutputs, Outputs>>
      /\ UNCHANGED Sliding!TotalCols
  BY DEF BeginTile, Tile, NumOutputs, Outputs, Sliding!Column, Sliding!Least,
         Sliding!NumOutputs, Sliding!TotalCols, Sliding!Outputs
<1>2. column < Sliding!TotalCols /\ column \in Nat /\ row \in 0 .. NumOutputs /\ pc = "skip"
      /\ row < NumOutputs /\ starting_row' = row /\ NumOutputs \in Nat
      /\ Outputs = 0 .. NumOutputs - 1
  BY DEF TileInv, BeginTile, SetupInv
<1>3. window' = [input_num |-> 0, output_num |-> Cardinality(Tile), edges |-> 0,
                 all_edges |-> {}, inputs |-> {}, outputs |-> Tile]
  BY FreshWindowFields DEF BeginTile
<1>4. /\ window'.input_num = 0 /\ window'.output_num = Cardinality(Tile)
      /\ window'.edges = 0 /\ window'.all_edges = {} /\ window'.inputs = {}
      /\ window'.outputs = Tile
  BY <1>3
<1>5. WindowIsRecord'
  BY <1>3, <1>4 DEF WindowIsRecord
<1>6. IsFiniteSet({}) /\ Cardinality({}) = 0
  BY FS_EmptySet
<1>7. EdgeRows(row, row - 1)' = {} /\ RowEdges(row, row - 1)' = {}
  <2>1. row \in Int /\ row .. row - 1 = {}
    BY <1>2
  <2> QED
    BY <1>1, <2>1 DEF EdgeRows, RowEdges
<1>8. EdgeRows(starting_row, row - 1)' = {} /\ RowEdges(starting_row, row - 1)' = {}
  BY <1>1, <1>2, <1>7 DEF EdgeRows, RowEdges
<1>9. conf.max_input_num \in Nat
  BY DEF SetupInv, Config
<1>10. starting_row' \in Outputs' /\ starting_row' <= row' /\ ~(row' > starting_row')
       /\ \E o \in Tile' : starting_row' \in array'[o]
  BY <1>1, <1>2 DEF BeginTile
<1>11. /\ Running' = "dense" => window'.input_num = Cardinality(window'.inputs)
       /\ Running' = "sliding" => window'.input_num = row' - starting_row'
       /\ window'.input_num <= conf'.max_input_num
  BY <1>1, <1>2, <1>4, <1>6, <1>9
<1>12. TileWindow'
  BY <1>1, <1>4, <1>5, <1>6, <1>8, <1>10, <1>11 DEF TileWindow
<1> QED
  BY <1>1, <1>2, <1>12 DEF TileInv, BeginTile

\* The row's edges are new to the window.
LEMMA AddTileRowKeeps ==
  ASSUME SetupInv, TileInv, AddTileRow, UNCHANGED Running, Running \in TilePolicies
  PROVE  TileInv'
<1>1. UNCHANGED <<array, conf, column, starting_row, pc, Tile, NumOutputs, Outputs>>
      /\ UNCHANGED Sliding!TotalCols
  BY DEF AddTileRow, Tile, NumOutputs, Outputs, Sliding!Column, Sliding!Least,
         Sliding!NumOutputs, Sliding!TotalCols, Sliding!Outputs
<1>2. TileWindow /\ column \in Nat /\ row \in 0 .. NumOutputs /\ row < NumOutputs
      /\ row' = row + 1 /\ pc = "build" /\ column < Sliding!TotalCols
  BY DEF TileInv, AddTileRow
<1>3. NumOutputs \in Nat /\ conf.max_input_num \in Nat /\ Outputs = 0 .. NumOutputs - 1
  BY DEF SetupInv, Config
<1>4. /\ window'.edges = window.edges + Cardinality(Found)
      /\ window'.all_edges = window.all_edges \cup ({row} \X Found)
      /\ window'.inputs = IF Found = {} THEN window.inputs ELSE window.inputs \cup {row}
      /\ window'.input_num = IF Running = "dense" /\ Found = {} THEN window.input_num
                             ELSE window.input_num + 1
      /\ window'.output_num = window.output_num
      /\ window'.outputs = window.outputs
      /\ WindowIsRecord'
  BY <1>2, AddedRow DEF TileWindow
<1>5. starting_row \in Nat /\ starting_row <= row /\ row \in Nat
  BY <1>2, <1>3 DEF TileWindow
<1>6. /\ EdgeRows(starting_row, row) = EdgeRows(starting_row, row - 1)
                                    \cup {j \in {row} : \E o \in Tile : j \in array[o]}
      /\ RowEdges(starting_row, row) = RowEdges(starting_row, row - 1) \cup ({row} \X Found)
  BY <1>5, RowAdded DEF Found
<1>7. Found = {} <=> ~\E o \in Tile : row \in array[o]
  BY DEF Found
<1>8. /\ window'.inputs = EdgeRows(starting_row, row)
      /\ window'.all_edges = RowEdges(starting_row, row)
  BY <1>2, <1>4, <1>6, <1>7 DEF TileWindow
<1>9. /\ window'.inputs = EdgeRows(starting_row, row - 1)'
      /\ window'.all_edges = RowEdges(starting_row, row - 1)'
  <2>1. row' - 1 = row
    BY <1>2, <1>5
  <2>2. /\ EdgeRows(starting_row, row - 1)' = EdgeRows(starting_row, row)
        /\ RowEdges(starting_row, row - 1)' = RowEdges(starting_row, row)
    BY <1>1, <2>1 DEF EdgeRows, RowEdges
  <2> QED
    BY <1>8, <2>2
<1>10. /\ window.inputs \subseteq starting_row .. row - 1
       /\ window.all_edges \subseteq window.inputs \X Tile
  BY <1>2, <1>5, RowsBefore DEF TileWindow
<1>11. IsFiniteSet(Tile) /\ Found \subseteq Tile
  BY <1>2, ColumnFits DEF Tile, Found
<1>12. IsFiniteSet(Found) /\ IsFiniteSet(window.inputs)
  <2>1. IsFiniteSet(starting_row .. row - 1)
    BY <1>5, FS_Interval
  <2>2. IsFiniteSet(window.inputs)
    BY <1>10, <2>1, FS_Subset
  <2> QED
    BY <1>11, <2>2, FS_Subset
<1>13. Cardinality(Found) \in Nat /\ Cardinality(window.inputs) \in Nat
       /\ Cardinality(window.all_edges) \in Nat
  BY <1>2, <1>12, FS_CardinalityType DEF TileWindow
<1>14. IsFiniteSet(window'.all_edges) /\ window'.edges = Cardinality(window'.all_edges)
  <2>1. IsFiniteSet({row} \X Found) /\ Cardinality({row} \X Found) = Cardinality(Found)
    BY <1>12, EdgesOfOneInput
  <2>2. window.all_edges \cap ({row} \X Found) = {}
    BY <1>5, <1>10
  <2>3. IsFiniteSet(window.all_edges) /\ window.edges = Cardinality(window.all_edges)
    BY <1>2 DEF TileWindow
  <2>4. /\ IsFiniteSet(window.all_edges \cup ({row} \X Found))
        /\ Cardinality(window.all_edges \cup ({row} \X Found)) =
             Cardinality(window.all_edges) + Cardinality({row} \X Found)
               - Cardinality(window.all_edges \cap ({row} \X Found))
    BY <2>1, <2>3, FS_Union
  <2>5. Cardinality(window.all_edges \cap ({row} \X Found)) = 0
    BY <2>2, FS_EmptySet
  <2> QED
    BY <1>4, <1>13, <2>1, <2>3, <2>4, <2>5
<1>15. row \notin window.inputs
  BY <1>5, <1>10
<1>16. Cardinality(window.inputs \cup {row}) = Cardinality(window.inputs) + 1
  BY <1>12, <1>15, FS_AddElement
<1>17. Running' = "dense" => window'.input_num = Cardinality(window'.inputs)
  BY <1>2, <1>4, <1>16 DEF TileWindow
<1>18. Running' = "sliding" => window'.input_num = row' - starting_row'
  BY <1>1, <1>2, <1>4, <1>5 DEF TileWindow
<1>19. window.input_num \in Nat
  BY <1>2, <1>5, <1>13 DEF TileWindow, TilePolicies
<1>20. window'.input_num <= conf'.max_input_num
  BY <1>1, <1>3, <1>4, <1>19 DEF AddTileRow
<1>21. last_existing' \in window'.inputs /\ \A j \in window'.inputs : j <= last_existing'
  <2>1. CASE Found = {}
    <3>1. row # starting_row
      BY <1>2, <1>7, <2>1 DEF TileWindow
    <3> QED
      BY <1>2, <1>4, <1>5, <2>1, <3>1 DEF AddTileRow, TileWindow
  <2>2. CASE Found # {}
    <3>1. last_existing' = row /\ window'.inputs = window.inputs \cup {row}
      BY <1>4, <2>2 DEF AddTileRow
    <3> QED
      BY <1>5, <1>10, <3>1
  <2> QED
    BY <2>1, <2>2
<1>22. TileWindow'
  <2>1. /\ starting_row' \in Outputs' /\ starting_row' <= row'
        /\ \E o \in Tile' : starting_row' \in array'[o]
        /\ window'.outputs = Tile' /\ window'.output_num = Cardinality(Tile')
    BY <1>1, <1>2, <1>4, <1>5 DEF TileWindow
  <2> QED
    BY <1>4, <1>9, <1>14, <1>17, <1>18, <1>20, <1>21, <2>1 DEF TileWindow
<1>23. row' \in 0 .. NumOutputs
  BY <1>2, <1>3, <1>5
<1> QED
  BY <1>1, <1>2, <1>22, <1>23 DEF TileInv

\* The invariant of the tile policies is kept.
LEMMA TileStepKeepsInv ==
  ASSUME SetupInv, TileInv, TileStep
  PROVE  TileInv'
<1>1. UNCHANGED <<array, conf, Running>> /\ Running \in TilePolicies
  BY TileStepLeaves DEF Running
<1>2. UNCHANGED <<NumOutputs, Outputs>> /\ UNCHANGED Sliding!TotalCols
  BY <1>1 DEF NumOutputs, Outputs, Sliding!NumOutputs, Sliding!TotalCols, Sliding!Outputs
<1>3. NumOutputs \in Nat /\ Sliding!TotalCols \in Nat
  BY TotalColumns DEF SetupInv
<1>4. CASE PassRow
  BY <1>2, <1>3, <1>4 DEF TileInv, PassRow, windowVars
<1>5. CASE TurnColumn
  BY <1>2, <1>3, <1>5 DEF TileInv, TurnColumn, windowVars
<1>6. CASE CloseTile
  BY <1>2, <1>3, <1>6 DEF TileInv, CloseTile
<1> QED
  BY <1>1, <1>4, <1>5, <1>6, TileSteps, BeginTileKeeps, AddTileRowKeeps

-----------------------------------------------------------------------------
\* The edges the walk has not passed.
Unpassed(col, passed) ==
    {e \in EdgesOf(array) :
        \/ e[1] \notin Outputs
        \/ e[2] >= (col + 1) * conf.max_output_num
        \/ e[2] \in Sliding!Column(col) /\ e[1] >= passed}

\* What is left of a tile policy.
LEMMA TileRemaining ==
  Running \in TilePolicies =>
    /\ pc # "build" => Remaining = Unpassed(column, row)
    /\ pc = "build" => Remaining = Unpassed(column, starting_row)
  BY DEF Remaining, Sliding!Remaining, Unpassed, Sliding!EdgesOf, EdgesOf, Sliding!Outputs,
         Outputs

\* And what is left after the step.
LEMMA TileRemainingNext ==
  (Running \in TilePolicies =>
    /\ pc # "build" => Remaining = Unpassed(column, row)
    /\ pc = "build" => Remaining = Unpassed(column, starting_row))'
  BY TileRemaining, PTL

\* An edge of the graph.
LEMMA GraphEdge ==
  ASSUME SetupInv, NEW e \in EdgesOf(array)
  PROVE  /\ e[2] \in Outputs /\ e[1] \in array[e[2]] /\ e[1] \in Nat /\ e[2] \in Nat
         /\ e = <<e[1], e[2]>>
<1>1. PICK o \in DOMAIN array : \E x \in array[o] : e = <<x, o>>
  BY EdgesOfMembers
<1> QED
  BY <1>1 DEF SetupInv, Outputs

\* Rows without an edge leave nothing behind.
LEMMA PassedRow ==
  ASSUME SetupInv, row \in Nat, \A o \in Tile : row \notin array[o]
  PROVE  Unpassed(column, row + 1) = Unpassed(column, row)
<1>1. ASSUME NEW e \in EdgesOf(array), e[2] \in Tile
      PROVE  e[1] >= row + 1 <=> e[1] >= row
  <2>1. e[1] \in Nat /\ e[1] # row
    BY <1>1, GraphEdge
  <2> QED
    BY <2>1
<1> QED
  BY <1>1 DEF Unpassed, Tile

\* After the last row only the columns behind are left.
LEMMA TurnedColumn ==
  ASSUME SetupInv, column \in Nat
  PROVE  Unpassed(column + 1, 0) = Unpassed(column, NumOutputs)
<1> DEFINE near == (column + 1) * conf.max_output_num
           far == (column + 1 + 1) * conf.max_output_num
<1>1. conf.max_output_num \in Nat \ {0} /\ NumOutputs \in Nat /\ Outputs = 0 .. NumOutputs - 1
  BY DEF SetupInv, Config
<1>2. near \in Nat /\ far \in Nat /\ near <= far
  BY <1>1
<1>3. \A o \in Outputs : o \in Sliding!Column(column + 1) <=> near <= o /\ o < far
  BY ColumnOutputs
<1> HIDE DEF near, far
<1>4. ASSUME NEW e \in EdgesOf(array)
      PROVE  (\/ e[1] \notin Outputs
              \/ e[2] >= far
              \/ e[2] \in Sliding!Column(column + 1) /\ e[1] >= 0)
             <=> (\/ e[1] \notin Outputs
                  \/ e[2] >= near
                  \/ e[2] \in Sliding!Column(column) /\ e[1] >= NumOutputs)
  <2>1. e[2] \in Outputs /\ e[1] \in Nat /\ e[2] \in Nat
    BY GraphEdge
  <2>2. e[2] \in Sliding!Column(column + 1) <=> near <= e[2] /\ e[2] < far
    BY <1>3, <2>1
  <2>3. e[1] >= NumOutputs => e[1] \notin Outputs
    BY <1>1, <2>1
  <2> QED
    BY <1>2, <2>1, <2>2, <2>3
<1> QED
  BY <1>4 DEF Unpassed, near, far

\* The rows of the window are those that leave.
LEMMA ClosedRows ==
  ASSUME SetupInv, TileInv, pc = "build",
         NEW inputs, window.inputs \subseteq inputs,
         inputs \subseteq starting_row .. row - 1
  PROVE  /\ Unpassed(column, starting_row) \cap (inputs \X Tile) = window.all_edges
         /\ Unpassed(column, row) = Unpassed(column, starting_row) \ window.all_edges
<1>1. TileWindow /\ column \in Nat /\ row \in 0 .. NumOutputs
  BY DEF TileInv
<1>2. starting_row \in Nat /\ row \in Nat /\ Outputs = 0 .. NumOutputs - 1 /\ NumOutputs \in Nat
      /\ starting_row <= row
  BY <1>1 DEF SetupInv, TileWindow
<1>3. \A o \in Outputs : o \in Tile => o < (column + 1) * conf.max_output_num
  BY <1>1, ColumnOutputs DEF Tile
<1>4. Tile \subseteq Outputs
  BY <1>1, ColumnOutputs DEF Tile
<1>5. ASSUME NEW e \in EdgesOf(array)
      PROVE  e \in window.all_edges
               <=> e[2] \in Tile /\ e[1] >= starting_row /\ e[1] < row
  <2>1. e[1] \in array[e[2]] /\ e[1] \in Nat /\ e = <<e[1], e[2]>>
    BY GraphEdge
  <2>2. e \in window.all_edges <=> e[1] \in starting_row .. row - 1 /\ e[2] \in Tile
    BY <1>1, <2>1 DEF TileWindow, RowEdges
  <2> QED
    BY <1>2, <2>1, <2>2
<1>6. window.all_edges \subseteq EdgesOf(array)
  <2> SUFFICES ASSUME NEW e \in window.all_edges PROVE e \in EdgesOf(array)
    OBVIOUS
  <2>1. e = <<e[1], e[2]>> /\ e[2] \in Tile /\ e[1] \in array[e[2]]
    BY <1>1 DEF TileWindow, RowEdges
  <2> QED
    BY <1>4, <2>1, EdgesOfMembers DEF Outputs
<1>7. window.all_edges \subseteq window.inputs \X Tile
  BY <1>1 DEF TileWindow, RowEdges, EdgeRows
<1>8. ASSUME NEW e \in Unpassed(column, starting_row), e \in inputs \X Tile
      PROVE  e \in window.all_edges
  <2>1. e[1] \in starting_row .. row - 1 /\ e[2] \in Tile /\ e \in EdgesOf(array)
    BY <1>8 DEF Unpassed
  <2> QED
    BY <1>2, <1>5, <2>1
<1>9. window.all_edges \subseteq Unpassed(column, starting_row)
  BY <1>5, <1>6 DEF Unpassed, Tile
<1>10. ASSUME NEW e \in EdgesOf(array)
       PROVE  e \in Unpassed(column, row)
                <=> e \in Unpassed(column, starting_row) /\ e \notin window.all_edges
  <2>1. e[2] \in Outputs /\ e[1] \in Nat /\ e[2] \in Nat
    BY GraphEdge
  <2>2. e \in window.all_edges <=> e[2] \in Tile /\ e[1] >= starting_row /\ e[1] < row
    BY <1>5
  <2>3. CASE e[2] \in Tile /\ e[1] >= starting_row /\ e[1] < row
    <3>1. e[1] \in Outputs
      BY <1>1, <1>2, <2>1, <2>3
    <3>2. ~(e[2] >= (column + 1) * conf.max_output_num)
      <4>1. (column + 1) * conf.max_output_num \in Nat
        BY <1>1 DEF SetupInv, Config
      <4> QED
        BY <1>3, <2>1, <2>3, <4>1
    <3>3. ~(e[1] >= row)
      BY <1>2, <2>1, <2>3
    <3> QED
      BY <2>2, <2>3, <3>1, <3>2, <3>3 DEF Unpassed, Tile
  <2>4. CASE ~(e[2] \in Tile /\ e[1] >= starting_row /\ e[1] < row)
    <3>1. e[2] \in Tile => (e[1] >= row <=> e[1] >= starting_row)
      BY <1>2, <2>1, <2>4
    <3> QED
      BY <2>2, <2>4, <3>1 DEF Unpassed, Tile
  <2> QED
    BY <2>3, <2>4
<1>11. Unpassed(column, row) \subseteq EdgesOf(array)
       /\ Unpassed(column, starting_row) \subseteq EdgesOf(array)
  BY DEF Unpassed
<1> QED
  BY <1>7, <1>8, <1>9, <1>10, <1>11

\* A window that is appended has passed a row.
LEMMA ClosedWindow ==
  ASSUME SetupInv, TileInv, CloseTile, Running \in TilePolicies
  PROVE  /\ last_existing \in window.inputs
         /\ \A j \in window.inputs : j <= last_existing
         /\ starting_row \in window.inputs
         /\ last_existing \in starting_row .. row - 1
         /\ starting_row \in Nat /\ row \in Nat
<1>1. TileWindow /\ row \in 0 .. NumOutputs /\ NumOutputs \in Nat
      /\ Outputs = 0 .. NumOutputs - 1 /\ conf.max_input_num \in Nat \ {0}
  BY DEF TileInv, CloseTile, SetupInv, Config
<1>2. starting_row \in Nat /\ starting_row < NumOutputs /\ starting_row <= row /\ row \in Nat
  BY <1>1 DEF TileWindow
<1>3. row > starting_row
  <2>1. CASE row = NumOutputs
    BY <1>2, <2>1
  <2>2. CASE row # NumOutputs /\ row = starting_row
    <3>1. window.input_num >= conf.max_input_num
      BY <2>2 DEF CloseTile
    <3>2. window.inputs = {}
      BY <1>1, <1>2, <2>2, RowsBefore DEF TileWindow
    <3>3. Cardinality(window.inputs) = 0
      BY <3>2, FS_EmptySet
    <3>4. row - starting_row = 0
      BY <1>2, <2>2
    <3>5. window.input_num = 0
      BY <1>1, <3>3, <3>4 DEF TileWindow, TilePolicies
    <3> QED
      BY <1>1, <3>1, <3>5
  <2> QED
    BY <1>2, <2>1, <2>2
<1>4. last_existing \in window.inputs /\ \A j \in window.inputs : j <= last_existing
  BY <1>1, <1>3 DEF TileWindow
<1>5. window.inputs \subseteq starting_row .. row - 1
  BY <1>1, <1>2, RowsBefore DEF TileWindow
<1>6. starting_row \in window.inputs
  <2>1. starting_row \in starting_row .. row - 1
    BY <1>2, <1>3
  <2> QED
    BY <1>1, <2>1 DEF TileWindow, EdgeRows
<1> QED
  BY <1>2, <1>4, <1>5, <1>6

\* The window of a tile is a window of the plan.
LEMMA CloseTilePlans ==
  ASSUME SetupInv, TileInv, CloseTile, Running \in TilePolicies, UNCHANGED Running
  PROVE  Plan!PlanWindow
<1>1. TileWindow /\ column \in Nat /\ column < Sliding!TotalCols
      /\ pc = "build" /\ pc' = "skip"
  BY DEF TileInv, CloseTile
<1>2. /\ last_existing \in window.inputs
      /\ \A j \in window.inputs : j <= last_existing
      /\ starting_row \in window.inputs
      /\ last_existing \in starting_row .. row - 1
      /\ starting_row \in Nat /\ row \in Nat
  BY ClosedWindow
<1>3. window.inputs \subseteq starting_row .. row - 1
  BY <1>1, <1>2, RowsBefore DEF TileWindow
<1> DEFINE rows == starting_row .. last_existing
<1>4. IsFiniteSet(rows) /\ Cardinality(rows) = last_existing - starting_row + 1
  <2>1. starting_row \in Int /\ last_existing \in Int /\ ~(starting_row > last_existing)
    BY <1>2
  <2>2. /\ IsFiniteSet(rows)
        /\ Cardinality(rows) =
             IF starting_row > last_existing THEN 0 ELSE last_existing - starting_row + 1
    BY <2>1, FS_Interval
  <2> QED
    BY <2>1, <2>2
<1>5. window.inputs \subseteq rows /\ rows \subseteq starting_row .. row - 1
  BY <1>2, <1>3
<1>6. IsFiniteSet(window.inputs) /\ Cardinality(window.inputs) \in Nat \ {0}
  <2>1. IsFiniteSet(window.inputs)
    BY <1>4, <1>5, FS_Subset
  <2>2. Cardinality(window.inputs) \in Nat /\ Cardinality(window.inputs) # 0
    BY <1>2, <2>1, FS_CardinalityType, FS_EmptySet
  <2> QED
    BY <2>1, <2>2
<1>7. conf.max_input_num \in Nat /\ window.input_num <= conf.max_input_num
  BY <1>1 DEF SetupInv, Config, TileWindow
<1>8. /\ plan'.outputs = Tile
      /\ plan'.output_num = Cardinality(Tile)
      /\ plan'.all_edges = window.all_edges
      /\ plan'.edges = Cardinality(window.all_edges)
      /\ plan'.input_num = Cardinality(plan'.inputs)
      /\ plan'.input_num \in 1 .. conf.max_input_num
      /\ window.inputs \subseteq plan'.inputs
      /\ plan'.inputs \subseteq starting_row .. row - 1
  <2>1. CASE Running = "dense"
    <3>1. plan' = window
      BY <2>1 DEF CloseTile
    <3>2. window.input_num = Cardinality(window.inputs)
      BY <1>1, <2>1 DEF TileWindow
    <3> QED
      BY <1>1, <1>3, <1>6, <1>7, <3>1, <3>2 DEF TileWindow
  <2>2. CASE Running = "sliding"
    <3>1. plan' = [window EXCEPT !.input_num = last_existing - starting_row + 1,
                                 !.inputs    = starting_row .. last_existing]
      BY <2>2 DEF CloseTile
    <3>2. WindowIsRecord
      BY <1>1 DEF TileWindow
    <3>3. /\ plan'.outputs = window.outputs
          /\ plan'.output_num = window.output_num
          /\ plan'.all_edges = window.all_edges
          /\ plan'.edges = window.edges
          /\ plan'.input_num = last_existing - starting_row + 1
          /\ plan'.inputs = starting_row .. last_existing
      BY <3>1, <3>2, Zenon DEF WindowIsRecord
    <3>4. window.input_num = row - starting_row
      BY <1>1, <2>2 DEF TileWindow
    <3>5. last_existing - starting_row + 1 \in 1 .. conf.max_input_num
      BY <1>2, <1>7, <3>4
    <3>6. /\ plan'.input_num = Cardinality(plan'.inputs)
          /\ plan'.input_num \in 1 .. conf.max_input_num
          /\ window.inputs \subseteq plan'.inputs
          /\ plan'.inputs \subseteq starting_row .. row - 1
      BY <1>4, <1>5, <3>3, <3>5
    <3>7. window.outputs = Tile /\ window.output_num = Cardinality(Tile)
          /\ window.edges = Cardinality(window.all_edges)
      BY <1>1 DEF TileWindow
    <3> QED
      BY <3>3, <3>6, <3>7
  <2> QED
    BY <2>1, <2>2 DEF TilePolicies
<1>9. Cardinality(Tile) \in 1 .. conf.max_output_num
  BY <1>1, ColumnFits DEF Tile
<1>10. Plan!FitsHardware(plan')
  BY <1>8, <1>9 DEF Plan!FitsHardware, Plan!Cardinality, Cardinality
<1>11. /\ Unpassed(column, starting_row) \cap (plan'.inputs \X Tile) = window.all_edges
       /\ Unpassed(column, row) = Unpassed(column, starting_row) \ window.all_edges
  BY <1>1, <1>8, ClosedRows
<1>12. Remaining = Unpassed(column, starting_row)
  BY <1>1, TileRemaining
<1>13. Remaining' = Unpassed(column, row)
  <2>1. Remaining' = Unpassed(column, row)'
    BY <1>1, TileRemainingNext
  <2>2. UNCHANGED <<array, conf, column, row>>
    BY DEF CloseTile
  <2> QED
    BY <2>1, <2>2 DEF Unpassed, EdgesOf, Outputs, Sliding!Column, Sliding!Least,
       Sliding!NumOutputs, Sliding!Outputs
<1>14. plan'.all_edges # {}
  <2>1. PICK o \in Tile : starting_row \in array[o]
    BY <1>1 DEF TileWindow
  <2>2. starting_row \in starting_row .. row - 1
    BY <1>2
  <2>3. <<starting_row, o>> \in RowEdges(starting_row, row - 1)
    BY <2>1, <2>2 DEF RowEdges
  <2> QED
    BY <1>1, <1>8, <2>3 DEF TileWindow
<1>15. UNCHANGED <<array, conf>>
  BY DEF CloseTile
<1> QED
  BY <1>8, <1>10, <1>11, <1>12, <1>13, <1>14, <1>15 DEF Plan!PlanWindow, Plan!graphVars

\* A step of a tile policy is a window of the plan or leaves the plan alone.
LEMMA TileStepPlans ==
  ASSUME SetupInv, TileInv, TileStep
  PROVE  [Plan!Next]_(Plan!vars)
<1>1. UNCHANGED <<array, conf, Running>> /\ Running \in TilePolicies
  BY TileStepLeaves DEF Running
<1>2. column \in Nat /\ row \in Nat /\ NumOutputs \in Nat
  BY DEF TileInv, SetupInv
<1>3. /\ pc' # "build" => Remaining' = Unpassed(column', row')
      /\ pc' = "build" => Remaining' = Unpassed(column', starting_row')
  <2>1. Running' \in TilePolicies
    BY <1>1 DEF TilePolicies
  <2> QED
    BY <1>1, <2>1, TileRemainingNext
       DEF TilePolicies, Unpassed, EdgesOf, Outputs, Sliding!Column, Sliding!Least,
           Sliding!NumOutputs, Sliding!Outputs
<1>4. /\ pc # "build" => Remaining = Unpassed(column, row)
      /\ pc = "build" => Remaining = Unpassed(column, starting_row)
  BY <1>1, TileRemaining
<1>5. CASE PassRow
  <2>1. Unpassed(column, row + 1) = Unpassed(column, row)
    BY <1>2, <1>5, PassedRow DEF PassRow
  <2> QED
    BY <1>3, <1>4, <1>5, <2>1 DEF PassRow, windowVars, Plan!vars
<1>6. CASE TurnColumn
  <2>1. Unpassed(column + 1, 0) = Unpassed(column, NumOutputs)
    BY <1>2, TurnedColumn
  <2> QED
    BY <1>3, <1>4, <1>6, <2>1 DEF TurnColumn, windowVars, Plan!vars
<1>7. CASE BeginTile
  BY <1>3, <1>4, <1>7 DEF BeginTile, Plan!vars
<1>8. CASE AddTileRow
  BY <1>3, <1>4, <1>8 DEF AddTileRow, Plan!vars
<1>9. CASE CloseTile
  BY <1>1, <1>9, CloseTilePlans DEF Plan!Next
<1> QED
  BY <1>5, <1>6, <1>7, <1>8, <1>9, TileSteps

\* When the walk is over no edge between lines of the file is left.
LEMMA TileDone ==
  ASSUME SetupInv, TileInv, Running \in TilePolicies, pc = "done"
  PROVE  Remaining \cap (Outputs \X Outputs) = {}
<1>1. column = Sliding!TotalCols /\ Remaining = Unpassed(column, row) /\ column \in Nat
  BY TileRemaining DEF TileInv
<1> DEFINE low == column * conf.max_output_num
           high == (column + 1) * conf.max_output_num
<1>2. NumOutputs <= low /\ low \in Nat /\ high \in Nat /\ low <= high
  <2>1. conf.max_output_num \in Nat
    BY DEF SetupInv, Config
  <2> QED
    BY <1>1, <2>1, TotalColumns
<1>3. Outputs = 0 .. NumOutputs - 1 /\ NumOutputs \in Nat
  BY DEF SetupInv
<1>4. \A o \in Outputs : o \in Sliding!Column(column) <=> low <= o /\ o < high
  BY <1>1, ColumnOutputs
<1> HIDE DEF low, high
<1>5. \A o \in Outputs : ~(o >= high) /\ o \notin Sliding!Column(column)
  BY <1>2, <1>3, <1>4
<1>6. ASSUME NEW e \in Unpassed(column, row)
      PROVE  e[1] \notin Outputs
  <2>1. e \in EdgesOf(array)
    BY DEF Unpassed
  <2>2. e[2] \in Outputs
    BY <2>1, GraphEdge
  <2> QED
    BY <1>5, <2>2 DEF Unpassed, high
<1> QED
  BY <1>1, <1>6

-----------------------------------------------------------------------------
\* The invariant of setup_window: of the policy that runs, whichever it is.
GraphInv ==
    /\ SetupInv
    /\ PolicyInv
    /\ Running \in QueuePolicies => Builds!BuilderInv
    /\ Running \in TilePolicies => TileInv

\* A policy starts with all edges left.
LEMMA StartRemaining ==
  ASSUME SetupInv, Start
  PROVE  Remaining = EdgesOf(array)
<1>1. CASE Running \in TilePolicies
  <2>1. pc = "skip" /\ column = 0 /\ row = 0
    BY <1>1 DEF Start, FirstLoop, TilePolicies
  <2>2. Remaining = Unpassed(0, 0)
    BY <1>1, <2>1, TileRemaining
  <2>3. conf.max_output_num \in Nat
    BY DEF SetupInv, Config
  <2>4. \A o \in Outputs : o \in Sliding!Column(0)
                             <=> 0 * conf.max_output_num <= o /\ o < (0 + 1) * conf.max_output_num
    BY ColumnOutputs
  <2>5. ASSUME NEW e \in EdgesOf(array)
        PROVE  e \in Unpassed(0, 0)
    <3>1. e[2] \in Outputs /\ e[1] \in Nat /\ e[2] \in Nat
      BY GraphEdge
    <3>2. (0 + 1) * conf.max_output_num \in Nat /\ 0 * conf.max_output_num = 0
      BY <2>3
    <3>3. e[2] >= (0 + 1) * conf.max_output_num \/ e[2] \in Sliding!Column(0)
      BY <2>4, <3>1, <3>2
    <3>4. e[1] >= 0
      BY <3>1
    <3> QED
      BY <3>3, <3>4 DEF Unpassed
  <2> QED
    BY <2>2, <2>5 DEF Unpassed
<1>2. CASE Running \notin TilePolicies
  BY <1>2 DEF Start, Remaining, EmptyWindow
<1> QED
  BY <1>1, <1>2

\* The invariant holds when a policy starts.
LEMMA StartInv ==
  SetupInv /\ Start => GraphInv /\ Remaining = EdgesOf(array)
<1> SUFFICES ASSUME SetupInv, Start
             PROVE  GraphInv /\ Remaining = EdgesOf(array)
  OBVIOUS
<1>1. Running \in TilePolicies => TileInv
  <2> SUFFICES ASSUME Running \in TilePolicies PROVE TileInv
    OBVIOUS
  <2>1. pc = "skip" /\ column = 0 /\ row = 0 /\ window = EmptyWindow
    BY DEF Start, FirstLoop, TilePolicies
  <2> QED
    BY <2>1, TotalColumns DEF TileInv, SetupInv
<1> QED
  BY <1>1, StartHolds, StartRemaining DEF GraphInv

\* The next policy starts as the first did.
LEMMA StartInvNext ==
  (SetupInv /\ Start => GraphInv /\ Remaining = EdgesOf(array))'
  BY StartInv, PTL

\* The graph is one that a file holds, the hardware one of those assumed.
LEMMA InitSetup ==
  ASSUME Init
  PROVE  SetupInv
<1>1. PICK lines \in Files : array = Load(lines)
  BY DEF Init
<1> DEFINE n == IF lines[Len(lines)] = {} THEN Len(lines) - 1 ELSE Len(lines)
<1>2. /\ lines \in Seq(SUBSET Nat) /\ lines # <<>> /\ lines # <<{}>>
      /\ \A k \in DOMAIN lines : IsFiniteSet(lines[k])
  BY FilesAssumption
<1>3. Len(lines) \in Nat /\ Len(lines) # 0
  BY <1>2
<1>4. n \in Nat \ {0} /\ n <= Len(lines)
  <2>1. CASE lines[Len(lines)] = {} /\ Len(lines) = 1
    <3>1. lines = <<{}>>
      BY <1>2, <2>1
    <3> QED
      BY <1>2, <3>1
  <2>2. CASE lines[Len(lines)] # {} \/ Len(lines) # 1
    BY <1>3, <2>2
  <2> QED
    BY <2>1, <2>2
<1>5. array = [k \in 0 .. n - 1 |-> lines[k + 1] \cup {k}]
  BY <1>1 DEF Load
<1> HIDE DEF n
<1>6. Outputs = 0 .. n - 1
  BY <1>5 DEF Outputs
<1>7. NumOutputs = n
  <2>1. 0 \in Int /\ n - 1 \in Int
    BY <1>4
  <2>2. Cardinality(0 .. n - 1) = IF 0 > n - 1 THEN 0 ELSE (n - 1) - 0 + 1
    BY <2>1, FS_Interval
  <2> QED
    BY <1>4, <1>6, <2>2 DEF NumOutputs
<1>8. ASSUME NEW o \in Outputs
      PROVE  o \in array[o] /\ array[o] \subseteq Nat /\ IsFiniteSet(array[o])
  <2>1. o \in 0 .. n - 1 /\ o \in Nat /\ o + 1 \in 1 .. Len(lines)
    BY <1>3, <1>4, <1>6
  <2>2. array[o] = lines[o + 1] \cup {o}
    BY <1>5, <2>1
  <2>3. lines[o + 1] \subseteq Nat /\ IsFiniteSet(lines[o + 1])
    BY <1>2, <2>1
  <2>4. IsFiniteSet({o})
    BY FS_Singleton
  <2>5. IsFiniteSet(lines[o + 1] \cup {o})
    BY <2>3, <2>4, FS_Union
  <2> QED
    BY <2>1, <2>2, <2>3, <2>5
<1>9. /\ conf \in Config
      /\ conf.max_input_num > 0 /\ conf.max_output_num > 0
      /\ conf.divider > 0 /\ conf.max_queue_size > 0
  BY ConfigsAssumption DEF Init
<1>10. order \in {GraphPy, GetGraphPy} /\ policy \in 1 .. Len(order)
  <2>1. order \in {GraphPy, GetGraphPy} /\ policy = 1
    BY VersionsAssumption DEF Init
  <2>2. Len(GraphPy) = 7 /\ Len(GetGraphPy) = 5
    BY DEF GraphPy, GetGraphPy
  <2>3. Len(order) = 7 \/ Len(order) = 5
    BY <2>1, <2>2
  <2>4. policy \in 1 .. Len(order)
    BY <2>1, <2>3
  <2> QED
    BY <2>1, <2>4
<1> QED
  BY <1>4, <1>6, <1>7, <1>8, <1>9, <1>10 DEF SetupInv

\* The policies call each other on the same graph.
LEMMA NextPolicyStarts ==
  ASSUME SetupInv, NextPolicy
  PROVE  SetupInv' /\ Start'
<1>1. policy' \in 1 .. Len(order) /\ UNCHANGED <<array, conf, order>>
  <2>1. Len(GraphPy) = 7 /\ Len(GetGraphPy) = 5
    BY DEF GraphPy, GetGraphPy
  <2> QED
    BY <2>1 DEF NextPolicy, SetupInv, graphVars
<1>2. SetupInv'
  BY <1>1, SetupStays
<1>3. Start'
  <2>1. Running' = order[policy']
    BY <1>1 DEF Running
  <2> QED
    BY <1>1, <2>1 DEF NextPolicy, Start
<1> QED
  BY <1>2, <1>3

\* Nothing changes after the last policy.
LEMMA StopKeeps ==
  ASSUME GraphInv, UNCHANGED vars
  PROVE  /\ GraphInv'
         /\ UNCHANGED <<Running, Remaining, Builder!vars>>
<1>1. /\ UNCHANGED <<order, policy, windows, current, short, long, selected_queue, i,
                     current_output_set, next_select_item, next_waiting_set,
                     column, row, starting_row, last_existing, pc>>
      /\ UNCHANGED <<array, conf, working_set, window, plan>>
  BY DEF vars, windowVars, queueVars, neighborVars, tileVars
<1>2. UNCHANGED <<Running, Outputs, NumOutputs>>
  BY <1>1 DEF Running, Outputs, NumOutputs
<1>3. UNCHANGED <<WorkingOutputs, SelectedOutput, Waiting>>
  BY <1>1, <1>2 DEF WorkingOutputs, SelectedOutput, Waiting, ShortLong!Selected, ShortLong!Queue
<1>4. QueuePhase' = QueuePhase
  BY <1>1, <1>2 DEF QueuePhase, Raised, ShortLong!BuilderPhase, Sequential!BuilderPhase,
     Outer!BuilderPhase
<1>5. UNCHANGED <<Sliding!TotalCols, Tile>>
  BY <1>1 DEF Tile, Sliding!Column, Sliding!Least, Sliding!NumOutputs, Sliding!TotalCols,
     Sliding!Outputs
<1>6. SetupInv'
  BY <1>1, SetupStays DEF GraphInv, SetupInv
<1>7. PolicyInv'
  <2>1. QueuesInv => QueuesInv'
    BY <1>1, <1>2 DEF QueuesInv, ReadQueue
  <2>2. LoopInv => LoopInv'
    BY <1>1, <1>2, <1>3 DEF LoopInv, Served
  <2>3. InputsInv => InputsInv'
    BY <1>1, <1>2, <1>3 DEF InputsInv
  <2>4. TouchedInv => TouchedInv'
    BY <1>1, <1>2 DEF TouchedInv
  <2> QED
    BY <1>2, <2>1, <2>2, <2>3, <2>4 DEF PolicyInv, GraphInv
<1>8. UNCHANGED Builder!vars /\ UNCHANGED Builds!vars
  BY <1>1, <1>3, <1>4 DEF Builder!vars, Builder!windowVars, Builds!vars, Builds!windowVars
<1>9. (Running \in QueuePolicies => Builds!BuilderInv)'
  BY <1>2, <1>8, SetupIsValid, Builds!BuilderInvStep DEF GraphInv
<1>10. (Running \in TilePolicies => TileInv)'
  <2>1. TileWindow => TileWindow'
    BY <1>1, <1>2, <1>5 DEF TileWindow, WindowIsRecord, EdgeRows, RowEdges
  <2> QED
    BY <1>1, <1>2, <1>5, <2>1 DEF GraphInv, TileInv, EmptyWindow
<1>11. Remaining' = Remaining
  BY <1>1, <1>2 DEF Remaining, Sliding!Remaining, EdgesOf, Sliding!EdgesOf, Sliding!Outputs,
     Sliding!Column, Sliding!Least, Sliding!NumOutputs
<1> QED
  BY <1>2, <1>6, <1>7, <1>8, <1>9, <1>10, <1>11 DEF GraphInv

\* The plan of the common algorithm is the plan of setup_window.
LEMMA BuilderPlan ==
  ASSUME Running \notin TilePolicies, UNCHANGED Running,
         [Builds!Plan!Next]_(Builds!Plan!vars)
  PROVE  [Plan!Next]_(Plan!vars)
<1>1. /\ Remaining = EdgesOf(working_set) \cup window.all_edges
      /\ Remaining' = EdgesOf(working_set') \cup window'.all_edges
  BY DEF Remaining
<1>2. /\ Builds!Remaining = Remaining
      /\ Builds!Remaining' = Remaining'
  BY <1>1 DEF Builds!Remaining, Builds!EdgesOf, EdgesOf
<1>3. \A S : Builds!Plan!Cardinality(S) = Plan!Cardinality(S)
  BY DEF Builds!Plan!Cardinality, Plan!Cardinality
<1>4. CASE UNCHANGED Builds!Plan!vars
  BY <1>2, <1>4 DEF Builds!Plan!vars, Plan!vars
<1>5. CASE Builds!Plan!PlanWindow
  <2>1. Plan!PlanWindow
    BY <1>2, <1>3, <1>5 DEF Builds!Plan!PlanWindow, Plan!PlanWindow, Builds!Plan!FitsHardware,
       Plan!FitsHardware, Builds!Plan!graphVars, Plan!graphVars
  <2> QED
    BY <2>1 DEF Plan!Next
<1>6. CASE Builds!Plan!NextPolicy
  <2>1. Plan!NextPolicy
    BY <1>2, <1>6 DEF Builds!Plan!NextPolicy, Plan!NextPolicy, Builds!Plan!graphVars,
       Plan!graphVars, Builds!Plan!EmptyWindow, Plan!EmptyWindow, Builds!Plan!EdgesOf,
       Plan!EdgesOf, Builds!Plan!Outputs, Plan!Outputs
  <2> QED
    BY <2>1 DEF Plan!Next
<1> QED
  BY <1>4, <1>5, <1>6 DEF Builds!Plan!Next

\* What a step of the policy that runs keeps, and what it is to the common
\* algorithm and to the plan.
LEMMA PolicyStepKeeps ==
  ASSUME GraphInv, PolicyStep
  PROVE  /\ GraphInv'
         /\ UNCHANGED <<order, policy>>
         /\ Running \notin TilePolicies => Builder!Next \/ UNCHANGED Builder!vars
         /\ [Plan!Next]_(Plan!vars)
<1>0. SetupInv /\ PolicyInv
  BY DEF GraphInv
<1>1. CASE TileStep
  <2>1. /\ Running \in TilePolicies
        /\ UNCHANGED <<order, policy, array, conf>>
    BY <1>1, TileStepLeaves
  <2>2. Running' = Running /\ SetupInv'
    BY <1>0, <2>1, SetupStays DEF Running, SetupInv
  <2>3. TileInv' /\ [Plan!Next]_(Plan!vars)
    BY <1>0, <1>1, <2>1, TileStepKeepsInv, TileStepPlans DEF GraphInv
  <2>4. Running' \notin QueuePolicies
    BY <2>1, <2>2 DEF TilePolicies, QueuePolicies, DequePolicies, SplitPolicies
  <2> QED
    BY <2>1, <2>2, <2>3, <2>4 DEF GraphInv, PolicyInv
<1>2. CASE QueuePolicyStep
  <2>1. /\ QueueStep /\ Running \in QueuePolicies
        /\ UNCHANGED <<order, policy, array, conf>>
    BY <1>0, <1>2, QueuePolicySteps, QueueStepGraph
  <2>2. Running' = Running /\ SetupInv'
    BY <1>0, <2>1, SetupStays DEF Running, SetupInv
  <2>3. Builds!BuilderInv
    BY <2>1 DEF GraphInv
  <2>4. /\ PolicyInv' /\ Builds!BuilderInv'
        /\ Builder!Next \/ UNCHANGED Builder!vars
        /\ [Builds!Plan!Next]_(Builds!Plan!vars)
    BY <1>0, <2>1, <2>3, QueueStepKeeps
  <2>5. Running \notin TilePolicies
    BY <2>1 DEF TilePolicies, QueuePolicies, DequePolicies, SplitPolicies
  <2>6. [Plan!Next]_(Plan!vars)
    BY <2>2, <2>4, <2>5, BuilderPlan
  <2> QED
    BY <2>1, <2>2, <2>4, <2>5, <2>6 DEF GraphInv
<1> QED
  BY <1>1, <1>2 DEF PolicyStep, QueuePolicyStep

\* What a policy that is over has left.
LEMMA PolicyOver ==
  ASSUME GraphInv
  PROVE  EveryEdgeScheduled
<1> SUFFICES ASSUME pc = "done" PROVE /\ Remaining \cap (Outputs \X Outputs) = {}
                                      /\ Running \notin TilePolicies => Remaining = {}
  BY DEF EveryEdgeScheduled
<1>0. SetupInv /\ PolicyInv
  BY DEF GraphInv
<1>1. CASE Running \in TilePolicies
  BY <1>0, <1>1, TileDone DEF GraphInv
<1>2. CASE Running \notin TilePolicies
  <2>1. Running \in QueuePolicies
    BY <1>0, <1>2, RunningPolicy
  <2>2. Builds!BuilderInv /\ LoopInv
    BY <2>1 DEF GraphInv, PolicyInv
  <2>3. QueuePhase = "done"
    BY <2>1, <2>2, Phases
  <2>4. window = EmptyWindow /\ Waiting = {} /\ WorkingOutputs = {}
    BY <2>2, <2>3 DEF Builds!BuilderInv, Builds!EmptyWindow, EmptyWindow
  <2>5. DOMAIN working_set = Outputs /\ \A o \in Outputs : working_set[o] = {}
    BY <2>2, <2>4 DEF Builds!BuilderInv, Builds!QueuesOK, Builds!Outputs, Outputs
  <2>6. EdgesOf(working_set) = {}
    BY <2>5 DEF EdgesOf
  <2>7. window.all_edges = {}
    BY <2>4 DEF EmptyWindow
  <2> QED
    BY <1>2, <2>6, <2>7 DEF Remaining
<1> QED
  BY <1>1, <1>2

\* Each step of setup_window keeps the invariant and is a step of the plan.
LEMMA GraphStep ==
  ASSUME GraphInv, [Next]_vars
  PROVE  /\ GraphInv'
         /\ UNCHANGED policy /\ Running \notin TilePolicies
              => Builder!Next \/ UNCHANGED Builder!vars
         /\ [Plan!Next]_(Plan!vars)
<1>1. CASE PolicyStep
  BY <1>1, PolicyStepKeeps
<1>2. CASE NextPolicy
  <2>1. SetupInv' /\ Start'
    BY <1>2, NextPolicyStarts DEF GraphInv
  <2>2. GraphInv' /\ Remaining' = EdgesOf(array)'
    BY <2>1, StartInvNext
  <2>3. pc = "done" /\ plan' = EmptyWindow /\ UNCHANGED <<array, conf>> /\ policy' = policy + 1
        /\ policy \in Nat
    BY <1>2 DEF NextPolicy, graphVars, GraphInv, SetupInv
  <2>4. Remaining \cap (Outputs \X Outputs) = {}
    BY <2>3, PolicyOver DEF EveryEdgeScheduled
  <2>5. Remaining' = Plan!EdgesOf(array)
    BY <2>2, <2>3 DEF EdgesOf, Plan!EdgesOf
  <2>6. Plan!NextPolicy
    BY <2>3, <2>4, <2>5 DEF Plan!NextPolicy, Plan!Outputs, Outputs, Plan!EmptyWindow,
       EmptyWindow, Plan!graphVars
  <2> QED
    BY <2>2, <2>3, <2>6 DEF Plan!Next
<1>3. CASE UNCHANGED vars
  <2>1. GraphInv' /\ UNCHANGED <<Remaining, Builder!vars>>
    BY <1>3, StopKeeps
  <2>2. UNCHANGED Plan!vars
    BY <1>3, <2>1 DEF vars, windowVars, Plan!vars
  <2> QED
    BY <2>1, <2>2
<1> QED
  BY <1>1, <1>2, <1>3 DEF Next, Stop

-----------------------------------------------------------------------------
\* The invariant of setup_window, whatever the graph, the hardware and the
\* version of the file.
THEOREM GraphInvariant == Spec => []GraphInv
<1>1. Init => GraphInv
  BY InitSetup, StartInv DEF Init
<1> QED
  BY <1>1, GraphStep, PTL DEF Spec

\* The policies of graph.py never pop an input of an output that has none left
\* (graph.py, the loops `while len(self.working_set[...]) == 0').
THEOREM PopsAreSafe == Spec => []GraphPyPopsNonEmpty
<1>1. GraphInv => GraphPyPopsNonEmpty
  <2> SUFFICES ASSUME GraphInv, order = GraphPy PROVE PopsNonEmpty
    BY DEF GraphPyPopsNonEmpty
  <2>0. SetupInv /\ PolicyInv
    BY DEF GraphInv
  <2>1. CASE Running \in TilePolicies
    BY <2>1 DEF GraphInv, TileInv, PopsNonEmpty
  <2>2. CASE Running \notin TilePolicies
    <3>1. Running \in QueuePolicies
      BY <2>0, <2>2, RunningPolicy
    <3>2. QueuesInv /\ LoopInv /\ InputsInv
      BY <2>0, <3>1 DEF PolicyInv
    <3>3. pc # "KeyError"
      BY <3>2 DEF LoopInv
    <3>4. pc = "take" => SelectedOutput \in WorkingOutputs
      BY <3>1, <3>2, SelectedServed DEF LoopInv
    <3>5. pc = "take" => working_set[SelectedOutput] # {}
      BY <3>2 DEF InputsInv
    <3> QED
      BY <3>3, <3>4, <3>5 DEF PopsNonEmpty
  <2> QED
    BY <2>1, <2>2
<1> QED
  BY <1>1, GraphInvariant, PTL

\* The neighbor policy removes an output that is there: those that shared an
\* input, and the selected one, wait in the working set (graph.py,
\* current_output_set.remove).
THEOREM TouchedOutputsWait == Spec => []WaitingInWorkingSet
<1>1. GraphInv => WaitingInWorkingSet
  <2> SUFFICES ASSUME GraphInv, Running = "neighbor", pc \in {"take", "drop"}
               PROVE  /\ next_select_item \in current_output_set
                      /\ DOMAIN next_waiting_set \subseteq current_output_set \ {next_select_item}
    BY DEF WaitingInWorkingSet
  <2>1. LoopInv /\ TouchedInv
    BY DEF GraphInv, PolicyInv, QueuePolicies
  <2> QED
    BY <2>1 DEF LoopInv, Served, TouchedInv
<1> QED
  BY <1>1, GraphInvariant, PTL

\* Every policy that ends has scheduled every edge that it can reach, however
\* its queues were filled (graph.py, the conditions of the outer loops).
THEOREM PoliciesScheduleEverything == Spec => []EveryEdgeScheduled
<1>1. GraphInv => EveryEdgeScheduled
  BY PolicyOver
<1> QED
  BY <1>1, GraphInvariant, PTL

\* The eight queue policies of the two files are one algorithm: each step of
\* each is a step of WindowBuilder.
THEOREM PoliciesAreBuilders == Spec => BuilderSteps
<1>1. GraphInv /\ [Next]_vars
        => [UNCHANGED policy /\ Running \notin TilePolicies
              => Builder!Next \/ UNCHANGED Builder!vars]_vars
  BY GraphStep
<1> QED
  BY <1>1, GraphInvariant, PTL DEF Spec, BuilderSteps

\* All policies of both files, called one after the other by setup_window, cut
\* the graph into windows that fit the hardware, each with every edge left
\* between its inputs and outputs, and end with no edge left.
THEOREM SetupImplementsPlan == Spec => PlanSpec
<1>1. Init => Plan!Init
  <2> SUFFICES ASSUME Init PROVE Plan!Init
    OBVIOUS
  <2>1. SetupInv /\ Start
    BY InitSetup DEF Init
  <2>2. Remaining = EdgesOf(array)
    BY <2>1, StartInv
  <2> QED
    BY <2>1, <2>2 DEF Plan!Init, Start, Plan!EdgesOf, EdgesOf, Plan!EmptyWindow, EmptyWindow
<1>2. GraphInv /\ [Next]_vars => [Plan!Next]_(Plan!vars)
  BY GraphStep
<1> QED
  BY <1>1, <1>2, GraphInvariant, PTL DEF Spec, PlanSpec, Plan!Spec

-----------------------------------------------------------------------------
\* A slot counts an input once, twice or not at all.
LEMMA HitsNumber == \A x, h : Bloom!Hits(x, h) \in Nat
<1> SUFFICES ASSUME NEW x, NEW h PROVE Bloom!Hits(x, h) \in Nat
  OBVIOUS
<1> DEFINE hashes == {k \in {1, 2} : (IF k = 1 THEN Bloom!Hash1(x) ELSE Bloom!Hash2(x)) = h}
<1>1. IsFiniteSet({1, 2})
  <2>1. IsFiniteSet(1 .. 2)
    <3>1. 1 \in Int /\ 2 \in Int
      OBVIOUS
    <3> QED
      BY <3>1, FS_Interval, Zenon
  <2>2. 1 .. 2 = {1, 2}
    OBVIOUS
  <2> QED
    BY <2>1, <2>2
<1>2. IsFiniteSet(hashes)
  BY <1>1, FS_Subset
<1> QED
  BY <1>2, FS_CardinalityType DEF Bloom!Hits, Bloom!Cardinality, Cardinality

\* MapThenSumSet computes the total of the hits.
LEMMA HitsTotal ==
  ASSUME NEW S, IsFiniteSet(S), NEW h
  PROVE  HitsOf(S, h) = Total(S, [x \in S |-> Bloom!Hits(x, h)])
<1> DEFINE weight == [x \in S |-> Bloom!Hits(x, h)]
<1>1. \A x \in S : weight[x] \in Nat
  BY HitsNumber
<1>2. \E iter : Sums(iter, S, weight)
  <2> HIDE DEF weight
  <2> QED
    BY <1>1, TotalsSum
<1>3. \A s \in SUBSET S : s # {} => weight[CHOOSE x \in s : TRUE] = Bloom!Hits(CHOOSE x \in s : TRUE, h)
  OBVIOUS
<1> HIDE DEF weight
<1>4. ASSUME NEW iter
      PROVE  Sums(iter, S, weight) <=>
               iter = [s \in SUBSET S |->
                         IF s = {} THEN 0
                         ELSE Bloom!Hits(CHOOSE x \in s : TRUE, h) + iter[s \ {CHOOSE x \in s : TRUE}]]
  BY <1>3 DEF Sums
<1>5. \E iter : iter = [s \in SUBSET S |->
                         IF s = {} THEN 0
                         ELSE Bloom!Hits(CHOOSE x \in s : TRUE, h) + iter[s \ {CHOOSE x \in s : TRUE}]]
  <2>1. PICK iter : Sums(iter, S, weight)
    BY <1>2
  <2>2. iter = [s \in SUBSET S |->
                  IF s = {} THEN 0
                  ELSE Bloom!Hits(CHOOSE x \in s : TRUE, h) + iter[s \ {CHOOSE x \in s : TRUE}]]
    BY <1>4, <2>1
  <2> QED
    BY <2>2
<1>6. \E iter :
        /\ iter = [s \in SUBSET S |->
                         IF s = {} THEN 0
                         ELSE Bloom!Hits(CHOOSE x \in s : TRUE, h) + iter[s \ {CHOOSE x \in s : TRUE}]]
        /\ HitsOf(S, h) = iter[S]
  BY <1>5 DEF HitsOf, Bloom!MapThenSumSet, Bloom!MapThenFoldSet
<1>7. PICK iter : /\ Sums(iter, S, weight)
                  /\ HitsOf(S, h) = iter[S]
  BY <1>4, <1>6
<1>8. iter[S] = Total(S, weight)
  BY <1>1, <1>7, SumsAreTotals
<1> QED
  BY <1>7, <1>8 DEF weight

\* What the filter must hold is the total over the outputs read.
LEMMA NeededTotal ==
  ASSUME NEW sets, NEW h, i \in Nat,
         \A o \in 0 .. i - 1 : HitsOf(sets[o], h) \in Nat
  PROVE  Needed(sets, h) = Total(0 .. i - 1, [o \in 0 .. i - 1 |-> HitsOf(sets[o], h)])
<1> DEFINE S == 0 .. i - 1
           weight == [o \in S |-> HitsOf(sets[o], h)]
<1>0. IsFiniteSet(S)
  BY FS_Interval
<1>1. \A o \in S : weight[o] \in Nat
  OBVIOUS
<1>2. \A s \in SUBSET S : s # {} =>
        weight[CHOOSE o \in s : TRUE] = HitsOf(sets[CHOOSE o \in s : TRUE], h)
  OBVIOUS
<1>3. Needed(sets, h) = Bloom!MapThenSumSet(LAMBDA o : HitsOf(sets[o], h), S)
  BY Zenon DEF Needed
<1> HIDE DEF weight, S
<1>4. PICK iter : Sums(iter, S, weight)
  BY <1>0, <1>1, TotalsSum
<1>5. iter = [s \in SUBSET S |->
                IF s = {} THEN 0
                ELSE HitsOf(sets[CHOOSE o \in s : TRUE], h) + iter[s \ {CHOOSE o \in s : TRUE}]]
  BY <1>2, <1>4 DEF Sums
<1>6. \E it :
        /\ it = [s \in SUBSET S |->
                   IF s = {} THEN 0
                   ELSE HitsOf(sets[CHOOSE o \in s : TRUE], h) + it[s \ {CHOOSE o \in s : TRUE}]]
        /\ Needed(sets, h) = it[S]
  BY <1>3, <1>5 DEF Bloom!MapThenSumSet, Bloom!MapThenFoldSet
<1>7. PICK it : /\ it = [s \in SUBSET S |->
                   IF s = {} THEN 0
                   ELSE HitsOf(sets[CHOOSE o \in s : TRUE], h) + it[s \ {CHOOSE o \in s : TRUE}]]
                /\ Needed(sets, h) = it[S]
  BY <1>6
<1>8. Sums(it, S, weight)
  BY <1>2, <1>7 DEF Sums
<1>9. it[S] = Total(S, weight)
  BY <1>0, <1>1, <1>8, SumsAreTotals
<1> QED
  BY <1>7, <1>9 DEF weight, S

-----------------------------------------------------------------------------
\* An output that is read enters the filter.
FilterInsert ==
    /\ i < NumOutputs
    /\ i' = i + 1
    /\ divider' = Bloom!NewDivider
    /\ counters' = [h \in DOMAIN counters |-> counters[h] + HitsOf(array[i], h)]
    /\ UNCHANGED <<array, working_set, zero_deleted>>

\* What the outputs that share the input leave in slot h.
Left(x, times, h) == counters[h] - times * Bloom!Hits(x, h)

\* An input that is popped leaves the filter.
FilterDelete ==
    /\ pc = "take"
    /\ \E x \in working_set[SelectedOutput] :
          LET times == Cardinality(Sharing(x, SelectedOutput, WorkingOutputs))
          IN  /\ Take(x, SelectedOutput, WorkingOutputs)
              /\ counters' = [h \in DOMAIN counters |->
                                IF Left(x, times, h) > 0 THEN Left(x, times, h) ELSE 0]
              /\ zero_deleted' = (zero_deleted \/ \E h \in DOMAIN counters :
                                                    counters[h] < times * Bloom!Hits(x, h))
    /\ UNCHANGED <<array, i, divider>>

FilterStays == UNCHANGED <<array, i, working_set, counters, zero_deleted, divider>>

\* The neighbor policy has the filter of the bloom policy.
LEMMA SameFilter ==
  /\ \A h, x : Neighbor!Bloom!Hits(x, h) = Bloom!Hits(x, h)
  /\ Neighbor!Bloom!Slots = DOMAIN counters
  /\ Bloom!Slots = DOMAIN counters
  BY DEF Neighbor!Bloom!Hits, Bloom!Hits, Neighbor!Bloom!Hash1, Bloom!Hash1,
         Neighbor!Bloom!Hash2, Bloom!Hash2, Neighbor!Bloom!Slots, Bloom!Slots,
         Neighbor!Bloom!Cardinality, Bloom!Cardinality

\* Both insert the inputs of an output.
LEMMA Inserts ==
  ASSUME NEW inputs, Bloom!Insert(inputs) \/ Neighbor!Bloom!Insert(inputs)
  PROVE  counters' = [h \in DOMAIN counters |-> counters[h] + HitsOf(inputs, h)]
<1>1. CASE Bloom!Insert(inputs)
  BY <1>1, Zenon DEF Bloom!Insert, HitsOf, Bloom!Slots
<1>2. CASE Neighbor!Bloom!Insert(inputs)
  <2>1. \A h : Neighbor!Bloom!MapThenSumSet(LAMBDA x : Neighbor!Bloom!Hits(x, h), inputs)
                 = HitsOf(inputs, h)
    BY SMT DEF HitsOf, Neighbor!Bloom!MapThenSumSet, Bloom!MapThenSumSet,
         Neighbor!Bloom!MapThenFoldSet, Bloom!MapThenFoldSet,
         Neighbor!Bloom!Hits, Bloom!Hits, Neighbor!Bloom!Hash1, Bloom!Hash1,
         Neighbor!Bloom!Hash2, Bloom!Hash2, Neighbor!Bloom!Slots, Bloom!Slots,
         Neighbor!Bloom!Cardinality, Bloom!Cardinality
  <2>2. counters' = [h \in DOMAIN counters |-> counters[h]
             + Neighbor!Bloom!MapThenSumSet(LAMBDA x : Neighbor!Bloom!Hits(x, h), inputs)]
    BY <1>2, Zenon DEF Neighbor!Bloom!Insert, Neighbor!Bloom!Slots
  <2> QED
    BY <2>1, <2>2, Zenon
<1> QED
  BY <1>1, <1>2

-----------------------------------------------------------------------------
\* The bloom policy uses the filter in these ways.
LEMMA BloomFilters ==
  ASSUME SetupInv, PolicyInv, BloomStep
  PROVE  FilterInsert \/ FilterDelete \/ FilterStays
<1>1. Running = "bloom" /\ Bloom!BloomNext
  BY DEF BloomStep, Runs
<1>2. WorkingOutputs = Members(current) /\ SelectedOutput = Head(current)
  BY <1>1, DequeQueues DEF DequePolicies
<1>3. CASE Bloom!EnqueueScored
  <2>1. Bloom!NumOutputs = NumOutputs
    BY DEF Bloom!NumOutputs, NumOutputs, Bloom!Outputs, Outputs, Bloom!Cardinality, Cardinality
  <2>2. /\ i < NumOutputs /\ i' = i + 1
        /\ divider' = Bloom!NewDivider
        /\ Bloom!Insert(array[i])
        /\ UNCHANGED <<array, working_set, zero_deleted>>
    BY <1>3, <2>1 DEF Bloom!EnqueueScored, Bloom!windowVars
  <2>3. counters' = [h \in DOMAIN counters |-> counters[h] + HitsOf(array[i], h)]
    BY <2>2, Inserts
  <2> QED
    BY <2>2, <2>3 DEF FilterInsert
<1>4. CASE Bloom!TakeScored
  <2>1. pc = "take" /\ UNCHANGED divider
    BY <1>4 DEF Bloom!TakeScored
  <2>2. PICK x \in working_set[Bloom!Selected] :
           /\ Bloom!PopInput(x)
           /\ Bloom!Delete(x, Bloom!Cardinality(Bloom!Sharing(x, Bloom!Selected, Bloom!Members(current))))
    BY <1>4 DEF Bloom!TakeScored
  <2>3. Bloom!Selected = SelectedOutput /\ Bloom!Members(current) = WorkingOutputs
    BY <1>2 DEF Bloom!Selected, Bloom!Members, Members
  <2>4. x \in working_set[SelectedOutput] /\ Take(x, SelectedOutput, WorkingOutputs)
    BY <2>2, <2>3, BloomTakes, <1>2
  <2>5. UNCHANGED <<array, i>>
    BY <2>2 DEF Bloom!PopInput, Bloom!graphVars
  <2> DEFINE times == Cardinality(Sharing(x, SelectedOutput, WorkingOutputs))
  <2>6. Bloom!Delete(x, times)
    <3>1. Bloom!Sharing(x, SelectedOutput, WorkingOutputs) = Sharing(x, SelectedOutput, WorkingOutputs)
      BY DEF Bloom!Sharing, Sharing
    <3>2. \A S : Bloom!Cardinality(S) = Cardinality(S)
      BY DEF Bloom!Cardinality, Cardinality
    <3> QED
      BY <2>2, <2>3, <3>1, <3>2
  <2> HIDE DEF times
  <2>7. /\ counters' = [h \in DOMAIN counters |-> IF Left(x, times, h) > 0 THEN Left(x, times, h) ELSE 0]
        /\ zero_deleted' = (zero_deleted \/ \E h \in DOMAIN counters :
                                               counters[h] < times * Bloom!Hits(x, h))
    BY <2>6, Zenon DEF Bloom!Delete, Bloom!Slots, Left
  <2> QED
    BY <2>1, <2>4, <2>5, <2>7 DEF FilterDelete, times
<1>5. CASE /\ \/ Bloom!EnqueueDone \/ Bloom!MoveOutput \/ Bloom!FillDone \/ Bloom!FillSpins
              \/ Bloom!BeginWindow \/ Bloom!SkipEmpty \/ Bloom!SkipDone
              \/ Bloom!DropFinished \/ Bloom!KeepSelected \/ Bloom!CloseWindow
           /\ UNCHANGED Bloom!bloomVars
  <2>1. UNCHANGED <<counters, zero_deleted, divider>>
    BY <1>5 DEF Bloom!bloomVars
  <2>2. UNCHANGED <<array, working_set, i>>
    BY <1>5
       DEF Bloom!EnqueueDone, Bloom!MoveOutput, Bloom!FillDone, Bloom!FillSpins,
       Bloom!BeginWindow, Bloom!SkipEmpty, Bloom!SkipDone, Bloom!DropFinished,
       Bloom!KeepSelected, Bloom!CloseWindow, Bloom!windowVars, Bloom!graphVars, Bloom!vars,
       Bloom!Keep, Bloom!PopEmpty
  <2> QED
    BY <2>1, <2>2 DEF FilterStays
<1> QED
  BY <1>1, <1>3, <1>4, <1>5 DEF Bloom!BloomNext

\* So does the neighbor policy.
LEMMA NeighborFilters ==
  ASSUME SetupInv, PolicyInv, NeighborStep
  PROVE  FilterInsert \/ FilterDelete \/ FilterStays
<1>1. Running = "neighbor" /\ Neighbor!Next
  BY DEF NeighborStep, Runs
<1>2. WorkingOutputs = current_output_set /\ SelectedOutput = next_select_item
  BY <1>1, NeighborQueues
<1>3. CASE Neighbor!EnqueueOutput
  <2>1. Neighbor!Bloom!NumOutputs = NumOutputs
    BY DEF Neighbor!Bloom!NumOutputs, NumOutputs, Neighbor!Bloom!Outputs, Outputs,
           Neighbor!Bloom!Cardinality, Cardinality
  <2>2. /\ i < NumOutputs /\ i' = i + 1
        /\ divider' = Neighbor!Bloom!NewDivider
        /\ Neighbor!Bloom!Insert(array[i])
        /\ UNCHANGED <<array, working_set, zero_deleted>>
    BY <1>3, <2>1 DEF Neighbor!EnqueueOutput, Neighbor!Bloom!EnqueueScored,
                      Neighbor!Bloom!windowVars
  <2>3. Neighbor!Bloom!NewDivider = Bloom!NewDivider
    BY DEF Neighbor!Bloom!NewDivider, Bloom!NewDivider
  <2>4. counters' = [h \in DOMAIN counters |-> counters[h] + HitsOf(array[i], h)]
    BY <2>2, Inserts
  <2> QED
    BY <2>2, <2>3, <2>4 DEF FilterInsert
<1>4. CASE Neighbor!TakeInput
  <2>1. pc = "take" /\ UNCHANGED <<divider, i, array>>
    BY <1>4 DEF Neighbor!TakeInput, Neighbor!queueVars, Neighbor!graphVars
  <2> DEFINE times(x) == Cardinality(Sharing(x, SelectedOutput, WorkingOutputs))
  <2>2. PICK x \in working_set[SelectedOutput] :
           /\ Neighbor!Take(x, SelectedOutput, WorkingOutputs)
           /\ Neighbor!Delete(x, Neighbor!Cardinality(
                                   Neighbor!Sharing(x, SelectedOutput, WorkingOutputs)))
    BY <1>2, <1>4 DEF Neighbor!TakeInput
  <2>3. Take(x, SelectedOutput, WorkingOutputs)
    BY <2>2, NeighborBase
  <2>4. Neighbor!Delete(x, times(x))
    BY <2>2, NeighborBase
  <2> HIDE DEF times
  <2>5. \A h, y : Neighbor!Hits(y, h) = Bloom!Hits(y, h)
    BY DEF Neighbor!Hits, Bloom!Hits, Neighbor!Hash1, Bloom!Hash1,
         Neighbor!Hash2, Bloom!Hash2, Neighbor!Slots, Bloom!Slots,
         Neighbor!Cardinality, Bloom!Cardinality
  <2>6. /\ counters' = [h \in DOMAIN counters |->
                          IF counters[h] - times(x) * Neighbor!Hits(x, h) > 0
                          THEN counters[h] - times(x) * Neighbor!Hits(x, h) ELSE 0]
        /\ zero_deleted' = (zero_deleted \/ \E h \in DOMAIN counters :
                                               counters[h] < times(x) * Neighbor!Hits(x, h))
    BY <2>4, Zenon DEF Neighbor!Delete, Neighbor!Slots
  <2>7. /\ counters' = [h \in DOMAIN counters |->
                          IF Left(x, times(x), h) > 0 THEN Left(x, times(x), h) ELSE 0]
        /\ zero_deleted' = (zero_deleted \/ \E h \in DOMAIN counters :
                                               counters[h] < times(x) * Bloom!Hits(x, h))
    BY <2>5, <2>6, Zenon DEF Left
  <2> QED
    BY <2>1, <2>2, <2>3, <2>7 DEF FilterDelete, times
<1>5. CASE \/ Neighbor!EnqueueDone \/ Neighbor!MoveOutput \/ Neighbor!FillDone
           \/ Neighbor!FillSpins \/ Neighbor!BeginWindow \/ Neighbor!SkipEmpty
           \/ Neighbor!SkipDone \/ Neighbor!DropFinished \/ Neighbor!KeepSelected
           \/ Neighbor!CloseWindow
  <2>1. CASE Neighbor!EnqueueDone
    BY <2>1 DEF Neighbor!EnqueueDone, Neighbor!Bloom!EnqueueDone, Neighbor!Bloom!windowVars,
                Neighbor!filterVars, FilterStays
  <2>2. CASE Neighbor!MoveOutput \/ Neighbor!FillDone \/ Neighbor!FillSpins
    BY <2>2 DEF Neighbor!MoveOutput, Neighbor!FillDone, Neighbor!FillSpins, Neighbor!queueVars,
                Neighbor!windowVars, Neighbor!filterVars, Neighbor!vars, FilterStays
  <2>3. CASE Neighbor!BeginWindow \/ Neighbor!SkipEmpty \/ Neighbor!SkipDone
    BY <2>3 DEF Neighbor!BeginWindow, Neighbor!SkipEmpty, Neighbor!SkipDone, Neighbor!queueVars,
                Neighbor!windowVars, Neighbor!graphVars, Neighbor!filterVars, FilterStays
  <2>4. CASE Neighbor!DropFinished \/ Neighbor!KeepSelected \/ Neighbor!CloseWindow
    BY <2>4 DEF Neighbor!DropFinished, Neighbor!KeepSelected, Neighbor!CloseWindow,
                Neighbor!queueVars, Neighbor!windowVars, Neighbor!graphVars,
                Neighbor!filterVars, FilterStays
  <2> QED
    BY <1>5, <2>1, <2>2, <2>3, <2>4
<1> QED
  BY <1>1, <1>3, <1>4, <1>5 DEF Neighbor!Next

-----------------------------------------------------------------------------
\* What a set of inputs counts in slot h, and what the outputs of S do.
InputHits(inputs, h) == Total(inputs, [x \in inputs |-> Bloom!Hits(x, h)])

OutputHits(sets, h, S) == Total(S, [o \in S |-> InputHits(sets[o], h)])

\* The counts are numbers.
LEMMA InputHitsNumber ==
  ASSUME NEW S, IsFiniteSet(S), NEW h
  PROVE  InputHits(S, h) \in Nat
<1> DEFINE weight == [x \in S |-> Bloom!Hits(x, h)]
<1>1. \A x \in S : weight[x] \in Nat
  BY HitsNumber
<1> HIDE DEF weight
<1>2. Total(S, weight) \in Nat
  BY <1>1, TotalIsFinite
<1> QED
  BY <1>2 DEF InputHits, weight

\* Those of the outputs are, too.
LEMMA OutputHitsNumber ==
  ASSUME NEW sets, NEW h, NEW S, IsFiniteSet(S), \A o \in S : IsFiniteSet(sets[o])
  PROVE  OutputHits(sets, h, S) \in Nat
<1> DEFINE weight == [o \in S |-> InputHits(sets[o], h)]
<1>1. \A o \in S : weight[o] \in Nat
  BY InputHitsNumber
<1> HIDE DEF weight
<1>2. Total(S, weight) \in Nat
  BY <1>1, TotalIsFinite
<1> QED
  BY <1>2 DEF OutputHits, weight

\* The sums of the property are these counts.
LEMMA NeededHits ==
  i \in Nat =>
    \A h : /\ (\A o \in 0 .. i - 1 : IsFiniteSet(working_set[o])) =>
                Needed(working_set, h) = OutputHits(working_set, h, 0 .. i - 1)
           /\ (\A o \in 0 .. i - 1 : IsFiniteSet(array[o])) =>
                Needed(array, h) = OutputHits(array, h, 0 .. i - 1)
<1>1. ASSUME NEW sets, i \in Nat, NEW h, \A o \in 0 .. i - 1 : IsFiniteSet(sets[o])
      PROVE  Needed(sets, h) = OutputHits(sets, h, 0 .. i - 1)
  <2>1. ASSUME NEW o \in 0 .. i - 1
        PROVE  HitsOf(sets[o], h) = InputHits(sets[o], h) /\ InputHits(sets[o], h) \in Nat
    BY <1>1, HitsTotal, InputHitsNumber DEF InputHits
  <2>2. Needed(sets, h) = Total(0 .. i - 1, [o \in 0 .. i - 1 |-> HitsOf(sets[o], h)])
    BY <1>1, <2>1, NeededTotal
  <2>3. [o \in 0 .. i - 1 |-> HitsOf(sets[o], h)] = [o \in 0 .. i - 1 |-> InputHits(sets[o], h)]
    BY <2>1
  <2> QED
    BY <2>2, <2>3 DEF OutputHits
<1> QED
  BY <1>1

\* One more output adds its inputs.
LEMMA OneMoreOutput ==
  ASSUME NEW sets, NEW h, NEW S, IsFiniteSet(S), NEW a, a \notin S,
         \A o \in S \cup {a} : IsFiniteSet(sets[o])
  PROVE  OutputHits(sets, h, S \cup {a}) = OutputHits(sets, h, S) + InputHits(sets[a], h)
<1> DEFINE weight == [o \in S \cup {a} |-> InputHits(sets[o], h)]
           before == [o \in S |-> InputHits(sets[o], h)]
<1>1. \A o \in S \cup {a} : weight[o] = InputHits(sets[o], h) /\ weight[o] \in Nat
  BY InputHitsNumber
<1>2. \A o \in S : weight[o] = before[o]
  OBVIOUS
<1>3. OutputHits(sets, h, S \cup {a}) = Total(S \cup {a}, weight)
      /\ OutputHits(sets, h, S) = Total(S, before)
  BY DEF OutputHits
<1> HIDE DEF weight, before
<1>4. Total(S \cup {a}, weight) = Total(S, weight) + weight[a]
  BY <1>1, TotalOfOneMore
<1>5. Total(S, weight) = Total(S, before)
  BY <1>2, TotalOfSame
<1>6. weight[a] = InputHits(sets[a], h)
  BY <1>1
<1> QED
  BY <1>3, <1>4, <1>5, <1>6

\* An input popped from the outputs of T counts less by its hits for each.
LEMMA OneInputLess ==
  ASSUME NEW sets, NEW other, NEW h, NEW x, NEW S, IsFiniteSet(S), NEW T \in SUBSET S,
         \A o \in S :
            /\ IsFiniteSet(sets[o])
            /\ o \in T => x \in sets[o] /\ other[o] = sets[o] \ {x}
            /\ o \notin T => other[o] = sets[o]
  PROVE  OutputHits(sets, h, S) = OutputHits(other, h, S) + Cardinality(T) * Bloom!Hits(x, h)
<1> DEFINE larger == [o \in S |-> InputHits(sets[o], h)]
           weight == [o \in S |-> InputHits(other[o], h)]
<1>0. Bloom!Hits(x, h) \in Nat
  BY HitsNumber
<1>1. ASSUME NEW o \in S
      PROVE  IsFiniteSet(other[o]) /\ InputHits(other[o], h) \in Nat
  <2>1. IsFiniteSet(other[o])
    BY FS_Subset
  <2> QED
    BY <2>1, InputHitsNumber
<1>2. ASSUME NEW o \in T
      PROVE  InputHits(sets[o], h) = InputHits(other[o], h) + Bloom!Hits(x, h)
  <2> DEFINE R == sets[o]
             hits == [y \in R |-> Bloom!Hits(y, h)]
             rest == [y \in R \ {x} |-> Bloom!Hits(y, h)]
  <2>1. IsFiniteSet(R) /\ x \in R /\ other[o] = R \ {x}
    OBVIOUS
  <2>2. \A y \in R : hits[y] = Bloom!Hits(y, h) /\ hits[y] \in Nat
    BY HitsNumber
  <2>3. \A y \in R \ {x} : hits[y] = rest[y]
    OBVIOUS
  <2>4. InputHits(sets[o], h) = Total(R, hits) /\ InputHits(other[o], h) = Total(R \ {x}, rest)
    BY <2>1 DEF InputHits
  <2> HIDE DEF R, hits, rest
  <2>5. Total(R, hits) = hits[x] + Total(R \ {x}, hits)
    BY <2>1, <2>2, TotalOfChosen
  <2>6. Total(R \ {x}, hits) = Total(R \ {x}, rest)
    BY <2>3, TotalOfSame
  <2>7. InputHits(other[o], h) \in Nat
    BY <1>1
  <2> QED
    BY <1>0, <2>1, <2>2, <2>4, <2>5, <2>6, <2>7
<1>3. \A o \in S : weight[o] \in Nat
  BY <1>1
<1>4. \A o \in S :
        larger[o] = IF o \in T THEN weight[o] + Bloom!Hits(x, h) ELSE weight[o]
  BY <1>2
<1>6. OutputHits(sets, h, S) = Total(S, larger)
      /\ OutputHits(other, h, S) = Total(S, weight)
  BY DEF OutputHits
<1> DEFINE c == Bloom!Hits(x, h)
<1>7. /\ c \in Nat
      /\ \A o \in S : larger[o] = IF o \in T THEN weight[o] + c ELSE weight[o]
  BY <1>0, <1>4
<1> HIDE DEF weight, larger, c
<1>8. Total(S, larger) = Total(S, weight) + Cardinality(T) * c
  BY <1>3, <1>7, TotalOfLarger
<1> QED
  BY <1>6, <1>8, Zenon DEF c

\* The slots an input counts in stay the same.
LEMMA HitsStay ==
  ASSUME UNCHANGED DOMAIN counters
  PROVE  \A x, h : Bloom!Hits(x, h)' = Bloom!Hits(x, h)
<1>1. Cardinality(Bloom!Slots)' = Cardinality(Bloom!Slots)
  BY DEF Bloom!Slots
<1>2. \A S : Bloom!Cardinality(S) = Cardinality(S)
  BY DEF Bloom!Cardinality, Cardinality
<1>3. \A x : Bloom!Hash1(x)' = Bloom!Hash1(x) /\ Bloom!Hash2(x)' = Bloom!Hash2(x)
  BY <1>1, <1>2 DEF Bloom!Hash1, Bloom!Hash2, Bloom!Slots
<1> QED
  BY <1>3 DEF Bloom!Hits

\* So do the counts.
LEMMA OutputHitsStay ==
  ASSUME UNCHANGED DOMAIN counters
  PROVE  \A h : /\ OutputHits(working_set, h, 0 .. i - 1)' = OutputHits(working_set', h, 0 .. i' - 1)
                /\ OutputHits(array, h, 0 .. i - 1)' = OutputHits(array', h, 0 .. i' - 1)
<1>1. \A S, h : InputHits(S, h)' = InputHits(S, h)
  BY HitsStay DEF InputHits
<1> QED
  BY <1>1 DEF OutputHits

-----------------------------------------------------------------------------
\* The outputs that were read.
Read == 0 .. i - 1

\* The counters of the filter lie between what is needed and what was inserted.
FilterInv ==
    /\ divider \in Nat \ {0}
    /\ \A h \in DOMAIN counters : counters[h] \in Nat
    /\ Running \in {"bloom", "neighbor"} =>
         /\ ~zero_deleted
         /\ \A h \in DOMAIN counters :
               /\ OutputHits(working_set, h, Read) <= counters[h]
               /\ counters[h] <= OutputHits(array, h, Read)

\* The sets of inputs are finite, and the working sets parts of them.
LEMMA ReadFinite ==
  ASSUME SetupInv, QueuesInv, InputsInv
  PROVE  /\ i \in Nat /\ IsFiniteSet(Read) /\ Read \subseteq Outputs
         /\ \A o \in Outputs : IsFiniteSet(array[o]) /\ IsFiniteSet(working_set[o])
<1>1. i \in Nat /\ i <= NumOutputs /\ NumOutputs \in Nat /\ Outputs = 0 .. NumOutputs - 1
  BY DEF SetupInv, QueuesInv
<1>2. Read \subseteq Outputs
  BY <1>1 DEF Read
<1>3. IsFiniteSet(Read)
  BY <1>1, FS_Interval DEF Read
<1>4. ASSUME NEW o \in Outputs
      PROVE  IsFiniteSet(array[o]) /\ IsFiniteSet(working_set[o])
  <2>1. IsFiniteSet(array[o]) /\ working_set[o] \subseteq array[o]
    BY DEF SetupInv, InputsInv
  <2>2. IsFiniteSet(working_set[o])
    BY <2>1, FS_Subset
  <2> QED
    BY <2>1, <2>2
<1> QED
  BY <1>1, <1>2, <1>3, <1>4

\* The divider never falls to zero.
LEMMA DividerPositive ==
  ASSUME FilterInv
  PROVE  Bloom!NewDivider \in Nat \ {0}
  BY DEF FilterInv, Bloom!NewDivider

\* An output that is read is needed with all its inputs.
LEMMA InsertKeeps ==
  ASSUME SetupInv, QueuesInv, InputsInv, FilterInv, Running \in QueuePolicies, FilterInsert,
         UNCHANGED Running
  PROVE  FilterInv'
<1>0. /\ i \in Nat /\ IsFiniteSet(Read) /\ Read \subseteq Outputs
      /\ \A o \in Outputs : IsFiniteSet(array[o]) /\ IsFiniteSet(working_set[o])
  BY ReadFinite
<1>1. /\ i < NumOutputs /\ i' = i + 1
      /\ divider' = Bloom!NewDivider
      /\ counters' = [h \in DOMAIN counters |-> counters[h] + HitsOf(array[i], h)]
      /\ UNCHANGED <<array, working_set, zero_deleted>>
  BY DEF FilterInsert
<1>2. i \in Outputs /\ i \in Waiting
  BY <1>0, <1>1 DEF SetupInv, Waiting
<1>3. working_set[i] = array[i]
  BY <1>2 DEF InputsInv
<1>4. IsFiniteSet(array[i])
  BY <1>0, <1>2
<1>5. ASSUME NEW h PROVE HitsOf(array[i], h) = InputHits(array[i], h) /\ InputHits(array[i], h) \in Nat
  BY <1>4, HitsTotal, InputHitsNumber DEF InputHits
<1>6. /\ DOMAIN counters' = DOMAIN counters
      /\ \A h \in DOMAIN counters : counters'[h] = counters[h] + InputHits(array[i], h)
  BY <1>1, <1>5
<1>7. 0 .. i' - 1 = Read \cup {i} /\ i \notin Read
  BY <1>0, <1>1 DEF Read
<1>8. ASSUME NEW h
      PROVE  /\ OutputHits(working_set, h, Read)' =
                  OutputHits(working_set, h, Read) + InputHits(array[i], h)
             /\ OutputHits(array, h, Read)' = OutputHits(array, h, Read) + InputHits(array[i], h)
             /\ OutputHits(working_set, h, Read) \in Nat
             /\ OutputHits(array, h, Read) \in Nat
  <2>1. /\ OutputHits(working_set, h, Read)' = OutputHits(working_set, h, Read \cup {i})
        /\ OutputHits(array, h, Read)' = OutputHits(array, h, Read \cup {i})
    BY <1>1, <1>6, <1>7, OutputHitsStay DEF Read
  <2>2. \A o \in Read \cup {i} : IsFiniteSet(array[o]) /\ IsFiniteSet(working_set[o])
    BY <1>0, <1>2
  <2>3. OutputHits(working_set, h, Read \cup {i}) =
          OutputHits(working_set, h, Read) + InputHits(working_set[i], h)
    BY <1>0, <1>7, <2>2, OneMoreOutput
  <2>4. OutputHits(array, h, Read \cup {i}) =
          OutputHits(array, h, Read) + InputHits(array[i], h)
    BY <1>0, <1>7, <2>2, OneMoreOutput
  <2>5. OutputHits(working_set, h, Read) \in Nat /\ OutputHits(array, h, Read) \in Nat
    BY <1>0, <2>2, OutputHitsNumber
  <2> QED
    BY <1>3, <2>1, <2>3, <2>4, <2>5
<1>9. \A h \in DOMAIN counters' : counters'[h] \in Nat
  BY <1>5, <1>6 DEF FilterInv
<1>10. ASSUME Running \in {"bloom", "neighbor"}, NEW h \in DOMAIN counters'
       PROVE  /\ OutputHits(working_set, h, Read)' <= counters'[h]
              /\ counters'[h] <= OutputHits(array, h, Read)'
  <2>1. /\ h \in DOMAIN counters /\ counters[h] \in Nat
        /\ OutputHits(working_set, h, Read) <= counters[h]
        /\ counters[h] <= OutputHits(array, h, Read)
    BY <1>6, <1>10 DEF FilterInv
  <2>2. counters'[h] = counters[h] + InputHits(array[i], h) /\ InputHits(array[i], h) \in Nat
    BY <1>5, <1>6, <2>1
  <2> QED
    BY <1>8, <2>1, <2>2
<1>11. divider' \in Nat \ {0}
  BY <1>1, DividerPositive
<1>12. Running \in {"bloom", "neighbor"} => ~zero_deleted'
  BY <1>1 DEF FilterInv
<1> QED
  BY <1>9, <1>10, <1>11, <1>12 DEF FilterInv

\* An input that is popped is needed less by every output served, and forgotten
\* for all of them but the selected one.
LEMMA DeleteKeeps ==
  ASSUME SetupInv, QueuesInv, LoopInv, InputsInv, FilterInv, FilterDelete,
         Running \in {"bloom", "neighbor"}, UNCHANGED Running
  PROVE  FilterInv'
<1>0. /\ i \in Nat /\ IsFiniteSet(Read) /\ Read \subseteq Outputs
      /\ \A o \in Outputs : IsFiniteSet(array[o]) /\ IsFiniteSet(working_set[o])
  BY ReadFinite
<1>1. pc = "take" /\ UNCHANGED <<array, i, divider>>
  BY DEF FilterDelete
<1>2. PICK x \in working_set[SelectedOutput] :
        LET times == Cardinality(Sharing(x, SelectedOutput, WorkingOutputs))
        IN  /\ Take(x, SelectedOutput, WorkingOutputs)
            /\ counters' = [h \in DOMAIN counters |->
                              IF Left(x, times, h) > 0 THEN Left(x, times, h) ELSE 0]
            /\ zero_deleted' = (zero_deleted \/ \E h \in DOMAIN counters :
                                                  counters[h] < times * Bloom!Hits(x, h))
  BY DEF FilterDelete
<1> DEFINE sharing == Sharing(x, SelectedOutput, WorkingOutputs)
           served == sharing \cup {SelectedOutput}
           times == Cardinality(sharing)
<1>3. /\ working_set' = [o \in DOMAIN working_set |->
                           IF o \in served THEN working_set[o] \ {x} ELSE working_set[o]]
      /\ \A o \in sharing : o \in WorkingOutputs /\ o # SelectedOutput /\ x \in working_set[o]
  BY <1>2 DEF Take, Sharing
<1>4. WorkingOutputs \subseteq Read /\ SelectedOutput \in WorkingOutputs
  <2>1. CASE Running = "bloom"
    <3>1. WorkingOutputs = Members(current) /\ SelectedOutput = Head(current)
      BY <2>1, DequeQueues DEF DequePolicies
    <3>2. current # <<>> /\ current \in Seq(Nat) /\ Members(current) \subseteq Read
      BY <1>1, <2>1 DEF LoopInv, Served, QueuesInv, ReadQueue, DequePolicies, Read
    <3>3. Head(current) \in Members(current)
      <4>1. 1 \in 1 .. Len(current) /\ Head(current) = current[1]
        BY <3>2
      <4> QED
        BY <4>1 DEF Members
    <3> QED
      BY <3>1, <3>2, <3>3
  <2>2. CASE Running = "neighbor"
    BY <1>1, <2>2, NeighborQueues DEF LoopInv, Served, QueuesInv, Read
  <2> QED
    BY <2>1, <2>2
<1>5. served \in SUBSET Read /\ SelectedOutput \notin sharing /\ sharing \subseteq Read
  BY <1>3, <1>4
<1>6. \A o \in served : x \in working_set[o]
  BY <1>2, <1>3
<1>7. times \in Nat /\ Cardinality(served) = times + 1
  <2>1. IsFiniteSet(sharing)
    BY <1>0, <1>5, FS_Subset
  <2> HIDE DEF sharing
  <2>2. Cardinality(sharing) \in Nat
    BY <2>1, FS_CardinalityType
  <2>3. Cardinality(sharing \cup {SelectedOutput}) = Cardinality(sharing) + 1
    BY <1>5, <2>1, FS_AddElement
  <2> QED
    BY <2>2, <2>3
<1>8. /\ counters' = [h \in DOMAIN counters |->
                        IF Left(x, times, h) > 0 THEN Left(x, times, h) ELSE 0]
      /\ zero_deleted' = (zero_deleted \/ \E h \in DOMAIN counters :
                                            counters[h] < times * Bloom!Hits(x, h))
  BY <1>2, Zenon
<1> HIDE DEF sharing, served, times
<1>9. DOMAIN counters' = DOMAIN counters /\ Read' = Read
  BY <1>1, <1>8 DEF Read
<1>10. ASSUME NEW h
       PROVE  /\ OutputHits(working_set, h, Read) =
                   OutputHits(working_set, h, Read)' + (times + 1) * Bloom!Hits(x, h)
              /\ OutputHits(working_set, h, Read)' \in Nat
              /\ OutputHits(array, h, Read)' = OutputHits(array, h, Read)
              /\ OutputHits(array, h, Read) \in Nat
              /\ Bloom!Hits(x, h) \in Nat
  <2>1. /\ OutputHits(working_set, h, Read)' = OutputHits(working_set', h, Read)
        /\ OutputHits(array, h, Read)' = OutputHits(array, h, Read)
    BY <1>1, <1>9, OutputHitsStay DEF Read
  <2>2. \A o \in Read :
           /\ IsFiniteSet(working_set[o])
           /\ working_set'[o] = IF o \in served THEN working_set[o] \ {x} ELSE working_set[o]
           /\ o \in served => x \in working_set[o]
    BY <1>0, <1>3, <1>6 DEF InputsInv
  <2>3. OutputHits(working_set, h, Read) =
          OutputHits(working_set', h, Read) + Cardinality(served) * Bloom!Hits(x, h)
    <3> DEFINE S == Read
               after == working_set'
    <3>1. /\ IsFiniteSet(S) /\ served \in SUBSET S
          /\ \A o \in S :
               /\ IsFiniteSet(working_set[o])
               /\ o \in served => x \in working_set[o] /\ after[o] = working_set[o] \ {x}
               /\ o \notin served => after[o] = working_set[o]
      BY <1>0, <1>5, <2>2
    <3> HIDE DEF S, after
    <3>2. OutputHits(working_set, h, S) =
            OutputHits(after, h, S) + Cardinality(served) * Bloom!Hits(x, h)
      BY <3>1, OneInputLess
    <3> QED
      BY <3>2, Zenon DEF S, after
  <2>4. \A o \in Read : IsFiniteSet(working_set'[o]) /\ IsFiniteSet(array[o])
    <3>1. \A o \in Read : working_set'[o] \subseteq working_set[o]
      BY <2>2
    <3> QED
      BY <1>0, <3>1, FS_Subset
  <2>5. OutputHits(working_set', h, Read) \in Nat /\ OutputHits(array, h, Read) \in Nat
    BY <1>0, <2>4, OutputHitsNumber
  <2> QED
    BY <1>7, <2>1, <2>3, <2>5, HitsNumber
<1>11. ASSUME NEW h \in DOMAIN counters
       PROVE  /\ Left(x, times, h) \in Nat
              /\ Left(x, times, h) = counters[h] - times * Bloom!Hits(x, h)
              /\ OutputHits(working_set, h, Read)' <= Left(x, times, h)
              /\ Left(x, times, h) <= counters[h]
              /\ times * Bloom!Hits(x, h) <= counters[h]
  <2>1. OutputHits(working_set, h, Read) <= counters[h] /\ counters[h] \in Nat
    BY DEF FilterInv
  <2> DEFINE hits == Bloom!Hits(x, h)
             sum == OutputHits(working_set, h, Read)
             rest == OutputHits(working_set, h, Read)'
             product == times * hits
  <2>2. hits \in Nat /\ rest \in Nat /\ sum = rest + (times + 1) * hits
    BY <1>10
  <2>3. product \in Nat /\ (times + 1) * hits = product + hits
    BY <1>7, <2>2
  <2>4. Left(x, times, h) = counters[h] - product
    BY DEF Left
  <2> HIDE DEF hits, sum, rest, product
  <2>5. sum <= counters[h] /\ sum = rest + (product + hits)
    BY <2>1, <2>2, <2>3 DEF sum
  <2>6. /\ counters[h] - product \in Nat
        /\ rest <= counters[h] - product
        /\ counters[h] - product <= counters[h]
        /\ product <= counters[h]
    BY <2>1, <2>2, <2>3, <2>5
  <2> QED
    BY <2>4, <2>6 DEF product, rest, hits
<1>12. ASSUME NEW h \in DOMAIN counters
       PROVE  counters'[h] = Left(x, times, h)
  BY <1>8, <1>11
<1>13. ~ \E h \in DOMAIN counters : counters[h] < times * Bloom!Hits(x, h)
  <2> SUFFICES ASSUME NEW h \in DOMAIN counters, counters[h] < times * Bloom!Hits(x, h)
               PROVE  FALSE
    OBVIOUS
  <2>1. times * Bloom!Hits(x, h) \in Nat
    BY <1>7, HitsNumber
  <2> QED
    BY <1>11, <2>1 DEF FilterInv
<1>14. ~zero_deleted'
  BY <1>8, <1>13 DEF FilterInv
<1>15. ASSUME NEW h \in DOMAIN counters'
       PROVE  /\ counters'[h] \in Nat
              /\ OutputHits(working_set, h, Read)' <= counters'[h]
              /\ counters'[h] <= OutputHits(array, h, Read)'
  <2>1. h \in DOMAIN counters /\ counters'[h] = Left(x, times, h)
    BY <1>9, <1>12
  <2>2. counters[h] <= OutputHits(array, h, Read) /\ counters[h] \in Nat
    BY <2>1 DEF FilterInv
  <2> QED
    BY <1>10, <1>11, <2>1, <2>2
<1>16. divider' \in Nat \ {0}
  BY <1>1 DEF FilterInv
<1> QED
  BY <1>14, <1>15, <1>16 DEF FilterInv

\* Nothing else touches the filter.
LEMMA StaysKeeps ==
  ASSUME FilterInv, FilterStays, UNCHANGED Running
  PROVE  FilterInv'
<1>1. UNCHANGED <<array, i, working_set, counters, zero_deleted, divider>>
  BY DEF FilterStays
<1>2. \A h : /\ OutputHits(working_set, h, Read)' = OutputHits(working_set, h, Read)
             /\ OutputHits(array, h, Read)' = OutputHits(array, h, Read)
  BY <1>1, OutputHitsStay DEF Read
<1> QED
  BY <1>1, <1>2 DEF FilterInv

\* A policy starts with a filter of zeros and no output read.
LEMMA StartFilter ==
  ASSUME SetupInv, Start
  PROVE  FilterInv
<1>1. /\ i = 0 /\ zero_deleted = FALSE /\ divider = conf.divider
      /\ counters = Bloom!ZeroCounters(conf.bloom_entries)
  BY DEF Start
<1>2. divider \in Nat \ {0}
  BY <1>1 DEF SetupInv, Config
<1>3. \A h \in DOMAIN counters : counters[h] = 0
  BY <1>1 DEF Bloom!ZeroCounters
<1>4. Read = {}
  BY <1>1 DEF Read
<1>5. \A h : OutputHits(working_set, h, {}) = 0 /\ OutputHits(array, h, {}) = 0
  BY TotalOfNone DEF OutputHits
<1> QED
  BY <1>1, <1>2, <1>3, <1>4, <1>5 DEF FilterInv

\* The next policy starts in the same way.
LEMMA StartFilterNext ==
  (SetupInv /\ Start => FilterInv)'
<1>1. SetupInv /\ Start => FilterInv
  BY StartFilter
<1> QED
  BY <1>1, PTL

\* Every step keeps the filter.
LEMMA FilterStep ==
  ASSUME GraphInv, FilterInv, [Next]_vars
  PROVE  FilterInv'
<1>0. SetupInv /\ PolicyInv
  BY DEF GraphInv
<1>1. CASE PolicyStep
  <2>0. UNCHANGED Running
    BY <1>1, PolicyStepKeeps DEF Running
  <2>1. ASSUME UNCHANGED bloomVars, Running \notin {"bloom", "neighbor"} PROVE FilterInv'
    BY <2>0, <2>1 DEF FilterInv, bloomVars
  <2>2. CASE TileStep
    BY <2>1, <2>2, TileStepLeaves DEF TilePolicies
  <2>3. CASE SequentialStep \/ CurrentStep \/ OuterStep
    BY <2>1, <2>3 DEF SequentialStep, CurrentStep, OuterStep, Runs
  <2>4. CASE GetGraphStep
    BY <2>1, <2>4 DEF GetGraphStep, Runs
  <2>5. CASE BloomStep \/ NeighborStep
    <3>1. Running \in {"bloom", "neighbor"} /\ Running \in QueuePolicies
      BY <2>5 DEF BloomStep, NeighborStep, Runs, QueuePolicies, DequePolicies
    <3>2. QueuesInv /\ LoopInv /\ InputsInv
      BY <1>0, <3>1 DEF PolicyInv
    <3>3. FilterInsert \/ FilterDelete \/ FilterStays
      BY <1>0, <2>5, BloomFilters, NeighborFilters
    <3> QED
      BY <1>0, <2>0, <3>1, <3>2, <3>3, InsertKeeps, DeleteKeeps, StaysKeeps
  <2> QED
    BY <1>1, <2>2, <2>3, <2>4, <2>5 DEF PolicyStep
<1>2. CASE NextPolicy
  <2>1. SetupInv' /\ Start'
    BY <1>0, <1>2, NextPolicyStarts
  <2> QED
    BY <2>1, StartFilterNext
<1>3. CASE UNCHANGED vars
  <2>1. FilterStays /\ UNCHANGED Running
    BY <1>3 DEF FilterStays, vars, windowVars, queueVars, bloomVars, Running
  <2> QED
    BY <2>1, StaysKeeps
<1> QED
  BY <1>1, <1>2, <1>3 DEF Next, Stop

\* The counters of the filter are always bounded as they should be.
LEMMA FilterInvariant == Spec => []FilterInv
<1>1. Init => FilterInv
  BY InitSetup, StartFilter DEF Init
<1> QED
  BY <1>1, FilterStep, GraphInvariant, PTL DEF Spec

\* The counters of the filter never fall below what the outputs read still
\* need, so that no score misses a shared edge and nothing is deleted from zero
\* (graph.py, BloomFilter.delete).
THEOREM FilterCovers == Spec => []FilterCoversWorkingSet
<1>1. GraphInv /\ FilterInv => FilterCoversWorkingSet
  <2> SUFFICES ASSUME GraphInv, FilterInv, Running \in {"bloom", "neighbor"}
               PROVE  /\ ~zero_deleted
                      /\ \A h \in DOMAIN counters :
                            counters[h] \in Needed(working_set, h) .. Needed(array, h)
    BY DEF FilterCoversWorkingSet
  <2>1. SetupInv /\ QueuesInv /\ InputsInv
    BY DEF GraphInv, PolicyInv, QueuePolicies, DequePolicies
  <2>2. /\ i \in Nat /\ IsFiniteSet(Read) /\ Read \subseteq Outputs
        /\ \A o \in Outputs : IsFiniteSet(array[o]) /\ IsFiniteSet(working_set[o])
    BY <2>1, ReadFinite
  <2>3. ASSUME NEW h \in DOMAIN counters
        PROVE  counters[h] \in Needed(working_set, h) .. Needed(array, h)
    <3>1. /\ Needed(working_set, h) = OutputHits(working_set, h, Read)
          /\ Needed(array, h) = OutputHits(array, h, Read)
      BY <2>2, NeededHits DEF Read
    <3>2. OutputHits(working_set, h, Read) \in Nat /\ OutputHits(array, h, Read) \in Nat
      BY <2>2, OutputHitsNumber
    <3>3. /\ counters[h] \in Nat
          /\ OutputHits(working_set, h, Read) <= counters[h]
          /\ counters[h] <= OutputHits(array, h, Read)
      BY DEF FilterInv
    <3> QED
      BY <3>1, <3>2, <3>3
  <2> QED
    BY <2>3 DEF FilterInv
<1> QED
  BY <1>1, GraphInvariant, FilterInvariant, PTL

-----------------------------------------------------------------------------
\* What a policy does not use stays as it was.
UnusedInv ==
    /\ windows \in Nat
    /\ Running \in TilePolicies =>
         /\ working_set = array
         /\ i = 0
         /\ current_output_set = {}
         /\ next_waiting_set = <<>>
    /\ Running \notin TilePolicies => column = 0 /\ row = 0

\* It holds when a policy starts.
LEMMA StartUnused ==
  Start => UnusedInv
  BY DEF Start, UnusedInv

\* Every step keeps it.
LEMMA UnusedStep ==
  ASSUME GraphInv, UnusedInv, [Next]_vars
  PROVE  UnusedInv'
<1>0. SetupInv /\ PolicyInv
  BY DEF GraphInv
<1>1. CASE PolicyStep /\ CountWindows
  <2>1. windows' \in Nat
    BY <1>1 DEF CountWindows, UnusedInv
  <2>2. UNCHANGED Running
    BY <1>1, PolicyStepKeeps DEF Running
  <2>3. CASE TileStep
    <3>1. /\ Running \in TilePolicies
          /\ UNCHANGED <<i, current_output_set, next_waiting_set, array, working_set>>
      BY <2>3, TileStepLeaves DEF queueVars, neighborVars
    <3> QED
      BY <2>1, <2>2, <3>1 DEF UnusedInv
  <2>4. CASE QueuePolicyStep
    <3>1. Running \notin TilePolicies /\ UNCHANGED <<column, row>>
      BY <1>0, <2>4, QueuePolicySteps
         DEF tileVars, QueuePolicies, DequePolicies, SplitPolicies, TilePolicies
    <3> QED
      BY <2>1, <2>2, <3>1 DEF UnusedInv
  <2> QED
    BY <1>1, <2>3, <2>4 DEF PolicyStep, QueuePolicyStep
<1>2. CASE NextPolicy
  <2>1. Start'
    BY <1>0, <1>2, NextPolicyStarts
  <2>2. (Start => UnusedInv)'
    BY StartUnused, PTL
  <2> QED
    BY <2>1, <2>2
<1>3. CASE UNCHANGED vars
  BY <1>3 DEF UnusedInv, vars, windowVars, queueVars, neighborVars, tileVars, Running
<1> QED
  BY <1>1, <1>2, <1>3 DEF Next, Stop

\* No policy touches the variables of the others.
LEMMA UnusedInvariant == Spec => []UnusedInv
<1>1. Init => UnusedInv
  BY StartUnused DEF Init
<1> QED
  BY <1>1, UnusedStep, GraphInvariant, PTL DEF Spec

\* The types of the variables, whichever policy runs.
THEOREM GraphTypes == Spec => []TypeOK
<1>1. GraphInv /\ FilterInv /\ UnusedInv => TypeOK
  <2> SUFFICES ASSUME GraphInv, FilterInv, UnusedInv PROVE TypeOK
    OBVIOUS
  <2>0. SetupInv /\ PolicyInv /\ NumOutputs \in Nat /\ Outputs = 0 .. NumOutputs - 1
    BY DEF GraphInv, SetupInv
  <2>1. conf \in Config /\ policy \in 1 .. Len(order)
    BY <2>0 DEF SetupInv
  <2>2. /\ DOMAIN working_set = Outputs
        /\ \A o \in Outputs : working_set[o] \subseteq array[o]
        /\ i \in 0 .. NumOutputs
        /\ WorkingOutputs \subseteq Outputs
        /\ column \in 0 .. NumOutputs /\ row \in 0 .. NumOutputs
        /\ DOMAIN next_waiting_set \subseteq Outputs
    <3>1. CASE Running \in TilePolicies
      <4>1. column \in Nat /\ column <= Sliding!TotalCols /\ row \in 0 .. NumOutputs
        <5>1. TileInv
          BY <3>1 DEF GraphInv
        <5>2. Sliding!TotalCols \in Nat
          BY <2>0, TotalColumns
        <5> QED
          BY <5>1, <5>2 DEF TileInv
      <4>2. Sliding!TotalCols <= NumOutputs /\ Sliding!TotalCols \in Nat
        BY <2>0, TotalColumns
      <4>3. working_set = array /\ i = 0 /\ next_waiting_set = <<>> /\ current_output_set = {}
        BY <3>1 DEF UnusedInv
      <4>4. WorkingOutputs = {}
        BY <3>1, <4>3 DEF WorkingOutputs, TilePolicies, DequePolicies, SplitPolicies
      <4>5. DOMAIN <<>> = {}
        OBVIOUS
      <4> QED
        BY <2>0, <4>1, <4>2, <4>3, <4>4, <4>5 DEF Outputs
    <3>2. CASE Running \notin TilePolicies
      <4>1. Running \in QueuePolicies /\ column = 0 /\ row = 0
        BY <2>0, <3>2, RunningPolicy DEF UnusedInv
      <4>2. QueuesInv /\ InputsInv /\ TouchedInv
        BY <2>0, <4>1 DEF PolicyInv
      <4>3. WorkingOutputs \subseteq 0 .. i - 1
        BY <4>2 DEF WorkingOutputs, QueuesInv, ReadQueue
      <4>4. i \in 0 .. NumOutputs
        BY <4>2 DEF QueuesInv
      <4> QED
        BY <2>0, <4>1, <4>2, <4>3, <4>4 DEF InputsInv, TouchedInv
    <3> QED
      BY <3>1, <3>2
  <2>3. windows \in Nat /\ divider \in Nat \ {0} /\ \A h \in DOMAIN counters : counters[h] \in Nat
    BY DEF UnusedInv, FilterInv
  <2> QED
    BY <2>1, <2>2, <2>3 DEF TypeOK
<1> QED
  BY <1>1, GraphInvariant, FilterInvariant, UnusedInvariant, PTL

-----------------------------------------------------------------------------
\* The windows a column needs, and those of the columns before c.
ColumnWindows(c) ==
    (Cardinality(RowsWithEdge(c)) + conf.max_input_num - 1) \div conf.max_input_num

Before(c) == Total(0 .. c - 1, [d \in 0 .. c - 1 |-> ColumnWindows(d)])

\* The windows of this column.
Here == windows - Before(column)

\* The rows the windows of this column have passed.
Passed == IF pc = "build" THEN starting_row ELSE row

\* How many rows before n have an edge in this column.
Covered(n) == Cardinality(EdgeRows(0, n - 1))

\* The windows cover the rows with an edge, the dense ones with no room left
\* before the last row.
CountInv ==
    Running \in TilePolicies =>
        /\ pc = "done" => row = 0
        /\ Here \in Nat
        /\ Covered(Passed) <= Here * conf.max_input_num
        /\ Running = "dense" =>
             /\ Here * conf.max_input_num < Covered(Passed) + conf.max_input_num
             /\ pc = "build" \/ row < NumOutputs =>
                  Here * conf.max_input_num = Covered(Passed)

\* The edges of the last window are not left.
PlanPassed == plan.all_edges \cap Remaining = {}

-----------------------------------------------------------------------------
\* What a division rounds up to.
LEMMA DivisionAbove ==
  ASSUME NEW a \in Nat, NEW m \in Nat \ {0}, NEW k \in Nat, a <= k * m
  PROVE  /\ (a + m - 1) \div m \in Nat
         /\ (a + m - 1) \div m <= k
         /\ k * m < a + m => (a + m - 1) \div m = k
         /\ a <= ((a + m - 1) \div m) * m
<1> DEFINE q == (a + m - 1) \div m
<1>1. a + m - 1 \in Nat
  OBVIOUS
<1>2. q \in Nat /\ q * m <= a + m - 1 /\ a + m - 1 < (q + 1) * m
  BY <1>1, DivisionBounds
<1> HIDE DEF q
<1>3. (q + 1) * m = q * m + m /\ q * m \in Nat /\ k * m \in Nat
  BY <1>2
<1>4. q <= k
  <2>1. ~(q <= k) => q >= k + 1
    BY <1>2
  <2>2. q >= k + 1 => q * m >= (k + 1) * m
    BY <1>2
  <2>3. (k + 1) * m = k * m + m
    OBVIOUS
  <2> QED
    BY <1>2, <1>3, <2>1, <2>2, <2>3
<1>5. ASSUME k * m < a + m PROVE q = k
  <2>1. ~(q >= k) => k >= q + 1
    BY <1>2
  <2>2. k >= q + 1 => k * m >= (q + 1) * m
    BY <1>2
  <2> QED
    BY <1>2, <1>3, <1>4, <1>5, <2>1, <2>2
<1>6. a <= q * m
  BY <1>2, <1>3
<1> QED
  BY <1>2, <1>4, <1>5, <1>6 DEF q

\* The rows are finitely many.
LEMMA CoveredNumber ==
  ASSUME NEW first \in Int, NEW last \in Int
  PROVE  IsFiniteSet(EdgeRows(first, last)) /\ Cardinality(EdgeRows(first, last)) \in Nat
<1>1. IsFiniteSet(first .. last)
  BY FS_Interval
<1>2. IsFiniteSet(EdgeRows(first, last))
  BY <1>1, RowsBefore, FS_Subset
<1> QED
  BY <1>2, FS_CardinalityType

\* A row without an edge covers nothing.
LEMMA CoveredRow ==
  ASSUME NEW n \in Nat, \A o \in Tile : n \notin array[o]
  PROVE  Covered(n + 1) = Covered(n)
<1>1. EdgeRows(0, n) = EdgeRows(0, n - 1) \cup {j \in {n} : \E o \in Tile : j \in array[o]}
  BY RowAdded
<1>2. EdgeRows(0, n) = EdgeRows(0, n - 1)
  BY <1>1
<1>3. (n + 1) - 1 = n
  OBVIOUS
<1> QED
  BY <1>2, <1>3, Zenon DEF Covered

\* A window covers its inputs.
LEMMA CoveredWindow ==
  ASSUME NEW first \in Nat, NEW last \in Nat, first <= last
  PROVE  Covered(last) = Covered(first) + Cardinality(EdgeRows(first, last - 1))
<1> DEFINE before == EdgeRows(0, first - 1)
           inputs == EdgeRows(first, last - 1)
<1>1. EdgeRows(0, last - 1) = before \cup inputs /\ before \cap inputs = {}
  BY DEF EdgeRows
<1>2. IsFiniteSet(before) /\ IsFiniteSet(inputs)
      /\ Cardinality(before) \in Nat /\ Cardinality(inputs) \in Nat
  BY CoveredNumber
<1> HIDE DEF before, inputs
<1>3. Cardinality(before \cup inputs) =
        Cardinality(before) + Cardinality(inputs) - Cardinality(before \cap inputs)
  BY <1>2, FS_Union
<1>4. Cardinality(before \cap inputs) = 0
  BY <1>1, FS_EmptySet
<1>5. Covered(last) = Cardinality(before \cup inputs)
  BY <1>1, Zenon DEF Covered
<1>6. Covered(first) = Cardinality(before)
  BY Zenon DEF Covered, before
<1> QED
  BY <1>2, <1>3, <1>4, <1>5, <1>6 DEF inputs

\* The whole column covers all its rows.
LEMMA CoveredColumn ==
  ASSUME SetupInv
  PROVE  Covered(NumOutputs) = Cardinality(RowsWithEdge(column))
<1>1. RowsWithEdge(column) = {j \in Outputs : \E o \in Tile : j \in array[o]}
  BY DEF RowsWithEdge, Sliding!RowOf, Tile
<1>2. EdgeRows(0, NumOutputs - 1) = RowsWithEdge(column)
  BY <1>1 DEF EdgeRows, SetupInv
<1> QED
  BY <1>2, Zenon DEF Covered

\* The windows a column needs are a number.
LEMMA ColumnWindowsNumber ==
  ASSUME SetupInv, NEW c
  PROVE  ColumnWindows(c) \in Nat
<1>1. IsFiniteSet(Outputs)
  BY FS_Interval DEF SetupInv
<1>2. IsFiniteSet(RowsWithEdge(c))
  BY <1>1, FS_Subset DEF RowsWithEdge
<1>3. Cardinality(RowsWithEdge(c)) \in Nat
  BY <1>2, FS_CardinalityType
<1> DEFINE a == Cardinality(RowsWithEdge(c))
           m == conf.max_input_num
<1>4. a \in Nat /\ m \in Nat \ {0} /\ ColumnWindows(c) = (a + m - 1) \div m
  BY <1>3 DEF SetupInv, Config, ColumnWindows
<1> HIDE DEF a, m
<1>5. a + m - 1 \in Nat
  BY <1>4
<1> QED
  BY <1>4, <1>5, DivisionBounds

\* One more column adds its windows.
LEMMA OneMoreColumn ==
  ASSUME SetupInv, NEW c \in Nat
  PROVE  Before(c) \in Nat /\ Before(c + 1) = Before(c) + ColumnWindows(c)
<1> DEFINE S == 0 .. c - 1
           weight == [d \in S \cup {c} |-> ColumnWindows(d)]
           before == [d \in S |-> ColumnWindows(d)]
<1>1. 0 .. (c + 1) - 1 = S \cup {c} /\ c \notin S
  OBVIOUS
<1>2. IsFiniteSet(S)
  BY FS_Interval
<1>3. Before(c + 1) = Total(S \cup {c}, weight) /\ Before(c) = Total(S, before)
  BY <1>1 DEF Before
<1>4. \A d \in S \cup {c} : weight[d] = ColumnWindows(d) /\ weight[d] \in Nat
  BY ColumnWindowsNumber
<1>5. \A d \in S : weight[d] = before[d] /\ before[d] \in Nat
  BY <1>4
<1> HIDE DEF weight, before, S
<1>6. Total(S \cup {c}, weight) = Total(S, weight) + weight[c]
  BY <1>1, <1>2, <1>4, TotalOfOneMore
<1>7. Total(S, weight) = Total(S, before)
  BY <1>5, TotalOfSame
<1>8. Total(S, before) \in Nat
  BY <1>2, <1>5, TotalIsFinite
<1>9. weight[c] = ColumnWindows(c)
  BY <1>4
<1> QED
  BY <1>3, <1>6, <1>7, <1>8, <1>9

\* FewestWindows is that sum over all columns.
LEMMA FewestAreBefore ==
  ASSUME SetupInv
  PROVE  FewestWindows = Before(Sliding!TotalCols)
<1> DEFINE S == 0 .. Sliding!TotalCols - 1
           weight == [c \in S |-> ColumnWindows(c)]
<1>0. IsFiniteSet(S)
  BY TotalColumns, FS_Interval
<1>1. \A c \in S : weight[c] \in Nat
  BY ColumnWindowsNumber
<1>2. \A s \in SUBSET S : s # {} =>
        weight[CHOOSE c \in s : TRUE] = ColumnWindows(CHOOSE c \in s : TRUE)
  OBVIOUS
<1>3. FewestWindows = Bloom!MapThenSumSet(LAMBDA c : ColumnWindows(c), S)
  BY Zenon DEF FewestWindows, ColumnWindows
<1> HIDE DEF weight, S
<1>4. PICK iter : Sums(iter, S, weight)
  BY <1>0, <1>1, TotalsSum
<1>5. iter = [s \in SUBSET S |->
                IF s = {} THEN 0
                ELSE ColumnWindows(CHOOSE c \in s : TRUE) + iter[s \ {CHOOSE c \in s : TRUE}]]
  BY <1>2, <1>4 DEF Sums
<1>6. \E it :
        /\ it = [s \in SUBSET S |->
                   IF s = {} THEN 0
                   ELSE ColumnWindows(CHOOSE c \in s : TRUE) + it[s \ {CHOOSE c \in s : TRUE}]]
        /\ FewestWindows = it[S]
  BY <1>3, <1>5 DEF Bloom!MapThenSumSet, Bloom!MapThenFoldSet
<1>7. PICK it : /\ it = [s \in SUBSET S |->
                           IF s = {} THEN 0
                           ELSE ColumnWindows(CHOOSE c \in s : TRUE)
                                + it[s \ {CHOOSE c \in s : TRUE}]]
                /\ FewestWindows = it[S]
  BY <1>6
<1>8. Sums(it, S, weight)
  BY <1>2, <1>7 DEF Sums
<1>9. it[S] = Total(S, weight)
  BY <1>0, <1>1, <1>8, SumsAreTotals
<1> QED
  BY <1>7, <1>9 DEF weight, S, Before

\* The columns stay as they are.
LEMMA BeforeStays ==
  ASSUME UNCHANGED <<array, conf>>
  PROVE  \A c : Before(c)' = Before(c)
<1>1. \A c : RowsWithEdge(c)' = RowsWithEdge(c)
  BY DEF RowsWithEdge, Sliding!RowOf, Sliding!Column, Sliding!Least, Sliding!NumOutputs,
         Sliding!Outputs, Outputs
<1>2. \A c : ColumnWindows(c)' = ColumnWindows(c)
  BY <1>1 DEF ColumnWindows
<1> QED
  BY <1>2 DEF Before

-----------------------------------------------------------------------------
\* A step of the plan takes the edges of its window.
LEMMA PlanPassedStep ==
  ASSUME PlanPassed, [Plan!Next]_(Plan!vars)
  PROVE  PlanPassed'
<1>1. CASE Plan!PlanWindow
  BY <1>1 DEF Plan!PlanWindow, PlanPassed
<1>2. CASE Plan!NextPolicy
  BY <1>2 DEF Plan!NextPolicy, PlanPassed, Plan!EmptyWindow
<1>3. CASE UNCHANGED Plan!vars
  BY <1>3 DEF Plan!vars, PlanPassed
<1> QED
  BY <1>1, <1>2, <1>3 DEF Plan!Next

\* A window that is appended is not the last one.
LEMMA NewWindow ==
  ASSUME PlanPassed, Plan!PlanWindow
  PROVE  plan' # plan
  BY DEF PlanPassed, Plan!PlanWindow

\* The inputs of a window fit in it, and a dense one is only closed with less
\* when no row is left.
LEMMA ClosedInputs ==
  ASSUME SetupInv, TileInv, CloseTile, Running \in TilePolicies
  PROVE  LET n == Cardinality(window.inputs)
         IN  /\ n \in 1 .. conf.max_input_num
             /\ Running = "dense" /\ row < NumOutputs => n = conf.max_input_num
             /\ Covered(row) = Covered(starting_row) + n
<1> DEFINE n == Cardinality(window.inputs)
<1>1. TileWindow /\ row \in 0 .. NumOutputs /\ NumOutputs \in Nat
      /\ conf.max_input_num \in Nat \ {0}
  BY DEF TileInv, CloseTile, SetupInv, Config
<1>2. /\ starting_row \in window.inputs
      /\ starting_row \in Nat /\ row \in Nat /\ starting_row <= row
  BY <1>1, ClosedWindow DEF TileWindow
<1>3. window.inputs = EdgeRows(starting_row, row - 1)
  BY <1>1 DEF TileWindow
<1>4. IsFiniteSet(window.inputs) /\ n \in Nat
  BY <1>2, <1>3, CoveredNumber
<1>5. n # 0
  BY <1>2, <1>4, FS_EmptySet
<1>6. Covered(row) = Covered(starting_row) + n
  BY <1>2, <1>3, CoveredWindow
<1>7. n <= window.input_num
  <2>1. CASE Running = "dense"
    BY <1>1, <1>4, <2>1 DEF TileWindow
  <2>2. CASE Running = "sliding"
    <3>1. window.input_num = row - starting_row
      BY <1>1, <2>2 DEF TileWindow
    <3>2. window.inputs \subseteq starting_row .. row - 1
      BY <1>2, <1>3, RowsBefore
    <3>3. /\ IsFiniteSet(starting_row .. row - 1)
          /\ Cardinality(starting_row .. row - 1) =
               IF starting_row > row - 1 THEN 0 ELSE (row - 1) - starting_row + 1
      BY <1>2, FS_Interval
    <3>4. Cardinality(starting_row .. row - 1) = row - starting_row
      BY <1>2, <3>3
    <3>5. n <= Cardinality(starting_row .. row - 1)
      BY <3>2, <3>3, FS_Subset
    <3> QED
      BY <3>1, <3>4, <3>5
  <2> QED
    BY <2>1, <2>2 DEF TilePolicies
<1>8. window.input_num <= conf.max_input_num
  BY <1>1 DEF TileWindow
<1>9. ASSUME Running = "dense", row < NumOutputs PROVE n = conf.max_input_num
  <2>1. window.input_num = n /\ window.input_num >= conf.max_input_num
    BY <1>1, <1>2, <1>9 DEF TileWindow, CloseTile
  <2> QED
    BY <1>1, <1>4, <1>8, <2>1
<1>10. n <= conf.max_input_num
  <2>1. Running = "dense" => window.input_num = n
    BY <1>1 DEF TileWindow
  <2>2. Running = "sliding" => window.input_num = row - starting_row
    BY <1>1 DEF TileWindow
  <2>3. window.input_num \in Int
    BY <1>2, <1>4, <2>1, <2>2 DEF TilePolicies
  <2> QED
    BY <1>1, <1>4, <1>7, <1>8, <2>3
<1> QED
  BY <1>1, <1>4, <1>5, <1>6, <1>9, <1>10

\* What is covered stays so while the column is walked.
LEMMA CoveredStays ==
  ASSUME UNCHANGED <<array, conf, column>>
  PROVE  /\ \A first, last : EdgeRows(first, last)' = EdgeRows(first, last)
         /\ Before(column)' = Before(column)
         /\ UNCHANGED Tile
<1>1. UNCHANGED Tile
  BY DEF Tile, Sliding!Column, Sliding!Least, Sliding!NumOutputs, Sliding!Outputs
<1> QED
  BY <1>1, BeforeStays DEF EdgeRows

\* The count is right after each row and each window of a column.
LEMMA RowsCount ==
  ASSUME SetupInv, TileInv, CountInv, PlanPassed, Running \in TilePolicies,
         UNCHANGED <<array, conf, Running>>, windows \in Nat, CountWindows,
         PassRow \/ BeginTile \/ AddTileRow \/ CloseTile
  PROVE  CountInv'
<1> DEFINE m == conf.max_input_num
<1>1. /\ column \in Nat /\ row \in 0 .. NumOutputs /\ NumOutputs \in Nat
      /\ m \in Nat \ {0} /\ UNCHANGED m
      /\ UNCHANGED NumOutputs
  BY DEF TileInv, SetupInv, Config, NumOutputs, Outputs
<1>2. UNCHANGED column
  BY DEF PassRow, BeginTile, AddTileRow, CloseTile
<1>3. /\ \A first, last : EdgeRows(first, last)' = EdgeRows(first, last)
      /\ Before(column)' = Before(column)
  BY <1>2, CoveredStays
<1>4. Before(column) \in Nat
  BY <1>1, OneMoreColumn
<1>5. /\ Here \in Nat
      /\ Covered(Passed) <= Here * m
      /\ Running = "dense" =>
           /\ Here * m < Covered(Passed) + m
           /\ pc = "build" \/ row < NumOutputs => Here * m = Covered(Passed)
  BY DEF CountInv
<1>6. ASSUME NEW n \in Nat PROVE Covered(n) \in Nat
  BY CoveredNumber DEF Covered
<1>7. ASSUME UNCHANGED plan PROVE UNCHANGED windows /\ UNCHANGED Here
  BY <1>3, <1>7 DEF CountWindows, Here
<1>8. pc = "build" => starting_row \in Nat
  BY DEF TileInv, TileWindow, SetupInv
<1>9. Covered(Passed)' = Covered(Passed')
  BY <1>3 DEF Covered
<1>10. CASE PassRow
  <2>1. /\ pc = "skip" /\ pc' = "skip" /\ row < NumOutputs /\ row' = row + 1
        /\ \A o \in Tile : row \notin array[o]
        /\ UNCHANGED plan
    BY <1>10 DEF PassRow, windowVars
  <2>2. Passed = row /\ Passed' = row + 1
    BY <2>1 DEF Passed
  <2>3. Covered(row + 1) = Covered(row)
    BY <1>1, <2>1, CoveredRow
  <2> QED
    BY <1>1, <1>5, <1>7, <1>9, <2>1, <2>2, <2>3 DEF CountInv
<1>11. CASE BeginTile
  <2>1. /\ pc = "skip" /\ pc' = "build" /\ row < NumOutputs /\ starting_row' = row
        /\ UNCHANGED plan
    BY <1>11 DEF BeginTile
  <2>2. Passed = row /\ Passed' = row
    BY <2>1 DEF Passed
  <2> QED
    BY <1>1, <1>5, <1>7, <1>9, <2>1, <2>2 DEF CountInv
<1>12. CASE AddTileRow
  <2>1. pc = "build" /\ pc' = "build" /\ UNCHANGED <<starting_row, plan>>
    BY <1>12 DEF AddTileRow
  <2>2. Passed = starting_row /\ Passed' = starting_row
    BY <2>1 DEF Passed
  <2> QED
    BY <1>1, <1>5, <1>7, <1>9, <2>1, <2>2 DEF CountInv
<1>13. CASE CloseTile
  <2>1. pc = "build" /\ pc' = "skip" /\ UNCHANGED row
    BY <1>13 DEF CloseTile
  <2>2. Passed = starting_row /\ Passed' = row
    BY <2>1 DEF Passed
  <2>3. plan' # plan
    BY <1>13, CloseTilePlans, NewWindow
  <2>4. windows' = windows + 1
    BY <2>3 DEF CountWindows
  <2> DEFINE n == Cardinality(window.inputs)
             k == Here
             done == Covered(starting_row)
  <2>5. /\ n \in 1 .. m
        /\ Running = "dense" /\ row < NumOutputs => n = m
        /\ Covered(row) = done + n
    BY <1>13, ClosedInputs
  <2>6. k \in Nat /\ done \in Nat
    BY <1>5, <1>6, <1>8, <2>1
  <2>7. Here' = k + 1
    <3>1. windows' - Before(column) = (windows - Before(column)) + 1
      BY <1>4, <2>4
    <3>2. Here' = windows' - Before(column)
      BY <1>3 DEF Here
    <3> QED
      BY <3>1, <3>2 DEF Here
  <2>8. /\ done <= k * m
        /\ Running = "dense" => k * m < done + m /\ k * m = done
    BY <1>5, <2>1, <2>2
  <2> HIDE DEF n, k, done, m
  <2>9. (k + 1) * m = k * m + m /\ k * m \in Nat
    BY <1>1, <2>6
  <2>10. /\ k + 1 \in Nat
         /\ done + n <= (k + 1) * m
         /\ Running = "dense" =>
              /\ (k + 1) * m < (done + n) + m
              /\ row < NumOutputs => (k + 1) * m = done + n
    BY <1>1, <2>5, <2>6, <2>8, <2>9
  <2> QED
    BY <1>1, <1>9, <2>1, <2>2, <2>5, <2>7, <2>10 DEF CountInv, m
<1> QED
  BY <1>10, <1>11, <1>12, <1>13

\* The windows of a column are as many as it needs, or more.
LEMMA ColumnCount ==
  ASSUME SetupInv, TileInv, CountInv, Running \in TilePolicies,
         UNCHANGED <<array, conf, Running>>, windows \in Nat, CountWindows, TurnColumn
  PROVE  CountInv'
<1> DEFINE m == conf.max_input_num
           a == Covered(NumOutputs)
           k == Here
           q == ColumnWindows(column)
<1>1. /\ column \in Nat /\ NumOutputs \in Nat /\ m \in Nat \ {0} /\ UNCHANGED m
      /\ UNCHANGED NumOutputs
  BY DEF TileInv, SetupInv, Config, NumOutputs, Outputs
<1>2. /\ pc = "skip" /\ pc' # "build" /\ row = NumOutputs /\ row' = 0
      /\ column' = column + 1 /\ UNCHANGED plan
  BY DEF TurnColumn, windowVars
<1>3. windows' = windows
  BY <1>2 DEF CountWindows
<1>4. Passed = NumOutputs /\ Passed' = 0
  BY <1>2 DEF Passed
<1>5. k \in Nat /\ a <= k * m /\ (Running = "dense" => k * m < a + m)
  BY <1>4 DEF CountInv
<1>6. a \in Nat /\ q = (a + m - 1) \div m
  <2>1. a \in Nat
    <3>1. 0 \in Int /\ NumOutputs - 1 \in Int
      BY <1>1
    <3>2. Cardinality(EdgeRows(0, NumOutputs - 1)) \in Nat
      BY ONLY <3>1, CoveredNumber
    <3> QED
      BY <3>2, Zenon DEF Covered
  <2> QED
    BY <2>1, CoveredColumn DEF ColumnWindows
<1>7. /\ Before(column) \in Nat
      /\ Before(column)' = Before(column) + q
  BY <1>1, <1>2, OneMoreColumn, BeforeStays
<1>8. Covered(Passed)' = 0
  <2>1. EdgeRows(0, Passed - 1)' = {}
    BY <1>4 DEF EdgeRows
  <2> QED
    BY <2>1, FS_EmptySet DEF Covered
<1>9. Here' = k - q
  BY <1>3, <1>7, ColumnWindowsNumber DEF Here
<1> HIDE DEF m, a, k, q
<1>10. q \in Nat /\ q <= k /\ (k * m < a + m => q = k)
  BY <1>1, <1>5, <1>6, DivisionAbove
<1> DEFINE d == k - q
<1>11. d \in Nat /\ (k * m < a + m => d = 0)
  BY <1>5, <1>10
<1>12. Here' = d
  BY <1>9
<1> HIDE DEF d
<1>13. /\ 0 <= d * m
       /\ Running = "dense" => d * m = 0 /\ d * m < 0 + m
  <2>1. d * m \in Nat /\ 0 * m = 0
    BY <1>1, <1>11
  <2>2. Running = "dense" => d = 0
    BY <1>5, <1>11
  <2> QED
    BY <1>1, <2>1, <2>2
<1> QED
  BY <1>1, <1>2, <1>8, <1>11, <1>12, <1>13 DEF CountInv, m

-----------------------------------------------------------------------------
\* No column has been walked and nothing is covered when a policy starts.
LEMMA StartCount ==
  SetupInv /\ Start => CountInv /\ PlanPassed
<1> SUFFICES ASSUME SetupInv, Start
             PROVE  CountInv /\ PlanPassed
  OBVIOUS
<1>1. PlanPassed
  BY DEF Start, PlanPassed, EmptyWindow
<1>2. ASSUME Running \in TilePolicies PROVE CountInv
  <2>1. pc = "skip" /\ column = 0 /\ row = 0 /\ windows = 0
    BY <1>2 DEF Start, FirstLoop, TilePolicies
  <2>2. Before(column) = 0
    <3>1. 0 .. column - 1 = {}
      BY <2>1
    <3> QED
      BY <3>1, TotalOfNone DEF Before
  <2>3. Covered(Passed) = 0
    <3>1. EdgeRows(0, Passed - 1) = {}
      BY <2>1 DEF EdgeRows, Passed
    <3> QED
      BY <3>1, FS_EmptySet DEF Covered
  <2>4. Here = 0
    BY <2>1, <2>2 DEF Here
  <2>5. conf.max_input_num \in Nat \ {0} /\ 0 * conf.max_input_num = 0
    BY DEF SetupInv, Config
  <2> QED
    BY <2>1, <2>3, <2>4, <2>5 DEF CountInv
<1> QED
  BY <1>1, <1>2 DEF CountInv

\* It holds in the next state when the next policy starts there.
LEMMA StartCountNext ==
  SetupInv' /\ Start' => CountInv' /\ PlanPassed'
  BY StartCount, PTL

\* Every step keeps the count.
LEMMA CountStep ==
  ASSUME GraphInv, UnusedInv, CountInv, PlanPassed, [Next]_vars
  PROVE  CountInv' /\ PlanPassed'
<1>0. SetupInv /\ PolicyInv
  BY DEF GraphInv
<1>1. PlanPassed'
  BY GraphStep, PlanPassedStep
<1>2. ASSUME PolicyStep /\ CountWindows PROVE CountInv'
  <2>1. UNCHANGED Running
    BY <1>2, PolicyStepKeeps DEF Running
  <2>2. CASE TileStep
    <3>1. Running \in TilePolicies /\ UNCHANGED <<array, conf>>
      BY <2>2, TileStepLeaves
    <3>2. TileInv /\ windows \in Nat
      BY <3>1 DEF GraphInv, UnusedInv
    <3>3. PassRow \/ TurnColumn \/ BeginTile \/ AddTileRow \/ CloseTile
      BY <2>2, TileSteps
    <3>4. UNCHANGED <<array, conf, Running>> /\ CountWindows
      BY <1>2, <2>1, <3>1
    <3>5. CASE TurnColumn
      BY <1>0, <3>1, <3>2, <3>4, <3>5, ColumnCount
    <3>6. CASE PassRow \/ BeginTile \/ AddTileRow \/ CloseTile
      BY <1>0, <3>1, <3>2, <3>4, <3>6, RowsCount
    <3> QED
      BY <3>3, <3>5, <3>6
  <2>3. CASE QueuePolicyStep
    <3>1. Running \notin TilePolicies
      BY <1>0, <2>3, QueuePolicySteps DEF QueuePolicies, DequePolicies, SplitPolicies, TilePolicies
    <3>2. Running' \notin TilePolicies
      BY <2>1, <3>1
    <3> QED
      BY <3>2 DEF CountInv
  <2> QED
    BY <1>2, <2>2, <2>3 DEF PolicyStep, QueuePolicyStep
<1>3. ASSUME NextPolicy PROVE CountInv'
  <2>1. SetupInv' /\ Start'
    BY <1>0, <1>3, NextPolicyStarts
  <2> QED
    BY <2>1, StartCountNext
<1>4. ASSUME UNCHANGED vars PROVE CountInv'
  <2>1. UNCHANGED <<array, conf, column, windows, pc, row, starting_row, Running>>
    BY <1>4 DEF vars, windowVars, graphVars, tileVars, Running
  <2>2. /\ \A first, last : EdgeRows(first, last)' = EdgeRows(first, last)
        /\ Before(column)' = Before(column)
    BY <2>1, CoveredStays
  <2>3. UNCHANGED <<Here, Passed, NumOutputs>>
    BY <2>1, <2>2 DEF Here, Passed, NumOutputs, Outputs
  <2>4. Covered(Passed)' = Covered(Passed)
    BY <2>2, <2>3 DEF Covered
  <2> QED
    BY <2>1, <2>3, <2>4 DEF CountInv
<1> QED
  BY <1>1, <1>2, <1>3, <1>4 DEF Next, Stop

\* Each tile policy has closed at least the windows its columns need, and the
\* dense one no more.
LEMMA CountInvariant == Spec => [](CountInv /\ PlanPassed)
<1>1. Init => CountInv /\ PlanPassed
  BY InitSetup, StartCount DEF Init
<1>2. /\ GraphInv /\ UnusedInv
      /\ CountInv /\ PlanPassed
      /\ [Next]_vars
      => (CountInv /\ PlanPassed)'
  BY CountStep
<1> QED
  BY <1>1, <1>2, GraphInvariant, UnusedInvariant, PTL DEF Spec

\* The dense policy needs as few windows as its columns allow and the sliding
\* policy never fewer (graph.py, __setup_dense_window and
\* __setup_sliding_window).
THEOREM DenseNeedsFewest == Spec => []DenseWindowsAreFewest
<1>1. GraphInv /\ UnusedInv /\ CountInv => DenseWindowsAreFewest
  <2> SUFFICES ASSUME GraphInv, UnusedInv, CountInv, pc = "done", Running \in TilePolicies
               PROVE  /\ Running = "dense" => windows = FewestWindows
                      /\ Running = "sliding" => windows >= FewestWindows
    BY DEF DenseWindowsAreFewest, TilePolicies
  <2>0. SetupInv /\ TileInv /\ windows \in Nat
    BY DEF GraphInv, UnusedInv
  <2>1. column = Sliding!TotalCols /\ column \in Nat /\ row = 0
    BY <2>0 DEF TileInv, CountInv
  <2>2. FewestWindows = Before(column)
    BY <2>0, <2>1, FewestAreBefore
  <2>3. Before(column) \in Nat
    BY <2>0, <2>1, OneMoreColumn
  <2>4. Here \in Nat
    BY DEF CountInv
  <2>5. windows >= Before(column)
    BY <2>0, <2>3, <2>4 DEF Here
  <2>6. ASSUME Running = "dense" PROVE windows = Before(column)
    <3>1. Covered(Passed) = 0
      <4>1. EdgeRows(0, Passed - 1) = {}
        BY <2>1 DEF EdgeRows, Passed
      <4> QED
        BY <4>1, FS_EmptySet DEF Covered
    <3>2. row < NumOutputs /\ conf.max_input_num \in Nat \ {0}
      BY <2>0, <2>1 DEF SetupInv, Config
    <3>3. Here * conf.max_input_num = 0
      BY <2>6, <3>1, <3>2 DEF CountInv
    <3>4. Here = 0
      <4> DEFINE k == Here
                 m == conf.max_input_num
      <4>1. k \in Nat /\ m \in Nat \ {0} /\ k * m = 0
        BY <2>4, <3>2, <3>3
      <4> HIDE DEF k, m
      <4>2. k = 0
        BY <4>1
      <4> QED
        BY <4>2 DEF k
    <3> QED
      BY <2>0, <2>3, <3>4 DEF Here
  <2> QED
    BY <2>2, <2>5, <2>6
<1> QED
  BY <1>1, GraphInvariant, UnusedInvariant, CountInvariant, PTL
=============================================================================
