-------------------------- MODULE ShortLongPolicy --------------------------
(***************************************************************************)
(* __setup_current_short_long: the working queue is split in two.  Outputs *)
(* with at most `divider' inputs wait in the short queue, which is served  *)
(* first; the long queue takes over when the short one runs empty.         *)
(***************************************************************************)
EXTENDS WindowBase

VARIABLES short,           \* current_output_set_short
          long,            \* current_output_set_long
          selected_queue,  \* which of the two the loop serves
          i, pc

vars == <<windowVars, short, long, selected_queue, i, pc>>

Init ==
    /\ working_set = array
    /\ window = EmptyWindow
    /\ plan = EmptyWindow
    /\ short = <<>>
    /\ long = <<>>
    /\ selected_queue = "short"
    /\ i = 0
    /\ pc = "fill"

Queue == IF selected_queue = "short" THEN short ELSE long
Selected == Head(Queue)
Current == Members(short) \cup Members(long)
HasRoom == Len(short) + Len(long) < conf.max_output_num

FillOutput ==
    /\ pc = "fill"
    /\ HasRoom
    /\ i < NumOutputs
    /\ IF Cardinality(array[i]) <= conf.divider
       THEN short' = Append(short, i) /\ UNCHANGED long
       ELSE long' = Append(long, i) /\ UNCHANGED short
    /\ i' = i + 1
    /\ UNCHANGED <<windowVars, selected_queue, pc>>

FillDone ==
    /\ pc = "fill"
    /\ ~(HasRoom /\ i < NumOutputs)
    /\ pc' = IF short = <<>> /\ long = <<>> THEN "done" ELSE "open"
    /\ UNCHANGED <<windowVars, short, long, selected_queue, i>>

BeginWindow ==
    /\ pc = "open"
    /\ selected_queue' = IF short = <<>> THEN "long" ELSE "short"
    /\ window' = FreshWindow(Current, Len(short) + Len(long))
    /\ pc' = "skip"
    /\ UNCHANGED <<graphVars, working_set, plan, short, long, i>>

\* The window ends with the queue it was begun with.
PopSelectedOneQueue(at, emptied) ==
    /\ pc = at
    /\ working_set[Selected] = {}
    /\ short' = IF selected_queue = "short" THEN Tail(short) ELSE short
    /\ long' = IF selected_queue = "long" THEN Tail(long) ELSE long
    /\ pc' = IF Tail(Queue) = <<>> THEN emptied ELSE at
    /\ UNCHANGED <<graphVars, working_set, plan, selected_queue, i>>

\* The selected output is empty: pop it, and turn to the long queue when its
\* queue is exhausted.  When the long queue is empty too, go to `emptied'.
PopSelected(at, emptied) ==
    /\ pc = at
    /\ working_set[Selected] = {}
    /\ short' = IF selected_queue = "short" THEN Tail(short) ELSE short
    /\ long' = IF selected_queue = "long" THEN Tail(long) ELSE long
    /\ selected_queue' = IF Tail(Queue) = <<>> /\ long' # <<>>
                         THEN "long" ELSE selected_queue
    /\ pc' = IF Tail(Queue) = <<>> /\ long' = <<>> THEN emptied ELSE at
    /\ UNCHANGED <<graphVars, working_set, plan, i>>

SkipEmpty ==
    /\ PopSelected("skip", "fill")
    /\ window' = IF pc' = "fill" THEN EmptyWindow ELSE window

Keep(at) ==
    /\ pc = at
    /\ working_set[Selected] # {}
    /\ pc' = "take"
    /\ UNCHANGED <<windowVars, short, long, selected_queue, i>>

SkipDone == Keep("skip")

TakeInput ==
    /\ pc = "take"
    /\ window.input_num < conf.max_input_num
    /\ \E x \in working_set[Selected] : Take(x, Selected, Current)
    /\ pc' = "drop"
    /\ UNCHANGED <<graphVars, plan, short, long, selected_queue, i>>

DropFinished == PopSelected("drop", "close") /\ UNCHANGED window

KeepSelected == Keep("drop")

CloseWindow ==
    /\ \/ pc = "close"
       \/ pc = "take" /\ window.input_num >= conf.max_input_num
    /\ AppendWindow
    /\ pc' = "fill"
    /\ UNCHANGED <<graphVars, working_set, short, long, selected_queue, i>>

Next ==
    \/ FillOutput
    \/ FillDone
    \/ BeginWindow
    \/ SkipEmpty
    \/ SkipDone
    \/ TakeInput
    \/ DropFinished
    \/ KeepSelected
    \/ CloseWindow

Spec == Init /\ [][Next]_vars /\ WF_vars(Next)

-----------------------------------------------------------------------------
BuilderPhase ==
    CASE pc \in {"fill", "open"}                  -> "fill"
      [] pc \in {"skip", "take", "drop", "close"} -> "window"
      [] pc = "done"                              -> "done"

Builder == INSTANCE WindowBuilder
    WITH waiting <- i .. NumOutputs - 1,
         current <- Current,
         phase   <- BuilderPhase
=============================================================================
