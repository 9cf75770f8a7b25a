---------------------------- MODULE OuterPolicy ----------------------------
(***************************************************************************)
(* __setup_outer_short_long: outputs pass through two outer queues, short  *)
(* for those with few inputs, and the working queue is filled from the     *)
(* short one first.                                                        *)
(***************************************************************************)
EXTENDS WorkingQueue

VARIABLES short,   \* outer_output_set_short
          long     \* outer_output_set_long

vars == <<windowVars, current, i, pc, short, long>>

Init ==
    /\ working_set = array
    /\ window = EmptyWindow
    /\ plan = EmptyWindow
    /\ current = <<>>
    /\ short = <<>>
    /\ long = <<>>
    /\ i = 0
    /\ pc = "setup_outer"

\* The two loops that fill the outer queues: before the first window and
\* after each window.
Filling == pc \in {"setup_outer", "outer"}

OuterHasRoom == Len(short) + Len(long) < conf.max_queue_size

EnqueueOutput ==
    /\ Filling
    /\ OuterHasRoom
    /\ i < NumOutputs
    /\ IF Cardinality(array[i]) <= conf.divider
       THEN short' = Append(short, i) /\ UNCHANGED long
       ELSE long' = Append(long, i) /\ UNCHANGED short
    /\ i' = i + 1
    /\ UNCHANGED <<windowVars, current, pc>>

EnqueueDone ==
    /\ Filling
    /\ ~(OuterHasRoom /\ i < NumOutputs)
    /\ pc' = IF pc = "setup_outer" THEN "setup" ELSE "fill"
    /\ UNCHANGED <<windowVars, current, i, short, long>>

OuterEmpty == short = <<>> /\ long = <<>>

MoveOutput ==
    /\ pc \in {"setup", "fill"}
    /\ HasRoom
    /\ \/ /\ short # <<>>
          /\ current' = Append(current, Head(short))
          /\ short' = Tail(short)
          /\ UNCHANGED long
       \/ /\ short = <<>>
          /\ long # <<>>
          /\ current' = Append(current, Head(long))
          /\ long' = Tail(long)
          /\ UNCHANGED short
    /\ UNCHANGED <<windowVars, i, pc>>

\* The loop after a window breaks when the outer queues are empty, the one
\* before the first window does not.
FillDone ==
    /\ \/ pc \in {"setup", "fill"} /\ ~HasRoom
       \/ pc = "fill" /\ HasRoom /\ OuterEmpty
    /\ pc' = IF current = <<>> THEN "done" ELSE "open"
    /\ UNCHANGED <<windowVars, current, i, short, long>>

\* The first fill goes round its loop without changing anything.
FillSpins ==
    /\ pc = "setup"
    /\ HasRoom
    /\ OuterEmpty
    /\ UNCHANGED vars

BeginWindow ==
    /\ pc = "open"
    /\ window' = FreshWindow(Members(current), Len(current))
    /\ pc' = "skip"
    /\ UNCHANGED <<graphVars, working_set, plan, current, i, short, long>>

\* No window is appended when every output of the working queue is empty.
SkipEmpty ==
    /\ pc = "skip"
    /\ working_set[Selected] = {}
    /\ current' = Tail(current)
    /\ window' = IF Tail(current) = <<>> THEN EmptyWindow ELSE window
    /\ pc' = IF Tail(current) = <<>> THEN "outer" ELSE "skip"
    /\ UNCHANGED <<graphVars, working_set, plan, i, short, long>>

SkipDone == Keep("skip", "take") /\ UNCHANGED <<short, long>>

TakeInput ==
    /\ pc = "take"
    /\ \E x \in working_set[Selected] : PopInput(x)
    /\ UNCHANGED <<short, long>>

DropFinished == PopEmpty("drop", "close") /\ UNCHANGED <<short, long>>

KeepSelected == Keep("drop", "take") /\ UNCHANGED <<short, long>>

CloseWindow ==
    /\ WindowEnds
    /\ AppendWindow
    /\ pc' = "outer"
    /\ UNCHANGED <<graphVars, working_set, current, i, short, long>>

Next ==
    \/ EnqueueOutput
    \/ EnqueueDone
    \/ MoveOutput
    \/ FillDone
    \/ FillSpins
    \/ BeginWindow
    \/ SkipEmpty
    \/ SkipDone
    \/ TakeInput
    \/ DropFinished
    \/ KeepSelected
    \/ CloseWindow

Spec == Init /\ [][Next]_vars /\ WF_vars(Next)

-----------------------------------------------------------------------------
BuilderPhase ==
    CASE pc \in {"skip", "take", "drop", "close"} -> "window"
      [] pc = "done"                              -> "done"
      [] OTHER                                    -> "fill"

Builder == INSTANCE WindowBuilder
    WITH waiting <- (i .. NumOutputs - 1) \cup Members(short) \cup Members(long),
         current <- Members(current),
         phase   <- BuilderPhase
=============================================================================
