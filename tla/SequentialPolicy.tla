-------------------------- MODULE SequentialPolicy --------------------------
(***************************************************************************)
(* __setup_seq_window: outputs enter the working queue in the order of the *)
(* file.                                                                   *)
(***************************************************************************)
EXTENDS WorkingQueue

vars == <<windowVars, current, i, pc>>

Init ==
    /\ working_set = array
    /\ window = EmptyWindow
    /\ plan = EmptyWindow
    /\ current = <<>>
    /\ i = 0
    /\ pc = "fill"

FillOutput ==
    /\ pc = "fill"
    /\ HasRoom
    /\ i < NumOutputs
    /\ current' = Append(current, i)
    /\ i' = i + 1
    /\ UNCHANGED <<windowVars, pc>>

FillDone ==
    /\ pc = "fill"
    /\ ~(HasRoom /\ i < NumOutputs)
    /\ pc' = IF current = <<>> THEN "done" ELSE "skip"
    /\ UNCHANGED <<windowVars, current, i>>

SkipEmpty == PopEmpty("skip", "fill")

\* this_window_size is read after the empty outputs in front were skipped.
BeginWindow ==
    /\ pc = "skip"
    /\ working_set[Selected] # {}
    /\ window' = FreshWindow(Members(current), Len(current))
    /\ pc' = "take"
    /\ UNCHANGED <<graphVars, working_set, plan, current, i>>

TakeInput ==
    /\ pc = "take"
    /\ \E x \in working_set[Selected] : PopInput(x)

DropFinished == PopEmpty("drop", "close")

KeepSelected == Keep("drop", "take")

CloseWindow ==
    /\ WindowEnds
    /\ AppendWindow
    /\ pc' = "fill"
    /\ UNCHANGED <<graphVars, working_set, current, i>>

Next ==
    \/ FillOutput
    \/ FillDone
    \/ SkipEmpty
    \/ BeginWindow
    \/ TakeInput
    \/ DropFinished
    \/ KeepSelected
    \/ CloseWindow

Spec == Init /\ [][Next]_vars /\ WF_vars(Next)

-----------------------------------------------------------------------------
BuilderPhase ==
    CASE pc \in {"fill", "skip"}          -> "fill"
      [] pc \in {"take", "drop", "close"} -> "window"
      [] pc = "done"                      -> "done"

Builder == INSTANCE WindowBuilder
    WITH waiting <- i .. NumOutputs - 1,
         current <- Members(current),
         phase   <- BuilderPhase
=============================================================================
