--------------------------- MODULE GetGraphPolicy ---------------------------
(***************************************************************************)
(* The queue policies of get_graph.py, the older version of graph.py.      *)
(* They do not skip empty outputs, and after an input they look at the     *)
(* selected output only: the next one may have been emptied because it     *)
(* shared its inputs, and set.pop raises KeyError on an empty set.         *)
(***************************************************************************)
EXTENDS WindowBase

VARIABLES current, short, long, selected_queue, i, pc

vars == <<windowVars, current, short, long, selected_queue, i, pc>>

Sequential == INSTANCE SequentialPolicy
Outer == INSTANCE OuterPolicy
ShortLong == INSTANCE ShortLongPolicy

-----------------------------------------------------------------------------
\* __setup_seq_window and __setup_outer_short_long
DequeBegin(at) ==
    /\ pc = at
    /\ window' = FreshWindow(Members(current), Len(current))
    /\ pc' = "take"
    /\ UNCHANGED <<graphVars, working_set, plan, current, i>>

\* pop() of an empty set
DequeKeyError ==
    /\ pc = "take"
    /\ window.input_num < conf.max_input_num
    /\ working_set[Head(current)] = {}
    /\ pc' = "KeyError"
    /\ UNCHANGED <<windowVars, current, i>>

DequeTake ==
    /\ pc = "take"
    /\ \E x \in working_set[Head(current)] : Sequential!PopInput(x)

DequeDrop ==
    /\ pc = "drop"
    /\ IF working_set[Head(current)] # {}
       THEN UNCHANGED current /\ pc' = "take"
       ELSE /\ current' = Tail(current)
            /\ pc' = IF Tail(current) = <<>> THEN "close" ELSE "take"
    /\ UNCHANGED <<windowVars, i>>

DequeWindow == DequeKeyError \/ DequeTake \/ DequeDrop

SeqNext ==
    \/ Sequential!FillOutput
    \/ Sequential!FillDone
    \/ DequeBegin("skip")
    \/ DequeWindow
    \/ Sequential!CloseWindow

OuterNext ==
    \/ Outer!EnqueueOutput
    \/ Outer!EnqueueDone
    \/ Outer!MoveOutput
    \/ Outer!FillDone
    \/ Outer!FillSpins
    \/ DequeBegin("open") /\ UNCHANGED <<short, long>>
    \/ DequeWindow /\ UNCHANGED <<short, long>>
    \/ Outer!CloseWindow

-----------------------------------------------------------------------------
\* __setup_current_short_long
ShortLongBegin ==
    /\ pc = "open"
    /\ selected_queue' = IF short = <<>> THEN "long" ELSE "short"
    /\ window' = FreshWindow(ShortLong!Current, Len(short) + Len(long))
    /\ pc' = "take"
    /\ UNCHANGED <<graphVars, working_set, plan, short, long, i>>

ShortLongKeyError ==
    /\ pc = "take"
    /\ window.input_num < conf.max_input_num
    /\ working_set[ShortLong!Selected] = {}
    /\ pc' = "KeyError"
    /\ UNCHANGED <<windowVars, short, long, selected_queue, i>>

\* One output is popped where the newer version pops all the empty ones.
ShortLongDrop ==
    /\ pc = "drop"
    /\ IF working_set[ShortLong!Selected] # {}
       THEN pc' = "take" /\ UNCHANGED <<short, long, selected_queue>>
       ELSE /\ short' = IF selected_queue = "short" THEN Tail(short) ELSE short
            /\ long' = IF selected_queue = "long" THEN Tail(long) ELSE long
            /\ selected_queue' = IF Tail(ShortLong!Queue) = <<>> /\ long' # <<>>
                                 THEN "long" ELSE selected_queue
            /\ pc' = IF Tail(ShortLong!Queue) = <<>> /\ long' = <<>>
                     THEN "close" ELSE "take"
    /\ UNCHANGED <<windowVars, i>>

ShortLongNext ==
    \/ ShortLong!FillOutput
    \/ ShortLong!FillDone
    \/ ShortLongBegin
    \/ ShortLongKeyError
    \/ ShortLong!TakeInput
    \/ ShortLongDrop
    \/ ShortLong!CloseWindow
=============================================================================
