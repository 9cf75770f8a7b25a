---------------------------- MODULE WorkingQueue ----------------------------
(***************************************************************************)
(* The working queue `current_output_set', a deque, of the sequential, the *)
(* outer and the bloom policy.  The first output of the queue is the       *)
(* selected one; outputs emptied because they share inputs with it stay in *)
(* the queue until they come first.                                        *)
(***************************************************************************)
EXTENDS WindowBase

VARIABLES current,   \* current_output_set
          i,         \* the next output that was not read from array yet
          pc         \* the loop of the policy's function

Selected == Head(current)

HasRoom == Len(current) < conf.max_output_num

\* Only one empty output is popped.
PopOne(at, emptied) ==
    /\ pc = at
    /\ working_set[Selected] = {}
    /\ current' = Tail(current)
    /\ pc' = IF Tail(current) = <<>> THEN emptied ELSE "take"
    /\ UNCHANGED <<windowVars, i>>

\* The empty output is not popped.
PopNone(at, emptied) ==
    /\ pc = at
    /\ working_set[Selected] = {}
    /\ UNCHANGED <<windowVars, current, i, pc>>

\* while len(working_set[selected]) == 0: popleft(), the loop labelled `at';
\* it is left for `emptied' when the queue is empty.
PopEmpty(at, emptied) ==
    /\ pc = at
    /\ working_set[Selected] = {}
    /\ current' = Tail(current)
    /\ pc' = IF Tail(current) = <<>> THEN emptied ELSE at
    /\ UNCHANGED <<windowVars, i>>

\* The loop of PopEmpty ends: the selected output still needs inputs.
Keep(at, next) ==
    /\ pc = at
    /\ working_set[Selected] # {}
    /\ pc' = next
    /\ UNCHANGED <<windowVars, current, i>>

PopInput(x) ==
    /\ window.input_num < conf.max_input_num
    /\ x \in working_set[Selected]
    /\ Take(x, Selected, Members(current))
    /\ pc' = "drop"
    /\ UNCHANGED <<graphVars, plan, current, i>>

\* The window is full, or the queue was emptied while it was built.
WindowEnds ==
    \/ pc = "close"
    \/ pc = "take" /\ window.input_num >= conf.max_input_num
=============================================================================
