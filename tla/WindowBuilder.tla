--------------------------- MODULE WindowBuilder ---------------------------
(***************************************************************************)
(* The algorithm the five queue policies of graph.py have in common, with  *)
(* their orders left open: outputs wait, are admitted to the working queue *)
(* while it has room, and leave it when they have no input left; a window  *)
(* pops inputs of outputs of the working queue, each input once for all    *)
(* the outputs that share it.  Which output is admitted, selected or       *)
(* dropped first is what the policies decide.                              *)
(***************************************************************************)
EXTENDS WindowBase

VARIABLES waiting,    \* the outputs not yet admitted
          current,    \* the outputs of the working queue
          phase       \* "fill", "window" or "done"

vars == <<windowVars, waiting, current, phase>>

Init ==
    /\ working_set = array
    /\ window = EmptyWindow
    /\ plan = EmptyWindow
    /\ waiting = Outputs
    /\ current = {}
    /\ phase = "fill"

Admit(o) ==
    /\ phase = "fill"
    /\ o \in waiting
    /\ Cardinality(current) < conf.max_output_num
    /\ waiting' = waiting \ {o}
    /\ current' = current \cup {o}
    /\ UNCHANGED <<windowVars, phase>>

Drop(o) ==
    /\ phase \in {"fill", "window"}
    /\ o \in current
    /\ working_set[o] = {}
    /\ current' = current \ {o}
    /\ UNCHANGED <<windowVars, waiting, phase>>

BeginWindow ==
    /\ phase = "fill"
    /\ current # {}
    /\ window' = FreshWindow(current, Cardinality(current))
    /\ phase' = "window"
    /\ UNCHANGED <<graphVars, working_set, plan, waiting, current>>

TakeInput(x, o) ==
    /\ phase = "window"
    /\ window.input_num < conf.max_input_num
    /\ o \in current
    /\ x \in working_set[o]
    /\ Take(x, o, current)
    /\ UNCHANGED <<graphVars, plan, waiting, current, phase>>

CloseWindow ==
    /\ phase = "window"
    /\ window.input_num > 0
    /\ window.input_num < conf.max_input_num => current = {}
    /\ AppendWindow
    /\ phase' = "fill"
    /\ UNCHANGED <<graphVars, working_set, waiting, current>>

\* All outputs of the working queue were already served by earlier windows.
AbandonWindow ==
    /\ phase = "window"
    /\ window.input_num = 0
    /\ current = {}
    /\ window' = EmptyWindow
    /\ phase' = "fill"
    /\ UNCHANGED <<graphVars, working_set, plan, waiting, current>>

Finish ==
    /\ phase = "fill"
    /\ waiting = {}
    /\ current = {}
    /\ phase' = "done"
    /\ UNCHANGED <<windowVars, waiting, current>>

Next ==
    \/ \E o \in Outputs : Admit(o) \/ Drop(o)
    \/ BeginWindow
    \/ \E o \in Outputs : \E x \in working_set[o] : TakeInput(x, o)
    \/ CloseWindow
    \/ AbandonWindow
    \/ Finish

Spec == Init /\ [][Next]_vars

-----------------------------------------------------------------------------
\* The edges no closed window has taken: those still in the working sets and
\* those the open window holds.
Remaining == EdgesOf(working_set) \cup window.all_edges

Plan == INSTANCE WindowPlan WITH remaining <- Remaining
=============================================================================
