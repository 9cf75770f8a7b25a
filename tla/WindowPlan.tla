----------------------------- MODULE WindowPlan -----------------------------
(***************************************************************************)
(* What a scheduling policy of Graph delivers, whichever it is: it cuts    *)
(* the edges of the graph into windows.  A window is a set of inputs and a *)
(* set of outputs that fit the hardware, and takes every edge between them *)
(* that no earlier window took.  A policy is over, and the next one may    *)
(* start again from the whole graph, only when every edge whose input is a *)
(* line of the file has its window.                                        *)
(***************************************************************************)
EXTENDS WindowBase

VARIABLE remaining    \* the edges no window of this policy has taken yet

vars == <<array, conf, remaining, plan>>

Init ==
    /\ remaining = EdgesOf(array)
    /\ plan = EmptyWindow

FitsHardware(w) ==
    /\ w.input_num = Cardinality(w.inputs)
    /\ w.input_num \in 1 .. conf.max_input_num
    /\ w.output_num = Cardinality(w.outputs)
    /\ w.output_num \in 1 .. conf.max_output_num
    /\ w.edges = Cardinality(w.all_edges)

PlanWindow ==
    /\ FitsHardware(plan')
    /\ plan'.all_edges = remaining \cap (plan'.inputs \X plan'.outputs)
    /\ plan'.all_edges # {}
    /\ remaining' = remaining \ plan'.all_edges
    /\ UNCHANGED graphVars

NextPolicy ==
    /\ remaining \cap (Outputs \X Outputs) = {}
    /\ remaining' = EdgesOf(array)
    /\ plan' = EmptyWindow
    /\ UNCHANGED graphVars

Next == PlanWindow \/ NextPolicy

Spec == Init /\ [][Next]_vars
=============================================================================
