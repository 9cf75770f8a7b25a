----------------------------- MODULE WindowBase -----------------------------
(***************************************************************************)
(* The graph of graph.py and the window under construction: what the       *)
(* scheduling policies of class Graph share.  An edge is a pair            *)
(* <<input, output>>; array[o] is the set of inputs of output o.           *)
(*                                                                         *)
(* A window carries the four fields of class Window and two history        *)
(* fields, `inputs' and `outputs': the nodes its counters input_num and    *)
(* output_num count.                                                       *)
(***************************************************************************)
EXTENDS Integers, Sequences, FiniteSets

VARIABLES array,        \* output -> inputs, as read from the file
          conf,         \* arguments of setup_hardware and setup_window
          working_set,  \* output -> inputs not yet scheduled
          window,       \* the window under construction
          plan          \* the window appended last to the policy's list

graphVars == <<array, conf>>
windowVars == <<array, conf, working_set, window, plan>>

Outputs == DOMAIN array
NumOutputs == Cardinality(Outputs)

EdgesOf(sets) == UNION {sets[o] \X {o} : o \in DOMAIN sets}

\* Line k (from 0) lists the neighbours of node k, which is its own neighbour
\* as well.  A blank last line is dropped, a blank line elsewhere is a node.
Load(lines) ==
    LET n == IF lines[Len(lines)] = {} THEN Len(lines) - 1 ELSE Len(lines)
    IN  [k \in 0 .. n - 1 |-> lines[k + 1] \cup {k}]

Config == [max_input_num : Nat, max_output_num : Nat, divider : Nat,
           max_queue_size : Nat, dynamic : BOOLEAN, bloom_entries : Nat \ {0}]

Members(queue) == {queue[k] : k \in 1 .. Len(queue)}

-----------------------------------------------------------------------------
EmptyWindow == [input_num |-> 0, output_num |-> 0, edges |-> 0, all_edges |-> {},
                inputs |-> {}, outputs |-> {}]

FreshWindow(outputs, size) ==
    [EmptyWindow EXCEPT !.output_num = size, !.outputs = outputs]

\* Each output pops its inputs for itself.
SharingNone(x, selected, outputs) == {}

\* The other outputs of the working queue that need input x as well.
Sharing(x, selected, outputs) ==
    {o \in outputs \ {selected} : x \in working_set[o]}

\* Pop input x from the selected output and serve every output of the working
\* queue that shares it.
Take(x, selected, outputs) ==
    LET served == Sharing(x, selected, outputs) \cup {selected}
    IN  /\ working_set' = [o \in DOMAIN working_set |->
                              IF o \in served THEN working_set[o] \ {x}
                                              ELSE working_set[o]]
        /\ window' = [window EXCEPT
                         !.input_num = @ + 1,
                         !.inputs    = @ \cup {x},
                         !.edges     = @ + Cardinality(served),
                         !.all_edges = @ \cup ({x} \X served)]

AppendWindow ==
    /\ plan' = window
    /\ window' = EmptyWindow
=============================================================================
