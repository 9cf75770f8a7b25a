-------------------------- MODULE GraphProperties --------------------------
(***************************************************************************)
(* The properties of the window policies run by setup_window.              *)
(***************************************************************************)
EXTENDS GraphSetup

TilePolicies == {"sliding", "dense"}

DequePolicies ==
    {"sequential", "outer", "bloom", "get_graph_sequential", "get_graph_outer"}

SplitPolicies == {"current", "get_graph_current"}

\* The working queue of the running policy, as a set.
WorkingOutputs ==
    CASE Running \in DequePolicies -> Members(current)
      [] Running \in SplitPolicies -> Members(short) \cup Members(long)
      [] OTHER                     -> current_output_set

\* The output whose inputs are popped next.
SelectedOutput ==
    CASE Running \in DequePolicies -> Head(current)
      [] Running \in SplitPolicies -> ShortLong!Selected
      [] OTHER                     -> next_select_item

TypeOK ==
    /\ conf \in Config
    /\ policy \in 1 .. Len(order)
    /\ DOMAIN working_set = Outputs
    /\ \A o \in Outputs : working_set[o] \subseteq array[o]
    /\ i \in 0 .. NumOutputs
    /\ windows \in Nat
    /\ WorkingOutputs \subseteq Outputs
    /\ column \in 0 .. NumOutputs /\ row \in 0 .. NumOutputs
    /\ divider \in Nat \ {0}
    /\ \A h \in DOMAIN counters : counters[h] \in Nat
    /\ DOMAIN next_waiting_set \subseteq Outputs

-----------------------------------------------------------------------------
\* The edges that are in no window of the running policy's list.
Remaining ==
    IF Running \in TilePolicies THEN Sliding!Remaining
    ELSE EdgesOf(working_set) \cup window.all_edges

Plan == INSTANCE WindowPlan WITH remaining <- Remaining

\* Every policy cuts the graph into windows that fit the hardware: each window
\* takes all edges left between its inputs and its outputs, no edge is taken
\* twice, the counters of the window are right, and the next policy starts
\* only when all edges are taken.
PlanSpec == Plan!Spec

\* What setup_window returns is complete: the queue policies have scheduled
\* every edge, the tile policies every edge whose input is a line of the file.
EveryEdgeScheduled ==
    pc = "done" =>
        /\ Remaining \cap (Outputs \X Outputs) = {}
        /\ Running \notin TilePolicies => Remaining = {}

-----------------------------------------------------------------------------
QueuePhase ==
    IF Raised THEN "window"
    ELSE CASE Running \in SplitPolicies -> ShortLong!BuilderPhase
           [] Running \in {"sequential", "get_graph_sequential"} -> Sequential!BuilderPhase
           [] OTHER                     -> Outer!BuilderPhase

Waiting ==
    IF Running \in SplitPolicies THEN i .. NumOutputs - 1
    ELSE (i .. NumOutputs - 1) \cup Members(short) \cup Members(long)

Builder == INSTANCE WindowBuilder
    WITH waiting <- Waiting, current <- WorkingOutputs, phase <- QueuePhase

\* Every step of a queue policy is a step of the common algorithm: an output
\* is dropped from the working queue only when it has no input left, and a
\* window that is not full has exhausted all outputs of the working queue.
BuilderSteps ==
    [][UNCHANGED policy /\ Running \notin TilePolicies
          => Builder!Next \/ UNCHANGED Builder!vars]_vars

-----------------------------------------------------------------------------
\* An input is popped of an output of the working queue that has one left:
\* set.pop raises KeyError otherwise.
PopsNonEmpty ==
    /\ pc # "KeyError"
    /\ (/\ Running \notin TilePolicies
        /\ pc = "take"
        /\ window.input_num < conf.max_input_num) =>
            /\ SelectedOutput \in WorkingOutputs
            /\ working_set[SelectedOutput] # {}

\* The policies of graph.py skip every empty output, however it was emptied.
GraphPyPopsNonEmpty == order = GraphPy => PopsNonEmpty

\* get_graph.py says of its loop that there is remaining output in the set.
GetGraphPyPopsNonEmpty == order = GetGraphPy => PopsNonEmpty

\* The neighbor policy removes the output it selects from its working set:
\* whatever the dictionary of touched outputs holds must still be there.
WaitingInWorkingSet ==
    Running = "neighbor" /\ pc \in {"take", "drop"} =>
        /\ next_select_item \in current_output_set
        /\ DOMAIN next_waiting_set \subseteq current_output_set \ {next_select_item}

\* How often the inputs count in slot h.
HitsOf(inputs, h) == Bloom!MapThenSumSet(LAMBDA x : Bloom!Hits(x, h), inputs)

\* What the filter must hold in slot h for the outputs read so far.
Needed(sets, h) == Bloom!MapThenSumSet(LAMBDA o : HitsOf(sets[o], h), 0 .. i - 1)

\* The bloom filter never deletes from a zero counter, and the score of an
\* output never misses an edge it shares with the working sets: the counters
\* lie between the inputs still needed and the inputs ever inserted.
FilterCoversWorkingSet ==
    Running \in {"bloom", "neighbor"} =>
        /\ ~zero_deleted
        /\ \A h \in DOMAIN counters :
              counters[h] \in Needed(working_set, h) .. Needed(array, h)

-----------------------------------------------------------------------------
RowsWithEdge(c) == {j \in Outputs : Sliding!RowOf(j, c) # {}}

FewestWindows ==
    Bloom!MapThenSumSet(LAMBDA c :
        (Cardinality(RowsWithEdge(c)) + conf.max_input_num - 1) \div conf.max_input_num,
        0 .. Sliding!TotalCols - 1)

\* The dense policy needs as few windows as its columns allow, and the sliding
\* policy never fewer.
DenseWindowsAreFewest ==
    pc = "done" =>
        /\ Running = "dense" => windows = FewestWindows
        /\ Running = "sliding" => windows >= FewestWindows

-----------------------------------------------------------------------------
\* The first fill of the working queue ends.
Fillable ==
    /\ conf.max_output_num <= NumOutputs
    /\ conf.max_output_num <= conf.max_queue_size

\* When the file has enough lines to fill the working queue, setup_window
\* returns from all policies, or get_graph.py raises.
ReturnsWhenFillable == Fillable ~> (Returned \/ (order = GetGraphPy /\ Raised))

\* test_all_graph.py prints the results of every graph: setup_window returns.
SetupReturns == <>Returned
=============================================================================
