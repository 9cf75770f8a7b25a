----------------------------- MODULE GraphSetup -----------------------------
(***************************************************************************)
(* Graph.setup_window: after setup_hardware it runs the policies one after *)
(* the other, each on the graph as read and with local variables of its    *)
(* own, and each appends to a list of its own.  `order' lists the policies *)
(* as the file calls them: graph.py has seven, get_graph.py five, with the *)
(* divider 5 and the queue size 100 where graph.py takes arguments.        *)
(***************************************************************************)
EXTENDS WindowBase

CONSTANTS Versions, \* the two versions of the class: GraphPy, GetGraphPy
          Files,    \* the files that can be read: sequences of sets of nodes
          Configs   \* the arguments of setup_hardware and setup_window

VARIABLES order,    \* the names of the policies in the order of the calls
          policy,   \* the position in it of the running policy
          windows,  \* the number of windows in the running policy's list
          current, i, pc, short, long, selected_queue,
          counters, zero_deleted, divider,
          current_output_set, next_select_item, next_waiting_set,
          column, row, starting_row, last_existing

queueVars == <<current, short, long, selected_queue, i>>
bloomVars == <<counters, zero_deleted, divider>>
neighborVars == <<current_output_set, next_select_item, next_waiting_set>>
tileVars == <<column, row, starting_row, last_existing>>
vars == <<windowVars, order, policy, windows, queueVars, bloomVars, neighborVars, tileVars, pc>>

GraphPy == <<"sliding", "dense", "sequential", "current", "outer", "bloom", "neighbor">>
GetGraphPy == <<"sliding", "dense", "get_graph_sequential", "get_graph_current",
                "get_graph_outer">>

Sliding == INSTANCE TilePolicy WITH Dense <- FALSE
DenseTile == INSTANCE TilePolicy WITH Dense <- TRUE
Sequential == INSTANCE SequentialPolicy
ShortLong == INSTANCE ShortLongPolicy
Outer == INSTANCE OuterPolicy
Bloom == INSTANCE BloomPolicy
Neighbor == INSTANCE NeighborPolicy
GetGraph == INSTANCE GetGraphPolicy

ASSUME VersionsAssumption == Versions \subseteq {GraphPy, GetGraphPy}

\* A file lists the neighbours of at least one node, a line each.
ASSUME FilesAssumption ==
    \A lines \in Files :
        /\ lines \in Seq(SUBSET Nat) \ {<<>>, <<{}>>}
        /\ \A k \in DOMAIN lines : IsFiniteSet(lines[k])

\* The hardware has room for a node on either side of a window, the outer queues
\* for an output.
ASSUME ConfigsAssumption ==
    /\ Configs \subseteq Config
    /\ \A c \in Configs :
          /\ c.max_input_num > 0 /\ c.max_output_num > 0
          /\ c.divider > 0 /\ c.max_queue_size > 0

Running == order[policy]

FirstLoop(name) ==
    CASE name \in {"sliding", "dense"}                    -> "skip"
      [] name \in {"sequential", "current",
                   "get_graph_sequential", "get_graph_current"} -> "fill"
      [] OTHER                                            -> "setup_outer"

\* The local variables of a policy when it is called.
Start ==
    /\ working_set = array
    /\ window = EmptyWindow
    /\ plan = EmptyWindow
    /\ windows = 0
    /\ current = <<>> /\ short = <<>> /\ long = <<>>
    /\ selected_queue = "short"
    /\ i = 0
    /\ counters = Bloom!ZeroCounters(conf.bloom_entries)
    /\ zero_deleted = FALSE
    /\ divider = conf.divider
    /\ current_output_set = {}
    /\ next_select_item = -1
    /\ next_waiting_set = <<>>
    /\ column = 0 /\ row = 0
    /\ starting_row = 0 /\ last_existing = 0
    /\ pc = FirstLoop(Running)

Init ==
    /\ \E lines \in Files : array = Load(lines)
    /\ conf \in Configs
    /\ order \in Versions
    /\ policy = 1
    /\ Start

\* A policy returns and setup_window calls the next one.
NextPolicy ==
    /\ pc = "done"
    /\ policy < Len(order)
    /\ policy' = policy + 1
    /\ UNCHANGED <<graphVars, order>>
    /\ working_set' = array
    /\ window' = EmptyWindow
    /\ plan' = EmptyWindow
    /\ windows' = 0
    /\ current' = <<>> /\ short' = <<>> /\ long' = <<>>
    /\ selected_queue' = "short"
    /\ i' = 0
    /\ counters' = Bloom!ZeroCounters(conf.bloom_entries)
    /\ zero_deleted' = FALSE
    /\ divider' = conf.divider
    /\ current_output_set' = {}
    /\ next_select_item' = -1
    /\ next_waiting_set' = <<>>
    /\ column' = 0 /\ row' = 0
    /\ starting_row' = 0 /\ last_existing' = 0
    /\ pc' = FirstLoop(order[policy'])

Runs(name) == Running = name /\ UNCHANGED <<order, policy>>

\* Every window appended differs from the one before.
CountWindows == windows' = IF plan' = plan THEN windows ELSE windows + 1

TileStep ==
    /\ \/ Runs("sliding") /\ Sliding!Next
       \/ Runs("dense") /\ DenseTile!Next
    /\ UNCHANGED <<queueVars, bloomVars, neighborVars>>

SequentialStep ==
    /\ Runs("sequential") /\ Sequential!Next
    /\ UNCHANGED <<short, long, selected_queue, bloomVars, neighborVars, tileVars>>

CurrentStep ==
    /\ Runs("current") /\ ShortLong!Next
    /\ UNCHANGED <<current, bloomVars, neighborVars, tileVars>>

OuterStep ==
    /\ Runs("outer") /\ Outer!Next
    /\ UNCHANGED <<selected_queue, bloomVars, neighborVars, tileVars>>

BloomStep ==
    /\ Runs("bloom") /\ Bloom!BloomNext
    /\ UNCHANGED <<selected_queue, neighborVars, tileVars>>

NeighborStep ==
    /\ Runs("neighbor") /\ Neighbor!Next
    /\ UNCHANGED <<current, selected_queue, tileVars>>

GetGraphStep ==
    /\ \/ /\ Runs("get_graph_sequential") /\ GetGraph!SeqNext
          /\ UNCHANGED <<short, long, selected_queue>>
       \/ Runs("get_graph_current") /\ GetGraph!ShortLongNext /\ UNCHANGED current
       \/ Runs("get_graph_outer") /\ GetGraph!OuterNext /\ UNCHANGED selected_queue
    /\ UNCHANGED <<bloomVars, neighborVars, tileVars>>

PolicyStep ==
    \/ TileStep
    \/ SequentialStep
    \/ CurrentStep
    \/ OuterStep
    \/ BloomStep
    \/ NeighborStep
    \/ GetGraphStep

\* setup_window has returned, or a policy of get_graph.py has raised.
Returned == pc = "done" /\ policy = Len(order)
Raised == pc = "KeyError"

Stop ==
    /\ Returned \/ Raised
    /\ UNCHANGED vars

Next ==
    \/ PolicyStep /\ CountWindows
    \/ NextPolicy
    \/ Stop

Spec == Init /\ [][Next]_vars /\ WF_vars(Next)
=============================================================================
