-------------------------- MODULE BenchmarkScripts --------------------------
(***************************************************************************)
(* The tables of the benchmark scripts: which simulations each driver      *)
(* starts, and which files each reader looks at and for what.              *)
(*                                                                         *)
(* A simulation is known by its graph, the two settings and the method     *)
(* that tell its commands apart; `fast' says which of its two modes the    *)
(* simulator runs in, hence which results it prints.  A file name is the   *)
(* tuple of its parts.                                                     *)
(***************************************************************************)
EXTENDS Integers, Sequences, FiniteSets, SequencesExt

CONSTANTS Workloads,    \* workloads_defs.workloads
          LargeGraphs,  \* the graphs listed in run-outer-list.py and get2.py
          NewGraphs,    \* the graphs listed in run/run-ramu.py
          Buffers,      \* the buffer sizes
          Dividers      \* the dividers

\* for x in outer: for y in inner: the pairs, in the order of the loops.
Nested(outer, inner) ==
    [k \in 1 .. Len(outer) * Len(inner) |->
        <<outer[(k - 1) \div Len(inner) + 1], inner[((k - 1) % Len(inner)) + 1]>>]

Simulation(graph, buffer, divider, method, fast) ==
    [graph |-> graph, buffer |-> buffer, divider |-> divider, method |-> method,
     fast |-> fast]

\* A command runs its simulation and sends what it prints to the file `out'.
Command(sim, out) == [sim |-> sim, out |-> out]

\* The simulator's defaults for settings that a command does not pass.
DefaultBuffer == 0
DefaultDivider == 2

\* The two log files that main() opens, and empties, besides its output.
LogFile(sim) == <<sim.graph, sim.buffer, sim.divider>>

-----------------------------------------------------------------------------
(* run_sched *)

SchedDividers(method) ==
    IF method = "" THEN Dividers ELSE SubSeq(Dividers, 1, 1)

\* All dividers of a graph write to one file.
SchedFileNoDivider(graph, buffer, divider, method) == <<graph, buffer, method, "sched.out">>

SchedFile(graph, buffer, divider, method) ==
    <<graph, buffer, divider, method, "sched.out">>

SchedCommand(method, settings) ==
    LET buffer == settings[1][1]
        divider == settings[1][2]
        graph == settings[2]
    IN  Command(Simulation(graph, buffer, divider, method, TRUE),
                SchedFile(graph, buffer, divider, method))

SchedMethods == <<"-enable-ideal-selection", "enable-sequential-selection", "">>

MethodCommands(method) ==
    LET loops == Nested(Nested(Buffers, SchedDividers(method)), Workloads)
    IN  [k \in DOMAIN loops |-> SchedCommand(method, loops[k])]

SchedCommands ==
    MethodCommands(SchedMethods[1]) \o MethodCommands(SchedMethods[2])
        \o MethodCommands(SchedMethods[3])

SchedDriver == [name |-> "run_sched/run-ramu.py", pool |-> 10, cmds |-> SchedCommands]

\* One selection method for some buffer sizes and dividers.
SelectionCommand(method, suffix, settings) ==
    LET buffer == settings[1][1]
        divider == settings[1][2]
        graph == settings[2]
    IN  Command(Simulation(graph, buffer, divider, method, TRUE),
                <<graph, buffer, divider, suffix>>)

SelectionCommands(graphs, buffers, dividers, method, suffix) ==
    LET loops == Nested(Nested(buffers, dividers), graphs)
    IN  [k \in DOMAIN loops |-> SelectionCommand(method, suffix, loops[k])]

First(seq) == SubSeq(seq, 1, 1)
Second(seq) == SubSeq(seq, 2, 2)

\* It imports workloads_defs, which is beside the drivers of the directories.
IdealDriver ==
    [name |-> "run_ideal.py", pool |-> 10,
     cmds |-> SelectionCommands(Workloads, Buffers, Dividers,
                                "-enable-ideal-selection", "sched.out")]

SchedIdealDriver ==
    [name |-> "run_sched/run_ideal.py", pool |-> 10,
     cmds |-> SelectionCommands(Workloads, Buffers, First(Dividers),
                                "-enable-ideal-selection", "sched.out")]

SchedIdealTest ==
    [name |-> "run_sched/run-ideal.py", pool |-> 10,
     cmds |-> SelectionCommands(First(Workloads), Second(Buffers), First(Dividers),
                                "-enable-ideal-selection", "sched.ideal.out")]

SchedSeqTest ==
    [name |-> "run_sched/run-seq.py", pool |-> 10,
     cmds |-> SelectionCommands(First(Workloads), Second(Buffers), First(Dividers),
                                "-enable-sequential-selection", "sched.seq.out")]

-----------------------------------------------------------------------------
(* run_outer_queue *)

OuterIdealDriver ==
    [name |-> "run_outer_queue/run_ideal.py", pool |-> 10,
     cmds |-> SelectionCommands(Workloads, Buffers, First(Dividers),
                                "-enable-ideal-selection", "sched.out")]

\* The simulator appends .graph to a name, and these already end with it.
WithSuffix(graphs) == [k \in DOMAIN graphs |-> graphs[k] \o ".graph"]

OuterSeqDriver ==
    [name |-> "run_outer_queue/run-seq.py", pool |-> 10,
     cmds |-> SelectionCommands(WithSuffix(LargeGraphs), Second(Buffers), First(Dividers),
                                "-enable-sequential-selection", "sched.seq.out")]

\* Two simulations of a graph overlap.
OuterListPoolTwo == 2

OuterListPool == 1

OuterListCommand(graph, method) ==
    Command(Simulation(graph, Buffers[Len(Buffers)], DefaultDivider, method,
                       method \in {"seqoldhash", "seq"}),
            <<graph, method, "sched.out">>)

OuterListCommands ==
    LET loops == Nested(LargeGraphs, <<"sliding", "dense", "seqoldhash", "seq">>)
    IN  [k \in DOMAIN loops |-> OuterListCommand(loops[k][1], loops[k][2])]

OuterListDriver ==
    [name |-> "run_outer_queue/run-outer-list.py", pool |-> OuterListPool,
     cmds |-> OuterListCommands]

-----------------------------------------------------------------------------
(* run_cont, run_dense and run *)

WindowCommands(graphs, method, suffix) ==
    [k \in DOMAIN graphs |->
        Command(Simulation(graphs[k], DefaultBuffer, DefaultDivider, method, FALSE),
                <<graphs[k], suffix>>)]

ContDriver ==
    [name |-> "run_cont/run-ramu.py", pool |-> 4,
     cmds |-> WindowCommands(Workloads, "sliding", "cont.out")]

DenseDriver ==
    [name |-> "run_dense/run-ramu.py", pool |-> 4,
     cmds |-> WindowCommands(Workloads, "dense", "dense.out")]

\* No pool: os.system starts each command in the background.
Background == 0

BackgroundDriver ==
    [name |-> "run/run-ramu.py", pool |-> Background,
     cmds |-> WindowCommands(NewGraphs, "sliding", "results/ramuV0.txt")]

\* Every script that starts simulations, but those that do not get so far.
Drivers ==
    {SchedDriver, IdealDriver, SchedIdealDriver, SchedIdealTest, SchedSeqTest,
     OuterIdealDriver, OuterSeqDriver, OuterListDriver, ContDriver, DenseDriver,
     BackgroundDriver}

-----------------------------------------------------------------------------
(* What the simulator prints at its end, and what the readers look for.    *)

Printed(fast) ==
    IF fast THEN {"cycle", "total_rounds_in_agg", "traffic", "input_traffic"}
            ELSE {"total_cycles", "traffic", "input_traffic"}

\* A reader that opens a missing file raises, while `tail' of a missing file is
\* empty; one that takes findall(..)[-1] unasked raises when there is no result.
\* The last 100 lines hold all results: the histogram of the moves between them
\* has at most ten lines, because the hash tables give up after ten moves.
Entry(out, fields) == [out |-> out, fields |-> fields]

SchedReader ==
    [raises |-> FALSE, opens |-> FALSE,
     entries |-> UNION {{Entry(<<g, b, d, m, "sched.out">>, {"total_rounds_in_agg"}) :
                             g \in ToSet(Workloads), b \in ToSet(Buffers),
                             d \in ToSet(SchedDividers(m))} : m \in ToSet(SchedMethods)}]

\* run_outer_queue/get.py asks for the files of run_sched's driver, which no
\* driver of its own directory writes.
OuterReader == SchedReader

\* get2.py asks for the outputs of the bfs method too, whose command is
\* commented out in the driver.
OuterListReader ==
    [raises |-> FALSE, opens |-> FALSE,
     entries |-> {Entry(<<g, m, "sched.out">>, {"total_cycles", "input_traffic"}) :
                      g \in ToSet(LargeGraphs), m \in {"sliding", "dense"}}
                 \cup
                 {Entry(<<g, m, "sched.out">>, {"cycle", "input_traffic"}) :
                      g \in ToSet(LargeGraphs), m \in {"seqoldhash", "seq", "bfs"}}]

ContReader ==
    [raises |-> FALSE, opens |-> TRUE,
     entries |-> {Entry(<<g, "cont.out">>, {"total_cycles"}) : g \in ToSet(Workloads)}]

DenseReader ==
    [raises |-> FALSE, opens |-> TRUE,
     entries |-> {Entry(<<g, "dense.out">>, {"total_cycles"}) : g \in ToSet(Workloads)}]

\* It looks for "histo for query", where the simulator prints "histo for
\* query_and_delete", in files that no driver writes.
HistoReader ==
    [raises |-> FALSE, opens |-> TRUE,
     entries |-> {Entry(<<g, "sched.out">>, {"histo for query"}) : g \in ToSet(Workloads)}]

BackgroundReader ==
    [raises |-> FALSE, opens |-> TRUE,
     entries |-> {Entry(<<g, "result">>, {"total_cycles"}) : g \in ToSet(Workloads)}]

\* It looks at a graph that no list of a driver has.
TrafficGraph == "Graph_saint_reddit"

TrafficReader ==
    [raises |-> TRUE, opens |-> TRUE,
     entries |-> {Entry(<<TrafficGraph, "cont.out">>, {"total_cycles", "traffic"})}]
=============================================================================
