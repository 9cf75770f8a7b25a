------------------------------ MODULE Scripts ------------------------------
(***************************************************************************)
(* The Python scripts around the simulator, each on its own: a benchmark   *)
(* driver with its readers, the download of the data files, and the        *)
(* function that counts the cycles of the systolic array.                  *)
(***************************************************************************)
EXTENDS Integers, Sequences, FiniteSetsExt

CONSTANTS Workloads, LargeGraphs, NewGraphs, Buffers, Dividers,
          PoolLimit, Graphs, MaxSessions, MaxCrashes,
          Data, MaxInterrupts, Args

VARIABLES driver, session, chunks, assigned, running, disk, failed, crashes,
          here, data_dir, item, interrupts,
          args, st, est, total_cycle,
          script, pc

benchmarkVars == <<driver, session, chunks, assigned, running, disk, failed, crashes>>
downloadVars == <<here, data_dir, item, interrupts>>
cycleVars == <<args, st, est, total_cycle>>
vars == <<benchmarkVars, downloadVars, cycleVars, script, pc>>

Bench == INSTANCE Benchmark
Load == INSTANCE Download
Cycle == INSTANCE SystolicCycle

-----------------------------------------------------------------------------
\* A list of a script: it is not empty and names nothing twice.
IsList(list) ==
    /\ list \in Seq({list[k] : k \in DOMAIN list}) \ {<<>>}
    /\ \A j, k \in DOMAIN list : list[j] = list[k] => j = k

\* The lists of the drivers.  The tests take the second of the buffer sizes;
\* names that differ still differ with a suffix.
ASSUME ListsAssumption ==
    /\ IsList(Workloads) /\ IsList(LargeGraphs) /\ IsList(NewGraphs)
    /\ IsList(Buffers) /\ IsList(Dividers)
    /\ Len(Buffers) >= 2
    /\ IsList(Bench!WithSuffix(LargeGraphs))
    /\ Bench!TrafficGraph \notin {Workloads[k] : k \in DOMAIN Workloads}

\* A pool has a worker.
ASSUME PoolAssumption == PoolLimit \in Nat \ {0}

\* The data files to download.
ASSUME DataAssumption == Data \in Seq({Data[k] : k \in DOMAIN Data}) \ {<<>>}

\* What calculate_systolic_cycle is called with.
ASSUME ArgsAssumption == Args \subseteq Cycle!Argument

-----------------------------------------------------------------------------
NoBenchmark ==
    /\ driver = <<>> /\ session = 0 /\ chunks = <<>> /\ assigned = <<>>
    /\ running = {} /\ disk = <<>> /\ failed = {} /\ crashes = 0

NoDownload == here = <<>> /\ data_dir = <<>> /\ item = 0 /\ interrupts = 0

NoCycle == args = <<>> /\ st = 0 /\ est = 0 /\ total_cycle = 0

Init ==
    \/ script = "benchmark" /\ Bench!Init /\ NoDownload /\ NoCycle /\ pc = ""
    \/ script = "download" /\ Load!Init /\ NoBenchmark /\ NoCycle
    \/ script = "cycle" /\ Cycle!Init /\ NoBenchmark /\ NoDownload

BenchmarkStep ==
    /\ script = "benchmark"
    /\ Bench!Next
    /\ UNCHANGED <<downloadVars, cycleVars, pc, script>>

DownloadStep ==
    /\ script = "download"
    /\ Load!Next
    /\ UNCHANGED <<benchmarkVars, cycleVars, script>>

CycleStep ==
    /\ script = "cycle"
    /\ Cycle!Next
    /\ UNCHANGED <<benchmarkVars, downloadVars, script>>

Next ==
    \/ BenchmarkStep
    \/ DownloadStep
    \/ CycleStep

Running == script = "benchmark" /\ \E w \in Bench!Workers : Bench!WorkerStep(w)

\* The operating system runs the processes of the pool.
Spec ==
    /\ Init
    /\ [][Next]_vars
    /\ WF_vars(Running /\ UNCHANGED <<downloadVars, cycleVars, script, pc>>)
-----------------------------------------------------------------------------
(***************************************************************************)
(* The properties of the scripts around the simulator.                     *)
(***************************************************************************)

SharesLogs == "run_sched/run-ramu.py"

\* Simulations that run at the same time write to different outputs, and,
\* but for run_sched/run-ramu.py, to different log files: the names of the
\* logs leave out the method, and only the single worker of run-outer-list.py
\* keeps the methods of a graph apart.
SimulationsApart ==
    script = "benchmark" =>
        \A v, w \in running : v # w =>
            /\ Bench!Current(v).out # Bench!Current(w).out
            /\ driver.name # SharesLogs =>
                  Bench!LogFile(Bench!Current(v).sim) # Bench!LogFile(Bench!Current(w).sim)

\* The readers beside a driver.
ReadersOf(name) ==
    CASE name = "run_sched/run-ramu.py"              -> {Bench!SchedReader, Bench!HistoReader}
      [] name = "run_outer_queue/run-outer-list.py" -> {Bench!OuterReader, Bench!OuterListReader,
                                                          Bench!HistoReader}
      [] name = "run_cont/run-ramu.py"               -> {Bench!ContReader, Bench!TrafficReader}
      [] name = "run_dense/run-ramu.py"              -> {Bench!DenseReader}
      [] name = "run/run-ramu.py"                    -> {Bench!BackgroundReader}
      [] OTHER                                       -> {}

\* The files that readers open and the driver beside them does not write: those
\* of run_outer_queue/get.py, which only run_sched/run-ramu.py writes, those of
\* the bfs method in get2.py, those of get_histo.py and run/get.py, and that of
\* the get.py at the top.
Unproduced(name, out) ==
    \/ Len(out) = 5 /\ name # "run_sched/run-ramu.py"
    \/ Len(out) = 3 /\ out[2] = "bfs"
    \/ Len(out) = 2 /\ out[2] \in {"sched.out", "result"}
    \/ out = <<Bench!TrafficGraph, "cont.out">>

\* When a driver has returned and its simulations have ended, the readers beside
\* it print, for every entry but those of failed simulations, the final result
\* of the latest session, whatever the earlier sessions left.  Only from the
\* files that no driver writes they never print a number.
FinalResultsRead ==
    script = "benchmark" /\ Bench!Returned /\ Bench!Idle =>
        \A reader \in ReadersOf(driver.name) : \A entry \in reader.entries :
            \/ entry.out \in failed
            \/ /\ Unproduced(driver.name, entry.out)
               /\ Bench!Reads(reader, entry) \in {{"not_ready"}, {"raises"}}
            \/ /\ Bench!Reads(reader, entry) = {"result"}
               /\ disk[entry.out].session = session

\* Every command of a driver is run in every session, and the driver returns,
\* whichever simulations fail.
AllStarted == \A out \in DOMAIN disk : disk[out].session = session

EveryCommandRuns ==
    \A s \in 1 .. MaxSessions :
        script = "benchmark" /\ session = s
            ~> session = s /\ Bench!Returned /\ Bench!Idle /\ AllStarted

\* A whole file in the data directory stays whole, however often the script is
\* interrupted and run again and whatever wget leaves behind.
WholeFilesStay ==
    [][script = "download" =>
         \A f \in Load!Items : data_dir[f] = "whole" => data_dir'[f] = "whole"]_vars

LeastOf(a, b) == IF a < b THEN a ELSE b

\* The frames that cover the product, each with the rows and columns it has.
FrameSum ==
    MapThenSumSet(LAMBDA f :
        Cycle!FrameCycle(LeastOf(args.systolic_x, args.input_x - f[1] * args.systolic_x),
                         LeastOf(args.systolic_y, args.weight_y - f[2] * args.systolic_y)),
        (0 .. Cycle!Steps - 1) \X (0 .. Cycle!OutputSteps - 1))

\* calculate_systolic_cycle returns the sum over the frames that cover the
\* product, the 406 cycles of the comment among them, if there is a row.
CycleSumOfFrames ==
    script = "cycle" =>
        /\ Cycle!ColsAssert
        /\ pc = "return" /\ args.input_x > 0 => total_cycle = FrameSum
=============================================================================
