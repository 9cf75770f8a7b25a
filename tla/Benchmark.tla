----------------------------- MODULE Benchmark -----------------------------
(***************************************************************************)
(* A benchmark session: a driver hands its commands to a pool of workers,  *)
(* each worker runs a command in a shell and waits for it, and the output  *)
(* of the simulator goes to a file that other scripts read at any time.    *)
(* The driver may be run again over the files of an earlier session.       *)
(*                                                                         *)
(* multiprocessing.Pool hands the commands out in chunks; a worker runs    *)
(* its chunk in order.  What the simulator prints reaches its file in      *)
(* blocks: a part of the results may be there before the last of them.     *)
(***************************************************************************)
EXTENDS BenchmarkScripts

CONSTANTS PoolLimit,   \* bound: workers of a pool
          Graphs,      \* the graphs whose file the simulator finds
          MaxSessions, \* bound: runs of the driver
          MaxCrashes   \* bound: simulations that fail or are killed

VARIABLES driver, session,
          chunks,      \* the pool's task queue
          assigned,    \* worker -> the commands of its chunk that are not done
          running,     \* the workers whose command runs
          disk,        \* file name -> what it holds
          failed,      \* the outputs of this session whose simulation failed
          crashes

vars == <<driver, session, chunks, assigned, running, disk, failed, crashes>>

Smaller(a, b) == IF a < b THEN a ELSE b

WorkersOf(d) ==
    1 .. IF d.pool = Background THEN Len(d.cmds) ELSE Smaller(d.pool, PoolLimit)

Workers == WorkersOf(driver)

\* The chunk size of Pool.map.  Commands in the background are started singly.
ChunkSize(d) ==
    IF d.pool = Background THEN 1
    ELSE LET slots == 4 * Cardinality(WorkersOf(d))
         IN  (Len(d.cmds) + slots - 1) \div slots

ChunksOf(d) ==
    LET size == ChunkSize(d)
        count == (Len(d.cmds) + size - 1) \div size
    IN  [k \in 1 .. count |->
            SubSeq(d.cmds, (k - 1) * size + 1, Smaller(k * size, Len(d.cmds)))]

Outputs(d) == {d.cmds[k].out : k \in DOMAIN d.cmds}

Missing == [session |-> 0, sim |-> <<>>, results |-> "none"]

Init ==
    /\ driver \in Drivers
    /\ session = 1
    /\ chunks = ChunksOf(driver)
    /\ assigned = [w \in Workers |-> <<>>]
    /\ running = {}
    /\ disk = [out \in Outputs(driver) |-> Missing]
    /\ failed = {}
    /\ crashes = 0

TakeChunk(w) ==
    /\ assigned[w] = <<>>
    /\ chunks # <<>>
    /\ assigned' = [assigned EXCEPT ![w] = Head(chunks)]
    /\ chunks' = Tail(chunks)
    /\ UNCHANGED <<driver, session, running, disk, failed, crashes>>

Current(w) == Head(assigned[w])

Output(w) == disk[Current(w).out]

\* run_task.  The shell empties the output file before the simulator starts.
StartCommand(w) ==
    /\ assigned[w] # <<>>
    /\ w \notin running
    /\ running' = running \cup {w}
    /\ disk' = [disk EXCEPT ![Current(w).out] =
                   [session |-> session, sim |-> Current(w).sim, results |-> "none"]]
    /\ UNCHANGED <<driver, session, chunks, assigned, failed, crashes>>

\* A block with a part of the results, the last one perhaps cut.
PrintPart(w) ==
    /\ w \in running
    /\ Current(w).sim.graph \in Graphs
    /\ Output(w).results = "none"
    /\ disk' = [disk EXCEPT ![Current(w).out].results = "part"]
    /\ UNCHANGED <<driver, session, chunks, assigned, running, failed, crashes>>

Done(w) ==
    /\ running' = running \ {w}
    /\ assigned' = [assigned EXCEPT ![w] = Tail(@)]
    /\ UNCHANGED <<driver, session, chunks>>

FinishCommand(w) ==
    /\ w \in running
    /\ Current(w).sim.graph \in Graphs
    /\ disk' = [disk EXCEPT ![Current(w).out].results = "all"]
    /\ Done(w)
    /\ UNCHANGED <<failed, crashes>>

\* A command that fails ends its chunk.
FailCommandEndingChunk(w) ==
    /\ w \in running
    /\ \/ Current(w).sim.graph \notin Graphs /\ UNCHANGED crashes
       \/ crashes < MaxCrashes /\ crashes' = crashes + 1
    /\ failed' = failed \cup {Current(w).out}
    /\ running' = running \ {w}
    /\ assigned' = [assigned EXCEPT ![w] = <<>>]
    /\ UNCHANGED <<driver, session, chunks, disk>>

\* The simulator throws or is killed.  run_task does not look at the status.
FailCommand(w) ==
    /\ w \in running
    /\ \/ Current(w).sim.graph \notin Graphs /\ UNCHANGED crashes
       \/ crashes < MaxCrashes /\ crashes' = crashes + 1
    /\ failed' = failed \cup {Current(w).out}
    /\ Done(w)
    /\ UNCHANGED disk

Idle == \A w \in Workers : assigned[w] = <<>>

\* map returns when every command is done; os.system returns at once.
Returned == chunks = <<>> /\ (driver.pool # Background => Idle)

RunAgain ==
    /\ Returned
    /\ Idle
    /\ session < MaxSessions
    /\ session' = session + 1
    /\ chunks' = ChunksOf(driver)
    /\ failed' = {}
    /\ UNCHANGED <<driver, assigned, running, disk, crashes>>

Stop ==
    /\ Returned
    /\ Idle
    /\ session = MaxSessions
    /\ UNCHANGED vars

WorkerStep(w) ==
    \/ TakeChunk(w)
    \/ StartCommand(w)
    \/ PrintPart(w)
    \/ FinishCommand(w)
    \/ FailCommand(w)

Next ==
    \/ \E w \in Workers : WorkerStep(w)
    \/ RunAgain
    \/ Stop

\* The operating system runs every process, and a simulation comes to an end.
Spec == Init /\ [][Next]_vars /\ WF_vars(\E w \in Workers : WorkerStep(w))

-----------------------------------------------------------------------------
\* What a reader may print for an entry: the result, "part" of it or of
\* another result, "not_ready", or it may raise.
NotReady(reader) == IF reader.raises THEN "raises" ELSE "not_ready"

Reads(reader, entry) ==
    IF entry.out \notin DOMAIN disk \/ disk[entry.out].session = 0
    THEN {IF reader.opens THEN "raises" ELSE NotReady(reader)}
    ELSE LET file == disk[entry.out]
         IN  IF file.results = "none" \/ ~(entry.fields \subseteq Printed(file.sim.fast))
             THEN {NotReady(reader)}
             ELSE IF file.results = "part" THEN {NotReady(reader), "part", "result"}
                                           ELSE {"result"}
=============================================================================
