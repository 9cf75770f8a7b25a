# A TLA+ model of the GCN accelerator simulator

The repository holds two programs about one accelerator for graph convolutional
networks, and the scripts around them.

- A cycle-level **simulator** in C++ (`src/src/`). It is single threaded, but what it
  simulates is not: six components, each a little state machine with flags, call each
  other once per cycle and share double buffers, and a memory answers their requests
  after any time and in any order. Whether a run aggregates the right windows,
  writes every column back and ends at all depends on the interplay of about
  forty Boolean flags over millions of cycles.
- A **window scheduler** in Python (`src/graph.py` and its older version
  `src/get_graph.py`). It cuts the edges of a graph into windows that fit the
  hardware, by seven policies, each a loop over queues of outputs whose sets of inputs
  shrink under each other's windows.
- **Scripts** that run the simulator many times in a pool of processes, read what it
  prints, download the data, and estimate the cycles of the systolic array.

## 1. Inventory

`main.cc` runs one of two simulators: `System`, the sliding-window accelerator
(the default), or `controller`, the fast scheduler (`enable_fast_sched`).
Both are built without `NDEBUG`, so a failed `assert` ends the program.

### The sliding-window accelerator (`System.cc`)

| component | state | operations | what makes it correct |
|---|---|---|---|
| `dense_window_set` | the sequence of windows: layers, in them columns, in them row groups | constructor | every edge is in one window; flags of first/last row, column, layer |
| `InputBuffer`, `EdgeBuffer` (`ReadBuffer`) | two slots (current, next): iterator, empty, sent, ready, request; `start_cycle_map` | `cycle`, `pop_current`, `pop_next`, `receive`, `finished_current`, `idle` | an answer reaches the slot it was asked for; the two stay in step |
| `Aggregator` | working, remaining cycles, window | `cycle` | each window once, in order |
| `Aggregator_buffer` | write port (empty, ready, window), read port (empty, ready, busy, window) | `cycle`, `add_new_task`, `finish_write`, `start_read`, `finish_read` | no column is replaced before it is multiplied |
| `SystolicArray` | empty, remaining cycles, window | `cycle` | each complete column once; the last one is flagged |
| `WriteBuffer` | to-buffer (empty, started, finished, request), to-memory (empty, started, request) | `cycle`, `start_write_to_buffer`, `finished_write_to_buffer`, `popWriteToMemReq`, `finished_write_memory` | every column is written once, and the last one ends the run |
| `memory_interface` | request queue, queue of lines to fetch, queue of lines come back, which request waits for which line, finished requests | `send`, `cycle`, `ret_available`, `get_req` | every request is answered exactly once, when all its lines are there |
| `System` | time of core and memory, dead-lock counters | `run`, `cycle` | the order of all of the above in a cycle; at most one request goes out and one answer comes in per cycle |

The components interact by calls into shared buffers: the aggregator reads the
two read buffers and writes the aggregation buffer, the systolic array reads
that and writes the output buffer; the system carries requests from the read
buffers and the output buffer to the memory, and the answers back. Nothing else
orders them. The hard behaviours are

- **ordering**: answers come in any order and after any number of cycles, also
  after the slot that asked has moved from "next" to "current";
- **waiting in a circle**: each component waits for its neighbours' flags;
- **falling apart**: the input buffer walks over windows, the edge buffer over
  columns, and they are kept together only by being consumed together;
- **the end**: the run ends by a flag on the last write request and by nothing
  else; the last windows leave slots empty while others are in flight;
- **the dead-lock detection**, a timeout that ends the program by mistake or
  fails to;
- **numbers**: rounding of addresses to lines, durations that may be zero.

### The fast scheduler (`controller.cc`)

| component | state | operations | what makes it correct |
|---|---|---|---|
| `controller` | held-back edge, current task, remaining cycles, running layer | `cycle` and its five `handle_` functions | every edge is aggregated once; the layers follow each other; the run ends |
| `edge_hash`, `Hash_table` | two hash tables with entries chained through "moved" slots | insert, query, delete, move | what was inserted and not deleted is found; a failed insertion leaves no trace |
| `output_pool` | output nodes with their remaining edges, a cursor | next edge, remove, finished | no edge twice, no edge forgotten |
| fast `InputBuffer`, `Aggregator` | two tasks in flight | send, receive, cycle | a task is aggregated after its data came |

### The window scheduler (`graph.py`, `get_graph.py`)

`graph_back.py` and `run_outer_queue/graph.py` are copies of `graph.py`, and
`run_sched`, `run_dense` and `run_outer_queue` hold copies of `get_graph.py`.

| component | state | operations | what makes it correct |
|---|---|---|---|
| `Graph` | `array`: for each output its inputs; hardware sizes; a list of windows per policy | constructor (reads the file), `setup_hardware`, `setup_window` | all policies see the whole graph |
| `Window` | three counters and the edges it takes | appended to the list when it is full or the queue is empty | fits the hardware; takes all edges left between its inputs and outputs; counters are right |
| sliding and dense policy | column, row, first and last row with an edge | one tile per step | every edge of the columns, as few windows as possible (dense) |
| sequential, current (short/long) policy | working queue(s), next output | fill, skip empty, pop an input, drop, close | no output forgotten or dropped with inputs left; no pop of an empty set |
| outer and bloom policy | two outer queues before the working queue; `BloomFilter`, dynamic divider | as above, plus enqueue and move | as above; the first fill ends |
| neighbor policy | a working set and a dictionary of touched outputs with their scores | as above, plus select by score | the selected output is still there |
| `BloomFilter` | counters, indexed by two hashes | `insert`, `delete`, `query` | never deletes from a zero counter; never misses a shared edge |

`setup_window` calls one policy after the other; they share nothing but the graph. What
is hard is inside: an input that is popped for the selected output is taken from all
outputs of the working queue at once, so the next output to be selected may have become
empty in the meantime, and each of the seven loops handles this in code of its own.

### The scripts

| component | state | operations | what makes it correct |
|---|---|---|---|
| drivers (`run_sched`, `run_outer_queue`, `run_cont`, `run_dense`, `run`, `run_ideal.py`) | a list of commands, a `multiprocessing.Pool`, output and log files | build the list, `map` it, wait | every command runs, whatever fails; simulations do not write to each other's files |
| readers (`get.py`, `get2.py`, `get_histo.py`) | none | read the end of each output file and search it | they print the results of the latest run once it is over |
| `download_graph.py` | files in two directories | check, `wget`, move | a whole file stays whole |
| `calculate_systolic_cycle` | two loop counters, a sum | two nested loops | the sum over all frames |

The drivers and readers are separate processes that meet in files; the user may run a
reader while a driver works, and run a driver again over old files.

### The rest

DRAM wrappers (adapters to vendored simulators), `Graph` and `Model` (parsers and
tables), `main` and configuration, and code that no mode reaches
(`System_fast`, `SystolicArray_fast`, `Slide_window`, `new_controller`,
`contoll_signal_generator`). They have no behaviour of their own that a state
machine would show; what they determine (the window sequence, the order of
answers) is a parameter or a nondeterministic choice of the models.
`sized_queue` is used by its tests only.

## 2. The modules

```
WindowStream -- Requests -+- ReadBuffer (twice) ---+
     |                    +- WriteBuffer ----------+- PipelineState -+- Aggregator ----+
     +- AggregatorBuffer --------------------------+                 +- SystolicArray -+- System
     +- ColumnPipeline (abstract)                                                          |
                                       SystemProofs - SystemInvariant - SystemProperties --+
                                                            |                    |
                                                        MCSystem             MemoryPort (abstract)
                                                                                 |
MemoryInterface ---------------------------------------------------- MemoryProperties
                                                                                 |
                                                                MCMemory, MemoryProofs
```

- **WindowStream** has the sequence of windows as a constant. A window is its
  index; what is kept of it is its column number and its four flags.
  `WindowsAssumption` says what the constructor of `dense_window_set`
  guarantees: columns are contiguous, and the flags mark their ends.
- **Requests**: `Req` with its id from a static counter, its device, the window
  its address range stands for, and the two flags of a last write.
- **ReadBuffer** is instantiated twice, as `input` and as `edge`. The two
  subclasses differ in `cycle()`: `InputCycle` goes on to the next window and
  moves the request along with the slot; `EdgeCycle` goes on to the next column
  and does not. At the end of the windows only `next_empty` is set, the other
  flags keep what they were, as in the code.
- **AggregatorBuffer**, **WriteBuffer**: one operator per function, with its
  assertion next to it. Flags the code flips with `r()` are flipped here.
- **Aggregator**, **SystolicArray**: one action per path through `cycle()`.
  How long a window or a column takes is any member of a constant set; a window may take
  no cycle at all, and then the aggregator's next `cycle()` fails (`NothingToWorkOn`).
- **System**: `phase` walks through the blocks of `System::cycle()`: buffers,
  aggregator, systolic array, dead-lock detection, memory, send, receive. The
  chain of `else if`s of the memory port is one action per branch, each guarded
  by the negation of those before. The memory is a set of pending and a set of
  finished requests: any pending request may finish at any memory cycle.
- `failed` collects the assertions, throwing look-ups and null dereferences a
  step runs into; a run with a failure halts.
- **ColumnPipeline** is the abstract specification: windows are aggregated one
  after the other, a column is multiplied once its windows are aggregated,
  written once multiplied. `System` implements it under the mapping of
  `SystemProperties`; `combined` and `written` are history variables.
- **SystemInvariant**: the inductive invariant, in two parts. `BufferInvariant` is about the
  flags and requests and is inductive by itself; **SystemProofs** has its proof.
  `PipelineInvariant` is about the columns on their way and the edge buffer, and is inductive
  together with the first. **SystemProofs** has the proof and what follows from it.
- **MemoryPort** is what stands between the two halves: a set of pending and a
  set of returned requests, known by their ids. `System` uses it
  (`UsesMemoryPort`: ids are unique, answers are taken once), and
  `MemoryInterface` implements it (`ImplementsMemoryPort`), so that what is shown
  of the pipeline holds with the memory interface behind the port.
- **MemoryInterface** models `memory_interface::cycle()` as the loops it consists
  of; an action is one pass through a loop body, `phase` is the loop. A request is a
  record with the fields of `Req`; `NewReq` and `set_addr` compute its addresses with the
  code's rounding (`LineOf` is `& ~63`, the length gets `% 63`). The C++ maps of sets,
  `addr_to_req_map` and `req_id_to_addr_map`, are sets of pairs. The loop that cuts
  a read into lines has the counter `next_line`, the one that sends a write
  rewrites the request at the front of the queue, as the code does. A write
  that cannot go on (`WriteWaits`) and one that is done both leave
  `cycle()` at once, past all other loops. `transferred` is a history variable.
  The DRAM (external) is a set of lines in work and a queue of fetched ones.
- **MemoryProperties** also holds its inductive invariant, in two parts as well
  (`QueuesInvariant`, `TransfersInvariant`), **MemoryProofs** the proofs.

The window scheduler and the scripts:

```
WindowBase -+- WindowPlan (abstract)
            +- WindowBuilder (abstract, implements WindowPlan)
            +- WorkingQueue -+- SequentialPolicy ---------------+
            |                +- OuterPolicy -- BloomPolicy -----+- GraphSetup - GraphProperties - MCGraph
            +- ShortLongPolicy, NeighborPolicy, TilePolicy -----+
            +- GetGraphPolicy ----------------------------------+       (BloomPolicy: BloomFilter)
            +- WindowLemmas -+- WindowProofs -+- PolicyProofs
                                              +- QueueProofs - GraphProofs

BenchmarkScripts - Benchmark -+
                   Download --+- Scripts -+- MCScripts
              SystolicCycle --+           +- ScriptsProofs
```

- **WindowBase**: the graph as a function from outputs to sets of inputs (`Load` adds
  each node to its own inputs, and drops a blank last line, as the constructor does), the
  window with its counters, and `Take`, which pops an input for all outputs that share
  it. `inputs` and `outputs` of a window are history fields that say what its two
  counters count.
- **WindowPlan** is what any policy promises: each window fits the hardware, takes all
  edges left between its inputs and outputs, at least one, and a policy is over only when
  all edges are taken.
- **WindowBuilder** is the algorithm the queue policies have in common, with their orders
  left open: outputs wait, are admitted to the working queue, lose inputs, are dropped
  when empty. It stands between the policies and the plan.
- **SequentialPolicy**, **ShortLongPolicy**, **OuterPolicy**, **BloomPolicy**,
  **NeighborPolicy**, **TilePolicy** (sliding and dense): one action per loop, `pc` is the
  loop. `set.pop()` takes any member. **GetGraphPolicy** has the three queue policies of
  the older file where they differ; its tile policies are textually those of `graph.py`.
  A `KeyError` is the value `"KeyError"` of `pc`.
- **BloomFilter** has the arithmetic of both hashes. `delete` of a zero counter leaves it
  and sets `zero_deleted`, where the code prints "error , it's zero!!".
- **GraphSetup** composes them as `setup_window` does, one after the other, each with the
  local variables the code gives it. `windows` is the length of the policy's list, of
  which `plan` keeps the last window.
- **BenchmarkScripts** holds the tables: which commands each driver builds, in the order
  of its loops, which file each writes, and which file and result each reader asks for. A
  file name is the tuple of its parts, so that two names are equal only if the code's are.
- **Benchmark** is a session: chunks of `Pool.map`, workers, the shell that empties the
  output before the simulator starts, output that arrives in parts, a simulation that
  fails (its graph has no file, or it is killed), and the driver run again. A driver
  without a pool starts all its commands in the background and returns.
- **Download**: `wget` leaves nothing, a part or the whole, and its status is not looked
  at; a move within a file system is one step, between two it copies; the script may be
  interrupted anywhere and run again.
- **SystolicCycle**: both loops of `calculate_systolic_cycle`, its branches and assertions.

The four buffers' `cycle()` functions are one step because they share nothing;
all other blocks are steps of their own.

The proofs are in eight modules. **WindowLemmas** has what all proofs about windows and
queues need: what `append` and `popleft` do to the members of a queue, the cardinality of
unions, sums over finite sets (`Total`). **WindowProofs** is about `WindowBuilder`,
**PolicyProofs** about three policies run by themselves. **QueueProofs** (it extends
`GraphProperties` and `WindowLemmas`) is about the steps of all eight queue policies,
**GraphProofs** about `setup_window` as a whole, **ScriptsProofs** about the scripts.

## 3. The runs

| run | windows (row groups per column, layers by bar) | durations | what it shows |
|---|---|---|---|
| `pipeline_safety` | 2, 2 \| 1, 1 | aggregation 0, 1 or 4, systolic 3 or 6 | all safety properties and the refinement |
| `read_ahead` | 1, 1, 1 \| 1, 1, 1, 1 | 1; 3 | the input is never more than six columns ahead of the write back |
| `pipeline_liveness` | 1, 2 \| 2, 1 | 0, 1 or 2; 3 | a run halts; write backs are not starved |
| `memory_sharing` | 4 requests, see below | any | a shared line is fetched once, requests are answered once, when complete, and eventually |
| `address_rounding` | 2 requests | any | refutes that a request transfers the lines of its bytes |
| `edge_receive` | 1, 2 \| 2, 1 | 1 or 2; 3 | refutes the assertion of `EdgeBuffer::receive()` |
| `edge_column` | 2, 2 \| 1, 1 | 1 or 2; 3 | refutes that the edges in use are those of the column |
| `dead_lock_report` | 1, 2 \| 2, 1 | 4; 3 | refutes that a reported dead lock is one |

| run | instance | what it shows |
|---|---|---|
| `window_policies` | both versions; all graphs of three lines over three nodes, six of four lines, two with neighbours that have no line; four hardware setups | all policies cut all edges into windows; they return when the file can fill the queue |
| `key_error` | `get_graph.py` on small graphs | refutes that its policies pop only what is there |
| `fill_hang` | `graph.py` on small graphs | refutes that `setup_window` always returns |
| `scripts` | all drivers, two workers, two sessions, one killed simulation, a graph without a file; two data files, two interrupts; 1009 argument tuples | outputs apart, latest results read, every command run, whole files kept, the sum of the cycles |

The properties:

- `TypeOK` and `InductiveInvariant`.
- `OnlyTwoAssertionsFail`: of the assertions in the `cycle()` functions and in what these
  call on one another, and of the look-ups and dereferences (`Assertions` names them all), only
  two can fail: the one of `EdgeBuffer::receive()`, and `assert(remaining_cycles and
  current_sliding_window)` at `Aggregator.cc:26`, and this one only because a window takes no
  cycle, never for want of a window. Beside them only the dead-lock detection ends a run
  early. The checks inside `calculate_remaining_cycle()` and `cal_remaining_cycle()`, of a
  model's dimensions and of the settings, are not modelled.
- `AnswersFindTheirSlot`: the input buffer never mixes up windows.
- `EdgesAtMostOneColumnBehind`: how far the two read buffers can fall apart.
- `ReadAheadBounded`: how many columns of a layer may be missing in memory when
  the next layer reads it. The bound six is reached.
- `AtMostFiveRequests`: the queue of 64 entries never fills, so the assertion
  in `memory_interface::send()` holds. The bound five is reached.
- `NeverStuck`: no circular wait, in any reachable state.
- `RunEndsComplete`: a run ends with every buffer behind the aggregator empty,
  the last column written, and one time stamp per layer.
- `ImplementsColumnPipeline`: the refinement.
- `UsesMemoryPort`: the system's use of the memory is a behaviour of `MemoryPort`.
- `RunHalts`, `WriteBackHappens`: liveness.
- `EachAwaitedLineUnderWayOnce`: a line some read waits for is in exactly one of
  `out_send_queue`, DRAM, DRAM answers and `response_queue`, and only such lines are.
- `MapsAgree`: the two maps mirror each other, and whoever waits is known.
- `DoneWhenTransferred`: a read is done exactly when all its lines have come. A write is done
  only when lines that follow one another from its first on, with room for all its bytes, have
  gone; that they may be more than these is the subject of `address_rounding`.
- `ImplementsMemoryPort`, `EveryRequestIsDone`: the refinement and liveness.

- `PlanSpec`: `setup_window` implements `WindowPlan`, policy after policy.
- `BuilderSteps`: each step of a queue policy is a step of `WindowBuilder`.
- `EveryEdgeScheduled`: what is returned is complete. The tile policies leave out edges
  from nodes that have no line in the file: their columns end with the file.
- `GraphPyPopsNonEmpty` (and its counterpart `GetGraphPyPopsNonEmpty`, refuted): the
  selected output is in the working queue and has an input, so that `set.pop()` succeeds.
- `WaitingInWorkingSet`: the neighbor policy's dictionary names only outputs that can
  still be removed from the working set.
- `FilterCoversWorkingSet`: each counter of the filter lies between the inputs still
  needed and those ever inserted, and no zero counter is decremented.
- `DenseWindowsAreFewest`: the dense policy has the fewest windows its columns allow, the
  sliding policy no fewer.
- `ReturnsWhenFillable` (and `SetupReturns`, refuted): the policies end.
- `SimulationsApart`: simulations that overlap write to different outputs and logs.
- `FinalResultsRead`: once a driver has returned, its readers print the results of this
  session, or say that there is none, for files nobody writes and simulations that failed.
- `EveryCommandRuns`: every command is run in every session, although others fail.
- `WholeFilesStay`: no step replaces a whole data file.
- `CycleSumOfFrames`: the loops return the sum over the frames covering the product.

**Bounds.** Six windows in four columns and two layers give every combination of
first/inner/last row, column and layer flag, with columns of one and of two row
groups, and the edge buffer aligned (first column of one row group) and lagging
(two). Column numbers repeat in the second layer, as in the code. Seven columns
fill the pipeline from the input to the memory: two in the input buffer, one in
each port of the aggregation buffer, two in the output buffer. Durations are
chosen so that the aggregator can be faster and slower than the systolic array,
the shortest systolic duration being the code's own minimum and the shortest window one
that takes no cycle. The memory is not
bounded. `DeadLockGap` stands for 100000 cycles and is 2 or 3: long enough to be
missed and short enough to be reached. `WaitingSize` is the code's 64.

The memory interface gets four requests in any order and at any times: two lists of
node addresses that share a line (one of them names it twice), an edge range
that overlaps both, and a write of more than two lines. Sharing between more than
three reads adds nothing: a line is fetched for the first and joined by the others,
at every stage of its way. The accelerator has at most five requests outstanding
(`AtMostFiveRequests`). `address_rounding` has one request for each direction in which
`% 63` and `% 64` differ.

The graphs of three lines are all there are, 512 files, among them the ones with a blank
last line; with four lines there is a hub, a cycle, a chain, two pairs and dense ones. The
setups have working queues of one, two and all outputs, windows of one input and of more
than any output has, outer queues with room for one and for all, a constant and a dynamic
divider, and filters of 2, 3 and 5 entries: with 2 the hashes are equal and count twice,
with 3 and 5 they fall on other inputs' slots. Sizes that come to
more than one working queue of outputs occur already with three lines.

In the scripts two workers suffice for any pair of simulations to overlap (`PoolLimit`
stands for 10 and 4). Two buffer sizes, two dividers and two or three graphs give every
pair of commands that differ in one part of a name. Two sessions are a first run and a
second over old files. The arrays are up to 3 by 3 and the products up to 7 by 7, with
products that fit exactly and that leave a rest on either side, without a row, and the
example of the file, whose result is 406.

**Fairness.** `FairSpec` has weak fairness of `Next`: `run()` calls `cycle()` for
ever and every function returns. The memory may let any number of its turns pass
(the phase "memory" can be left at once), so it gets strong fairness of
`MemoryAnswers`: a memory that is asked again and again does answer, as the DRAM
simulators do. No action of the accelerator itself gets fairness of its own.
`RunHalts` says "halts", not "finishes": the two failures found below end runs
too, and so does a window of no cycles. The memory interface's `FairSpec` has weak fairness of `Next` as well (its
client calls `cycle()` for ever), and strong fairness of what the DRAM decides:
it completes each of its reads some time (`DramAnswers`), and has room for a write line
(`SendWriteLine`) and for a line to fetch (`SendLine`) again and again. The client is
free to take answers or not. `GraphSetup` has weak fairness of `Next`: a sequential
program goes on. `Scripts` has weak fairness of the workers' steps only: the operating
system runs every process, and a simulation comes to an end. Nobody must run a driver
again, continue a download or read a result.

## 4. What the runs found

1. **`EdgeBuffer::cycle()` forgets the request** (`buffer.cc:192-195`).
   `InputBuffer::cycle()` moves `next_req` to `current_req`; `EdgeBuffer`'s does
   not. If the prefetched edges are still on their way when the slot moves, the
   answer is compared with the old request, and the assertion at `buffer.cc:441`
   fails. (Run `edge_receive`.)
2. **Edges of the wrong column** (`buffer.cc:181`). The edge buffer's constructor
   prefetches `std::next(begin)`, the second row group of the first column if
   there is one, and from then on is one column behind. (Run `edge_column`.)
   The timing is affected, not a result: the simulator moves no data.
3. **Dead locks that are none** (`System.cc:359`). Two full read buffers count as
   a stand-still also while the aggregator is working, and the third report,
   however far from the first, ends the program. (Run `dead_lock_report`.)
4. **Rounded with % 63** (`types.h:47`). What rounding an address down to its
   line loses in front is added to the length, but is computed with `% 63`. A
   64-byte write at 3968 is sent as two lines, and set again for each line it
   may grow further; a read that ends behind a line boundary may miss its
   last line (8 bytes at 252). Again only the traffic is affected.
   (Run `address_rounding`.)
5. **`KeyError` in `get_graph.py`** (lines 172, 227, 300). After an input is popped only
   the selected output is tested for being empty, and the next one, which may have lost
   its inputs to the same window, is selected unseen. `graph.py` has loops in these places.
   (Run `key_error`.)
6. **The first fill spins** (`graph.py:372`, 478, 593, `get_graph.py:283`). The loop that
   fills the working queue for the first time ends only when the queue is full; a graph with
   fewer nodes than the queue has places keeps it busy for ever. (Run `fill_hang`.)

A fact about the accelerator that is no disagreement with a comment, and which
`OnlyTwoAssertionsFail` states: `calculate_remaining_cycle()` truncates, and returns 0 for a
window with less than one element left when the share of zero features is taken off
(`Aggregator.cc:193-203`). The window is started nevertheless, and the next `cycle()` ends the
program by the assertion at line 26.

Facts about the scripts that the tables record and no property forbids:
the three methods of a graph overlap in `run_sched/run-ramu.py` and share their log
files; its second method, `enable-sequential-selection` without a dash, selects
nothing; `run_outer_queue/run-seq.py` passes names that end with `.graph` already, so
all its simulations fail; `get2.py` asks for `bfs` results that no command produces;
`run_sched/get_histo.py` and `run/get.py` read files nobody writes, and `run_outer_queue/get.py`,
a copy of the one in `run_sched`, files that no driver beside it writes; `get.py` asks for
the results of `Graph_saint_reddit`, a graph in no driver's list; and
`calculate_systolic_cycle` counts a full row of frames for a matrix without rows.

## 5. What is proved

`SystemProofs.tla` proves, with no step left open, for every window
sequence that satisfies `WindowsAssumption`, all sets of durations and every size of the
queue and of the dead-lock gap:

- `SystemTypeOK`: `Spec => []TypeOK`
- `SystemBufferInvariant`: `Spec => []BufferInvariant`
- `SystemOnlyTwoAssertionsFail`: `Spec => []OnlyTwoAssertionsFail`
- `SystemAnswersFindTheirSlot`: `Spec => []AnswersFindTheirSlot`
- `SystemInductiveInvariant`: `Spec => []InductiveInvariant`
- `SystemImplementsColumnPipeline`: `Spec => ImplementsColumnPipeline`
- `SystemUsesMemoryPort`: `Spec => UsesMemoryPort`
- `SystemEdgesAtMostOneColumnBehind`: `Spec => []EdgesAtMostOneColumnBehind`
- `SystemAtMostFiveRequests`: `Spec => []AtMostFiveRequests`
- `SystemReadAheadBounded`: `Spec => []ReadAheadBounded`
- `SystemNeverStuck`: `Spec => []NeverStuck`
- `SystemRunEndsComplete`: `Spec => []RunEndsComplete`

These are all the safety properties of the accelerator that the passing runs check. With
`MemoryImplementsPort` below, both sides of the port are proved.

*Flags and requests.* `OnlyTwoAssertionsFail` is not inductive: that `add_new_task()` finds
the write port free depends on where the aggregator is, that `receive()` finds a slot on
which requests are outstanding, that an aggregator at work has a window on the slot it took it
from. `BufferInvariant` adds just this:
`InputPosition` ties the input buffer's iterator to the aggregator's window (at
it while the window is worked on or just consumed, else one ahead), and leaves no cycles
to an idle aggregator;
`WritePort` says that the write port is filling exactly while the aggregator is
inside a column; `ReadPort` that a column stays in the read port while it is
multiplied; `Output` relates the output buffer's flags to its requests and to
the systolic array; `Outstanding` that reads are told apart by ids below the
counter and the write on its way is the one awaited; `InputAnswers` that the
slots sent for and the requests on their way match one to one. The edge
buffer's part is weaker, as the code is: `HasRequest` says only that the request
it compares with is not null.

*Columns.* For the refinement it must be known which column is where, and that is
`PipelineInvariant`. From the last column written to the aggregator's window the places of the
pipeline that are taken (memory side and buffer side of the output buffer, read port and write
port of the aggregation buffer) hold one column after the other, each the `find_next_col()`
of the one before it (`ColumnsInOrder`); the column that is multiplied is in the output buffer and in the
read port at once (`Multiplication`); and the newest of them is the one of the aggregator's
window (`AggregatedColumn`). With this the steps map to the abstract ones as follows:
the end of a window's aggregation to `AggregateWindow`, the end of a multiplication to
`MultiplyColumn`, the answer to a write to `WriteColumn`, all others to a stutter.
`RunState` says that the run is finished exactly by the answer to the last write, and counts
the layers written so far. `RunEndsComplete` follows because the columns are in order: if the last one
is written, nothing can lie behind it in the pipeline, and all windows are consumed
(`NothingAfterTheEnd`, `NothingLeft`, `InputConsumed`).

*Edges.* The edge buffer's slots are compared with the column they serve by number
(`ColumnNumber` counts the columns up to a window): the current slot holds the edges of
the served column or of the one before, the next slot one more (`EdgePosition`). That the slots lag
by one column at most, although the input buffer walks on by itself, comes from their being consumed
together. `EdgeRequests` says of the requests for edges what `InputAnswers` cannot say here:
at most two are on their way, one for each slot, but the one for the current slot
need not be the one `current.req` names, since `EdgeBuffer::cycle()` forgets it; the witness
`first` stands for it. Hence at most two requests for the input, two for edges and one
write are outstanding (`AtMostFiveRequests`). `WriteRequests` makes ids unique over all kinds of requests, which
`UsesMemoryPort` needs, since the port knows requests by their ids only.

*Nothing stands still.* `NeverStuck` is shown by contradiction: if the aggregator, the systolic array and the buffers can
do nothing and no request waits, then every place behind the aggregator is
empty, but for a column it has begun (`QuietPlaces`). If the windows were all consumed, the
last column would be written and the run over, so the input buffer's slot is ready
(`QuietInput`); then the edge buffer still has a column to serve and is ready as well (`QuietEdges`), and
the aggregator starts. `ReadAheadBounded`
counts the places between the input and the memory: with columns in order and each place one column,
the next slot of the input is at most six columns ahead of what is written.

The proofs have a lemma per action (the buffers' `cycle()` one per buffer), under
it one step per conjunct the action can disturb, and a case per branch. Facts
about `find_next_col` (it yields a first row or `end()`, after its argument) come
from the well-foundedness of the natural numbers, those about `ColumnNumber` and `LayersUpTo` from the
library's theorems about the cardinality of finite sets: one more window adds one
exactly if it begins a column.

`MemoryProofs.tla` proves, for every set of demands with distinct ids (any
addresses and lengths) and every queue size:

- `QueuesInvariantHolds`, `MemoryInvariantHolds`: `Spec => []QueuesInvariant`,
  `Spec => []MemoryIndInv`
- `MemoryTypeCorrect`: `Spec => []TypeOK`
- `AwaitedLinesUnderWayOnce`: `Spec => []EachAwaitedLineUnderWayOnce`
- `MapsAlwaysAgree`: `Spec => []MapsAgree`
- `RequestsDoneWhenTransferred`: `Spec => []DoneWhenTransferred`
- `MemoryImplementsPort`: `Spec => ImplementsMemoryPort`

`QueuesInvariant` adds to `MapsAgree` and `EachAwaitedLineUnderWayOnce` what they depend on: the ids in
`req_queue` are distinct, unanswered, and reads exactly if `id_to_reqs_map` has them
(`QueuedOnce`, `Queued`, `Pending`), and no other loop sees a read half cut or
a request left in the queue (`Cutting`). The argument for a line: it is appended
to `out_send_queue` only if nobody awaits it, hence only if it is nowhere; then it
moves from place to place, and leaves the last one together with all who await it.
The queues' part rests on lemmas about `Append`, `Tail` and `\o` as operations on
the set of a queue's elements; that of `MapsAgree` on reading both maps pair by pair
(`PairForm`). For the refinement each action is a step of the port or changes
neither set: a read leaves the queue without ceasing to be pending, a write is
finished when it leaves it, and a response finishes all the reads it was the last line of in
one step, which the port allows.

`TransfersInvariant` keeps account of the lines of each read: those cut off it so far (`CutOff`:
none before it is at the front of the queue, those before `next_line` while it is, all of them
afterwards) are the ones it awaits and the ones that have come, and none is both. No line comes before
the read has left the queue, because responses are handled only when the queue is
empty, and a read that has left it and is not done awaits a line. A read is
done when it awaits nothing any more, so all its lines have come; it is not done before, since
even a queued one has a line to wait for (`NewReqFacts`: no request is empty). For this a queued
read must still be the request made of its demand (`KeptDemands`), while a write is
rewritten line by line. Of a write the invariant says what is left of it (`WriteAccounted`): while
it is queued it begins right behind the lines that have gone, on a line of its own, and reaches
at least as far as the demand did, since `set_addr()` rounds the address down and never takes
from the length; so when the rest has shrunk to a line or less, and that line goes, those
before it are there and have room for everything.

`WindowProofs.tla` proves of the common algorithm, for every finite graph and every size of
the hardware:

- `BuilderInvariant`: `ValidSetup /\ Spec => [](ValidSetup /\ BuilderInv)`
- `BuilderImplementsPlan`: `ValidSetup /\ Spec => Plan!Spec`
- `BuilderSchedulesEverything`: when it is done, no edge remains.

`BuilderInv` says of an output that neither waits nor is in the working queue that it has no
input left, and of the open window that its inputs are exhausted in all its outputs. From
the second part follows that the edges of the window are disjoint from those still in the
working sets, hence that closing it takes exactly the remaining edges between its inputs and
outputs. `PolicyProofs.tla` proves of three policies of `graph.py` by themselves,
for every graph and all sizes, dividers and answers of the bloom filter:

- `SequentialPopsNonEmpty`, `OuterPopsNonEmpty`: no pop of an empty set
- `SequentialImplementsBuilder`, `OuterImplementsBuilder`: each step is a step of the
  common algorithm or a stutter
- `SequentialImplementsPlan`, `OuterImplementsPlan`: hence the policy implements the plan
- `SequentialSchedulesEverything`, `OuterSchedulesEverything`

The theorems about `Outer` hold for the outer and for the bloom policy, whose steps
have the same effect on what the invariant sees (`PoliciesStep`). Its invariant needs two
facts more than that of the sequential policy: an output that waits has lost no input yet,
and a window is begun for a queue with an output that has one left. Only with them is it
impossible that all outputs are skipped and the window is thrown away, which the code handles
(`SkipEmpty`) and the common algorithm would see as two steps. Queues enter the proofs
through lemmas that say what `append` and `popleft` do to the set of their members
(`WindowLemmas.tla`).

`QueueProofs.tla` and `GraphProofs.tla` prove of `setup_window` as a whole, for both versions
of the scheduler, every file and all sizes of the hardware:

- `GraphInvariant`: `Spec => []GraphInv`
- `GraphTypes`: `Spec => []TypeOK`
- `SetupImplementsPlan`: `Spec => PlanSpec`
- `PoliciesAreBuilders`: `Spec => BuilderSteps`
- `PoliciesScheduleEverything`: `Spec => []EveryEdgeScheduled`
- `PopsAreSafe`: `Spec => []GraphPyPopsNonEmpty`
- `TouchedOutputsWait`: `Spec => []WaitingInWorkingSet`
- `FilterCovers`: `Spec => []FilterCoversWorkingSet`
- `DenseNeedsFewest`: `Spec => []DenseWindowsAreFewest`

These are all the safety properties that run `window_policies` checks.

*Eight policies, ten kinds of steps.* The queue policies have loops of their own, but what
a step does to the outputs that wait and those in the working queue is one of ten things (`QueueStep`): an
output is read, or admitted; a loop ends; a window is begun; an empty output is dropped, or the
selected one kept; an input is popped; the window is closed; `set.pop` raises; the first fill goes
round. Each action of each policy is shown to be of one kind, once. That a kind keeps
the invariant `PolicyInv`, and is a step of `WindowBuilder`, is then shown without looking at the policy.
`PolicyInv` says that no output is in two queues and each
policy uses its own (`QueuesInv`), in which loops the working queue may be empty (`LoopInv`),
that an output that waits has lost no input, and that a window of `graph.py` is begun
only if one of its outputs has an input left (`InputsInv`). This last conjunct, with the loops
that skip empty outputs, is why `graph.py` pops safely; for `get_graph.py`, which
lacks the loops, the invariant does not claim it, and what remains is the common algorithm with a possible
`KeyError`. `TouchedInv` is the neighbor policy's: whoever shared an input with
the selected output is in the working set and is not the selected output.

*Tiles.* The sliding and the dense policy walk over the rows of a column; their steps
are of five kinds (pass a row, turn to the next column, begin a window, add a row, close
it). `TileInv` says that the edges left are those in later columns and in later rows of this
one, but for the rows that the open window has taken.

*The filter.* A counter of the filter lies between two sums over the outputs read so
far: how many inputs that are still needed hash to it, and how many inputs ever did
(`FilterInv`). Inserting an output adds the same to the counter and to both sums.
Popping an input takes it from each output that shares it, and
`delete` decrements once for each of them, so the counter stays above the lower sum, and before it
is decremented the lower sum is positive: no zero counter is decremented. With two hashes that are equal an
input counts twice in both.

*The fewest windows.* `CountInv` compares the windows of this column with the rows that
have an edge: the windows passed hold them all, and those of the dense policy are full
except for the last of a column. Dividing by the rows a window holds gives that the dense policy has
the least number per column, and the sliding policy no fewer (`DivisionAbove`). The
sums over the columns are then compared column by column.

*Sums.* `GraphProperties` and `Scripts` sum with the fold `MapThenSumSet`, about which nothing can be proved by
induction, since the induction theorems are out of the provers' reach. Instead a sum is defined
once more as a count (`Total`: the number of pairs of an element and a number below its weight),
for which the library's theorems about cardinalities give what is needed; and the fold is shown to be the
total from its definition: a set on which the two differ could be taken as small as possible (`WFMin`), but
taking one element away makes a smaller one.

`ScriptsProofs.tla` proves of the scripts, for every list of graphs, sizes and dividers,
every pool, number of sessions, failures and interrupts, and all arguments:

- `WholeFilesAreKept`: `Spec => WholeFilesStay`
- `SimulationsStayApart`: `Spec => []SimulationsApart`
- `ResultsAreRead`: `Spec => []FinalResultsRead`
- `CycleSumIsOfFrames`: `Spec => []CycleSumOfFrames`
- `CycleReturnsProduct`: the sum is
  `OutputSteps * input_x + Steps * weight_y + Steps * OutputSteps * Overhead`, for a matrix
  with a row.

*Downloads.* `DownloadInv`: a file that is on its way to the data directory is not whole there.

*Sessions.* That the files of simulations that overlap differ rests on the tables: in each
driver's list two commands differ in the name of their output, and in that of their log
except in `run_sched/run-ramu.py` and in `run-outer-list.py`, whose pool has one worker. This is shown for each driver from how its loops concatenate names. `SessionInv` adds that a command is never in two
places: the chunks that wait and the chunks that the workers have are disjoint (`ChunksApart`). For the readers
nothing may be lost either: each command is in a chunk that waits, with a worker, or done,
with its results in its file or its simulation failed (`NoneLost`). When the driver
has returned and the workers are idle only the last is left. That every entry of a reader is then the
output of a command of its driver is shown reader by reader (`Unproduced` names those that are not).

*Cycles.* `CycleInv` says in closed form what has been added up at each point of the loops,
`SumInv` says it as the sum over the frames counted so far. That the rows of frames together
have `input_x` rows, and the frames of a row `weight_y` columns, comes from what rounding up does.

**Assumptions.** For the pipeline and the memory the named `ASSUME`s only, about the constants: the window
sequence, the durations (any natural number for a window, zero included, and at least three
cycles for a column),
a positive queue size and gap, and that `NoReq` is no request; of the demands,
that ids are distinct, that none is empty, and that writes are ranges. TLC evaluates
them in every run, as it does those below.

For `setup_window`: a file lists at least one node, and of each node finitely many
neighbours (`FilesAssumption`); a window has room for an input and an output, the outer
queues for an output, and the divider is not 0 (`ConfigsAssumption`). In `WindowProofs` and
`PolicyProofs`, which stand below `GraphSetup`, the same is said in the theorems
(`ValidSetup`, `HardwareHoldsWindow`).
`setup_hardware` computes a `max_input_num` of 0 for features longer than 16384; then nothing is
scheduled and nothing is claimed.

For the scripts: the lists of the drivers name nothing twice, also with the suffix that the
loops add, and there are two buffer sizes, the second of which `run-seq.py` takes
(`ListsAssumption`); `get.py`'s graph is not among the workloads; a pool has a worker (`PoolAssumption`),
there is a file to download (`DataAssumption`), and sizes of arrays and matrices are positive
(`ArgsAssumption`). The lists in the files are like this. The cycles are computed with integers;
the code divides floats and truncates, which is the same below 2^53.

**Only model-checked.** The liveness properties: `RunHalts`, `WriteBackHappens`,
`EveryRequestIsDone`, `ReturnsWhenFillable`, `EveryCommandRuns`. They hold under
fairness, which is out of the prover's reach. Every other property of a passing run is
a theorem.

## 6. What is not modelled

- Statistics, traces and print-outs; how long which window and column takes, with the
  checks of a model's dimensions on the way; sizes of requests. A window may take any number of
  cycles, zero included; that a column takes at least three is what the arithmetic of
  `cal_remaining_cycle()` yields.
- The ratio of the clocks of core and memory: any number of memory cycles may
  pass per core cycle, which includes every ratio.
- The fast scheduler. It is a second simulator of the size of the first, and its core,
  `edge_hash`, is a data structure whose chains of moved entries need larger instances than
  TLC can enumerate to be interesting. What is hard in it is in the hazard list, with the
  lines.
- The construction of the windows in `dense_window_set`: only what it guarantees of their
  sequence and flags is an assumption.
- What the Python policies print (`print_result`), and the drawing and showing scripts
  (`draw_graph.py`, `run_sched/draw.py`, `run/show.py`), which keep no state. The commented-out
  code of the policies.
- `run/run.py` and `run_sched/check_graph.py`: each has a syntax error and never runs.
- What a simulation computes when a driver starts it, the tables of regular expressions
  beyond the result that decides, and the creation of `~/.gcndata`.

## 7. Plan

1. The sliding-window pipeline: modules, runs, invariant and proofs. *Done.*
2. `MemoryInterface`, `MemoryPort`, and the proof that one implements the other. *Done.*
3. The window policies and the plan they implement. *Done.*
4. The scripts and the systolic cycles. *Done.*
5. Open: the construction of windows in `dense_window_set` and the cycle computations with
   their rounding, over bounded graphs.
6. Open: the fast scheduler, from `EdgeHash` as an implementation of a set of live entries
   to a controller composing it with the pool.
7. The accelerator's safety properties, its refinement of `ColumnPipeline`, its use of the
   port, and `DoneWhenTransferred`, proved from invariants. *Done.*
8. The safety properties of `setup_window` and of the scripts, proved: all policies as
   implementations of `WindowBuilder`, the filter's counters, the number of dense windows,
   the sessions, the downloads and the sum of the cycles. *Done.*
