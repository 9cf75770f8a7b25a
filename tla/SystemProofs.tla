---------------------------- MODULE SystemProofs ----------------------------
(***************************************************************************)
(* Proofs about the sliding-window accelerator, for every sequence of      *)
(* windows that satisfies WindowsAssumption, every duration the aggregator *)
(* and the systolic array may take, and every order of the memory's        *)
(* answers.  The inductive invariant of SystemInvariant is shown to hold   *)
(* initially and to be preserved by each block of System::cycle(): first   *)
(* the part about the buffers' flags and requests, which is inductive by   *)
(* itself, then with it the part about the columns on their way.  From     *)
(* both follow the safety properties, the refinement of ColumnPipeline,    *)
(* the use of the memory port, and the bounds on what is requested and how *)
(* far the buffers are apart.                                              *)
(***************************************************************************)
EXTENDS SystemInvariant, TLAPS, WellFoundedInduction, FiniteSetTheorems

\* The instances' copies of the sets of the stream are the sets themselves.
LEMMA SameSets ==
  /\ input!Req = Req /\ edge!Req = Req /\ output!Req = Req
  /\ input!Index = Index /\ edge!Index = Index /\ output!Index = Index /\ agg!Index = Index
  /\ input!end = end /\ edge!end = end
  /\ input!NoWindow = NoWindow /\ agg!NoWindow = NoWindow
  /\ input!Slot = [window : Index \cup {end}, empty : BOOLEAN, sent : BOOLEAN,
                   ready : BOOLEAN, req : Req \cup {NoReq}]
  /\ edge!Slot = [window : Index \cup {end}, empty : BOOLEAN, sent : BOOLEAN,
                   ready : BOOLEAN, req : Req \cup {NoReq}]
  BY DEF input!Req, edge!Req, output!Req, Req, input!Index, edge!Index, output!Index,
         agg!Index, Index, input!end, edge!end, end, input!NoWindow, agg!NoWindow,
         NoWindow, input!Slot, edge!Slot, Devices, input!Devices, edge!Devices, output!Devices

\* What WindowsAssumption says, in the form the proofs use it.
LEMMA WindowFacts ==
  /\ Len(Windows) \in Nat
  /\ \A i \in Index : Windows[i] \in Window
  /\ 1 \in Index /\ 2 \in Index
  /\ Windows[1].first_row
  /\ \A i \in Index : i + 1 \in Index => (Windows[i].final_row <=> Windows[i + 1].first_row)
  BY WindowsAssumption DEF Index, ColumnsAreContiguous

\* find_next_col() returns a window or end(): the first row it looks for is the least
\* element of a set of indices.
LEMMA NextColumn ==
  ASSUME NEW i \in Index
  PROVE  edge!find_next_col(i) \in Index \cup {end}
<1> DEFINE later == {j \in Index : j > i /\ Windows[j].first_row}
<1>1. CASE later = {}
  BY <1>1 DEF edge!find_next_col, edge!Index, edge!end, Index, end
<1>2. CASE later # {}
  <2>1. later \subseteq Nat
    BY WindowFacts DEF Index
  <2>2. OpToRel(<, Nat) = {pair \in Nat \X Nat : pair[1] < pair[2]}
    BY Zenon DEF OpToRel
  <2>3. \E j \in later : \A k \in later : j <= k
    <3> DEFINE less == {pair \in Nat \X Nat : pair[1] < pair[2]}
    <3>1. IsWellFoundedOn(less, Nat)
      BY <2>2, NatLessThanWellFounded
    <3>2. \E j \in later : \A k \in later : <<k, j>> \notin less
      <4> HIDE DEF less, later
      <4>. QED  BY <1>2, <2>1, <3>1, WFMin
    <3>3. \A j, k \in Nat : k < j => <<k, j>> \in less
      OBVIOUS
    <3>4. \A j, k \in Nat : ~(k < j) => j <= k
      OBVIOUS
    <3> HIDE DEF less, later
    <3>. QED  BY <2>1, <3>2, <3>3, <3>4
  <2>. QED
    BY <1>2, <2>3 DEF edge!find_next_col, edge!Index, edge!end, Index, end
<1>. QED
  BY <1>1, <1>2

-----------------------------------------------------------------------------
\* The constructed system satisfies the invariant.
LEMMA InitInvariant ==
  ASSUME Init
  PROVE  BufferInvariant
<1> USE DEF Init, AggregatorInit, SystolicInit
<1>1. TypeOK
  BY SameSets, WindowFacts, DeadLockGapAssumption
  DEF TypeOK, Phases, input!Constructed, input!ConstructedSlot, input!ReadBufferState,
      edge!Constructed, edge!ConstructedSlot, edge!ReadBufferState,
      agg!Constructed, agg!AggBufferState, output!Constructed, output!WriteBufferState,
      AggregatorState, SystolicState
<1>2. Halting
  BY DEF Halting, OnlyTwoAssertionsFail
<1>3. ReadBuffers /\ InputPosition
  BY WindowFacts
  DEF ReadBuffers, SlotsInRange, HasRequest, ReadyWasSent, InputPosition, IdleAssert,
      input!Constructed, input!ConstructedSlot, edge!Constructed, edge!ConstructedSlot,
      current_sliding_window, NoWindow, Index, end
<1>4. WritePort /\ ReadPort /\ Output
  BY DEF WritePort, InsideColumn, ReadPort, Output, agg!Constructed, output!Constructed,
         current_sliding_window, NoWindow, agg!NoWindow
<1>5. Outstanding /\ InputAnswers
  BY DEF Outstanding, InputAnswers, SentForItsWindow, outstanding, input!Constructed, input!ConstructedSlot
<1>. QED
  BY <1>1, <1>2, <1>3, <1>4, <1>5 DEF BufferInvariant

-----------------------------------------------------------------------------
\* The four buffers' cycle(): what moves keeps its flags, its window and its request.
LEMMA BufferCyclesInvariant ==
  ASSUME BufferInvariant, BufferCycles
  PROVE  BufferInvariant'
<1> USE DEF BufferInvariant
<1>1. failed = {}
  BY DEF BufferCycles, Halting
<1>2. UNCHANGED <<global_id, aggregator, systolic, combined, system>>
  BY DEF BufferCycles
<1>3. input_buffer' \in input!ReadBufferState
  <2>1. CASE input!MustMove
    <3>1. input_buffer.next.window + 1 \in Index \cup {end}
      BY <2>1, SameSets, WindowFacts
      DEF TypeOK, ReadBuffers, SlotsInRange, input!MustMove, input!ReadBufferState, Index, end
    <3>2. input!AdvancedTo(input_buffer.next, input_buffer.next.window + 1) \in input!Slot
      BY <3>1, SameSets DEF TypeOK, input!AdvancedTo, input!ReadBufferState
    <3>. QED
      BY <2>1, <3>2 DEF BufferCycles, TypeOK, input!InputCycle, input!ReadBufferState
  <2>2. CASE ~input!MustMove
    BY <2>2 DEF BufferCycles, TypeOK, input!InputCycle
  <2>. QED
    BY <2>1, <2>2
<1>4. edge_buffer' \in edge!ReadBufferState
  <2>1. CASE edge!MustMove
    <3>1. edge!find_next_col(edge_buffer.next.window) \in Index \cup {end}
      BY <2>1, SameSets, NextColumn
      DEF TypeOK, ReadBuffers, SlotsInRange, edge!MustMove, edge!ReadBufferState
    <3>2. edge!AdvancedTo(edge_buffer.next, edge!find_next_col(edge_buffer.next.window))
            \in edge!Slot
      BY <3>1, SameSets DEF TypeOK, edge!AdvancedTo, edge!ReadBufferState
    <3>3. [edge_buffer.next EXCEPT !.req = edge_buffer.current.req] \in edge!Slot
      BY SameSets DEF TypeOK, edge!ReadBufferState
    <3>. QED
      BY <2>1, <3>2, <3>3 DEF BufferCycles, TypeOK, edge!EdgeCycle, edge!ReadBufferState
  <2>2. CASE ~edge!MustMove
    BY <2>2 DEF BufferCycles, TypeOK, edge!EdgeCycle
  <2>. QED
    BY <2>1, <2>2
<1>5. failed' = {} /\ agg_buffer' \in agg!AggBufferState
      /\ output_buffer' \in output!WriteBufferState
  BY <1>1, SameSets, ZenonT(30)
  DEF BufferCycles, TypeOK, Check, ReadPort, WritePort, Output, agg!Cycle, agg!CycleAssert,
      agg!MoveToRead, agg!AggBufferState, output!Cycle, output!CycleAssert,
      output!MustMove, output!MoveToMemory, output!WriteBufferState
<1>6. TypeOK'
  BY <1>2, <1>3, <1>4, <1>5 DEF TypeOK, BufferCycles, Continue, Phases, system
<1>7. Halting'
  BY <1>1, <1>5 DEF Halting, OnlyTwoAssertionsFail
\* What the two moves do, in the terms of the invariant.
<1>8. /\ input_buffer'.start_cycle_map = input_buffer.start_cycle_map
      /\ \/ input_buffer' = input_buffer /\ ~input!MustMove
         \/ /\ input!MustMove
            /\ input_buffer'.current = input_buffer.next
            /\ input_buffer'.next.window = input_buffer.next.window + 1
            /\ input_buffer'.next.empty <=> input_buffer.next.window + 1 = end
            /\ ~input_buffer'.next.empty => ~input_buffer'.next.ready /\ ~input_buffer'.next.sent
  <2>1. CASE input!MustMove
    <3>1. /\ input_buffer'.current = input_buffer.next
          /\ input_buffer'.next = input!AdvancedTo(input_buffer.next, input_buffer.next.window + 1)
          /\ input_buffer'.start_cycle_map = input_buffer.start_cycle_map
      BY <2>1 DEF BufferCycles, TypeOK, input!InputCycle, input!ReadBufferState
    <3>2. input_buffer.next \in input!Slot
      BY DEF TypeOK, input!ReadBufferState
    <3>. QED
      BY <2>1, <3>1, <3>2, SameSets DEF input!AdvancedTo
  <2>. QED
    BY <2>1 DEF BufferCycles, input!InputCycle
<1>9. /\ edge_buffer'.start_cycle_map = edge_buffer.start_cycle_map
      /\ edge_buffer'.current.req = edge_buffer.current.req
      /\ \/ edge_buffer' = edge_buffer /\ ~edge!MustMove
         \/ /\ edge!MustMove
            /\ edge_buffer'.current.window = edge_buffer.next.window
            /\ edge_buffer'.current.empty = edge_buffer.next.empty
            /\ edge_buffer'.current.sent = edge_buffer.next.sent
            /\ edge_buffer'.current.ready = edge_buffer.next.ready
            /\ edge_buffer'.next.empty <=> edge_buffer'.next.window = end
            /\ ~edge_buffer'.next.empty => ~edge_buffer'.next.ready /\ ~edge_buffer'.next.sent
  <2>1. CASE edge!MustMove
    <3>1. /\ edge_buffer'.current = [edge_buffer.next EXCEPT !.req = edge_buffer.current.req]
          /\ edge_buffer'.next = edge!AdvancedTo(edge_buffer.next,
                                   edge!find_next_col(edge_buffer.next.window))
          /\ edge_buffer'.start_cycle_map = edge_buffer.start_cycle_map
      BY <2>1 DEF BufferCycles, TypeOK, edge!EdgeCycle, edge!ReadBufferState
    <3>2. edge_buffer.next \in edge!Slot
      BY DEF TypeOK, edge!ReadBufferState
    <3>. QED
      BY <2>1, <3>1, <3>2, SameSets DEF edge!AdvancedTo
  <2>. QED
    BY <2>1 DEF BufferCycles, edge!EdgeCycle
<1>14. ReadBuffers'
  BY <1>1, <1>3, <1>4, <1>5, <1>8, <1>9, SameSets, WindowFacts
  DEF TypeOK, ReadBuffers, SlotsInRange, HasRequest, ReadyWasSent, Index, end,
      input!MustMove, input!ReadBufferState, edge!MustMove, edge!ReadBufferState
<1>15. InputPosition'
  BY <1>1, <1>2, <1>8, <1>9, SameSets, WindowFacts
  DEF TypeOK, ReadBuffers, ReadyWasSent, InputPosition, IdleAssert, Index, end,
      current_sliding_window, input!MustMove, input!ReadBufferState, edge!MustMove
<1>10. WritePort' /\ ReadPort'
  BY <1>1, <1>2, SameSets
  DEF BufferCycles, TypeOK, WritePort, InsideColumn, ReadPort, current_sliding_window,
      agg!Cycle, agg!MoveToRead, agg!AggBufferState
<1>11. Output'
  BY <1>1, <1>2, SameSets
  DEF BufferCycles, TypeOK, Output, output!Cycle, output!MustMove, output!MoveToMemory,
      output!WriteBufferState
<1>12. Outstanding'
  <2>1. output_buffer.to_memory.started => output_buffer'.to_memory = output_buffer.to_memory
    BY DEF BufferCycles, TypeOK, Output, output!Cycle, output!MustMove, output!MoveToMemory,
           output!WriteBufferState
  <2>2. UNCHANGED outstanding
    BY <1>2 DEF outstanding, system
  <2>. QED
    BY <1>2, <1>8, <1>9, <2>1, <2>2 DEF Outstanding, system
<1>13. InputAnswers'
  <2>1. UNCHANGED outstanding
    BY <1>2 DEF outstanding, system
  <2>. QED
    BY <1>8, <2>1
    DEF InputAnswers, SentForItsWindow, ReadBuffers, ReadyWasSent, input!MustMove, input!Awaits
<1>. QED
  BY <1>6, <1>7, <1>10, <1>11, <1>12, <1>13, <1>14, <1>15

-----------------------------------------------------------------------------
\* Aggregator::cycle() that only counts down or waits.
LEMMA AggregateInvariant ==
  ASSUME BufferInvariant, AggregatorPhase, Aggregate \/ WaitForWindow
  PROVE  BufferInvariant'
<1> USE DEF BufferInvariant
<1>1. /\ UNCHANGED <<input_buffer, edge_buffer, agg_buffer, output_buffer, failed, global_id,
                     systolic, combined, pending, task_return_queue, dead_lock, finished,
                     finished_time_stamp, written>>
      /\ phase' \in Phases /\ failed = {}
  BY DEF AggregatorPhase, Aggregate, WaitForWindow, InputPosition, Check, Halting, buffers,
         system, Continue, Phases
<1>2. /\ aggregator' \in AggregatorState
      /\ aggregator'.working = aggregator.working
      /\ current_sliding_window' = current_sliding_window
      /\ ~aggregator.working => aggregator' = aggregator
  <2>1. CASE Aggregate
    <3>1. /\ aggregator.remaining_cycles > 1 /\ aggregator.working = TRUE
          /\ aggregator' = [aggregator EXCEPT !.remaining_cycles = aggregator.remaining_cycles - 1]
      BY <2>1, Zenon DEF Aggregate, TypeOK, AggregatorState
    <3>2. aggregator \in AggregatorState
      BY DEF TypeOK
    <3>3. aggregator.remaining_cycles - 1 \in Nat
      BY <3>1, <3>2 DEF AggregatorState
    <3>4. aggregator' \in AggregatorState
      BY <3>1, <3>2, <3>3 DEF AggregatorState
    <3>5. UNCHANGED <<aggregator.working, current_sliding_window>>
      BY <3>1, <3>2 DEF AggregatorState, current_sliding_window
    <3>. QED
      BY <3>1, <3>4, <3>5
  <2>2. CASE WaitForWindow
    <3>1. aggregator' = aggregator
      BY <2>2, Zenon DEF WaitForWindow
    <3>. QED
      BY <3>1 DEF TypeOK, current_sliding_window
  <2>. QED
    BY <2>1, <2>2
<1>3. TypeOK'
  BY <1>1, <1>2 DEF TypeOK
<1>4. Halting'
  BY <1>1 DEF Halting, OnlyTwoAssertionsFail
<1>5. ReadBuffers' /\ InputPosition'
  BY <1>1, <1>2 DEF ReadBuffers, SlotsInRange, HasRequest, ReadyWasSent, InputPosition, IdleAssert
<1>6. WritePort' /\ ReadPort' /\ Output'
  BY <1>1, <1>2 DEF WritePort, InsideColumn, ReadPort, Output
<1>7. Outstanding' /\ InputAnswers'
  BY <1>1 DEF Outstanding, InputAnswers, SentForItsWindow, outstanding
<1>. QED
  BY <1>3, <1>4, <1>5, <1>6, <1>7

\* Aggregator::cycle() that finds nothing to work on: it has a window, of no cycles.
LEMMA NothingToWorkOnInvariant ==
  ASSUME BufferInvariant, AggregatorPhase, NothingToWorkOn
  PROVE  BufferInvariant'
<1> USE DEF BufferInvariant
<1>1. /\ UNCHANGED <<input_buffer, edge_buffer, agg_buffer, output_buffer, global_id,
                     aggregator, systolic, combined, pending, task_return_queue, dead_lock,
                     finished, finished_time_stamp, written>>
      /\ UNCHANGED current_sliding_window
      /\ failed' = {"Aggregator::cycle while working"} /\ phase' = "halted"
      /\ failed = {}
  BY DEF AggregatorPhase, NothingToWorkOn, Halting, buffers, system, Continue,
         current_sliding_window
<1>2. aggregator.remaining_cycles = 0 /\ current_sliding_window # NoWindow
  <2>1. current_sliding_window \in Index
    BY DEF NothingToWorkOn, ReadBuffers, SlotsInRange, InputPosition
  <2>2. current_sliding_window # NoWindow
    BY <2>1 DEF Index, NoWindow
  <2>. QED
    BY <2>2 DEF NothingToWorkOn, WorkingAssert
<1>3. TypeOK'
  BY <1>1 DEF TypeOK, Phases, Assertions
<1>4. Halting'
  BY <1>1, <1>2 DEF Halting, OnlyTwoAssertionsFail
<1>5. ReadBuffers' /\ InputPosition'
  BY <1>1 DEF ReadBuffers, SlotsInRange, HasRequest, ReadyWasSent, InputPosition, IdleAssert
<1>6. WritePort' /\ ReadPort' /\ Output'
  BY <1>1 DEF WritePort, InsideColumn, ReadPort, Output
<1>7. Outstanding' /\ InputAnswers'
  BY <1>1 DEF Outstanding, InputAnswers, SentForItsWindow, outstanding
<1>. QED
  BY <1>3, <1>4, <1>5, <1>6, <1>7

\* Aggregator::cycle() that starts a window: add_new_task() finds the write port free.
LEMMA StartWindowInvariant ==
  ASSUME BufferInvariant, AggregatorPhase, StartWindow
  PROVE  BufferInvariant'
<1> USE DEF BufferInvariant
<1> DEFINE w == input_buffer.current.window
<1>1. /\ UNCHANGED <<input_buffer, edge_buffer, output_buffer, global_id, systolic, combined,
                     pending, task_return_queue, dead_lock, finished,
                     finished_time_stamp, written>>
      /\ failed = {}
  BY DEF AggregatorPhase, StartWindow, Halting, system
<1>2. /\ ~aggregator.working
      /\ input_buffer.current.ready /\ ~input_buffer.current.empty
      /\ edge_buffer.current.ready
  BY <1>1 DEF StartWindow, CanStart, ReadBuffers, ReadyWasSent
<1>3. w \in Index /\ w # NoWindow /\ w = current_sliding_window + 1
  BY <1>2 DEF ReadBuffers, SlotsInRange, InputPosition, IdleAssert, Index, NoWindow
<1>4. /\ aggregator' \in AggregatorState
      /\ aggregator'.working /\ current_sliding_window' = w
  <2>1. PICK cycles \in AggregationTimes :
          aggregator' = [working |-> TRUE, remaining_cycles |-> cycles,
                         current_sliding_window |-> w]
    BY DEF StartWindow
  <2>. QED
    BY <1>3, <2>1, AggregationTimesAssumption DEF AggregatorState, current_sliding_window
\* The input buffer holds a first row exactly when the write port is free.
<1>5. Windows[w].first_row => ~InsideColumn
  <2>1. CASE current_sliding_window = NoWindow
    BY <1>2, <2>1 DEF InsideColumn
  <2>2. CASE current_sliding_window # NoWindow
    <3>1. current_sliding_window \in Index
      BY <2>2 DEF TypeOK, AggregatorState, current_sliding_window
    <3>. QED
      BY <1>2, <1>3, <3>1, WindowFacts DEF InsideColumn
  <2>. QED
    BY <2>1, <2>2
<1>6. ~Windows[w].first_row => InsideColumn
  <2>1. CASE current_sliding_window = NoWindow
    BY <1>3, <2>1, WindowFacts DEF NoWindow
  <2>2. CASE current_sliding_window # NoWindow
    <3>1. current_sliding_window \in Index
      BY <2>2 DEF TypeOK, AggregatorState, current_sliding_window
    <3>. QED
      BY <1>2, <1>3, <2>2, <3>1, WindowFacts DEF InsideColumn
  <2>. QED
    BY <2>1, <2>2
<1>7. /\ failed' = {}
      /\ agg_buffer' \in agg!AggBufferState
      /\ ~agg_buffer'.write_empty /\ ~agg_buffer'.write_ready
      /\ agg_buffer'.write_window # NoWindow
      /\ agg_buffer'.read_empty = agg_buffer.read_empty
      /\ agg_buffer'.read_ready = agg_buffer.read_ready
      /\ agg_buffer'.read_busy = agg_buffer.read_busy
      /\ agg_buffer'.read_window = agg_buffer.read_window
  <2>0. IdleAssert
    BY <1>2 DEF InputPosition
  <2>1. CASE Windows[w].first_row
    <3>1. agg!AddNewTaskAssert
      BY <1>5, <2>1, SameSets
      DEF WritePort, StartWindow, CanStart, ColumnWaits, agg!AddNewTaskAssert
    <3>2. agg!AddNewTask(w) /\ failed' = {}
      BY <2>0, <2>1, <3>1 DEF StartWindow, Check
    <3>. QED
      BY <1>3, <3>1, <3>2, SameSets
      DEF TypeOK, agg!AddNewTask, agg!AddNewTaskAssert, agg!AggBufferState
  <2>2. CASE ~Windows[w].first_row
    <3>1. UNCHANGED agg_buffer /\ failed' = {}
      BY <2>0, <2>2 DEF StartWindow, Check
    <3>. QED
      BY <1>1, <1>6, <2>2, <3>1 DEF TypeOK, WritePort
  <2>. QED
    BY <2>1, <2>2
<1>8. TypeOK'
  BY <1>1, <1>4, <1>7 DEF TypeOK, AggregatorPhase, Continue, Phases
<1>9. Halting'
  BY <1>7 DEF Halting, OnlyTwoAssertionsFail
<1>10. ReadBuffers' /\ InputPosition'
  BY <1>1, <1>2, <1>4 DEF ReadBuffers, SlotsInRange, HasRequest, ReadyWasSent, InputPosition, IdleAssert
<1>11. WritePort' /\ ReadPort' /\ Output'
  BY <1>1, <1>4, <1>7 DEF WritePort, InsideColumn, ReadPort, Output
<1>12. Outstanding' /\ InputAnswers'
  BY <1>1 DEF Outstanding, InputAnswers, SentForItsWindow, outstanding
<1>. QED
  BY <1>8, <1>9, <1>10, <1>11, <1>12

\* Aggregator::cycle() that finishes a window, and its column with the last row.
LEMMA FinishWindowInvariant ==
  ASSUME BufferInvariant, AggregatorPhase, FinishWindow
  PROVE  BufferInvariant'
<1> USE DEF BufferInvariant
<1> DEFINE w == current_sliding_window
<1>1. /\ UNCHANGED <<output_buffer, global_id, systolic, combined, pending, task_return_queue,
                     dead_lock, finished, finished_time_stamp, written>>
      /\ failed = {}
  BY DEF AggregatorPhase, FinishWindow, Halting, system
<1>2. /\ aggregator.working
      /\ input!FinishedCurrentAssert /\ edge!FinishedCurrentAssert
      /\ input_buffer.current.window = w
  BY <1>1 DEF FinishWindow, ReadBuffers, ReadyWasSent, InputPosition, IdleAssert,
              input!FinishedCurrentAssert, edge!FinishedCurrentAssert
<1>3. w \in Index /\ w # NoWindow
  BY <1>2 DEF ReadBuffers, SlotsInRange, Index, NoWindow
<1>4. /\ aggregator' \in AggregatorState
      /\ ~aggregator'.working /\ current_sliding_window' = w
      /\ aggregator'.remaining_cycles = 0
  BY DEF TypeOK, FinishWindow, AggregatorState, current_sliding_window
<1>5. /\ input_buffer' \in input!ReadBufferState
      /\ input_buffer'.current.empty /\ ~input_buffer'.current.sent /\ ~input_buffer'.current.ready
      /\ input_buffer'.current.window = input_buffer.current.window
      /\ input_buffer'.next = input_buffer.next
      /\ input_buffer'.start_cycle_map = input_buffer.start_cycle_map
  BY SameSets DEF TypeOK, FinishWindow, input!FinishedCurrent, input!ReadBufferState
<1>6. /\ failed' = {}
      /\ edge_buffer' \in edge!ReadBufferState
      /\ edge_buffer'.current.window = edge_buffer.current.window
      /\ edge_buffer'.current.req = edge_buffer.current.req
      /\ \/ edge_buffer' = edge_buffer
         \/ /\ edge_buffer'.current.empty /\ ~edge_buffer'.current.sent
            /\ ~edge_buffer'.current.ready
      /\ edge_buffer'.next = edge_buffer.next
      /\ edge_buffer'.start_cycle_map = edge_buffer.start_cycle_map
      /\ agg_buffer' \in agg!AggBufferState
      /\ agg_buffer' = [agg_buffer EXCEPT !.write_ready = Windows[w].final_row]
  <2>1. ~agg_buffer.write_empty /\ ~agg_buffer.write_ready
    BY <1>2 DEF WritePort, InsideColumn
  <2>2. Windows[w].final_row \in BOOLEAN
    BY <1>3, WindowFacts DEF Window
  <2>3. CASE Windows[w].final_row
    <3>1. edge!FinishedCurrent /\ agg!FinishWrite /\ failed' = {}
      BY <1>2, <2>1, <2>3 DEF FinishWindow, Check, agg!FinishWriteAssert
    <3>. QED
      BY <2>1, <2>3, <3>1, SameSets, ZenonT(30)
      DEF TypeOK, edge!FinishedCurrent, edge!ReadBufferState, agg!FinishWrite,
          agg!AggBufferState
  <2>4. CASE ~Windows[w].final_row
    <3>1. UNCHANGED <<edge_buffer, agg_buffer>> /\ failed' = {}
      BY <1>2, <2>4 DEF FinishWindow, Check
    <3>. QED
      BY <2>1, <2>2, <2>4, <3>1 DEF TypeOK, agg!AggBufferState
  <2>. QED
    BY <2>3, <2>4
<1>7. TypeOK'
  BY <1>1, <1>4, <1>5, <1>6 DEF TypeOK, AggregatorPhase, Continue, Phases
<1>8. Halting'
  BY <1>6 DEF Halting, OnlyTwoAssertionsFail
<1>9. ReadBuffers' /\ InputPosition'
  BY <1>1, <1>2, <1>4, <1>5, <1>6
  DEF ReadBuffers, SlotsInRange, HasRequest, ReadyWasSent, InputPosition, IdleAssert
<1>10. WritePort' /\ ReadPort' /\ Output'
  <2>1. Windows[w].final_row \in BOOLEAN
    BY <1>3, WindowFacts DEF Window
  <2>. QED
    BY <1>1, <1>2, <1>3, <1>4, <1>6, <2>1
    DEF TypeOK, WritePort, InsideColumn, ReadPort, Output, agg!AggBufferState
<1>11. Outstanding' /\ InputAnswers'
  BY <1>1, <1>2, <1>5, <1>6
  DEF Outstanding, InputAnswers, SentForItsWindow, outstanding, input!Awaits, input!FinishedCurrentAssert
<1>. QED
  BY <1>7, <1>8, <1>9, <1>10, <1>11

\* Aggregator::cycle() altogether.
LEMMA AggregatorPhaseInvariant ==
  ASSUME BufferInvariant, AggregatorPhase
  PROVE  BufferInvariant'
  BY AggregateInvariant, NothingToWorkOnInvariant, StartWindowInvariant, FinishWindowInvariant
  DEF AggregatorPhase, AggregatorCycle

-----------------------------------------------------------------------------
\* SystolicArray::cycle() that only counts down or waits.
LEMMA MultiplyInvariant ==
  ASSUME BufferInvariant, SystolicPhase, Multiply \/ WaitForColumn
  PROVE  BufferInvariant'
<1> USE DEF BufferInvariant
<1>1. /\ UNCHANGED <<input_buffer, edge_buffer, agg_buffer, output_buffer, failed, global_id,
                     aggregator, combined, pending, task_return_queue, dead_lock, finished,
                     finished_time_stamp, written>>
      /\ phase' \in Phases /\ failed = {}
  BY DEF SystolicPhase, Multiply, WaitForColumn, Halting, buffers, system, Continue, Phases
<1>2. /\ systolic' \in SystolicState
      /\ systolic'.empty = systolic.empty
      /\ systolic'.empty <=> systolic'.remaining_cycle = 0
  BY DEF TypeOK, ReadPort, Multiply, WaitForColumn, SystolicState
<1>3. TypeOK'
  BY <1>1, <1>2 DEF TypeOK
<1>4. Halting'
  BY <1>1 DEF Halting, OnlyTwoAssertionsFail
<1>5. ReadBuffers' /\ InputPosition'
  BY <1>1 DEF ReadBuffers, SlotsInRange, HasRequest, ReadyWasSent, InputPosition, IdleAssert,
                        current_sliding_window
<1>6. WritePort' /\ ReadPort' /\ Output'
  BY <1>1, <1>2 DEF WritePort, InsideColumn, ReadPort, Output, current_sliding_window
<1>7. Outstanding' /\ InputAnswers'
  BY <1>1 DEF Outstanding, InputAnswers, SentForItsWindow, outstanding
<1>. QED
  BY <1>3, <1>4, <1>5, <1>6, <1>7

\* SystolicArray::cycle() that takes a column and makes the request to write it.
LEMMA TakeColumnInvariant ==
  ASSUME BufferInvariant, SystolicPhase, TakeColumn
  PROVE  BufferInvariant'
<1> USE DEF BufferInvariant
<1> DEFINE req == WriteReq(global_id, agg_buffer.read_window)
<1>1. /\ UNCHANGED <<input_buffer, edge_buffer, aggregator, combined, pending,
                     task_return_queue, dead_lock, finished, finished_time_stamp, written>>
      /\ failed = {}
      /\ global_id' = global_id + 1
  BY DEF SystolicPhase, TakeColumn, Halting, system
<1>2. /\ systolic' \in SystolicState
      /\ ~systolic'.empty /\ systolic'.remaining_cycle # 0
  <2>1. PICK cycles \in CombinationTimes :
          systolic' = [empty |-> FALSE, remaining_cycle |-> cycles - 1,
                       current_sliding_window |-> agg_buffer.read_window]
    BY DEF TakeColumn
  <2>2. cycles - 1 \in Nat \ {0}
    BY CombinationTimesAssumption
  <2>. QED
    BY <2>1, <2>2, SameSets DEF TypeOK, SystolicState, agg!AggBufferState
<1>3. agg_buffer.read_window \in Index
  BY SameSets DEF TakeColumn, CanTakeColumn, TypeOK, ReadPort, agg!AggBufferState
<1>4. /\ req \in Req /\ req.t = "output_buffer" /\ req # NoReq
  <2>1. Windows[agg_buffer.read_window] \in Window
    BY <1>3, WindowFacts
  <2>2. req \in Req
    BY <1>3, <2>1 DEF TypeOK, WriteReq, Req, Devices, Window
  <2>. QED
    BY <2>2, NoReqAssumption DEF WriteReq
<1>5. /\ output_buffer.to_buffer.empty /\ ~output_buffer.to_buffer.started
      /\ ~output_buffer.to_buffer.finished
  BY DEF TakeColumn, CanTakeColumn, Output
<1>6. failed' = {}
  BY <1>5 DEF TakeColumn, CanTakeColumn, ReadPort, Check, output!StartWriteToBufferAssert,
              agg!StartReadAssert
<1>7. /\ output_buffer' \in output!WriteBufferState
      /\ output_buffer'.to_memory = output_buffer.to_memory
      /\ ~output_buffer'.to_buffer.empty /\ output_buffer'.to_buffer.started
      /\ ~output_buffer'.to_buffer.finished /\ output_buffer'.to_buffer.req = req
  <2>1. output!StartWriteToBuffer(req)
    BY DEF TakeColumn
  <2> HIDE DEF req
  <2>. QED
    BY <1>4, <1>5, <2>1, SameSets DEF TypeOK, output!StartWriteToBuffer, output!WriteBufferState
<1>8. /\ agg_buffer' \in agg!AggBufferState
      /\ agg_buffer' = [agg_buffer EXCEPT !.read_busy = TRUE]
  BY DEF TakeColumn, TypeOK, agg!StartRead, agg!AggBufferState
<1>9. TypeOK'
  <2>1. phase' \in Phases
    BY <1>6 DEF SystolicPhase, Continue, Phases
  <2>2. global_id' \in Nat
    <3>1. global_id \in Nat
      BY DEF TypeOK
    <3>. QED
      BY <1>1, <3>1
  <2>. QED
    BY <1>1, <1>2, <1>6, <1>7, <1>8, <2>1, <2>2 DEF TypeOK
<1>10. Halting'
  BY <1>6 DEF Halting, OnlyTwoAssertionsFail
<1>11. ReadBuffers' /\ InputPosition'
  BY <1>1, <1>6 DEF ReadBuffers, SlotsInRange, HasRequest, ReadyWasSent, InputPosition, IdleAssert,
                        current_sliding_window
<1>12. WritePort' /\ ReadPort'
  BY <1>1, <1>2, <1>8
  DEF TypeOK, TakeColumn, CanTakeColumn, WritePort, InsideColumn, ReadPort,
      current_sliding_window, agg!AggBufferState
<1>13. Output'
  BY <1>2, <1>4, <1>7 DEF Output
<1>14. Outstanding' /\ InputAnswers'
  <2>1. \A req_1 \in outstanding : req_1.id \in Nat
    BY DEF TypeOK, outstanding, Req
  <2>. QED
    BY <1>1, <1>7, <2>1 DEF TypeOK, Outstanding, InputAnswers, SentForItsWindow, outstanding
<1>. QED
  BY <1>9, <1>10, <1>11, <1>12, <1>13, <1>14

\* SystolicArray::cycle() that finishes a column.
LEMMA FinishColumnInvariant ==
  ASSUME BufferInvariant, SystolicPhase, FinishColumn
  PROVE  BufferInvariant'
<1> USE DEF BufferInvariant
<1>1. /\ UNCHANGED <<input_buffer, edge_buffer, global_id, aggregator, pending,
                     task_return_queue, dead_lock, finished, finished_time_stamp, written>>
      /\ failed = {}
  BY DEF SystolicPhase, FinishColumn, Halting, system
<1>2. /\ systolic' \in SystolicState /\ combined' \in Index \cup {NoWindow}
      /\ systolic'.empty /\ systolic'.remaining_cycle = 0
  BY DEF TypeOK, FinishColumn, SystolicState
<1>3. /\ agg_buffer.read_ready /\ agg_buffer.read_busy /\ ~agg_buffer.read_empty
      /\ ~output_buffer.to_buffer.empty /\ output_buffer.to_buffer.started
      /\ ~output_buffer.to_buffer.finished /\ output_buffer.to_buffer.req # NoReq
  BY DEF FinishColumn, ReadPort, Output
<1>4. failed' = {}
  BY <1>3 DEF FinishColumn, Check, agg!FinishReadAssert, output!FinishedWriteToBufferAssert
<1>5. /\ output_buffer' \in output!WriteBufferState
      /\ output_buffer' = [output_buffer EXCEPT !.to_buffer.finished = TRUE]
  BY <1>3 DEF FinishColumn, TypeOK, output!FinishedWriteToBuffer, output!WriteBufferState
<1>6. /\ agg_buffer' \in agg!AggBufferState
      /\ agg_buffer' = [agg_buffer EXCEPT !.read_ready = FALSE, !.read_busy = FALSE,
                                          !.read_empty = TRUE]
  BY DEF FinishColumn, TypeOK, agg!FinishRead, agg!AggBufferState
<1>7. TypeOK'
  BY <1>1, <1>2, <1>4, <1>5, <1>6 DEF TypeOK, SystolicPhase, Continue, Phases
<1>8. Halting'
  BY <1>4 DEF Halting, OnlyTwoAssertionsFail
<1>9. ReadBuffers' /\ InputPosition'
  BY <1>1, <1>4 DEF ReadBuffers, SlotsInRange, HasRequest, ReadyWasSent, InputPosition, IdleAssert,
                        current_sliding_window
<1>10. WritePort' /\ ReadPort'
  BY <1>1, <1>2, <1>6
  DEF TypeOK, WritePort, InsideColumn, ReadPort, current_sliding_window, agg!AggBufferState
<1>11. Output'
  BY <1>2, <1>3, <1>5 DEF TypeOK, Output, output!WriteBufferState
<1>12. Outstanding' /\ InputAnswers'
  BY <1>1, <1>5 DEF TypeOK, Outstanding, InputAnswers, SentForItsWindow, outstanding, output!WriteBufferState
<1>. QED
  BY <1>7, <1>8, <1>9, <1>10, <1>11, <1>12

\* SystolicArray::cycle() altogether.
LEMMA SystolicPhaseInvariant ==
  ASSUME BufferInvariant, SystolicPhase
  PROVE  BufferInvariant'
  BY MultiplyInvariant, TakeColumnInvariant, FinishColumnInvariant
  DEF SystolicPhase, SystolicCycle

-----------------------------------------------------------------------------
\* The dead-lock detection changes nothing but its own counters, unless it ends the run.
LEMMA DeadLockDetectionInvariant ==
  ASSUME BufferInvariant, DeadLockDetection
  PROVE  BufferInvariant'
<1> USE DEF BufferInvariant
<1>1. /\ UNCHANGED <<input_buffer, edge_buffer, agg_buffer, output_buffer, global_id,
                     aggregator, systolic, combined, pending, task_return_queue, finished,
                     finished_time_stamp, written>>
      /\ failed = {}
  BY DEF DeadLockDetection, Halting, buffers
<1>2. dead_lock' \in [left : Nat, total_detected_times : Nat]
  <2>1. DeadLockGap - 1 \in Nat
    BY DeadLockGapAssumption
  <2>2. dead_lock \in [left : Nat, total_detected_times : Nat]
    BY DEF TypeOK
  <2>3. \/ dead_lock' = [dead_lock EXCEPT !.left = DeadLockGap - 1]
        \/ dead_lock' = [left |-> DeadLockGap - 1,
                         total_detected_times |-> dead_lock.total_detected_times + 1]
        \/ dead_lock.left # 0 /\ dead_lock' = [dead_lock EXCEPT !.left = @ - 1]
    BY Zenon DEF DeadLockDetection
  <2>. QED
    BY <2>1, <2>2, <2>3
<1>3. failed' \subseteq {"dead lock"} /\ (failed' # {} => phase' = "halted") /\ phase' \in Phases
  BY DEF DeadLockDetection, Check, Continue, Phases
<1>4. TypeOK'
  <2>1. failed' \subseteq Assertions
    BY <1>3 DEF Assertions
  <2>. QED
    BY <1>1, <1>2, <1>3, <2>1 DEF TypeOK
<1>5. Halting'
  BY <1>3 DEF Halting, OnlyTwoAssertionsFail
<1>6. ReadBuffers' /\ InputPosition'
  BY <1>1 DEF ReadBuffers, SlotsInRange, HasRequest, ReadyWasSent, InputPosition, IdleAssert,
                        current_sliding_window
<1>7. WritePort' /\ ReadPort' /\ Output'
  BY <1>1 DEF WritePort, InsideColumn, ReadPort, Output, current_sliding_window
<1>8. Outstanding' /\ InputAnswers'
  BY <1>1 DEF Outstanding, InputAnswers, SentForItsWindow, outstanding
<1>. QED
  BY <1>4, <1>5, <1>6, <1>7, <1>8

\* The memory moves requests from one queue to the other and loses none.
LEMMA MemoryInvariant ==
  ASSUME BufferInvariant, MemoryAnswers \/ MemoryDone
  PROVE  BufferInvariant'
<1> USE DEF BufferInvariant
<1>1. /\ UNCHANGED <<input_buffer, edge_buffer, agg_buffer, output_buffer, failed, global_id,
                     aggregator, systolic, combined, dead_lock, finished,
                     finished_time_stamp, written>>
      /\ failed = {} /\ phase' \in Phases
  BY DEF MemoryAnswers, MemoryFinishes, MemoryDone, Halting, buffers, system, Continue, Phases
<1>2. /\ outstanding' = outstanding
      /\ pending' \subseteq Req /\ task_return_queue' \subseteq Req
      /\ pending' \cap task_return_queue' = {}
  <2>1. CASE MemoryAnswers
    BY <2>1 DEF TypeOK, MemoryAnswers, MemoryFinishes, outstanding, Outstanding
  <2>2. CASE MemoryDone
    BY <2>2 DEF TypeOK, MemoryDone, system, outstanding, Outstanding
  <2>. QED
    BY <2>1, <2>2
<1>3. TypeOK'
  BY <1>1, <1>2 DEF TypeOK
<1>4. Halting'
  BY <1>1 DEF Halting, OnlyTwoAssertionsFail
<1>5. ReadBuffers' /\ InputPosition'
  BY <1>1 DEF ReadBuffers, SlotsInRange, HasRequest, ReadyWasSent, InputPosition, IdleAssert,
                        current_sliding_window
<1>6. WritePort' /\ ReadPort' /\ Output'
  BY <1>1 DEF WritePort, InsideColumn, ReadPort, Output, current_sliding_window
<1>7. Outstanding' /\ InputAnswers'
  BY <1>1, <1>2 DEF Outstanding, InputAnswers, SentForItsWindow
<1>. QED
  BY <1>3, <1>4, <1>5, <1>6, <1>7

\* Blocks of cycle() that find nothing to do, and a system that has halted.
LEMMA NothingToDoInvariant ==
  ASSUME BufferInvariant, SendNothing \/ ReceiveNothing \/ UNCHANGED vars
  PROVE  BufferInvariant'
<1> USE DEF BufferInvariant
<1>1. /\ UNCHANGED <<input_buffer, edge_buffer, agg_buffer, output_buffer, failed, global_id,
                     aggregator, systolic, combined, pending, task_return_queue, dead_lock,
                     finished, finished_time_stamp, written>>
      /\ phase' \in Phases /\ (failed # {} => phase' = "halted")
  BY DEF TypeOK, SendNothing, ReceiveNothing, Halting, vars, buffers, system,
         EndOfCycle, Continue, Phases
<1>2. TypeOK'
  BY <1>1 DEF TypeOK
<1>3. Halting'
  BY <1>1 DEF Halting, OnlyTwoAssertionsFail, current_sliding_window
<1>4. ReadBuffers' /\ InputPosition'
  BY <1>1 DEF ReadBuffers, SlotsInRange, HasRequest, ReadyWasSent, InputPosition, IdleAssert,
                        current_sliding_window
<1>5. WritePort' /\ ReadPort' /\ Output'
  BY <1>1 DEF WritePort, InsideColumn, ReadPort, Output, current_sliding_window
<1>6. Outstanding' /\ InputAnswers'
  BY <1>1 DEF Outstanding, InputAnswers, SentForItsWindow, outstanding
<1>. QED
  BY <1>2, <1>3, <1>4, <1>5, <1>6
-----------------------------------------------------------------------------
\* A new read: its id is used by no other request that is still on its way.
LEMMA NewRead ==
  ASSUME BufferInvariant, NEW device \in {"input_buffer", "edge_buffer"}, NEW w \in Index,
         NEW req, req = ReadReq(global_id, device, w)
  PROVE  /\ req \in Req /\ req # NoReq /\ req \notin outstanding
         /\ req.t = device /\ req.id = global_id /\ req.window = w
         /\ \A other \in outstanding : other.t = device => other.id # req.id
         /\ \A other \in outstanding : other.t # "output_buffer" => other.id < global_id + 1
         /\ global_id \in Nat /\ global_id + 1 \in Nat
<1>1. global_id \in Nat /\ \A other \in outstanding : other.id \in Nat
  BY DEF BufferInvariant, TypeOK, outstanding, Req
<1>2. req \in Req /\ req.t = device /\ req.id = global_id /\ req.window = w
  BY <1>1 DEF ReadReq, Req, Devices
<1>3. \A other \in outstanding : other.t # "output_buffer" => other.id < global_id
  BY DEF BufferInvariant, Outstanding
<1>4. req # NoReq
  BY <1>2, NoReqAssumption
<1>. QED
  BY <1>1, <1>2, <1>3, <1>4

\* Sending a read of the input buffer: the slot that was unsent now awaits it.
LEMMA SendInputInvariant ==
  ASSUME BufferInvariant, SendInputCurrent \/ SendInputNext
  PROVE  BufferInvariant'
<1> USE DEF BufferInvariant
<1>1. /\ UNCHANGED <<edge_buffer, agg_buffer, output_buffer, aggregator, systolic, combined,
                     task_return_queue, dead_lock, finished, finished_time_stamp, written>>
      /\ failed = {} /\ global_id' = global_id + 1
  BY DEF SendInputCurrent, SendInputNext, SendRead, Send, Halting
<1>2. PICK w \in Index :
        LET req == ReadReq(global_id, "input_buffer", w)
        IN  /\ pending' = pending \cup {req}
            /\ \/ /\ w = input_buffer.current.window
                  /\ input!CurrentUnsent /\ input!PopCurrent(req)
               \/ /\ w = input_buffer.next.window
                  /\ input!NextUnsent /\ input!PopNext(req)
            /\ failed' = {}
  <2>1. CASE SendInputCurrent
    <3>1. input_buffer.current.window \in Index
      BY DEF ReadBuffers, SlotsInRange
    <3>. QED
      BY <1>1, <2>1, <3>1 DEF SendInputCurrent, SendRead, Send
  <2>2. CASE SendInputNext
    <3>1. input_buffer.next.window \in Index
      BY <2>2, SameSets
      DEF SendInputNext, input!NextUnsent, TypeOK, ReadBuffers, SlotsInRange,
          input!ReadBufferState
    <3>2. failed' = {}
      BY <2>2, <3>1, SameSets DEF SendInputNext, Check, input!PopNextAssert
    <3>. QED
      BY <2>2, <3>1, <3>2 DEF SendInputNext, SendRead, Send
  <2>. QED
    BY <2>1, <2>2
<1> DEFINE req == ReadReq(global_id, "input_buffer", w)
<1>3. /\ req \in Req /\ req # NoReq /\ req \notin outstanding
      /\ req.t = "input_buffer" /\ req.id = global_id /\ req.window = w
      /\ \A other \in outstanding : other.t = "input_buffer" => other.id # req.id
      /\ \A other \in outstanding : other.t # "output_buffer" => other.id < global_id + 1
      /\ global_id \in Nat /\ global_id + 1 \in Nat
  BY <1>2, NewRead
<1> HIDE DEF req
<1>16. \/ input!CurrentUnsent /\ input!PopCurrent(req)
       \/ input!NextUnsent /\ input!PopNext(req)
  BY <1>2 DEF req
<1>4. input_buffer' \in input!ReadBufferState
  <2>1. req.id \in Nat
    BY <1>3
  <2>2. input_buffer \in input!ReadBufferState
    BY DEF TypeOK
  <2>3. \A slot \in input!Slot : [slot EXCEPT !.sent = TRUE, !.req = req] \in input!Slot
    BY <1>3, SameSets
  <2>4. input_buffer.start_cycle_map \cup {req.id} \in SUBSET Nat
    BY <2>1, <2>2 DEF input!ReadBufferState
  <2> HIDE DEF BufferInvariant
  <2>5. CASE input!PopCurrent(req)
    BY <2>2, <2>3, <2>4, <2>5 DEF input!PopCurrent, input!ReadBufferState
  <2>6. CASE input!PopNext(req)
    BY <2>2, <2>3, <2>4, <2>6 DEF input!PopNext, input!ReadBufferState
  <2>. QED
    BY <1>16, <2>5, <2>6
<1>5. input_buffer.current \in input!Slot /\ input_buffer.next \in input!Slot
  BY DEF TypeOK, input!ReadBufferState
<1>6. /\ input_buffer'.start_cycle_map = input_buffer.start_cycle_map \cup {req.id}
      /\ input_buffer'.current.window = input_buffer.current.window
      /\ input_buffer'.current.empty = input_buffer.current.empty
      /\ input_buffer'.current.ready = input_buffer.current.ready
      /\ input_buffer'.next.window = input_buffer.next.window
      /\ input_buffer'.next.empty = input_buffer.next.empty
      /\ input_buffer'.next.ready = input_buffer.next.ready
      /\ \/ /\ ~input_buffer.current.empty /\ ~input_buffer.current.sent
            /\ w = input_buffer.current.window
            /\ input_buffer'.current.sent /\ input_buffer'.current.req = req
            /\ input_buffer'.next = input_buffer.next
         \/ /\ ~input_buffer.next.empty /\ ~input_buffer.next.sent
            /\ w = input_buffer.next.window
            /\ input_buffer'.next.sent /\ input_buffer'.next.req = req
            /\ input_buffer'.current = input_buffer.current
  <2>1. CASE input!CurrentUnsent /\ input!PopCurrent(req) /\ w = input_buffer.current.window
    BY <1>5, <2>1, SameSets
    DEF TypeOK, input!CurrentUnsent, input!PopCurrent, input!ReadBufferState
  <2>2. CASE input!NextUnsent /\ input!PopNext(req) /\ w = input_buffer.next.window
    BY <1>5, <2>2, SameSets
    DEF TypeOK, input!NextUnsent, input!PopNext, input!ReadBufferState
  <2>. QED
    BY <1>2, <2>1, <2>2 DEF req
<1>7. TypeOK'
  <2>1. phase' \in Phases
    BY DEF SendInputCurrent, SendInputNext, SendRead, Send, Continue, Phases
  <2>2. pending' \subseteq Req
    BY <1>2, <1>3 DEF TypeOK, req
  <2>. QED
    BY <1>1, <1>2, <1>3, <1>4, <2>1, <2>2 DEF TypeOK
<1>8. Halting'
  BY <1>2 DEF Halting, OnlyTwoAssertionsFail
<1>9. ReadBuffers' /\ InputPosition'
  <2>1. SlotsInRange(input_buffer)' /\ ReadyWasSent(input_buffer)'
    BY <1>5, <1>6 DEF ReadBuffers, SlotsInRange, HasRequest, ReadyWasSent
  <2>. QED
    BY <1>1, <1>6, <2>1 DEF ReadBuffers, SlotsInRange, HasRequest, ReadyWasSent, InputPosition, IdleAssert,
                        current_sliding_window
<1>10. WritePort' /\ ReadPort' /\ Output'
  BY <1>1 DEF WritePort, InsideColumn, ReadPort, Output, current_sliding_window
<1>11. outstanding' = outstanding \cup {req} /\ pending' = pending \cup {req}
  BY <1>1, <1>2 DEF outstanding, req
<1>12. Outstanding'
  BY <1>1, <1>3, <1>6, <1>11 DEF Outstanding, outstanding
<1>13. InputAnswers'
  <2>1. \A other \in outstanding : other.t = "input_buffer" =>
          \/ input!Awaits(input_buffer'.current, other)
          \/ input!Awaits(input_buffer'.next, other)
    BY <1>6 DEF InputAnswers, input!Awaits
  <2>2. input!Awaits(input_buffer'.current, req) \/ input!Awaits(input_buffer'.next, req)
    BY <1>3, <1>5, <1>6 DEF ReadBuffers, ReadyWasSent, input!Awaits
  <2>3. SentForItsWindow(input_buffer.current)' /\ SentForItsWindow(input_buffer.next)'
    BY <1>3, <1>6, <1>11 DEF InputAnswers, SentForItsWindow
  <2>. QED
    BY <1>11, <2>1, <2>2, <2>3 DEF InputAnswers
<1>. QED
  BY <1>7, <1>8, <1>9, <1>10, <1>12, <1>13

\* Sending a read of the edge buffer.
LEMMA SendEdgeInvariant ==
  ASSUME BufferInvariant, SendEdgeCurrent \/ SendEdgeNext
  PROVE  BufferInvariant'
<1> USE DEF BufferInvariant
<1>1. /\ UNCHANGED <<input_buffer, agg_buffer, output_buffer, aggregator, systolic, combined,
                     task_return_queue, dead_lock, finished, finished_time_stamp, written>>
      /\ failed = {} /\ global_id' = global_id + 1
  BY DEF SendEdgeCurrent, SendEdgeNext, SendRead, Send, Halting
<1>2. PICK w \in Index :
        LET req == ReadReq(global_id, "edge_buffer", w)
        IN  /\ pending' = pending \cup {req}
            /\ \/ edge!CurrentUnsent /\ edge!PopCurrent(req)
               \/ edge!NextUnsent /\ edge!PopNext(req)
            /\ failed' = {}
  <2>1. CASE SendEdgeCurrent
    <3>1. edge_buffer.current.window \in Index
      BY DEF ReadBuffers, SlotsInRange
    <3>. QED
      BY <1>1, <2>1, <3>1 DEF SendEdgeCurrent, SendRead, Send
  <2>2. CASE SendEdgeNext
    <3>1. edge_buffer.next.window \in Index
      BY <2>2, SameSets
      DEF SendEdgeNext, edge!NextUnsent, TypeOK, ReadBuffers, SlotsInRange,
          edge!ReadBufferState
    <3>2. failed' = {}
      BY <2>2, <3>1, SameSets DEF SendEdgeNext, Check, edge!PopNextAssert
    <3>. QED
      BY <2>2, <3>1, <3>2 DEF SendEdgeNext, SendRead, Send
  <2>. QED
    BY <2>1, <2>2
<1> DEFINE req == ReadReq(global_id, "edge_buffer", w)
<1>3. /\ req \in Req /\ req # NoReq /\ req \notin outstanding
      /\ req.t = "edge_buffer" /\ req.id = global_id
      /\ \A other \in outstanding : other.t = "edge_buffer" => other.id # req.id
      /\ \A other \in outstanding : other.t # "output_buffer" => other.id < global_id + 1
      /\ global_id \in Nat /\ global_id + 1 \in Nat
  BY <1>2, NewRead
<1> HIDE DEF req
<1>4. \/ edge!CurrentUnsent /\ edge!PopCurrent(req)
      \/ edge!NextUnsent /\ edge!PopNext(req)
  BY <1>2 DEF req
<1>5. edge_buffer' \in edge!ReadBufferState
  <2>1. edge_buffer \in edge!ReadBufferState
    BY DEF TypeOK
  <2>2. \A slot \in edge!Slot : [slot EXCEPT !.sent = TRUE, !.req = req] \in edge!Slot
    BY <1>3, SameSets
  <2>3. edge_buffer.start_cycle_map \cup {req.id} \in SUBSET Nat
    BY <1>3, <2>1 DEF edge!ReadBufferState
  <2> HIDE DEF BufferInvariant
  <2>4. CASE edge!PopCurrent(req)
    BY <2>1, <2>2, <2>3, <2>4 DEF edge!PopCurrent, edge!ReadBufferState
  <2>5. CASE edge!PopNext(req)
    BY <2>1, <2>2, <2>3, <2>5 DEF edge!PopNext, edge!ReadBufferState
  <2>. QED
    BY <1>4, <2>4, <2>5
<1>6. /\ edge_buffer'.start_cycle_map = edge_buffer.start_cycle_map \cup {req.id}
      /\ edge_buffer'.current.ready = edge_buffer.current.ready
      /\ SlotsInRange(edge_buffer)' /\ ReadyWasSent(edge_buffer)' /\ HasRequest(edge_buffer)'
  <2>1. edge_buffer.current \in edge!Slot /\ edge_buffer.next \in edge!Slot
    BY DEF TypeOK, edge!ReadBufferState
  <2>2. CASE edge!CurrentUnsent /\ edge!PopCurrent(req)
    BY <1>1, <1>3, <2>1, <2>2, SameSets
    DEF TypeOK, ReadBuffers, SlotsInRange, HasRequest, ReadyWasSent, edge!CurrentUnsent,
        edge!PopCurrent, edge!ReadBufferState
  <2>3. CASE edge!NextUnsent /\ edge!PopNext(req)
    BY <1>1, <1>3, <2>1, <2>3, SameSets
    DEF TypeOK, ReadBuffers, SlotsInRange, HasRequest, ReadyWasSent, edge!NextUnsent,
        edge!PopNext, edge!ReadBufferState
  <2>. QED
    BY <1>4, <2>2, <2>3
<1>7. TypeOK'
  <2>1. phase' \in Phases
    BY DEF SendEdgeCurrent, SendEdgeNext, SendRead, Send, Continue, Phases
  <2>2. pending' \subseteq Req
    BY <1>2, <1>3 DEF TypeOK, req
  <2>. QED
    BY <1>1, <1>2, <1>3, <1>5, <2>1, <2>2 DEF TypeOK
<1>8. Halting'
  BY <1>2 DEF Halting, OnlyTwoAssertionsFail
<1>9. ReadBuffers' /\ InputPosition'
  BY <1>1, <1>6 DEF ReadBuffers, SlotsInRange, HasRequest, ReadyWasSent, InputPosition, IdleAssert,
                        current_sliding_window
<1>10. WritePort' /\ ReadPort' /\ Output'
  BY <1>1 DEF WritePort, InsideColumn, ReadPort, Output, current_sliding_window
<1>11. outstanding' = outstanding \cup {req} /\ pending' = pending \cup {req}
  BY <1>1, <1>2 DEF outstanding, req
<1>12. Outstanding'
  BY <1>1, <1>3, <1>6, <1>11 DEF Outstanding, outstanding
<1>13. InputAnswers'
  BY <1>1, <1>3, <1>11 DEF InputAnswers, SentForItsWindow
<1>. QED
  BY <1>7, <1>8, <1>9, <1>10, <1>12, <1>13

\* Sending the write: it is the only one on its way.
LEMMA SendWriteInvariant ==
  ASSUME BufferInvariant, SendWrite
  PROVE  BufferInvariant'
<1> USE DEF BufferInvariant
<1> DEFINE req == output_buffer.to_memory.req
<1>1. /\ UNCHANGED <<input_buffer, edge_buffer, agg_buffer, global_id, aggregator, systolic,
                     combined, task_return_queue, dead_lock, finished,
                     finished_time_stamp, written>>
      /\ failed = {} /\ pending' = pending \cup {req}
  BY DEF SendWrite, Send, Halting
<1>2. ~output_buffer.to_memory.empty /\ ~output_buffer.to_memory.started
  BY DEF SendWrite, output!WriteUnsent
<1>3. /\ req \in Req /\ req # NoReq /\ req.t = "output_buffer"
      /\ \A other \in outstanding : other.t # "output_buffer"
  BY <1>2, SameSets DEF TypeOK, Output, Outstanding, output!WriteBufferState
<1>4. failed' = {}
  BY <1>3 DEF SendWrite, Check, output!StartWriteMemoryAssert
<1>5. /\ output_buffer' \in output!WriteBufferState
      /\ output_buffer'.to_buffer = output_buffer.to_buffer
      /\ output_buffer'.to_memory.empty = output_buffer.to_memory.empty
      /\ output_buffer'.to_memory.started
      /\ output_buffer'.to_memory.req = req
  BY <1>2 DEF SendWrite, TypeOK, output!StartWriteMemory, output!WriteBufferState
<1> HIDE DEF req
<1>6. TypeOK'
  <2>1. phase' \in Phases
    BY DEF SendWrite, Send, Continue, Phases
  <2>2. pending' \subseteq Req
    BY <1>1, <1>3 DEF TypeOK
  <2>. QED
    BY <1>1, <1>4, <1>5, <2>1, <2>2 DEF TypeOK
<1>7. Halting'
  BY <1>4 DEF Halting, OnlyTwoAssertionsFail
<1>8. ReadBuffers' /\ InputPosition'
  BY <1>1 DEF ReadBuffers, SlotsInRange, HasRequest, ReadyWasSent, InputPosition, IdleAssert,
                        current_sliding_window
<1>9. WritePort' /\ ReadPort'
  BY <1>1 DEF WritePort, InsideColumn, ReadPort, current_sliding_window
<1>10. Output'
  BY <1>1, <1>2, <1>3, <1>5 DEF Output, req
<1>11. outstanding' = outstanding \cup {req}
  BY <1>1 DEF outstanding
<1>12. Outstanding' /\ InputAnswers'
  BY <1>1, <1>3, <1>5, <1>11 DEF Outstanding, InputAnswers, SentForItsWindow, outstanding
<1>. QED
  BY <1>6, <1>7, <1>8, <1>9, <1>10, <1>12

-----------------------------------------------------------------------------
\* Taking an answer: it is no longer outstanding, and everything else is.
LEMMA TakeFacts ==
  ASSUME BufferInvariant, NEW req \in task_return_queue, Take(req)
  PROVE  /\ outstanding' = outstanding \ {req}
         /\ req \in outstanding /\ req \in Req
         /\ pending' \cap task_return_queue' = {}
         /\ pending' \subseteq Req /\ task_return_queue' \subseteq Req
         /\ phase' \in Phases /\ (failed' # {} => phase' = "halted")
         /\ failed = {}
         /\ UNCHANGED <<agg_buffer, global_id, aggregator, systolic, combined, dead_lock>>
<1>1. failed = {}
  BY DEF BufferInvariant, Halting, Take
<1>2. phase' \in Phases /\ (failed' # {} => phase' = "halted")
  BY DEF Take, EndOfCycle, Continue, Phases
<1>. QED
  BY <1>1, <1>2 DEF BufferInvariant, TypeOK, Take, outstanding, Outstanding

\* An answer for the input buffer: exactly one slot was waiting for it.
LEMMA ReceiveInputInvariant ==
  ASSUME BufferInvariant, NEW req \in task_return_queue, ReceiveInput(req)
  PROVE  BufferInvariant'
<1> USE DEF BufferInvariant
<1>1. /\ outstanding' = outstanding \ {req}
      /\ req \in outstanding /\ req \in Req
      /\ pending' \cap task_return_queue' = {}
      /\ pending' \subseteq Req /\ task_return_queue' \subseteq Req
      /\ phase' \in Phases /\ (failed' # {} => phase' = "halted")
      /\ failed = {}
      /\ UNCHANGED <<agg_buffer, global_id, aggregator, systolic, combined, dead_lock>>
      /\ UNCHANGED <<edge_buffer, output_buffer, finished, finished_time_stamp, written>>
      /\ req.t = "input_buffer"
  BY TakeFacts DEF ReceiveInput
<1>2. input!ReceiveKnowsId(req)
  BY <1>1 DEF Outstanding, input!ReceiveKnowsId
<1>3. input!ReceiveAssert(req) /\ input!ReceiveDereferences
  BY <1>1 DEF InputAnswers, SentForItsWindow, input!ReceiveAssert, input!ReceiveDereferences
<1>4. failed' = {}
  BY <1>2, <1>3 DEF ReceiveInput, Check
<1>5. input_buffer.current \in input!Slot /\ input_buffer.next \in input!Slot
      /\ input_buffer.start_cycle_map \subseteq Nat
  BY DEF TypeOK, input!ReadBufferState
<1>6. /\ input_buffer'.start_cycle_map = input_buffer.start_cycle_map \ {req.id}
      /\ input_buffer'.current = [input_buffer.current EXCEPT !.ready =
                                    @ \/ input!Awaits(input_buffer.current, req)]
      /\ input_buffer'.next = [input_buffer.next EXCEPT !.ready =
                                    @ \/ ~input!Awaits(input_buffer.current, req)]
      /\ input_buffer' = [current |-> input_buffer'.current, next |-> input_buffer'.next,
                          start_cycle_map |-> input_buffer'.start_cycle_map]
  BY DEF ReceiveInput, TypeOK, input!Receive, input!ReadBufferState
<1>7. /\ input!Awaits(input_buffer.current, req) \in BOOLEAN
      /\ input_buffer'.current \in input!Slot /\ input_buffer'.next \in input!Slot
  <2>1. input!Awaits(input_buffer.current, req) \in BOOLEAN
    BY <1>5, SameSets DEF input!Awaits
  <2> HIDE DEF BufferInvariant
  <2>. QED
    BY <1>5, <1>6, <2>1, SameSets
<1>8. input_buffer' \in input!ReadBufferState
  <2> HIDE DEF BufferInvariant
  <2>. QED
    BY <1>5, <1>6, <1>7, SameSets DEF input!ReadBufferState
\* Everything but the two ready flags stays; one of them is set, for the slot that awaits req.
<1>9. /\ input_buffer'.current.window = input_buffer.current.window
      /\ input_buffer'.current.empty = input_buffer.current.empty
      /\ input_buffer'.current.sent = input_buffer.current.sent
      /\ input_buffer'.current.req = input_buffer.current.req
      /\ input_buffer'.next.window = input_buffer.next.window
      /\ input_buffer'.next.empty = input_buffer.next.empty
      /\ input_buffer'.next.sent = input_buffer.next.sent
      /\ input_buffer'.next.req = input_buffer.next.req
  <2> HIDE DEF BufferInvariant
  <2>. QED
    BY <1>5, <1>6, SameSets
<1>10. \/ /\ input!Awaits(input_buffer.current, req)
          /\ input_buffer'.current.ready
          /\ input_buffer'.next.ready = input_buffer.next.ready
       \/ /\ input!Awaits(input_buffer.next, req)
          /\ ~input!Awaits(input_buffer.current, req)
          /\ input_buffer'.current.ready = input_buffer.current.ready
          /\ input_buffer'.next.ready
  <2>1. input!Awaits(input_buffer.current, req) \/ input!Awaits(input_buffer.next, req)
    BY <1>3 DEF input!ReceiveAssert
  <2>2. input_buffer.current.ready \in BOOLEAN /\ input_buffer.next.ready \in BOOLEAN
    BY <1>5, SameSets
  <2> HIDE DEF BufferInvariant
  <2>3. /\ input_buffer'.current.ready <=>
             input_buffer.current.ready \/ input!Awaits(input_buffer.current, req)
        /\ input_buffer'.next.ready <=>
             input_buffer.next.ready \/ ~input!Awaits(input_buffer.current, req)
        /\ input_buffer'.current.ready \in BOOLEAN /\ input_buffer'.next.ready \in BOOLEAN
    BY <1>5, <1>6, <1>7, SameSets
  <2>. QED
    BY <2>1, <2>2, <2>3
<1>11. TypeOK'
  BY <1>1, <1>4, <1>8 DEF TypeOK
<1>12. Halting'
  BY <1>4 DEF Halting, OnlyTwoAssertionsFail
<1>13. ReadBuffers' /\ InputPosition'
  BY <1>1, <1>9, <1>10
  DEF ReadBuffers, SlotsInRange, HasRequest, ReadyWasSent, InputPosition, IdleAssert,
                        current_sliding_window,
      input!Awaits
<1>14. WritePort' /\ ReadPort' /\ Output'
  BY <1>1 DEF WritePort, InsideColumn, ReadPort, Output, current_sliding_window
<1>15. Outstanding'
  BY <1>1, <1>6 DEF Outstanding
<1>16. InputAnswers'
  <2>1. \A other \in outstanding : other.t = "input_buffer" /\ other # req => other.id # req.id
    BY <1>1 DEF Outstanding
  <2>2. \A other \in outstanding \ {req} : other.t = "input_buffer" =>
          \/ input!Awaits(input_buffer'.current, other)
          \/ input!Awaits(input_buffer'.next, other)
    BY <1>9, <1>10, <2>1 DEF InputAnswers, input!Awaits
  \* The two slots wait for different windows, so for different requests.
  <2>3. input_buffer.next.window # input_buffer.current.window
    BY <1>5, SameSets DEF InputPosition, IdleAssert, ReadBuffers, SlotsInRange, Index
  <2>4. SentForItsWindow(input_buffer.current)' /\ SentForItsWindow(input_buffer.next)'
    BY <1>1, <1>9, <1>10, <2>1, <2>3 DEF InputAnswers, SentForItsWindow, input!Awaits
  <2>. QED
    BY <1>1, <2>2, <2>4 DEF InputAnswers
<1>. QED
  BY <1>11, <1>12, <1>13, <1>14, <1>15, <1>16

\* An answer for the edge buffer: if no slot awaits it, the run ends.
LEMMA ReceiveEdgeInvariant ==
  ASSUME BufferInvariant, NEW req \in task_return_queue, ReceiveEdge(req)
  PROVE  BufferInvariant'
<1> USE DEF BufferInvariant
<1>1. /\ outstanding' = outstanding \ {req}
      /\ req \in outstanding /\ req \in Req
      /\ pending' \cap task_return_queue' = {}
      /\ pending' \subseteq Req /\ task_return_queue' \subseteq Req
      /\ phase' \in Phases /\ (failed' # {} => phase' = "halted")
      /\ failed = {}
      /\ UNCHANGED <<agg_buffer, global_id, aggregator, systolic, combined, dead_lock>>
      /\ UNCHANGED <<input_buffer, output_buffer, finished, finished_time_stamp, written>>
      /\ req.t = "edge_buffer"
  BY TakeFacts DEF ReceiveEdge
<1>2. edge!ReceiveKnowsId(req) /\ edge!ReceiveDereferences
  BY <1>1 DEF Outstanding, ReadBuffers, HasRequest, edge!ReceiveKnowsId, edge!ReceiveDereferences
<1>3. /\ failed' \subseteq {"EdgeBuffer::receive"}
      /\ failed' = {} => edge!ReceiveAssert(req)
  BY <1>2 DEF ReceiveEdge, Check
<1>4. edge_buffer.current \in edge!Slot /\ edge_buffer.next \in edge!Slot
      /\ edge_buffer.start_cycle_map \subseteq Nat
  BY DEF TypeOK, edge!ReadBufferState
<1>5. /\ edge_buffer'.start_cycle_map = edge_buffer.start_cycle_map \ {req.id}
      /\ edge_buffer'.current = [edge_buffer.current EXCEPT !.ready =
                                   @ \/ edge!Awaits(edge_buffer.current, req)]
      /\ edge_buffer'.next = [edge_buffer.next EXCEPT !.ready =
                                   @ \/ ~edge!Awaits(edge_buffer.current, req)]
      /\ edge_buffer' = [current |-> edge_buffer'.current, next |-> edge_buffer'.next,
                         start_cycle_map |-> edge_buffer'.start_cycle_map]
  BY DEF ReceiveEdge, TypeOK, edge!Receive, edge!ReadBufferState
<1>6. edge!Awaits(edge_buffer.current, req) \in BOOLEAN
  BY <1>4, SameSets DEF edge!Awaits
<1>7. /\ edge_buffer'.current \in edge!Slot /\ edge_buffer'.next \in edge!Slot
      /\ edge_buffer'.current.window = edge_buffer.current.window
      /\ edge_buffer'.current.empty = edge_buffer.current.empty
      /\ edge_buffer'.current.sent = edge_buffer.current.sent
      /\ edge_buffer'.current.req = edge_buffer.current.req
      /\ edge_buffer'.next.req = edge_buffer.next.req
      /\ edge_buffer'.current.ready <=>
           edge_buffer.current.ready \/ edge!Awaits(edge_buffer.current, req)
      /\ edge_buffer'.next.window = edge_buffer.next.window
      /\ edge_buffer'.next.empty = edge_buffer.next.empty
      /\ edge_buffer'.next.sent = edge_buffer.next.sent
      /\ edge_buffer'.next.ready <=>
           edge_buffer.next.ready \/ ~edge!Awaits(edge_buffer.current, req)
  <2> HIDE DEF BufferInvariant
  <2>. QED
    BY <1>4, <1>5, <1>6, SameSets
<1>8. edge_buffer' \in edge!ReadBufferState
  <2> HIDE DEF BufferInvariant
  <2>. QED
    BY <1>4, <1>5, <1>7, SameSets DEF edge!ReadBufferState
<1>9. TypeOK'
  <2>1. failed' \subseteq Assertions
    BY <1>3 DEF Assertions
  <2>. QED
    BY <1>1, <1>8, <2>1 DEF TypeOK
<1>10. Halting'
  BY <1>1, <1>3 DEF Halting, OnlyTwoAssertionsFail
<1>11. ReadBuffers' /\ InputPosition'
  <2>1. SlotsInRange(edge_buffer)' /\ HasRequest(edge_buffer)'
    BY <1>7 DEF ReadBuffers, SlotsInRange, HasRequest
  <2>2. failed' = {} => ReadyWasSent(edge_buffer)'
    BY <1>1, <1>3, <1>7 DEF ReadBuffers, ReadyWasSent, edge!ReceiveAssert, edge!Awaits
  <2>. QED
    BY <1>1, <1>7, <2>1, <2>2
    DEF ReadBuffers, SlotsInRange, HasRequest, ReadyWasSent, InputPosition, IdleAssert,
                        current_sliding_window
<1>12. WritePort' /\ ReadPort' /\ Output'
  BY <1>1 DEF WritePort, InsideColumn, ReadPort, Output, current_sliding_window
<1>13. Outstanding'
  BY <1>1, <1>5 DEF Outstanding
<1>14. InputAnswers'
  BY <1>1 DEF InputAnswers, SentForItsWindow
<1>. QED
  BY <1>9, <1>10, <1>11, <1>12, <1>13, <1>14

\* The answer to the write frees the memory side of the output buffer.
LEMMA ReceiveWriteInvariant ==
  ASSUME BufferInvariant, NEW req \in task_return_queue, ReceiveWrite(req)
  PROVE  BufferInvariant'
<1> USE DEF BufferInvariant
<1>1. /\ outstanding' = outstanding \ {req}
      /\ req \in outstanding /\ req \in Req
      /\ pending' \cap task_return_queue' = {}
      /\ pending' \subseteq Req /\ task_return_queue' \subseteq Req
      /\ phase' \in Phases /\ (failed' # {} => phase' = "halted")
      /\ failed = {}
      /\ UNCHANGED <<agg_buffer, global_id, aggregator, systolic, combined, dead_lock>>
      /\ UNCHANGED <<input_buffer, edge_buffer>>
      /\ req.t = "output_buffer"
  BY TakeFacts DEF ReceiveWrite
<1>2. /\ output_buffer.to_memory.started /\ output_buffer.to_memory.req = req
      /\ ~output_buffer.to_memory.empty /\ req # NoReq
  BY <1>1, NoReqAssumption DEF Outstanding, Output
<1>3. failed' = {}
  BY <1>2 DEF ReceiveWrite, Check, output!FinishedWriteMemoryAssert
<1>4. /\ output_buffer' \in output!WriteBufferState
      /\ output_buffer'.to_buffer = output_buffer.to_buffer
      /\ output_buffer'.to_memory = [empty |-> TRUE, started |-> FALSE, req |-> NoReq]
  BY <1>2, SameSets DEF ReceiveWrite, TypeOK, output!FinishedWriteMemory, output!WriteBufferState
<1>5. finished' \in BOOLEAN /\ finished_time_stamp' \in Nat /\ written' \in Index \cup {NoWindow}
  <2>1. finished_time_stamp' \in {finished_time_stamp, finished_time_stamp + 1}
        /\ written' = req.window
        /\ finished' = (finished \/ req.the_final_request)
    BY <1>2 DEF ReceiveWrite
  <2>2. finished_time_stamp \in Nat
    BY DEF TypeOK
  <2>. QED
    BY <1>1, <2>1, <2>2 DEF Req
<1>6. TypeOK'
  BY <1>1, <1>3, <1>4, <1>5 DEF TypeOK
<1>7. Halting'
  BY <1>3 DEF Halting, OnlyTwoAssertionsFail
<1>8. ReadBuffers' /\ InputPosition'
  BY <1>1 DEF ReadBuffers, SlotsInRange, HasRequest, ReadyWasSent, InputPosition, IdleAssert,
                        current_sliding_window
<1>9. WritePort' /\ ReadPort'
  BY <1>1 DEF WritePort, InsideColumn, ReadPort, current_sliding_window
<1>10. Output'
  BY <1>1, <1>4 DEF Output
<1>11. Outstanding' /\ InputAnswers'
  BY <1>1, <1>2 DEF Outstanding, InputAnswers, SentForItsWindow
<1>. QED
  BY <1>6, <1>7, <1>8, <1>9, <1>10, <1>11

-----------------------------------------------------------------------------
(***************************************************************************)
(* Every step of the system preserves the inductive invariant: one lemma   *)
(* per block of System::cycle(), or per case of a block.                   *)
(***************************************************************************)
THEOREM StepInvariant ==
  ASSUME BufferInvariant, [Next]_vars
  PROVE  BufferInvariant'
<1>1. CASE BufferCycles
  BY <1>1, BufferCyclesInvariant
<1>2. CASE AggregatorPhase
  BY <1>2, AggregatorPhaseInvariant
<1>3. CASE SystolicPhase
  BY <1>3, SystolicPhaseInvariant
<1>4. CASE DeadLockDetection
  BY <1>4, DeadLockDetectionInvariant
<1>5. CASE MemoryAnswers \/ MemoryDone
  BY <1>5, MemoryInvariant
<1>6. CASE SendInputCurrent \/ SendInputNext
  BY <1>6, SendInputInvariant
<1>7. CASE SendEdgeCurrent \/ SendEdgeNext
  BY <1>7, SendEdgeInvariant
<1>8. CASE SendWrite
  BY <1>8, SendWriteInvariant
<1>9. CASE \E req \in task_return_queue :
             ReceiveInput(req) \/ ReceiveEdge(req) \/ ReceiveWrite(req)
  BY <1>9, ReceiveInputInvariant, ReceiveEdgeInvariant, ReceiveWriteInvariant
<1>10. CASE SendNothing \/ ReceiveNothing
  BY <1>10, NothingToDoInvariant
<1>11. CASE Terminated \/ UNCHANGED vars
  BY <1>11, NothingToDoInvariant DEF Terminated
<1>. QED
  BY <1>1, <1>2, <1>3, <1>4, <1>5, <1>6, <1>7, <1>8, <1>9, <1>10, <1>11 DEF Next

(***************************************************************************)
(* The inductive invariant holds in every reachable state, for every       *)
(* sequence of windows the constructor can build and all durations.        *)
(***************************************************************************)
THEOREM SystemBufferInvariant == Spec => []BufferInvariant
  BY InitInvariant, StepInvariant, PTL DEF Spec

(***************************************************************************)
(* Flags, iterators and request pointers stay in range; in particular      *)
(* pop_next() never dereferences end().                                    *)
(***************************************************************************)
THEOREM SystemTypeOK == Spec => []TypeOK
<1>1. BufferInvariant => TypeOK
  BY DEF BufferInvariant
<1>. QED
  BY <1>1, SystemBufferInvariant, PTL

(***************************************************************************)
(* Of the assertions in the cycle() of the buffers, the aggregator, the    *)
(* systolic array and the system and in what they call on one another, and *)
(* of the look-ups that throw, only the one of EdgeBuffer::receive() can   *)
(* fail, and the one at the start of the aggregator's cycle(), this one    *)
(* only for a window that takes no cycle.                                  *)
(***************************************************************************)
THEOREM SystemOnlyTwoAssertionsFail == Spec => []OnlyTwoAssertionsFail
<1>1. BufferInvariant => OnlyTwoAssertionsFail
  BY DEF BufferInvariant, Halting
<1>. QED
  BY <1>1, SystemBufferInvariant, PTL

(***************************************************************************)
(* Every answer for the input buffer finds the slot that waits for it, and *)
(* that slot is the one of the window the answer is about.                 *)
(***************************************************************************)
THEOREM SystemAnswersFindTheirSlot == Spec => []AnswersFindTheirSlot
<1>1. BufferInvariant => AnswersFindTheirSlot
  <2> SUFFICES ASSUME BufferInvariant PROVE AnswersFindTheirSlot
    OBVIOUS
  <2> USE DEF BufferInvariant
  <2>1. ASSUME NEW req \in outstanding, req.t = "input_buffer",
               NEW slot \in {input_buffer.current, input_buffer.next}, input!Awaits(slot, req)
        PROVE  slot.window = req.window
    BY <2>1 DEF InputAnswers, SentForItsWindow, Outstanding, input!Awaits
  <2>2. ASSUME NEW slot \in {input_buffer.current, input_buffer.next},
               slot.ready, ~slot.empty
        PROVE  slot.req.window = slot.window
    BY <2>2 DEF InputAnswers, SentForItsWindow, ReadBuffers, ReadyWasSent
  <2>3. ASSUME NEW req \in outstanding, req.t = "input_buffer"
        PROVE  \E slot \in {input_buffer.current, input_buffer.next} :
                  input!Awaits(slot, req) /\ slot.window = req.window
    BY <2>1, <2>3 DEF InputAnswers
  <2>. QED
    BY <2>2, <2>3 DEF AnswersFindTheirSlot
<1>. QED
  BY <1>1, SystemBufferInvariant, PTL

-----------------------------------------------------------------------------
(***************************************************************************)
(* The stream of windows.                                                  *)
(***************************************************************************)

\* find_next_col() returns the first row that comes next, end() only if none does.
LEMMA NextColumnFacts ==
  ASSUME NEW i \in 0 .. Len(Windows)
  PROVE  LET n == find_next_col(i)
         IN  /\ n \in Index \cup {end}
             /\ n > i
             /\ n \in Index => Windows[n].first_row
             /\ \A k \in i + 1 .. n - 1 : ~Windows[k].first_row
<1> DEFINE later == {j \in Index : j > i /\ Windows[j].first_row}
<1>1. CASE later = {}
  BY <1>1, WindowFacts DEF find_next_col, Index, end
<1>2. CASE later # {}
  <2>1. later \subseteq Nat
    BY WindowFacts DEF Index
  <2>2. OpToRel(<, Nat) = {pair \in Nat \X Nat : pair[1] < pair[2]}
    BY Zenon DEF OpToRel
  <2>3. \E j \in later : \A k \in later : j <= k
    <3> DEFINE less == {pair \in Nat \X Nat : pair[1] < pair[2]}
    <3>1. IsWellFoundedOn(less, Nat)
      BY <2>2, NatLessThanWellFounded
    <3>2. \E j \in later : \A k \in later : <<k, j>> \notin less
      <4> HIDE DEF less, later
      <4>. QED  BY <1>2, <2>1, <3>1, WFMin
    <3>3. \A j, k \in Nat : k < j => <<k, j>> \in less
      OBVIOUS
    <3>4. \A j, k \in Nat : ~(k < j) => j <= k
      OBVIOUS
    <3> HIDE DEF less, later
    <3>. QED  BY <2>1, <3>2, <3>3, <3>4
  <2>4. find_next_col(i) = CHOOSE j \in later : \A k \in later : j <= k
    BY <1>2 DEF find_next_col
  <2>5. PICK n \in later : n = find_next_col(i) /\ \A k \in later : n <= k
    BY <2>3, <2>4
  <2>. QED
    BY <2>5, WindowFacts DEF Index, end
<1>. QED
  BY <1>1, <1>2

\* A window that is the first row after i is the next column.
LEMMA NextColumnIs ==
  ASSUME NEW i \in 0 .. Len(Windows), NEW n \in Index, n > i, Windows[n].first_row,
         \A k \in i + 1 .. n - 1 : ~Windows[k].first_row
  PROVE  find_next_col(i) = n
<1> DEFINE f == find_next_col(i)
<1>1. f \in Index \cup {end} /\ f > i /\ (f \in Index => Windows[f].first_row)
      /\ \A k \in i + 1 .. f - 1 : ~Windows[k].first_row
  BY NextColumnFacts
<1>2. Index \cup {end} \subseteq Int /\ Len(Windows) \in Nat /\ (f < n => f \in Index)
  BY <1>1, WindowFacts DEF Index, end
<1>3. ~(f < n) /\ ~(n < f)
  <2> HIDE DEF f
  <2>. QED  BY <1>1, <1>2
<1>. QED
  BY <1>1, <1>2, <1>3

\* The instances' find_next_col() and windows are the stream's.
LEMMA SameStream ==
  /\ \A i : edge!find_next_col(i) = find_next_col(i)
  /\ \A i : columns!find_next_col(i) = find_next_col(i)
  /\ columns!Index = Index /\ columns!end = end /\ columns!NoWindow = NoWindow
  BY DEF edge!find_next_col, columns!find_next_col, find_next_col, edge!Index, edge!end,
         columns!Index, columns!end, columns!NoWindow, Index, end, NoWindow

\* Columns are counted by their first rows, of which there are finitely many.
LEMMA FirstRowsFinite ==
  ASSUME NEW i \in 0 .. Len(Windows) + 1
  PROVE  /\ IsFiniteSet({j \in 1 .. i : Windows[j].first_row})
         /\ ColumnNumber(i) \in Nat
<1>1. IsFiniteSet(1 .. i)
  BY FS_Interval, WindowFacts
<1>2. {j \in 1 .. i : Windows[j].first_row} \in SUBSET (1 .. i)
  OBVIOUS
<1>3. IsFiniteSet({j \in 1 .. i : Windows[j].first_row})
  BY <1>1, <1>2, FS_Subset
<1>. QED
  BY <1>3, FS_CardinalityType DEF ColumnNumber

\* No column before the first window.
LEMMA NoColumnYet == ColumnNumber(NoWindow) = 0
<1>1. {j \in 1 .. 0 : Windows[j].first_row} = {}
  OBVIOUS
<1>. QED
  BY <1>1, FS_EmptySet DEF ColumnNumber, NoWindow

\* Later windows have no smaller column number.
LEMMA ColumnNumberMonotone ==
  ASSUME NEW i \in 0 .. Len(Windows) + 1, NEW j \in 0 .. Len(Windows) + 1, i <= j
  PROVE  ColumnNumber(i) <= ColumnNumber(j)
<1>1. {k \in 1 .. i : Windows[k].first_row} \in SUBSET {k \in 1 .. j : Windows[k].first_row}
  BY WindowFacts
<1>. QED
  BY <1>1, FirstRowsFinite, FS_Subset DEF ColumnNumber

\* Windows with no first row between them are in the same column.
LEMMA SameColumnNumber ==
  ASSUME NEW i \in 0 .. Len(Windows), NEW j \in 0 .. Len(Windows), i <= j,
         \A k \in i + 1 .. j : ~Windows[k].first_row
  PROVE  ColumnNumber(i) = ColumnNumber(j)
<1>1. {k \in 1 .. i : Windows[k].first_row} = {k \in 1 .. j : Windows[k].first_row}
  BY WindowFacts
<1>. QED
  BY <1>1 DEF ColumnNumber

\* A window has the number of the window before it, one more if it begins a column.
LEMMA ColumnNumberStep ==
  ASSUME NEW i \in 0 .. Len(Windows) - 1
  PROVE  ColumnNumber(i + 1) = IF Windows[i + 1].first_row
                               THEN ColumnNumber(i) + 1 ELSE ColumnNumber(i)
<1> DEFINE rows(n) == {k \in 1 .. n : Windows[k].first_row}
<1>1. CASE Windows[i + 1].first_row
  <2>1. rows(i + 1) = rows(i) \cup {i + 1} /\ i + 1 \notin rows(i)
    BY <1>1, WindowFacts
  <2>2. IsFiniteSet(rows(i))
    BY FirstRowsFinite, WindowFacts
  <2>3. Cardinality(rows(i) \cup {i + 1}) = Cardinality(rows(i)) + 1
    <3> HIDE DEF rows
    <3>. QED  BY <2>1, <2>2, FS_AddElement
  <2>. QED
    BY <1>1, <2>1, <2>3 DEF ColumnNumber
<1>2. CASE ~Windows[i + 1].first_row
  <2>1. i \in 0 .. Len(Windows) /\ i + 1 \in 0 .. Len(Windows)
        /\ \A k \in i + 1 .. i + 1 : ~Windows[k].first_row
    BY <1>2, WindowFacts
  <2>. QED
    BY <1>2, <2>1, SameColumnNumber
<1>. QED
  BY <1>1, <1>2

\* The next column has the next number.
LEMMA NextColumnNumber ==
  ASSUME NEW i \in 0 .. Len(Windows), find_next_col(i) # end
  PROVE  ColumnNumber(find_next_col(i)) = ColumnNumber(i) + 1
<1> DEFINE n == find_next_col(i)
<1>1. n \in Index /\ n > i /\ Windows[n].first_row
      /\ \A k \in i + 1 .. n - 1 : ~Windows[k].first_row
  BY NextColumnFacts
<1>2. n - 1 \in 0 .. Len(Windows) - 1 /\ n - 1 \in 0 .. Len(Windows) /\ i <= n - 1
      /\ n = (n - 1) + 1
  <2> HIDE DEF n
  <2>. QED  BY <1>1, WindowFacts DEF Index
<1>3. ColumnNumber(n - 1) = ColumnNumber(i)
  <2> HIDE DEF n
  <2>. QED  BY <1>1, <1>2, SameColumnNumber
<1>4. ColumnNumber((n - 1) + 1) = ColumnNumber(n - 1) + 1
  <2> HIDE DEF n
  <2>. QED  BY <1>1, <1>2, ColumnNumberStep
<1>. QED
  BY <1>2, <1>3, <1>4

\* No layer is done before a column is written.
LEMMA NoLayerYet == LayersUpTo(NoWindow) = 0
<1>1. {i \in 1 .. 0 : Windows[i].final_col /\ Windows[i].first_row} = {}
  OBVIOUS
<1>. QED
  BY <1>1, FS_EmptySet DEF LayersUpTo, NoWindow

\* The next column ends one more layer if it is the last of its layer.
LEMMA LayersStep ==
  ASSUME NEW i \in 0 .. Len(Windows), find_next_col(i) # end
  PROVE  /\ LayersUpTo(i) \in Nat
         /\ LayersUpTo(find_next_col(i)) =
              IF Windows[find_next_col(i)].final_col THEN LayersUpTo(i) + 1 ELSE LayersUpTo(i)
<1> DEFINE n == find_next_col(i)
           ends(w) == {k \in 1 .. w : Windows[k].final_col /\ Windows[k].first_row}
<1>1. n \in Index /\ n > i /\ Windows[n].first_row
      /\ \A k \in i + 1 .. n - 1 : ~Windows[k].first_row
  BY NextColumnFacts
<1>2. ends(n) = (IF Windows[n].final_col THEN ends(i) \cup {n} ELSE ends(i)) /\ n \notin ends(i)
  <2> HIDE DEF n
  <2>. QED  BY <1>1, WindowFacts DEF Index
<1>3. IsFiniteSet(ends(i))
  <2>1. IsFiniteSet(1 .. i) /\ ends(i) \in SUBSET (1 .. i)
    BY FS_Interval, WindowFacts
  <2>. QED
    BY <2>1, FS_Subset
<1>4. Cardinality(ends(i)) \in Nat
      /\ Cardinality(ends(n)) =
           IF Windows[n].final_col THEN Cardinality(ends(i)) + 1 ELSE Cardinality(ends(i))
  <2> HIDE DEF n, ends
  <2>. QED  BY <1>2, <1>3, FS_AddElement, FS_CardinalityType
<1>. QED
  BY <1>4 DEF LayersUpTo

-----------------------------------------------------------------------------
(***************************************************************************)
(* What the steps do, in the terms of the invariant.                       *)
(***************************************************************************)

\* The types of what the pipeline's invariant looks at.
LEMMA PipelineTypes ==
  ASSUME BufferInvariant
  PROVE  /\ Len(Windows) \in Nat /\ Index = 1 .. Len(Windows) /\ end = Len(Windows) + 1
         /\ written \in 0 .. Len(Windows) /\ combined \in 0 .. Len(Windows)
         /\ current_sliding_window \in 0 .. Len(Windows)
         /\ agg_buffer.read_window \in 0 .. Len(Windows)
         /\ agg_buffer.write_window \in 0 .. Len(Windows)
         /\ systolic.current_sliding_window \in 0 .. Len(Windows)
         /\ output_buffer \in output!WriteBufferState /\ agg_buffer \in agg!AggBufferState
         /\ edge_buffer \in edge!ReadBufferState /\ input_buffer \in input!ReadBufferState
         /\ systolic \in SystolicState /\ aggregator \in AggregatorState
         /\ ~output_buffer.to_buffer.empty => output_buffer.to_buffer.req \in Req
         /\ ~output_buffer.to_memory.empty => output_buffer.to_memory.req \in Req
         /\ outstanding \subseteq Req /\ global_id \in Nat
         /\ \A req \in Req : req.id \in Nat /\ req.window \in Index
<1>1. Len(Windows) \in Nat /\ Index = 1 .. Len(Windows) /\ end = Len(Windows) + 1
      /\ Index \cup {NoWindow} = 0 .. Len(Windows)
  BY WindowFacts DEF Index, end, NoWindow
<1>2. /\ output_buffer \in output!WriteBufferState /\ agg_buffer \in agg!AggBufferState
      /\ edge_buffer \in edge!ReadBufferState /\ input_buffer \in input!ReadBufferState
      /\ systolic \in SystolicState /\ aggregator \in AggregatorState
      /\ outstanding \subseteq Req /\ global_id \in Nat
  BY DEF BufferInvariant, TypeOK, outstanding
<1>3. /\ agg_buffer.read_window \in Index \cup {NoWindow}
      /\ agg_buffer.write_window \in Index \cup {NoWindow}
  BY <1>2, SameSets DEF agg!AggBufferState
<1>4. /\ written \in Index \cup {NoWindow} /\ combined \in Index \cup {NoWindow}
      /\ current_sliding_window \in Index \cup {NoWindow}
      /\ systolic.current_sliding_window \in Index \cup {NoWindow}
  BY DEF BufferInvariant, TypeOK, current_sliding_window, AggregatorState, SystolicState
<1>5. /\ ~output_buffer.to_buffer.empty => output_buffer.to_buffer.req \in Req
      /\ ~output_buffer.to_memory.empty => output_buffer.to_memory.req \in Req
  BY <1>2, SameSets DEF BufferInvariant, Output, output!WriteBufferState
<1>6. \A req \in Req : req.id \in Nat /\ req.window \in Index
  BY DEF Req
<1>. QED
  BY <1>1, <1>2, <1>3, <1>4, <1>5, <1>6

\* WriteBuffer::cycle(): a multiplied column moves to the memory side.
LEMMA OutputMoves ==
  ASSUME BufferInvariant, BufferCycles
  PROVE  \/ output_buffer' = output_buffer
         \/ /\ output_buffer.to_buffer.finished /\ ~output_buffer.to_buffer.empty
            /\ output_buffer.to_memory.empty
            /\ output_buffer'.to_buffer =
                 [empty |-> TRUE, started |-> FALSE, finished |-> FALSE, req |-> NoReq]
            /\ output_buffer'.to_memory =
                 [empty |-> FALSE, started |-> FALSE, req |-> output_buffer.to_buffer.req]
  BY SameSets, ZenonT(30)
  DEF BufferCycles, BufferInvariant, TypeOK, Output, output!Cycle, output!MustMove,
      output!MoveToMemory, output!WriteBufferState

\* Aggregator_buffer::cycle(): a complete column moves to the read port.
LEMMA AggMoves ==
  ASSUME BufferInvariant, BufferCycles
  PROVE  \/ agg_buffer' = agg_buffer
         \/ /\ agg_buffer.write_ready /\ ~agg_buffer.write_empty /\ agg_buffer.read_empty
            /\ agg_buffer'.write_empty /\ ~agg_buffer'.read_empty
            /\ ~agg_buffer'.write_ready
            /\ agg_buffer'.read_window = agg_buffer.write_window
            /\ agg_buffer'.read_busy = agg_buffer.read_busy
  BY SameSets
  DEF BufferCycles, BufferInvariant, TypeOK, WritePort, agg!Cycle, agg!MoveToRead,
      agg!AggBufferState

\* EdgeBuffer::cycle(): the next column's edges become the current ones, the request does not.
LEMMA EdgeMoves ==
  ASSUME BufferInvariant, BufferCycles
  PROVE  \/ edge_buffer' = edge_buffer
         \/ /\ edge_buffer.current.empty /\ ~edge_buffer.next.empty
            /\ edge_buffer'.current.window = edge_buffer.next.window
            /\ edge_buffer'.current.empty = edge_buffer.next.empty
            /\ edge_buffer'.current.sent = edge_buffer.next.sent
            /\ edge_buffer'.current.ready = edge_buffer.next.ready
            /\ edge_buffer'.current.req = edge_buffer.current.req
            /\ edge_buffer'.next.window = find_next_col(edge_buffer.next.window)
            /\ edge_buffer'.next.req = edge_buffer.next.req
            /\ edge_buffer'.next.empty <=> find_next_col(edge_buffer.next.window) = end
            /\ ~edge_buffer'.next.empty => ~edge_buffer'.next.ready /\ ~edge_buffer'.next.sent
<1>1. CASE edge!MustMove
  <2>1. /\ edge_buffer'.current = [edge_buffer.next EXCEPT !.req = edge_buffer.current.req]
        /\ edge_buffer'.next = edge!AdvancedTo(edge_buffer.next,
                                 find_next_col(edge_buffer.next.window))
    BY <1>1, SameStream
    DEF BufferCycles, BufferInvariant, TypeOK, edge!EdgeCycle, edge!ReadBufferState
  <2>2. edge_buffer.next \in edge!Slot
    BY DEF BufferInvariant, TypeOK, edge!ReadBufferState
  <2>3. edge_buffer.current.empty /\ ~edge_buffer.next.empty
    BY <1>1 DEF edge!MustMove
  <2>. QED
    BY <2>1, <2>2, <2>3, SameSets DEF edge!AdvancedTo
<1>. QED
  BY <1>1 DEF BufferCycles, edge!EdgeCycle

-----------------------------------------------------------------------------
(***************************************************************************)
(* The steps preserve the pipeline's invariant.                            *)
(***************************************************************************)

\* The constructed system has no column on its way; the edge buffer serves the first one.
LEMMA InitPipeline ==
  ASSUME Init
  PROVE  PipelineInvariant
<1> USE DEF Init, AggregatorInit, SystolicInit
<1>1. ColumnsInOrder /\ Multiplication
  BY DEF ColumnsInOrder, Multiplication, LastLeft, LastRead, output!Constructed, agg!Constructed
<1>2. AggregatedColumn
  BY DEF AggregatedColumn, LastFilled, LastRead, agg!Constructed, current_sliding_window, NoWindow
<1>3. EdgePosition
  <2>1. ColumnNumber(0) = 0 /\ ColumnNumber(1) = 1 /\ ColumnNumber(2) \in {1, 2}
    <3>1. 0 \in 0 .. Len(Windows) - 1 /\ 1 \in 0 .. Len(Windows) - 1 /\ Windows[1].first_row
      BY WindowsAssumption
    <3>. QED
      BY <3>1, NoColumnYet, ColumnNumberStep DEF NoWindow
  <2>2. ~edge_buffer.current.empty /\ edge_buffer.current.window = 1
        /\ ~edge_buffer.next.empty /\ edge_buffer.next.window = 2
    BY DEF edge!Constructed, edge!ConstructedSlot
  <2>3. ~InsideColumn /\ current_sliding_window = 0
    BY DEF InsideColumn, current_sliding_window, NoWindow
  <2>4. ServedColumn = 1
    BY <2>1, <2>2, <2>3 DEF ServedColumn
  <2>. QED
    BY <2>1, <2>2, <2>3, <2>4 DEF EdgePosition
<1>4. EdgeRequests
  BY DEF EdgeRequests, EdgesOnTheirWay, outstanding, edge!Constructed, edge!ConstructedSlot
<1>5. WriteRequests
  BY DEF WriteRequests, outstanding, output!Constructed
<1>6. RunState
  BY NoLayerYet DEF RunState, NoWindow
<1>. QED
  BY <1>1, <1>2, <1>3, <1>4, <1>5, <1>6 DEF PipelineInvariant

\* The four buffers' cycle(): the columns that move stay in order.
LEMMA BufferCyclesPipeline ==
  ASSUME BufferInvariant, BufferInvariant', PipelineInvariant, BufferCycles
  PROVE  PipelineInvariant'
<1> USE DEF PipelineInvariant
<1>1. /\ UNCHANGED <<global_id, aggregator, systolic, combined, pending, task_return_queue,
                     dead_lock, finished, finished_time_stamp, written>>
      /\ UNCHANGED <<outstanding, current_sliding_window>>
      /\ failed = {} /\ phase = "buffers" /\ ~finished
  BY DEF BufferCycles, BufferInvariant, Halting, system, outstanding, current_sliding_window,
         RunState
<1>2. ColumnsInOrder'
  BY <1>1, OutputMoves, AggMoves, PipelineTypes, SMTT(30)
  DEF ColumnsInOrder, LastLeft, LastRead
<1>3. Multiplication'
  <2>1. agg_buffer.read_busy => ~agg_buffer.read_empty
    BY DEF Multiplication, BufferInvariant, ReadPort
  <2>2. ~systolic.empty => ~output_buffer.to_buffer.finished /\ ~agg_buffer.read_empty
    BY DEF BufferInvariant, ReadPort, Output
  <2>. QED
    BY <1>1, <2>1, <2>2, OutputMoves, AggMoves DEF Multiplication
<1>4. AggregatedColumn'
  <2>1. LastFilled' = LastFilled
    BY <1>1, AggMoves DEF LastFilled, LastRead
  <2>. QED
    BY <1>1, <2>1 DEF AggregatedColumn, InColumn
<1>5. EdgePosition'
  <2>1. InsideColumn' = InsideColumn
    BY <1>1 DEF InsideColumn
  <2>2. CASE edge_buffer' = edge_buffer
    BY <1>1, <2>1, <2>2 DEF EdgePosition, ServedColumn, ColumnNumber
  <2>3. CASE edge_buffer' # edge_buffer
    <3> DEFINE w == edge_buffer.next.window
               k == ColumnNumber(current_sliding_window)
    <3>1. /\ edge_buffer.current.empty /\ ~edge_buffer.next.empty
          /\ edge_buffer'.current.window = w /\ ~edge_buffer'.current.empty
          /\ edge_buffer'.next.window = find_next_col(w)
          /\ edge_buffer'.next.empty <=> find_next_col(w) = end
      BY <2>3, EdgeMoves
    <3>2. ~InsideColumn /\ ServedColumn = k /\ ServedColumn' = k + 1
      BY <1>1, <2>1, <3>1 DEF EdgePosition, ServedColumn, ColumnNumber
    <3>3. w \in Index /\ w \in 0 .. Len(Windows) /\ end = Len(Windows) + 1
          /\ Len(Windows) \in 0 .. Len(Windows)
      BY <3>1, PipelineTypes, SameSets
      DEF BufferInvariant, ReadBuffers, SlotsInRange, edge!ReadBufferState
    <3>4. ColumnNumber(w) \in {k, k + 1} /\ k \in Nat
      <4>1. current_sliding_window \in 0 .. Len(Windows) + 1
        BY PipelineTypes
      <4>. QED
        BY <3>1, <3>2, <4>1, FirstRowsFinite DEF EdgePosition
    <3>5. ~edge_buffer'.next.empty =>
            ColumnNumber(edge_buffer'.next.window) \in {k + 1, k + 2}
      <4>1. find_next_col(w) # end => ColumnNumber(find_next_col(w)) = ColumnNumber(w) + 1
        BY <3>3, NextColumnNumber
      <4>. QED
        BY <3>1, <3>4, <4>1
    <3>6. edge_buffer'.next.empty => ColumnNumber(Len(Windows)) <= k + 1
      <4>1. find_next_col(w) = end => \A j \in w + 1 .. Len(Windows) : ~Windows[j].first_row
        BY <3>3, NextColumnFacts, WindowFacts
      <4>2. find_next_col(w) = end => ColumnNumber(w) = ColumnNumber(Len(Windows))
        BY <3>3, <4>1, SameColumnNumber
      <4>. QED
        BY <3>1, <3>4, <4>2
    <3>. QED
      BY <2>1, <3>1, <3>2, <3>4, <3>5, <3>6 DEF EdgePosition, ColumnNumber
  <2>. QED
    BY <2>2, <2>3
<1>6. EdgeRequests'
  <2>1. UNCHANGED EdgesOnTheirWay
    BY <1>1 DEF EdgesOnTheirWay
  <2>2. CASE edge_buffer' = edge_buffer
    BY <1>1, <2>1, <2>2 DEF EdgeRequests, edge!Awaits
  <2>3. CASE edge_buffer' # edge_buffer
    <3> DEFINE next == edge_buffer.next
    <3>1. /\ edge_buffer.current.empty /\ ~next.empty
          /\ edge_buffer'.current.sent = next.sent
          /\ edge_buffer'.current.ready = next.ready
          /\ edge_buffer'.current.req = edge_buffer.current.req
          /\ edge_buffer'.next.req = next.req
          /\ ~edge_buffer'.next.empty => ~edge_buffer'.next.ready /\ ~edge_buffer'.next.sent
      BY <2>3, EdgeMoves
    <3>2. ~edge_buffer.current.sent
      BY <1>1, <3>1 DEF BufferInvariant, ReadBuffers, ReadyWasSent
    <3>3. /\ EdgesOnTheirWay \subseteq {next.req}
          /\ next.req \in EdgesOnTheirWay <=> next.sent /\ ~next.ready
      BY <1>1, <3>1, <3>2 DEF EdgeRequests
    <3>4. \E first \in outstanding \cup {NoReq} :
            /\ EdgesOnTheirWay \subseteq {first}
            /\ first \in EdgesOnTheirWay <=> next.sent /\ ~next.ready
      <4>1. NoReq \notin EdgesOnTheirWay
        BY NoReqAssumption, PipelineTypes DEF EdgesOnTheirWay
      <4>2. EdgesOnTheirWay \subseteq outstanding
        BY DEF EdgesOnTheirWay
      <4>. QED
        BY <3>3, <4>1, <4>2
    <3>. QED
      BY <1>1, <2>1, <3>1, <3>4 DEF EdgeRequests, edge!Awaits
  <2>. QED
    BY <2>2, <2>3
<1>7. WriteRequests'
  BY <1>1, OutputMoves DEF WriteRequests
<1>8. RunState'
  BY <1>1 DEF RunState, LayersUpTo
<1>. QED
  BY <1>2, <1>3, <1>4, <1>5, <1>6, <1>7, <1>8

\* A step that moves no column and no request.
LEMMA QuietPipeline ==
  ASSUME PipelineInvariant,
         UNCHANGED <<edge_buffer, agg_buffer, output_buffer, global_id, combined, finished,
                     finished_time_stamp, written, outstanding>>,
         UNCHANGED <<aggregator.working, current_sliding_window>>,
         UNCHANGED <<systolic.empty, systolic.current_sliding_window>>,
         failed' = {} => failed = {},
         finished => phase' = "halted"
  PROVE  PipelineInvariant'
<1> USE DEF PipelineInvariant
<1>1. ColumnsInOrder' /\ Multiplication'
  BY DEF ColumnsInOrder, Multiplication, LastLeft, LastRead
<1>2. AggregatedColumn'
  BY DEF AggregatedColumn, InColumn, LastFilled, LastRead
<1>3. EdgePosition'
  BY DEF EdgePosition, ServedColumn, InsideColumn, ColumnNumber
<1>4. EdgeRequests'
  <2>1. UNCHANGED EdgesOnTheirWay
    BY DEF EdgesOnTheirWay
  <2>. QED
    BY <2>1 DEF EdgeRequests, edge!Awaits
<1>5. WriteRequests' /\ RunState'
  BY DEF WriteRequests, RunState, LayersUpTo
<1>. QED
  BY <1>1, <1>2, <1>3, <1>4, <1>5

\* Blocks of cycle() that only count, wait, watch, or find nothing to send or to receive.
LEMMA QuietStepsPipeline ==
  ASSUME BufferInvariant, PipelineInvariant,
         \/ AggregatorPhase /\ (NothingToWorkOn \/ Aggregate \/ WaitForWindow)
         \/ SystolicPhase /\ (Multiply \/ WaitForColumn)
         \/ DeadLockDetection \/ MemoryAnswers \/ MemoryDone
         \/ SendNothing \/ ReceiveNothing \/ UNCHANGED vars
  PROVE  PipelineInvariant'
<1>1. failed # {} => phase = "halted"
  BY DEF BufferInvariant, Halting
<1>2. finished => phase = "halted"
  BY DEF PipelineInvariant, RunState
<1>3. aggregator \in AggregatorState /\ systolic \in SystolicState
  BY DEF BufferInvariant, TypeOK
<1>4. CASE AggregatorPhase /\ (NothingToWorkOn \/ Aggregate \/ WaitForWindow)
  <2>1. UNCHANGED <<edge_buffer, agg_buffer, output_buffer, global_id, combined, finished,
                    finished_time_stamp, written, outstanding, systolic>>
    BY <1>4 DEF AggregatorPhase, NothingToWorkOn, Aggregate, WaitForWindow, buffers, system,
                outstanding
  <2>2. UNCHANGED <<aggregator.working, current_sliding_window>>
    BY <1>3, <1>4 DEF NothingToWorkOn, Aggregate, WaitForWindow, AggregatorState,
                      current_sliding_window
  <2>3. failed = {} /\ ~finished
    BY <1>1, <1>2, <1>4 DEF AggregatorPhase
  <2>. QED
    BY <2>1, <2>2, <2>3, QuietPipeline
<1>5. CASE SystolicPhase /\ (Multiply \/ WaitForColumn)
  <2>1. UNCHANGED <<edge_buffer, agg_buffer, output_buffer, global_id, combined, finished,
                    finished_time_stamp, written, outstanding, aggregator>>
    BY <1>5 DEF SystolicPhase, Multiply, WaitForColumn, buffers, system, outstanding
  <2>2. UNCHANGED <<systolic.empty, systolic.current_sliding_window>>
    BY <1>3, <1>5 DEF Multiply, WaitForColumn, SystolicState
  <2>3. failed = {} /\ ~finished
    BY <1>1, <1>2, <1>5 DEF SystolicPhase
  <2>. QED
    BY <2>1, <2>2, <2>3, QuietPipeline DEF current_sliding_window
<1>6. CASE DeadLockDetection
  <2>1. UNCHANGED <<edge_buffer, agg_buffer, output_buffer, global_id, combined, finished,
                    finished_time_stamp, written, outstanding, aggregator, systolic>>
    BY <1>6 DEF DeadLockDetection, buffers, outstanding
  <2>2. failed = {} /\ ~finished
    BY <1>1, <1>2, <1>6 DEF DeadLockDetection
  <2>. QED
    BY <2>1, <2>2, QuietPipeline DEF current_sliding_window
<1>7. CASE MemoryAnswers \/ MemoryDone
  <2>1. UNCHANGED <<edge_buffer, agg_buffer, output_buffer, global_id, combined, finished,
                    finished_time_stamp, written, aggregator, systolic>>
    BY <1>7 DEF MemoryAnswers, MemoryFinishes, MemoryDone, buffers, system
  <2>2. UNCHANGED outstanding
    BY <1>7 DEF MemoryAnswers, MemoryFinishes, MemoryDone, system, outstanding
  <2>3. failed = {} /\ ~finished
    BY <1>1, <1>2, <1>7 DEF MemoryAnswers, MemoryFinishes, MemoryDone
  <2>. QED
    BY <2>1, <2>2, <2>3, QuietPipeline DEF current_sliding_window
<1>8. CASE SendNothing \/ ReceiveNothing \/ UNCHANGED vars
  <2>1. UNCHANGED <<edge_buffer, agg_buffer, output_buffer, global_id, combined, finished,
                    finished_time_stamp, written, outstanding, aggregator, systolic, failed>>
    BY <1>8 DEF SendNothing, ReceiveNothing, vars, buffers, system, outstanding
  <2>2. finished => phase' = "halted"
    BY <1>2, <1>8 DEF SendNothing, ReceiveNothing, vars
  <2>. QED
    BY <2>1, <2>2, QuietPipeline DEF current_sliding_window
<1>. QED
  BY <1>4, <1>5, <1>6, <1>7, <1>8

-----------------------------------------------------------------------------
\* What it means to start a window: it follows the aggregator's, and only a first row
\* finds the write port empty.
LEMMA StartWindowEffect ==
  ASSUME BufferInvariant, BufferInvariant', AggregatorPhase, StartWindow
  PROVE  LET w == current_sliding_window + 1
         IN  /\ UNCHANGED <<edge_buffer, output_buffer, systolic, combined, global_id, failed,
                            finished, finished_time_stamp, written, pending, outstanding>>
             /\ failed = {} /\ ~aggregator.working /\ ~edge_buffer.current.empty
             /\ w \in Index /\ current_sliding_window' = w /\ InsideColumn'
             /\ Windows[w].first_row <=> ~InsideColumn
             /\ IF Windows[w].first_row
                THEN /\ agg_buffer.write_empty /\ ~agg_buffer'.write_empty
                     /\ agg_buffer'.write_window = w
                     /\ agg_buffer'.read_window = agg_buffer.read_window
                     /\ agg_buffer'.read_empty = agg_buffer.read_empty
                     /\ agg_buffer'.read_busy = agg_buffer.read_busy
                ELSE agg_buffer' = agg_buffer /\ ~agg_buffer.write_empty
<1> DEFINE w == input_buffer.current.window
<1>1. /\ UNCHANGED <<edge_buffer, output_buffer, systolic, combined, global_id, finished,
                     finished_time_stamp, written, pending, outstanding>>
      /\ failed = {}
  BY DEF AggregatorPhase, StartWindow, BufferInvariant, Halting, system, outstanding
<1>2. /\ ~aggregator.working /\ input_buffer.current.ready /\ edge_buffer.current.ready
      /\ ~input_buffer.current.empty /\ ~edge_buffer.current.empty
  BY <1>1 DEF StartWindow, CanStart, BufferInvariant, ReadBuffers, ReadyWasSent
<1>3. w \in Index /\ w = current_sliding_window + 1
  BY <1>2 DEF BufferInvariant, ReadBuffers, SlotsInRange, InputPosition, IdleAssert
<1>4. current_sliding_window' = w /\ aggregator'.working
  <2>1. PICK cycles \in AggregationTimes :
          aggregator' = [working |-> TRUE, remaining_cycles |-> cycles,
                         current_sliding_window |-> w]
    BY DEF StartWindow
  <2>. QED
    BY <2>1 DEF current_sliding_window
<1>5. InsideColumn' /\ ~agg_buffer'.write_empty /\ ~agg_buffer'.write_ready
  BY <1>4 DEF InsideColumn, BufferInvariant, WritePort
<1>6. IF Windows[w].first_row
      THEN /\ agg_buffer.write_empty /\ ~agg_buffer'.write_empty
           /\ agg_buffer'.write_window = w
           /\ agg_buffer'.read_window = agg_buffer.read_window
           /\ agg_buffer'.read_empty = agg_buffer.read_empty
           /\ agg_buffer'.read_busy = agg_buffer.read_busy
      ELSE agg_buffer' = agg_buffer
  BY <1>5 DEF StartWindow, BufferInvariant, TypeOK, agg!AddNewTask, agg!AggBufferState
<1>7. InsideColumn <=> ~agg_buffer.write_empty /\ ~agg_buffer.write_ready
  BY DEF BufferInvariant, WritePort
<1>8. failed' = {}
  <2>1. Windows[w].first_row => agg!AddNewTaskAssert
    BY <1>6, SameSets
    DEF StartWindow, CanStart, ColumnWaits, BufferInvariant, WritePort, agg!AddNewTaskAssert
  <2>2. IdleAssert
    BY <1>2 DEF BufferInvariant, InputPosition
  <2>. QED
    BY <1>1, <2>1, <2>2 DEF StartWindow, Check
<1>. QED
  BY <1>1, <1>2, <1>3, <1>4, <1>5, <1>6, <1>7, <1>8

\* A started window is the next row of its column, or begins the next column.
LEMMA StartWindowPipeline ==
  ASSUME BufferInvariant, BufferInvariant', PipelineInvariant, AggregatorPhase, StartWindow
  PROVE  PipelineInvariant'
<1> USE DEF PipelineInvariant
<1> DEFINE c == current_sliding_window
           w == c + 1
<1>1. /\ UNCHANGED <<edge_buffer, output_buffer, systolic, combined, global_id, failed,
                     finished, finished_time_stamp, written, outstanding>>
      /\ failed = {} /\ ~aggregator.working /\ ~edge_buffer.current.empty
      /\ w \in Index /\ c' = w /\ InsideColumn'
      /\ Windows[w].first_row <=> ~InsideColumn
      /\ agg_buffer'.read_window = agg_buffer.read_window
      /\ agg_buffer'.read_empty = agg_buffer.read_empty
      /\ agg_buffer'.read_busy = agg_buffer.read_busy
      /\ Windows[w].first_row => /\ agg_buffer.write_empty /\ ~agg_buffer'.write_empty
                                 /\ agg_buffer'.write_window = w
      /\ ~Windows[w].first_row => agg_buffer' = agg_buffer /\ ~agg_buffer.write_empty
  BY StartWindowEffect
<1>2. /\ c \in 0 .. Len(Windows) /\ Len(Windows) \in Nat /\ Index = 1 .. Len(Windows)
      /\ end = Len(Windows) + 1 /\ LastRead \in 0 .. Len(Windows)
  BY PipelineTypes DEF LastRead
<1>3. LastLeft' = LastLeft /\ LastRead' = LastRead
      /\ LastFilled' = IF Windows[w].first_row THEN w ELSE LastFilled
  BY <1>1 DEF LastLeft, LastRead, LastFilled
\* The last window with a first row is in the read port, or behind it.
<1>4. Windows[w].first_row => find_next_col(LastRead) = w
  <2>1. CASE Windows[w].first_row
    <3>1. LastFilled = LastRead
      BY <1>1, <2>1 DEF LastFilled
    <3>2. LastRead < w /\ \A k \in LastRead + 1 .. w - 1 : ~Windows[k].first_row
      <4>1. CASE c = NoWindow
        BY <1>2, <3>1, <4>1 DEF AggregatedColumn, NoWindow
      <4>2. CASE c # NoWindow
        <5>1. LastRead \in 1 .. c /\ \A k \in LastRead + 1 .. c : ~Windows[k].first_row
          BY <3>1, <4>2 DEF AggregatedColumn, InColumn
        <5>. QED
          BY <1>2, <5>1
      <4>. QED
        BY <4>1, <4>2
    <3>. QED
      BY <1>1, <1>2, <2>1, <3>2, NextColumnIs
  <2>. QED
    BY <2>1
<1>5. ColumnsInOrder'
  <2>1. \A i : find_next_col(i)' = find_next_col(i)
    BY DEF find_next_col
  <2>. QED
    BY <1>1, <1>3, <1>4, <2>1 DEF ColumnsInOrder
<1>6. Multiplication'
  BY <1>1 DEF Multiplication
<1>7. AggregatedColumn'
  <2>1. InColumn(LastFilled', w)
    <3>1. CASE Windows[w].first_row
      BY <1>1, <1>2, <1>3, <3>1 DEF InColumn
    <3>2. CASE ~Windows[w].first_row
      <4>1. c # NoWindow /\ c \in Index
        BY <1>1, <1>2, <3>2, WindowFacts DEF NoWindow
      <4>2. InColumn(LastFilled, c)
        BY <4>1 DEF AggregatedColumn
      <4>3. /\ Windows[w].x = Windows[c].x
            /\ Windows[w].final_col = Windows[c].final_col
            /\ Windows[w].final_layer = Windows[c].final_layer
        BY <1>1, <3>2, <4>1, WindowsAssumption DEF ColumnsAreContiguous
      <4>. QED
        BY <1>2, <1>3, <3>2, <4>1, <4>2, <4>3 DEF InColumn
    <3>. QED
      BY <3>1, <3>2
  <2>2. InColumn(LastFilled, c)' = InColumn(LastFilled', w)
    BY <1>1 DEF InColumn
  <2>. QED
    BY <1>1, <1>2, <2>1, <2>2 DEF AggregatedColumn, NoWindow
\* What the edge buffer serves does not change: the aggregator enters the column it served.
<1>8. EdgePosition'
  <2>1. ServedColumn' = ServedColumn
    <3>1. ColumnNumber(w) = IF Windows[w].first_row THEN ColumnNumber(c) + 1 ELSE ColumnNumber(c)
      <4>1. c \in 0 .. Len(Windows) - 1
        BY <1>1, <1>2
      <4>. QED
        BY <4>1, ColumnNumberStep
    <3>2. ServedColumn' = ColumnNumber(w)
      BY <1>1 DEF ServedColumn, ColumnNumber
    <3>3. ServedColumn = IF InsideColumn THEN ColumnNumber(c) ELSE ColumnNumber(c) + 1
      BY <1>1 DEF ServedColumn
    <3>. QED
      BY <1>1, <3>1, <3>2, <3>3
  <2>. QED
    BY <1>1, <2>1 DEF EdgePosition, ColumnNumber
<1>9. EdgeRequests'
  <2>1. UNCHANGED EdgesOnTheirWay
    BY <1>1 DEF EdgesOnTheirWay
  <2>. QED
    BY <1>1, <2>1 DEF EdgeRequests, edge!Awaits
<1>10. WriteRequests'
  BY <1>1 DEF WriteRequests
<1>11. RunState'
  <2>1. ~finished
    BY DEF RunState, AggregatorPhase
  <2>. QED
    BY <1>1, <2>1 DEF RunState, LayersUpTo
<1>. QED
  BY <1>5, <1>6, <1>7, <1>8, <1>9, <1>10, <1>11

\* What it means to finish a window: after the last row the column's edges are given up.
LEMMA FinishWindowEffect ==
  ASSUME BufferInvariant, BufferInvariant', AggregatorPhase, FinishWindow
  PROVE  /\ UNCHANGED <<output_buffer, systolic, combined, global_id, failed, finished,
                        finished_time_stamp, written, pending, outstanding>>
         /\ failed = {} /\ aggregator.working /\ ~aggregator'.working
         /\ current_sliding_window \in Index
         /\ UNCHANGED current_sliding_window
         /\ InsideColumn
         /\ InsideColumn' <=> ~Windows[current_sliding_window].final_row
         /\ edge_buffer.current.ready /\ ~edge_buffer.current.empty
         /\ edge_buffer'.next = edge_buffer.next
         /\ edge_buffer'.current.window = edge_buffer.current.window
         /\ edge_buffer'.current.req = edge_buffer.current.req
         /\ IF Windows[current_sliding_window].final_row
            THEN edge_buffer'.current.empty /\ ~edge_buffer'.current.sent
            ELSE edge_buffer' = edge_buffer
         /\ agg_buffer'.write_empty = agg_buffer.write_empty
         /\ agg_buffer'.write_window = agg_buffer.write_window
         /\ agg_buffer'.read_window = agg_buffer.read_window
         /\ agg_buffer'.read_empty = agg_buffer.read_empty
         /\ agg_buffer'.read_busy = agg_buffer.read_busy
<1> DEFINE w == current_sliding_window
<1>1. /\ UNCHANGED <<output_buffer, systolic, combined, global_id, finished,
                     finished_time_stamp, written, pending, outstanding>>
      /\ failed = {}
  BY DEF AggregatorPhase, FinishWindow, BufferInvariant, Halting, system, outstanding
<1>2. aggregator.working /\ ~aggregator'.working /\ UNCHANGED w
  BY DEF FinishWindow, BufferInvariant, TypeOK, AggregatorState, current_sliding_window
<1>3. w \in Index /\ w # NoWindow /\ edge_buffer.current.ready /\ ~edge_buffer.current.empty
  BY <1>1, <1>2 DEF BufferInvariant, ReadBuffers, ReadyWasSent, SlotsInRange, InputPosition, IdleAssert,
                    Index, NoWindow
<1>4. InsideColumn /\ (InsideColumn' <=> ~Windows[w].final_row)
  BY <1>2, <1>3 DEF InsideColumn
<1>5. failed' = {}
  BY DEF FinishWindow, Check, BufferInvariant, Halting, OnlyTwoAssertionsFail
<1>6. /\ edge_buffer'.next = edge_buffer.next
      /\ edge_buffer'.current.window = edge_buffer.current.window
      /\ edge_buffer'.current.req = edge_buffer.current.req
      /\ IF Windows[w].final_row
         THEN edge_buffer'.current.empty /\ ~edge_buffer'.current.sent
         ELSE edge_buffer' = edge_buffer
  <2>1. CASE Windows[w].final_row
    <3>1. edge!FinishedCurrent
      BY <2>1 DEF FinishWindow
    <3>2. edge_buffer \in edge!ReadBufferState /\ edge_buffer.current \in edge!Slot
      BY DEF BufferInvariant, TypeOK, edge!ReadBufferState
    <3>. QED
      BY <2>1, <3>1, <3>2, SameSets DEF edge!FinishedCurrent, edge!ReadBufferState
  <2>2. CASE ~Windows[w].final_row
    BY <2>2 DEF FinishWindow
  <2>. QED
    BY <2>1, <2>2
<1>7. /\ agg_buffer'.write_empty = agg_buffer.write_empty
      /\ agg_buffer'.write_window = agg_buffer.write_window
      /\ agg_buffer'.read_window = agg_buffer.read_window
      /\ agg_buffer'.read_empty = agg_buffer.read_empty
      /\ agg_buffer'.read_busy = agg_buffer.read_busy
  BY DEF FinishWindow, BufferInvariant, TypeOK, agg!FinishWrite, agg!AggBufferState
<1>. QED
  BY <1>1, <1>2, <1>3, <1>4, <1>5, <1>6, <1>7

\* A finished window moves no column.
LEMMA FinishWindowPipeline ==
  ASSUME BufferInvariant, BufferInvariant', PipelineInvariant, AggregatorPhase, FinishWindow
  PROVE  PipelineInvariant'
<1> USE DEF PipelineInvariant
<1>1. /\ UNCHANGED <<output_buffer, systolic, combined, global_id, failed, finished,
                     finished_time_stamp, written, outstanding, current_sliding_window>>
      /\ InsideColumn /\ edge_buffer.current.ready /\ ~edge_buffer.current.empty
      /\ edge_buffer'.next = edge_buffer.next
      /\ edge_buffer'.current.window = edge_buffer.current.window
      /\ edge_buffer'.current.req = edge_buffer.current.req
      /\ \/ InsideColumn' /\ edge_buffer' = edge_buffer
         \/ ~InsideColumn' /\ edge_buffer'.current.empty /\ ~edge_buffer'.current.sent
      /\ agg_buffer'.write_empty = agg_buffer.write_empty
      /\ agg_buffer'.write_window = agg_buffer.write_window
      /\ agg_buffer'.read_window = agg_buffer.read_window
      /\ agg_buffer'.read_empty = agg_buffer.read_empty
      /\ agg_buffer'.read_busy = agg_buffer.read_busy
      /\ failed = {} /\ ~finished
  BY FinishWindowEffect DEF RunState, AggregatorPhase
<1>2. LastLeft' = LastLeft /\ LastRead' = LastRead /\ LastFilled' = LastFilled
  BY <1>1 DEF LastLeft, LastRead, LastFilled
<1>3. ColumnsInOrder' /\ Multiplication'
  BY <1>1, <1>2 DEF ColumnsInOrder, Multiplication
<1>4. AggregatedColumn'
  BY <1>1, <1>2 DEF AggregatedColumn, InColumn
<1>5. EdgePosition'
  <2>1. ServedColumn' = ServedColumn
    BY <1>1 DEF ServedColumn, ColumnNumber
  <2>. QED
    BY <1>1, <2>1 DEF EdgePosition, ColumnNumber
<1>6. EdgeRequests'
  <2>1. UNCHANGED EdgesOnTheirWay
    BY <1>1 DEF EdgesOnTheirWay
  <2>. QED
    BY <1>1, <2>1 DEF EdgeRequests, edge!Awaits
<1>7. WriteRequests' /\ RunState'
  BY <1>1 DEF WriteRequests, RunState, LayersUpTo
<1>. QED
  BY <1>3, <1>4, <1>5, <1>6, <1>7

-----------------------------------------------------------------------------
\* The ids of the edge buffer's requests have been given out before.
LEMMA EdgeIds ==
  ASSUME BufferInvariant, EdgeRequests
  PROVE  \A slot \in {edge_buffer.current, edge_buffer.next} :
            slot.req # NoReq => slot.req.id < global_id + 1 /\ slot.req.id # global_id
<1>1. /\ edge_buffer.current.req \in Req \cup {NoReq}
      /\ edge_buffer.next.req \in Req \cup {NoReq}
  BY PipelineTypes, SameSets DEF edge!ReadBufferState
<1>2. \A slot \in {edge_buffer.current, edge_buffer.next} :
         slot.req # NoReq => slot.req.id < global_id
  BY DEF EdgeRequests
<1>3. global_id \in Nat /\ \A other \in Req : other.id \in Nat
  BY PipelineTypes
<1>. QED
  BY <1>1, <1>2, <1>3

\* What it means to take a column: it is the next one after those that left.
LEMMA TakeColumnEffect ==
  ASSUME BufferInvariant, BufferInvariant', PipelineInvariant, SystolicPhase, TakeColumn
  PROVE  /\ UNCHANGED <<edge_buffer, aggregator, combined, finished, finished_time_stamp,
                        written, pending, outstanding, current_sliding_window>>
         /\ failed = {} /\ ~finished /\ global_id' = global_id + 1
         /\ output_buffer.to_buffer.empty /\ ~output_buffer.to_buffer.finished
         /\ output_buffer'.to_memory = output_buffer.to_memory
         /\ ~output_buffer'.to_buffer.empty /\ ~output_buffer'.to_buffer.finished
         /\ output_buffer'.to_buffer.req = WriteReq(global_id, agg_buffer.read_window)
         /\ ~systolic'.empty
         /\ systolic'.current_sliding_window = agg_buffer.read_window
         /\ agg_buffer' = [agg_buffer EXCEPT !.read_busy = TRUE]
         /\ agg_buffer \in agg!AggBufferState /\ ~agg_buffer.read_empty
         /\ agg_buffer.read_window \in Index
<1>1. /\ UNCHANGED <<edge_buffer, aggregator, combined, finished, finished_time_stamp,
                     written, pending, outstanding, current_sliding_window>>
      /\ failed = {} /\ ~finished /\ global_id' = global_id + 1
  BY DEF SystolicPhase, TakeColumn, BufferInvariant, Halting, PipelineInvariant, RunState,
         system, outstanding, current_sliding_window
<1>2. /\ output_buffer.to_buffer.empty /\ ~output_buffer.to_buffer.started
      /\ ~output_buffer.to_buffer.finished
  BY DEF TakeColumn, CanTakeColumn, BufferInvariant, Output
<1>3. /\ output_buffer'.to_memory = output_buffer.to_memory
      /\ ~output_buffer'.to_buffer.empty /\ ~output_buffer'.to_buffer.finished
      /\ output_buffer'.to_buffer.req = WriteReq(global_id, agg_buffer.read_window)
  BY <1>2, SameSets, ZenonT(30)
  DEF TakeColumn, BufferInvariant, TypeOK, output!StartWriteToBuffer, output!WriteBufferState
<1>4. ~systolic'.empty /\ systolic'.current_sliding_window = agg_buffer.read_window
  BY DEF TakeColumn
<1>5. /\ agg_buffer' = [agg_buffer EXCEPT !.read_busy = TRUE]
      /\ agg_buffer \in agg!AggBufferState
      /\ ~agg_buffer.read_empty /\ agg_buffer.read_window # NoWindow
  BY DEF TakeColumn, CanTakeColumn, agg!StartRead, BufferInvariant, TypeOK, ReadPort
<1>6. agg_buffer.read_window \in Index
  BY <1>5, SameSets DEF agg!AggBufferState
<1>. QED
  BY <1>1, <1>2, <1>3, <1>4, <1>5, <1>6

\* A column that is taken is in the read port and in the output buffer.
LEMMA TakeColumnPipeline ==
  ASSUME BufferInvariant, BufferInvariant', PipelineInvariant, SystolicPhase, TakeColumn
  PROVE  PipelineInvariant'
<1> USE DEF PipelineInvariant
<1> DEFINE req == WriteReq(global_id, agg_buffer.read_window)
<1>1. /\ UNCHANGED <<edge_buffer, aggregator, combined, finished, finished_time_stamp,
                     written, outstanding, current_sliding_window>>
      /\ failed = {} /\ ~finished /\ global_id' = global_id + 1
      /\ output_buffer.to_buffer.empty /\ ~output_buffer.to_buffer.finished
      /\ output_buffer'.to_memory = output_buffer.to_memory
      /\ ~output_buffer'.to_buffer.empty /\ ~output_buffer'.to_buffer.finished
      /\ output_buffer'.to_buffer.req = req
      /\ ~systolic'.empty
      /\ systolic'.current_sliding_window = agg_buffer.read_window
      /\ ~agg_buffer.read_empty
  BY TakeColumnEffect
<1>2. /\ agg_buffer'.write_empty = agg_buffer.write_empty
      /\ agg_buffer'.write_window = agg_buffer.write_window
      /\ agg_buffer'.read_window = agg_buffer.read_window
      /\ agg_buffer'.read_empty = agg_buffer.read_empty
  BY TakeColumnEffect DEF agg!AggBufferState
<1>3. req.id = global_id /\ req.window = agg_buffer.read_window
      /\ req = WriteReq(req.id, req.window)
  BY DEF WriteReq
<1>4. global_id \in Nat /\ outstanding \subseteq Req /\ \A other \in Req : other.id \in Nat
  BY PipelineTypes
<1> HIDE DEF req
<1>5. LastLeft' = LastLeft /\ LastRead' = LastRead /\ LastFilled' = LastFilled
  BY <1>1, <1>2 DEF LastLeft, LastRead, LastFilled
<1>6. ColumnsInOrder' /\ Multiplication'
  BY <1>1, <1>2, <1>3, <1>5 DEF ColumnsInOrder, Multiplication
<1>7. AggregatedColumn'
  BY <1>1, <1>5 DEF AggregatedColumn, InColumn
<1>8. EdgePosition'
  BY <1>1 DEF EdgePosition, ServedColumn, InsideColumn, ColumnNumber
<1>9. EdgeRequests'
  <2>1. UNCHANGED EdgesOnTheirWay
    BY <1>1 DEF EdgesOnTheirWay
  <2>2. \A slot \in {edge_buffer.current, edge_buffer.next} :
           slot.req # NoReq => slot.req.id < global_id + 1
    BY EdgeIds
  <2>3. \E first \in outstanding \cup {NoReq} :
           /\ EdgesOnTheirWay \subseteq {first, edge_buffer.next.req}
           /\ failed = {} =>
                /\ first \in EdgesOnTheirWay <=>
                     edge_buffer.current.sent /\ ~edge_buffer.current.ready
                /\ edge_buffer.next.req \in EdgesOnTheirWay \ {first} <=>
                     ~edge_buffer.next.empty /\ edge_buffer.next.sent /\ ~edge_buffer.next.ready
                /\ \A r \in EdgesOnTheirWay : edge!Awaits(edge_buffer.current, r) => r = first
    BY DEF EdgeRequests
  <2>. QED
    BY <1>1, <2>1, <2>2, <2>3 DEF EdgeRequests, edge!Awaits
<1>10. WriteRequests'
  <2>1. \A other \in outstanding : other.id < global_id + 1 /\ other.id # global_id
    BY <1>4 DEF WriteRequests
  <2>2. ~output_buffer.to_memory.empty =>
          output_buffer.to_memory.req.id < global_id + 1
          /\ output_buffer.to_memory.req.id # global_id
    BY <1>4, PipelineTypes DEF WriteRequests
  <2>. QED
    BY <1>1, <1>3, <1>4, <2>1, <2>2 DEF WriteRequests
<1>11. RunState'
  BY <1>1 DEF RunState, LayersUpTo
<1>. QED
  BY <1>6, <1>7, <1>8, <1>9, <1>10, <1>11

\* What it means to finish a column: it is the one in the output buffer.
LEMMA FinishColumnEffect ==
  ASSUME BufferInvariant, BufferInvariant', PipelineInvariant, SystolicPhase, FinishColumn
  PROVE  /\ UNCHANGED <<edge_buffer, aggregator, finished, finished_time_stamp, global_id,
                        written, pending, outstanding, current_sliding_window, failed>>
         /\ failed = {} /\ ~finished
         /\ output_buffer \in output!WriteBufferState
         /\ output_buffer' = [output_buffer EXCEPT !.to_buffer.finished = TRUE]
         /\ ~output_buffer.to_buffer.empty /\ ~output_buffer.to_buffer.finished
         /\ systolic'.empty
         /\ agg_buffer \in agg!AggBufferState
         /\ agg_buffer' = [agg_buffer EXCEPT !.read_ready = FALSE, !.read_busy = FALSE,
                                             !.read_empty = TRUE]
         /\ ~agg_buffer.read_empty
         /\ combined' = agg_buffer.read_window
         /\ output_buffer.to_buffer.req.window = agg_buffer.read_window
<1>1. /\ UNCHANGED <<edge_buffer, aggregator, finished, finished_time_stamp, global_id,
                     written, pending, outstanding, current_sliding_window>>
      /\ failed = {} /\ ~finished
  BY DEF SystolicPhase, FinishColumn, BufferInvariant, Halting, PipelineInvariant, RunState,
         system, outstanding, current_sliding_window
<1>2. ~systolic.empty
  BY DEF FinishColumn, BufferInvariant, ReadPort
<1>3. /\ ~output_buffer.to_buffer.empty /\ ~output_buffer.to_buffer.finished
      /\ ~agg_buffer.read_empty
  BY <1>2 DEF BufferInvariant, ReadPort, Output
<1>4. output_buffer \in output!WriteBufferState
      /\ output_buffer' = [output_buffer EXCEPT !.to_buffer.finished = TRUE]
  BY <1>3
  DEF FinishColumn, BufferInvariant, TypeOK, output!FinishedWriteToBuffer, output!WriteBufferState
<1>5. /\ agg_buffer \in agg!AggBufferState
      /\ agg_buffer' = [agg_buffer EXCEPT !.read_ready = FALSE, !.read_busy = FALSE,
                                          !.read_empty = TRUE]
  BY DEF FinishColumn, agg!FinishRead, BufferInvariant, TypeOK
<1>6. /\ systolic'.empty
      /\ combined' = agg_buffer.read_window
      /\ output_buffer.to_buffer.req.window = agg_buffer.read_window
  BY <1>2 DEF FinishColumn, PipelineInvariant, Multiplication
<1>7. failed' = {}
  BY DEF FinishColumn, Check, BufferInvariant, Halting, OnlyTwoAssertionsFail
<1>. QED
  BY <1>1, <1>3, <1>4, <1>5, <1>6, <1>7

\* A column that is finished leaves the read port and stays in the output buffer.
LEMMA FinishColumnPipeline ==
  ASSUME BufferInvariant, BufferInvariant', PipelineInvariant, SystolicPhase, FinishColumn
  PROVE  PipelineInvariant'
<1> USE DEF PipelineInvariant
<1>1. /\ UNCHANGED <<edge_buffer, aggregator, finished, finished_time_stamp, global_id,
                     written, outstanding, current_sliding_window, failed>>
      /\ failed = {} /\ ~finished
      /\ ~output_buffer.to_buffer.empty /\ ~output_buffer.to_buffer.finished
      /\ systolic'.empty /\ ~agg_buffer.read_empty
      /\ combined' = agg_buffer.read_window
      /\ output_buffer.to_buffer.req.window = agg_buffer.read_window
  BY FinishColumnEffect
<1>2. /\ agg_buffer'.write_empty = agg_buffer.write_empty
      /\ agg_buffer'.write_window = agg_buffer.write_window
      /\ agg_buffer'.read_window = agg_buffer.read_window
      /\ agg_buffer'.read_empty /\ ~agg_buffer'.read_busy
  BY FinishColumnEffect DEF agg!AggBufferState
<1>3. /\ output_buffer'.to_memory = output_buffer.to_memory
      /\ output_buffer'.to_buffer.req = output_buffer.to_buffer.req
      /\ output_buffer'.to_buffer.finished
      /\ ~output_buffer'.to_buffer.empty
  BY FinishColumnEffect DEF output!WriteBufferState
<1>4. LastLeft' = LastLeft /\ LastRead' = LastRead /\ LastFilled' = LastFilled
  BY <1>1, <1>2, <1>3 DEF LastLeft, LastRead, LastFilled
<1>5. ColumnsInOrder' /\ Multiplication'
  BY <1>1, <1>2, <1>3, <1>4 DEF ColumnsInOrder, Multiplication
<1>6. AggregatedColumn'
  BY <1>1, <1>4 DEF AggregatedColumn, InColumn
<1>7. EdgePosition'
  BY <1>1 DEF EdgePosition, ServedColumn, InsideColumn, ColumnNumber
<1>8. EdgeRequests'
  <2>1. UNCHANGED EdgesOnTheirWay
    BY <1>1 DEF EdgesOnTheirWay
  <2>. QED
    BY <1>1, <2>1 DEF EdgeRequests, edge!Awaits
<1>9. WriteRequests' /\ RunState'
  BY <1>1, <1>3 DEF WriteRequests, RunState, LayersUpTo
<1>. QED
  BY <1>5, <1>6, <1>7, <1>8, <1>9

-----------------------------------------------------------------------------
\* A new read has an id that is on no other request and on no write.
LEMMA NewReadIds ==
  ASSUME BufferInvariant, WriteRequests, UNCHANGED output_buffer,
         NEW req, req.id = global_id, global_id' = global_id + 1,
         outstanding' = outstanding \cup {req}
  PROVE  WriteRequests' /\ req \notin outstanding
<1>1. global_id \in Nat /\ outstanding \subseteq Req /\ \A other \in Req : other.id \in Nat
  BY PipelineTypes
<1>2. \A other \in outstanding : other.id < global_id /\ other.id \in Nat
  BY <1>1 DEF WriteRequests
<1>3. \A other \in outstanding' : other.id < global_id'
  BY <1>1, <1>2
<1>4. \A r, other \in outstanding' : r.id = other.id => r = other
  BY <1>1, <1>2 DEF WriteRequests
<1>5. ~output_buffer.to_memory.empty =>
        /\ output_buffer.to_memory.req.id \in Nat
        /\ output_buffer.to_memory.req.id < global_id
  BY <1>1, PipelineTypes DEF WriteRequests
<1>6. ~output_buffer.to_buffer.empty =>
        /\ output_buffer.to_buffer.req.id < global_id'
        /\ \A other \in outstanding' : other.id # output_buffer.to_buffer.req.id
  <2>1. ~output_buffer.to_buffer.empty =>
          /\ output_buffer.to_buffer.req.id \in Nat
          /\ output_buffer.to_buffer.req.id < global_id
          /\ \A other \in outstanding : other.id # output_buffer.to_buffer.req.id
    BY <1>1, PipelineTypes DEF WriteRequests
  <2>. QED
    BY <1>1, <2>1
<1>7. ~output_buffer.to_memory.empty =>
        /\ output_buffer.to_memory.req.id < global_id'
        /\ ~output_buffer.to_memory.started =>
             \A other \in outstanding' : other.id # output_buffer.to_memory.req.id
  BY <1>1, <1>5 DEF WriteRequests
<1>. QED
  BY <1>2, <1>3, <1>4, <1>6, <1>7 DEF WriteRequests

\* A read of the input buffer moves no column and is no concern of the edge buffer.
LEMMA SendInputPipeline ==
  ASSUME BufferInvariant, BufferInvariant', PipelineInvariant,
         SendInputCurrent \/ SendInputNext
  PROVE  PipelineInvariant'
<1> USE DEF PipelineInvariant
<1>1. /\ UNCHANGED <<edge_buffer, agg_buffer, output_buffer, aggregator, systolic, combined,
                     finished, finished_time_stamp, written, current_sliding_window>>
      /\ failed = {} /\ ~finished /\ global_id' = global_id + 1
  BY DEF SendInputCurrent, SendInputNext, SendRead, Send, BufferInvariant, Halting, RunState,
         current_sliding_window
<1>2. PICK w : outstanding' = outstanding \cup {ReadReq(global_id, "input_buffer", w)}
  BY DEF SendInputCurrent, SendInputNext, SendRead, Send, outstanding
<1> DEFINE req == ReadReq(global_id, "input_buffer", w)
<1>3. req.id = global_id /\ req.t = "input_buffer"
  BY DEF ReadReq
<1> HIDE DEF req
<1>4. ColumnsInOrder' /\ Multiplication' /\ AggregatedColumn'
  BY <1>1 DEF ColumnsInOrder, Multiplication, AggregatedColumn, InColumn, LastLeft, LastRead,
              LastFilled
<1>5. EdgePosition'
  BY <1>1 DEF EdgePosition, ServedColumn, InsideColumn, ColumnNumber
<1>6. outstanding' = outstanding \cup {req}
  BY <1>2 DEF req
<1>7. EdgeRequests'
  <2>1. UNCHANGED EdgesOnTheirWay
    BY <1>3, <1>6 DEF EdgesOnTheirWay
  <2>2. \A slot \in {edge_buffer.current, edge_buffer.next} :
           slot.req # NoReq => slot.req.id < global_id + 1
    BY EdgeIds
  <2>3. \E first \in outstanding \cup {NoReq} :
           /\ EdgesOnTheirWay \subseteq {first, edge_buffer.next.req}
           /\ first \in EdgesOnTheirWay <=>
                edge_buffer.current.sent /\ ~edge_buffer.current.ready
           /\ edge_buffer.next.req \in EdgesOnTheirWay \ {first} <=>
                ~edge_buffer.next.empty /\ edge_buffer.next.sent /\ ~edge_buffer.next.ready
           /\ \A r \in EdgesOnTheirWay : edge!Awaits(edge_buffer.current, r) => r = first
    BY <1>1 DEF EdgeRequests
  <2>. QED
    BY <1>1, <1>6, <2>1, <2>2, <2>3 DEF EdgeRequests, edge!Awaits
<1>8. WriteRequests'
  BY <1>1, <1>3, <1>6, NewReadIds
<1>9. RunState'
  BY <1>1 DEF RunState, LayersUpTo
<1>. QED
  BY <1>4, <1>5, <1>7, <1>8, <1>9

\* What it means to send a read of the edge buffer.
LEMMA SendEdgeEffect ==
  ASSUME BufferInvariant, BufferInvariant', SendEdgeCurrent \/ SendEdgeNext
  PROVE  /\ UNCHANGED <<agg_buffer, output_buffer, aggregator, systolic, combined, failed,
                        finished, finished_time_stamp, written, current_sliding_window>>
         /\ failed = {} /\ phase = "send" /\ global_id' = global_id + 1
         /\ edge_buffer'.current.window = edge_buffer.current.window
         /\ edge_buffer'.current.empty = edge_buffer.current.empty
         /\ edge_buffer'.current.ready = edge_buffer.current.ready
         /\ edge_buffer'.next.window = edge_buffer.next.window
         /\ edge_buffer'.next.empty = edge_buffer.next.empty
         /\ edge_buffer'.next.ready = edge_buffer.next.ready
         /\ \E req \in Req :
              /\ req.id = global_id /\ req.t = "edge_buffer"
              /\ outstanding' = outstanding \cup {req}
              /\ pending' = pending \cup {req} /\ UNCHANGED task_return_queue
              /\ \/ /\ ~edge_buffer.current.empty /\ ~edge_buffer.current.sent
                    /\ ~edge_buffer.current.ready
                    /\ edge_buffer'.current.sent /\ edge_buffer'.current.req = req
                    /\ edge_buffer'.next = edge_buffer.next
                 \/ /\ ~edge_buffer.next.empty /\ ~edge_buffer.next.sent
                    /\ ~edge_buffer.next.ready
                    /\ edge_buffer'.next.sent /\ edge_buffer'.next.req = req
                    /\ edge_buffer'.current = edge_buffer.current
<1>1. /\ UNCHANGED <<agg_buffer, output_buffer, aggregator, systolic, combined,
                     finished, finished_time_stamp, written, current_sliding_window,
                     task_return_queue>>
      /\ failed = {} /\ failed' = {} /\ phase = "send" /\ global_id' = global_id + 1
  BY DEF SendEdgeCurrent, SendEdgeNext, SendRead, Send, BufferInvariant, Halting,
         OnlyTwoAssertionsFail, Check, current_sliding_window
<1>2. PICK w : LET req == ReadReq(global_id, "edge_buffer", w)
               IN  /\ pending' = pending \cup {req}
                   /\ \/ edge!CurrentUnsent /\ edge!PopCurrent(req)
                      \/ edge!NextUnsent /\ edge!PopNext(req)
  BY DEF SendEdgeCurrent, SendEdgeNext, SendRead, Send
<1> DEFINE req == ReadReq(global_id, "edge_buffer", w)
<1>3. req.id = global_id /\ req.t = "edge_buffer"
  BY DEF ReadReq
<1>4. req \in Req
  BY <1>2 DEF BufferInvariant, TypeOK
<1>5. /\ pending' = pending \cup {req} /\ outstanding' = outstanding \cup {req}
      /\ \/ edge!CurrentUnsent /\ edge!PopCurrent(req)
         \/ edge!NextUnsent /\ edge!PopNext(req)
  BY <1>1, <1>2 DEF outstanding
<1> HIDE DEF req
<1>6. /\ edge_buffer \in edge!ReadBufferState
      /\ edge_buffer.current \in edge!Slot /\ edge_buffer.next \in edge!Slot
      /\ edge_buffer.current.ready => edge_buffer.current.sent
      /\ ~edge_buffer.next.empty /\ edge_buffer.next.ready => edge_buffer.next.sent
  BY <1>1 DEF BufferInvariant, TypeOK, ReadBuffers, ReadyWasSent, edge!ReadBufferState
<1>7. CASE edge!CurrentUnsent /\ edge!PopCurrent(req)
  <2>1. /\ edge_buffer'.next = edge_buffer.next
        /\ edge_buffer'.current = [edge_buffer.current EXCEPT !.sent = TRUE, !.req = req]
        /\ ~edge_buffer.current.empty /\ ~edge_buffer.current.sent
        /\ ~edge_buffer.current.ready
    BY <1>6, <1>7 DEF edge!CurrentUnsent, edge!PopCurrent, edge!ReadBufferState
  <2>2. /\ edge_buffer'.current.window = edge_buffer.current.window
        /\ edge_buffer'.current.empty = edge_buffer.current.empty
        /\ edge_buffer'.current.ready = edge_buffer.current.ready
        /\ edge_buffer'.current.sent /\ edge_buffer'.current.req = req
    BY <1>6, <2>1, SameSets
  <2>. QED
    BY <1>1, <1>3, <1>4, <1>5, <2>1, <2>2
<1>8. CASE edge!NextUnsent /\ edge!PopNext(req)
  <2>1. /\ edge_buffer'.current = edge_buffer.current
        /\ edge_buffer'.next = [edge_buffer.next EXCEPT !.sent = TRUE, !.req = req]
        /\ ~edge_buffer.next.empty /\ ~edge_buffer.next.sent
        /\ ~edge_buffer.next.ready
    BY <1>6, <1>8 DEF edge!NextUnsent, edge!PopNext, edge!ReadBufferState
  <2>2. /\ edge_buffer'.next.window = edge_buffer.next.window
        /\ edge_buffer'.next.empty = edge_buffer.next.empty
        /\ edge_buffer'.next.ready = edge_buffer.next.ready
        /\ edge_buffer'.next.sent /\ edge_buffer'.next.req = req
    BY <1>6, <2>1, SameSets
  <2>. QED
    BY <1>1, <1>3, <1>4, <1>5, <2>1, <2>2
<1>. QED
  BY <1>5, <1>7, <1>8

\* A read of the edge buffer is awaited by the slot that sent it.
LEMMA SendEdgePipeline ==
  ASSUME BufferInvariant, BufferInvariant', PipelineInvariant, SendEdgeCurrent \/ SendEdgeNext
  PROVE  PipelineInvariant'
<1> USE DEF PipelineInvariant
<1> DEFINE current == edge_buffer.current
           next    == edge_buffer.next
<1>1. /\ UNCHANGED <<agg_buffer, output_buffer, aggregator, systolic, combined, failed,
                     finished, finished_time_stamp, written, current_sliding_window>>
      /\ failed = {} /\ ~finished /\ global_id' = global_id + 1
      /\ edge_buffer'.current.window = current.window
      /\ edge_buffer'.current.empty = current.empty
      /\ edge_buffer'.current.ready = current.ready
      /\ edge_buffer'.next.window = next.window
      /\ edge_buffer'.next.empty = next.empty
      /\ edge_buffer'.next.ready = next.ready
  BY SendEdgeEffect DEF RunState
<1>2. PICK req \in Req :
              /\ req.id = global_id /\ req.t = "edge_buffer"
              /\ outstanding' = outstanding \cup {req}
              /\ \/ /\ ~current.empty /\ ~current.sent /\ ~current.ready
                    /\ edge_buffer'.current.sent /\ edge_buffer'.current.req = req
                    /\ edge_buffer'.next = next
                 \/ /\ ~next.empty /\ ~next.sent /\ ~next.ready
                    /\ edge_buffer'.next.sent /\ edge_buffer'.next.req = req
                    /\ edge_buffer'.current = current
  BY SendEdgeEffect
<1>3. ColumnsInOrder' /\ Multiplication' /\ AggregatedColumn'
  BY <1>1 DEF ColumnsInOrder, Multiplication, AggregatedColumn, InColumn, LastLeft, LastRead,
              LastFilled
<1>4. EdgePosition'
  BY <1>1 DEF EdgePosition, ServedColumn, InsideColumn, ColumnNumber
<1>5. WriteRequests' /\ req \notin outstanding
  BY <1>1, <1>2, NewReadIds
<1>6. EdgeRequests'
  <2>1. /\ EdgesOnTheirWay' = EdgesOnTheirWay \cup {req}
        /\ req \notin EdgesOnTheirWay /\ req # NoReq
        /\ NoReq \notin EdgesOnTheirWay /\ EdgesOnTheirWay \subseteq outstanding
    BY <1>2, <1>5, NoReqAssumption, PipelineTypes DEF EdgesOnTheirWay
  <2>2. /\ global_id \in Nat /\ global_id < global_id + 1 /\ ~(global_id < global_id)
        /\ \A slot \in {current, next} :
              slot.req # NoReq => slot.req.id < global_id + 1 /\ slot.req.id # global_id
        /\ \A other \in EdgesOnTheirWay : other.id # global_id
    <3>1. global_id \in Nat
      BY PipelineTypes
    <3>2. \A other \in EdgesOnTheirWay : other.id < global_id
      BY DEF WriteRequests, EdgesOnTheirWay
    <3>3. \A other \in EdgesOnTheirWay : other.id # global_id
      BY <3>1, <3>2
    <3>. QED
      BY <3>1, <3>3, EdgeIds
  <2>3. PICK first \in outstanding \cup {NoReq} :
           /\ EdgesOnTheirWay \subseteq {first, next.req}
           /\ first \in EdgesOnTheirWay <=> current.sent /\ ~current.ready
           /\ next.req \in EdgesOnTheirWay \ {first} <=>
                ~next.empty /\ next.sent /\ ~next.ready
           /\ \A r \in EdgesOnTheirWay : edge!Awaits(current, r) => r = first
    BY <1>1 DEF EdgeRequests
  <2>4. \A slot \in {edge_buffer'.current, edge_buffer'.next} :
           slot.req # NoReq => slot.req.id < global_id'
    BY <1>1, <1>2, <2>2
  <2> DEFINE CorrectFirst(r) ==
        /\ EdgesOnTheirWay' \subseteq {r, edge_buffer'.next.req}
        /\ r \in EdgesOnTheirWay' <=> edge_buffer'.current.sent /\ ~edge_buffer'.current.ready
        /\ edge_buffer'.next.req \in EdgesOnTheirWay' \ {r} <=>
             ~edge_buffer'.next.empty /\ edge_buffer'.next.sent /\ ~edge_buffer'.next.ready
        /\ \A other \in EdgesOnTheirWay' : edge!Awaits(edge_buffer'.current, other) => other = r
  <2>5. \E r \in outstanding' \cup {NoReq} : CorrectFirst(r)
    <3>1. CASE /\ ~current.empty /\ ~current.sent /\ ~current.ready
               /\ edge_buffer'.current.sent /\ edge_buffer'.current.req = req
               /\ edge_buffer'.next = next
      <4>1. CorrectFirst(req)
        BY <1>1, <1>2, <2>1, <2>2, <2>3, <3>1 DEF edge!Awaits
      <4>. QED
        BY <1>2, <4>1
    <3>2. CASE /\ ~next.empty /\ ~next.sent /\ ~next.ready
               /\ edge_buffer'.next.sent /\ edge_buffer'.next.req = req
               /\ edge_buffer'.current = current
      <4>1. first # req /\ first \in outstanding' \cup {NoReq}
        BY <1>2, <1>5, <2>1, <2>3
      <4>2. CorrectFirst(first)
        BY <1>1, <1>2, <2>1, <2>2, <2>3, <3>2, <4>1 DEF edge!Awaits
      <4>. QED
        BY <4>1, <4>2
    <3>. QED
      BY <1>2, <3>1, <3>2
  <2>. QED
    BY <2>4, <2>5 DEF EdgeRequests, edge!Awaits
<1>7. RunState'
  BY <1>1 DEF RunState, LayersUpTo
<1>. QED
  BY <1>3, <1>4, <1>5, <1>6, <1>7

\* What it means to send the write: its id is on no request that is on its way.
LEMMA SendWriteEffect ==
  ASSUME BufferInvariant, BufferInvariant', SendWrite
  PROVE  LET req == output_buffer.to_memory.req
         IN  /\ UNCHANGED <<edge_buffer, agg_buffer, aggregator, systolic, combined, global_id,
                            failed, finished, finished_time_stamp, written,
                            current_sliding_window, task_return_queue>>
             /\ failed = {} /\ phase = "send"
             /\ ~output_buffer.to_memory.empty /\ ~output_buffer.to_memory.started
             /\ output_buffer'.to_buffer = output_buffer.to_buffer
             /\ ~output_buffer'.to_memory.empty /\ output_buffer'.to_memory.started
             /\ output_buffer'.to_memory.req = req
             /\ req \in Req /\ req.t = "output_buffer"
             /\ outstanding' = outstanding \cup {req} /\ pending' = pending \cup {req}
<1>1. /\ UNCHANGED <<edge_buffer, agg_buffer, aggregator, systolic, combined, global_id,
                     finished, finished_time_stamp, written, current_sliding_window,
                     task_return_queue>>
      /\ failed = {} /\ failed' = {} /\ phase = "send"
      /\ pending' = pending \cup {output_buffer.to_memory.req}
  BY DEF SendWrite, Send, Check, BufferInvariant, Halting, OnlyTwoAssertionsFail,
         current_sliding_window
<1>2. ~output_buffer.to_memory.empty /\ ~output_buffer.to_memory.started
  BY DEF SendWrite, output!WriteUnsent
<1>3. /\ output_buffer.to_memory.req \in Req
      /\ output_buffer.to_memory.req.t = "output_buffer"
  BY <1>2, PipelineTypes DEF BufferInvariant, Output
<1>4. /\ output_buffer'.to_buffer = output_buffer.to_buffer
      /\ ~output_buffer'.to_memory.empty /\ output_buffer'.to_memory.started
      /\ output_buffer'.to_memory.req = output_buffer.to_memory.req
  BY <1>2
  DEF SendWrite, BufferInvariant, TypeOK, output!StartWriteMemory, output!WriteBufferState
<1>. QED
  BY <1>1, <1>2, <1>3, <1>4 DEF outstanding

\* The write that is sent was the only one that waited.
LEMMA SendWritePipeline ==
  ASSUME BufferInvariant, BufferInvariant', PipelineInvariant, SendWrite
  PROVE  PipelineInvariant'
<1> USE DEF PipelineInvariant
<1> DEFINE req == output_buffer.to_memory.req
<1>1. /\ UNCHANGED <<edge_buffer, agg_buffer, aggregator, systolic, combined, global_id,
                     failed, finished, finished_time_stamp, written, current_sliding_window>>
      /\ failed = {} /\ ~finished
      /\ ~output_buffer.to_memory.empty /\ ~output_buffer.to_memory.started
      /\ output_buffer'.to_buffer = output_buffer.to_buffer
      /\ ~output_buffer'.to_memory.empty /\ output_buffer'.to_memory.started
      /\ output_buffer'.to_memory.req = req
      /\ req \in Req /\ req.t = "output_buffer"
      /\ outstanding' = outstanding \cup {req}
  BY SendWriteEffect DEF RunState
<1> HIDE DEF req
<1>2. LastLeft' = LastLeft /\ LastRead' = LastRead /\ LastFilled' = LastFilled
  BY <1>1 DEF LastLeft, LastRead, LastFilled, req
<1>3. ColumnsInOrder' /\ Multiplication' /\ AggregatedColumn'
  BY <1>1, <1>2 DEF ColumnsInOrder, Multiplication, AggregatedColumn, InColumn, req
<1>4. EdgePosition'
  BY <1>1 DEF EdgePosition, ServedColumn, InsideColumn, ColumnNumber
<1>5. EdgeRequests'
  <2>1. UNCHANGED EdgesOnTheirWay
    BY <1>1 DEF EdgesOnTheirWay
  <2>. QED
    BY <1>1, <2>1 DEF EdgeRequests, edge!Awaits
<1>6. WriteRequests'
  BY <1>1 DEF WriteRequests, req
<1>7. RunState'
  BY <1>1 DEF RunState, LayersUpTo
<1>. QED
  BY <1>3, <1>4, <1>5, <1>6, <1>7

-----------------------------------------------------------------------------
\* An answer for another buffer leaves the edge buffer's requests on their way.
LEMMA AnswerForOthers ==
  ASSUME BufferInvariant, EdgeRequests, failed = {}, UNCHANGED <<edge_buffer, global_id>>,
         NEW req, req.t # "edge_buffer", outstanding' = outstanding \ {req}
  PROVE  EdgeRequests'
<1> DEFINE OnWay == EdgesOnTheirWay
           CorrectFirst(r) ==
             /\ OnWay \subseteq {r, edge_buffer.next.req}
             /\ r \in OnWay <=> edge_buffer.current.sent /\ ~edge_buffer.current.ready
             /\ edge_buffer.next.req \in OnWay \ {r} <=>
                  ~edge_buffer.next.empty /\ edge_buffer.next.sent /\ ~edge_buffer.next.ready
             /\ \A other \in OnWay : edge!Awaits(edge_buffer.current, other) => other = r
<1>1. /\ OnWay' = OnWay /\ OnWay \subseteq outstanding' /\ OnWay \subseteq outstanding
      /\ NoReq \notin OnWay
  BY NoReqAssumption, PipelineTypes DEF EdgesOnTheirWay
<1>2. PICK first \in outstanding \cup {NoReq} : CorrectFirst(first)
  BY DEF EdgeRequests
<1>3. \E r \in outstanding' \cup {NoReq} : CorrectFirst(r)
  <2>1. CASE first \in OnWay
    BY <1>1, <1>2, <2>1
  <2>2. CASE first \notin OnWay
    <3>1. CorrectFirst(NoReq)
      BY <1>1, <1>2, <2>2
    <3>. QED
      BY <3>1
  <2>. QED
    BY <2>1, <2>2
<1>4. \A r : CorrectFirst(r)' <=> CorrectFirst(r)
  BY <1>1 DEF edge!Awaits
<1> HIDE DEF OnWay
<1>5. \E r \in outstanding' \cup {NoReq} : CorrectFirst(r)'
  BY <1>3, <1>4
<1>6. \A slot \in {edge_buffer'.current, edge_buffer'.next} :
         slot.req # NoReq => slot.req.id < global_id'
  BY DEF EdgeRequests
<1>. QED
  BY <1>5, <1>6 DEF EdgeRequests, OnWay

\* An answer for the input buffer.
LEMMA ReceiveInputPipeline ==
  ASSUME BufferInvariant, BufferInvariant', PipelineInvariant,
         NEW req \in task_return_queue, ReceiveInput(req)
  PROVE  PipelineInvariant'
<1> USE DEF PipelineInvariant
<1>1. /\ outstanding' = outstanding \ {req} /\ failed = {} /\ req.t = "input_buffer"
      /\ UNCHANGED <<agg_buffer, global_id, aggregator, systolic, combined, edge_buffer,
                     output_buffer, finished, finished_time_stamp, written,
                     current_sliding_window>>
      /\ ~finished
  BY TakeFacts DEF ReceiveInput, Take, RunState, current_sliding_window
<1>2. ColumnsInOrder' /\ Multiplication' /\ AggregatedColumn'
  BY <1>1 DEF ColumnsInOrder, Multiplication, AggregatedColumn, InColumn, LastLeft, LastRead,
              LastFilled
<1>3. EdgePosition'
  BY <1>1 DEF EdgePosition, ServedColumn, InsideColumn, ColumnNumber
<1>4. EdgeRequests'
  BY <1>1, AnswerForOthers
<1>5. WriteRequests'
  <2>1. output_buffer.to_memory.started => output_buffer.to_memory.req.t = "output_buffer"
    BY DEF BufferInvariant, Output
  <2>. QED
    BY <1>1, <2>1 DEF WriteRequests
<1>6. RunState'
  BY <1>1 DEF RunState, LayersUpTo
<1>. QED
  BY <1>2, <1>3, <1>4, <1>5, <1>6

\* What it means to receive an answer for the edge buffer.
LEMMA ReceiveEdgeEffect ==
  ASSUME BufferInvariant, NEW req \in task_return_queue, ReceiveEdge(req)
  PROVE  LET now == edge!Awaits(edge_buffer.current, req)
         IN  /\ outstanding' = outstanding \ {req} /\ failed = {} /\ req.t = "edge_buffer"
             /\ req \in outstanding
             /\ UNCHANGED <<agg_buffer, global_id, aggregator, systolic, combined,
                            output_buffer, finished, finished_time_stamp, written,
                            current_sliding_window>>
             /\ phase = "receive"
             /\ edge_buffer'.current.window = edge_buffer.current.window
             /\ edge_buffer'.current.empty = edge_buffer.current.empty
             /\ edge_buffer'.current.sent = edge_buffer.current.sent
             /\ edge_buffer'.current.req = edge_buffer.current.req
             /\ edge_buffer'.current.ready <=> edge_buffer.current.ready \/ now
             /\ edge_buffer'.next.window = edge_buffer.next.window
             /\ edge_buffer'.next.empty = edge_buffer.next.empty
             /\ edge_buffer'.next.sent = edge_buffer.next.sent
             /\ edge_buffer'.next.req = edge_buffer.next.req
             /\ edge_buffer'.next.ready <=> edge_buffer.next.ready \/ ~now
             /\ failed' = {} => now \/ edge!Awaits(edge_buffer.next, req)
<1>1. /\ outstanding' = outstanding \ {req} /\ failed = {} /\ req.t = "edge_buffer"
      /\ req \in outstanding
      /\ UNCHANGED <<agg_buffer, global_id, aggregator, systolic, combined, output_buffer,
                     finished, finished_time_stamp, written, current_sliding_window>>
      /\ phase = "receive"
  BY TakeFacts DEF ReceiveEdge, Take, current_sliding_window
<1>2. /\ edge_buffer \in edge!ReadBufferState
      /\ edge_buffer.current \in edge!Slot /\ edge_buffer.next \in edge!Slot
  BY DEF BufferInvariant, TypeOK, edge!ReadBufferState
<1>3. edge!Awaits(edge_buffer.current, req) \in BOOLEAN
  BY <1>2, SameSets DEF edge!Awaits
<1>4. /\ edge_buffer'.current = [edge_buffer.current EXCEPT !.ready =
                                   @ \/ edge!Awaits(edge_buffer.current, req)]
      /\ edge_buffer'.next = [edge_buffer.next EXCEPT !.ready =
                                   @ \/ ~edge!Awaits(edge_buffer.current, req)]
  BY <1>2 DEF ReceiveEdge, edge!Receive, edge!ReadBufferState
<1>5. failed' = {} => edge!ReceiveAssert(req)
  BY DEF ReceiveEdge, Check
<1>. QED
  BY <1>1, <1>2, <1>3, <1>4, <1>5, SameSets DEF edge!ReceiveAssert

\* An answer for the edge buffer is the current slot's or the next slot's, or ends the run.
LEMMA ReceiveEdgePipeline ==
  ASSUME BufferInvariant, BufferInvariant', PipelineInvariant,
         NEW req \in task_return_queue, ReceiveEdge(req)
  PROVE  PipelineInvariant'
<1> USE DEF PipelineInvariant
<1> DEFINE current == edge_buffer.current
           next    == edge_buffer.next
           now     == edge!Awaits(current, req)
<1>1. /\ outstanding' = outstanding \ {req} /\ failed = {} /\ req.t = "edge_buffer"
      /\ req \in outstanding /\ ~finished
      /\ UNCHANGED <<agg_buffer, global_id, aggregator, systolic, combined, output_buffer,
                     finished, finished_time_stamp, written, current_sliding_window>>
      /\ edge_buffer'.current.window = current.window
      /\ edge_buffer'.current.empty = current.empty
      /\ edge_buffer'.current.sent = current.sent
      /\ edge_buffer'.current.req = current.req
      /\ edge_buffer'.current.ready <=> current.ready \/ now
      /\ edge_buffer'.next.window = next.window
      /\ edge_buffer'.next.empty = next.empty
      /\ edge_buffer'.next.sent = next.sent
      /\ edge_buffer'.next.req = next.req
      /\ edge_buffer'.next.ready <=> next.ready \/ ~now
      /\ failed' = {} => now \/ edge!Awaits(next, req)
  BY ReceiveEdgeEffect DEF RunState
<1>2. ColumnsInOrder' /\ Multiplication' /\ AggregatedColumn'
  BY <1>1 DEF ColumnsInOrder, Multiplication, AggregatedColumn, InColumn, LastLeft, LastRead,
              LastFilled
<1>3. EdgePosition'
  BY <1>1 DEF EdgePosition, ServedColumn, InsideColumn, ColumnNumber
<1>4. EdgeRequests'
  <2> DEFINE OnWay == EdgesOnTheirWay
  <2>1. /\ OnWay' = OnWay \ {req} /\ req \in OnWay
        /\ OnWay \subseteq outstanding
        /\ NoReq \notin OnWay
    BY <1>1, NoReqAssumption, PipelineTypes DEF EdgesOnTheirWay
  <2>2. PICK first \in outstanding \cup {NoReq} :
           /\ OnWay \subseteq {first, next.req}
           /\ first \in OnWay <=> current.sent /\ ~current.ready
           /\ next.req \in OnWay \ {first} <=> ~next.empty /\ next.sent /\ ~next.ready
           /\ \A r \in OnWay : edge!Awaits(current, r) => r = first
    BY <1>1 DEF EdgeRequests
  <2>3. \A other \in OnWay : other.id = req.id => other = req
    BY <2>1 DEF WriteRequests
  \* The next slot's request is the one that is answered, unless the assertion fails.
  <2>4. failed' = {} /\ ~now => next.req = req /\ first # req
    <3>1. edge!Awaits(next, req) =>
            ~next.empty /\ next.sent /\ ~next.ready /\ next.req.id = req.id
      BY DEF edge!Awaits
    <3>. QED
      BY <1>1, <2>2, <2>3, <3>1
  <2>5. now => req = first /\ current.sent /\ ~current.ready
    BY <2>1, <2>2 DEF edge!Awaits
  <2>6. \A r : edge!Awaits(current, r)' =>
                 ~edge_buffer'.current.ready /\ edge!Awaits(current, r)
    BY <1>1 DEF edge!Awaits
  <2> DEFINE remaining == IF first = req THEN NoReq ELSE first
  <2>7. remaining \in outstanding' \cup {NoReq} /\ OnWay' \subseteq {remaining, next.req}
    BY <1>1, <2>1, <2>2
  <2> HIDE DEF OnWay
  <2>8. failed' = {} =>
          /\ remaining \in OnWay' <=> edge_buffer'.current.sent /\ ~edge_buffer'.current.ready
          /\ next.req \in OnWay' \ {remaining} <=>
               ~edge_buffer'.next.empty /\ edge_buffer'.next.sent /\ ~edge_buffer'.next.ready
          /\ \A r \in OnWay' : edge!Awaits(current, r)' => r = remaining
    <3>1. CASE now
      BY <1>1, <2>1, <2>2, <2>5, <2>6, <3>1
    <3>2. CASE ~now
      BY <1>1, <2>1, <2>2, <2>4, <2>6, <3>2
    <3>. QED
      BY <3>1, <3>2
  <2>9. \A slot \in {edge_buffer'.current, edge_buffer'.next} :
           slot.req # NoReq => slot.req.id < global_id'
    BY <1>1 DEF EdgeRequests
  <2> HIDE DEF remaining
  <2>. QED
    BY <1>1, <2>7, <2>8, <2>9 DEF EdgeRequests, OnWay
<1>5. WriteRequests'
  <2>1. output_buffer.to_memory.started => output_buffer.to_memory.req.t = "output_buffer"
    BY DEF BufferInvariant, Output
  <2>. QED
    BY <1>1, <2>1 DEF WriteRequests
<1>6. RunState'
  BY <1>1 DEF RunState, LayersUpTo
<1>. QED
  BY <1>2, <1>3, <1>4, <1>5, <1>6

\* What it means to receive the answer to a write: the next column has been written.
LEMMA ReceiveWriteEffect ==
  ASSUME BufferInvariant, BufferInvariant', PipelineInvariant,
         NEW req \in task_return_queue, ReceiveWrite(req)
  PROVE  LET w == find_next_col(written)
         IN  /\ outstanding' = outstanding \ {req} /\ failed = {} /\ req.t = "output_buffer"
             /\ UNCHANGED <<agg_buffer, edge_buffer, global_id, aggregator, systolic, combined,
                            failed, current_sliding_window>>
             /\ phase = "receive" /\ ~finished
             /\ ~output_buffer.to_memory.empty /\ output_buffer.to_memory.req.window = w
             /\ req = WriteReq(req.id, w)
             /\ output_buffer'.to_buffer = output_buffer.to_buffer
             /\ output_buffer'.to_memory = [empty |-> TRUE, started |-> FALSE, req |-> NoReq]
             /\ w \in Index /\ w > written /\ Windows[w].first_row
             /\ written' = w
             /\ finished' = (Windows[w].final_col /\ Windows[w].final_layer)
             /\ finished_time_stamp' = IF Windows[w].final_col THEN finished_time_stamp + 1
                                                               ELSE finished_time_stamp
             /\ finished' => phase' = "halted"
<1> DEFINE w == find_next_col(written)
           memory == output_buffer.to_memory
<1>1. /\ outstanding' = outstanding \ {req} /\ failed = {} /\ req.t = "output_buffer"
      /\ req \in outstanding /\ req \in Req
      /\ UNCHANGED <<agg_buffer, edge_buffer, global_id, aggregator, systolic, combined,
                     current_sliding_window>>
      /\ phase = "receive" /\ ~finished
  BY TakeFacts DEF ReceiveWrite, Take, PipelineInvariant, RunState, current_sliding_window
<1>2. failed' = {}
  BY DEF ReceiveWrite, Check, BufferInvariant, Halting, OnlyTwoAssertionsFail
<1>3. memory.started /\ memory.req = req /\ ~memory.empty
  BY <1>1 DEF BufferInvariant, Outstanding, Output
<1>4. /\ output_buffer'.to_buffer = output_buffer.to_buffer
      /\ output_buffer'.to_memory = [empty |-> TRUE, started |-> FALSE, req |-> NoReq]
  BY <1>3, SameSets, ZenonT(30)
  DEF ReceiveWrite, BufferInvariant, TypeOK, output!FinishedWriteMemory, output!WriteBufferState
<1>5. req.window = w /\ req = WriteReq(req.id, req.window)
  BY <1>3 DEF PipelineInvariant, ColumnsInOrder, WriteRequests
<1>6. w \in Index /\ w > written /\ Windows[w].first_row
  <2>1. written \in 0 .. Len(Windows) /\ req.window \in Index
    BY <1>1, PipelineTypes
  <2>2. w > written /\ (w \in Index => Windows[w].first_row)
    BY <2>1, NextColumnFacts
  <2> HIDE DEF w
  <2>. QED
    BY <1>5, <2>1, <2>2
<1> HIDE DEF w
<1>7. req.the_final_request = (Windows[w].final_col /\ Windows[w].final_layer)
      /\ req.the_final_request_of_the_layer = Windows[w].final_col
  BY <1>5 DEF WriteReq
<1>8. /\ written' = w
      /\ finished' = (Windows[w].final_col /\ Windows[w].final_layer)
      /\ finished_time_stamp' = IF Windows[w].final_col THEN finished_time_stamp + 1
                                                        ELSE finished_time_stamp
  <2>1. Windows[w] \in Window
    BY <1>6, WindowFacts
  <2>. QED
    BY <1>1, <1>3, <1>5, <1>7, <2>1 DEF ReceiveWrite, Window
<1>9. finished' => phase' = "halted"
  BY DEF ReceiveWrite, Take, EndOfCycle, Continue
<1>. QED
  BY <1>1, <1>2, <1>3, <1>4, <1>5, <1>6, <1>8, <1>9 DEF w

\* The answer to a write: the column leaves the pipeline.
LEMMA ReceiveWritePipeline ==
  ASSUME BufferInvariant, BufferInvariant', PipelineInvariant,
         NEW req \in task_return_queue, ReceiveWrite(req)
  PROVE  PipelineInvariant'
<1> USE DEF PipelineInvariant
<1> DEFINE w == find_next_col(written)
<1>1. /\ outstanding' = outstanding \ {req} /\ failed = {} /\ req.t = "output_buffer"
      /\ UNCHANGED <<agg_buffer, edge_buffer, global_id, aggregator, systolic, combined,
                     failed, current_sliding_window>>
      /\ ~output_buffer.to_memory.empty /\ output_buffer.to_memory.req.window = w
      /\ output_buffer'.to_buffer = output_buffer.to_buffer
      /\ output_buffer'.to_memory.empty /\ ~output_buffer'.to_memory.started
      /\ w \in Index /\ Windows[w].first_row
      /\ written' = w
      /\ finished' = (Windows[w].final_col /\ Windows[w].final_layer)
      /\ finished_time_stamp' = IF Windows[w].final_col THEN finished_time_stamp + 1
                                                        ELSE finished_time_stamp
      /\ finished' => phase' = "halted"
  BY ReceiveWriteEffect
<1>2. w # NoWindow /\ w # end /\ written \in 0 .. Len(Windows)
  <2>1. written \in 0 .. Len(Windows) /\ Index = 1 .. Len(Windows) /\ end = Len(Windows) + 1
        /\ Len(Windows) \in Nat
    BY PipelineTypes
  <2> HIDE DEF w
  <2>. QED
    BY <1>1, <2>1 DEF NoWindow
<1>3. LayersUpTo(w) = IF Windows[w].final_col THEN LayersUpTo(written) + 1 ELSE LayersUpTo(written)
  BY <1>2, LayersStep
<1> HIDE DEF w
<1>4. LastLeft' = LastLeft /\ LastRead' = LastRead /\ LastFilled' = LastFilled
  BY <1>1 DEF LastLeft, LastRead, LastFilled
<1>5. ColumnsInOrder'
  <2>1. \A i : find_next_col(i)' = find_next_col(i)
    BY DEF find_next_col
  <2>. QED
    BY <1>1, <1>4, <2>1 DEF ColumnsInOrder
<1>6. Multiplication' /\ AggregatedColumn'
  BY <1>1, <1>4 DEF Multiplication, AggregatedColumn, InColumn
<1>7. EdgePosition'
  BY <1>1 DEF EdgePosition, ServedColumn, InsideColumn, ColumnNumber
<1>8. EdgeRequests'
  BY <1>1, AnswerForOthers
<1>9. WriteRequests'
  BY <1>1 DEF WriteRequests
<1>10. RunState'
  BY <1>1, <1>2, <1>3 DEF RunState, LayersUpTo
<1>. QED
  BY <1>5, <1>6, <1>7, <1>8, <1>9, <1>10

-----------------------------------------------------------------------------
(***************************************************************************)
(* Every step of the system preserves the columns' order, their numbers    *)
(* and the requests' ids: the inductive step of the whole invariant.       *)
(***************************************************************************)
THEOREM StepPipeline ==
  ASSUME InductiveInvariant, [Next]_vars
  PROVE  InductiveInvariant'
<1> USE DEF InductiveInvariant
<1>1. BufferInvariant'
  BY StepInvariant
<1>2. CASE BufferCycles
  BY <1>1, <1>2, BufferCyclesPipeline
<1>3. CASE AggregatorPhase
  BY <1>1, <1>3, QuietStepsPipeline, StartWindowPipeline, FinishWindowPipeline
  DEF AggregatorPhase, AggregatorCycle
<1>4. CASE SystolicPhase
  BY <1>1, <1>4, QuietStepsPipeline, TakeColumnPipeline, FinishColumnPipeline
  DEF SystolicPhase, SystolicCycle
<1>5. CASE \/ DeadLockDetection \/ MemoryAnswers \/ MemoryDone
           \/ SendNothing \/ ReceiveNothing \/ Terminated \/ UNCHANGED vars
  BY <1>1, <1>5, QuietStepsPipeline DEF Terminated
<1>6. CASE SendInputCurrent \/ SendInputNext
  BY <1>1, <1>6, SendInputPipeline
<1>7. CASE SendEdgeCurrent \/ SendEdgeNext
  BY <1>1, <1>7, SendEdgePipeline
<1>8. CASE SendWrite
  BY <1>1, <1>8, SendWritePipeline
<1>9. CASE \E req \in task_return_queue :
             ReceiveInput(req) \/ ReceiveEdge(req) \/ ReceiveWrite(req)
  BY <1>1, <1>9, ReceiveInputPipeline, ReceiveEdgePipeline, ReceiveWritePipeline
<1>. QED
  BY <1>2, <1>3, <1>4, <1>5, <1>6, <1>7, <1>8, <1>9 DEF Next

(***************************************************************************)
(* The whole inductive invariant holds in every reachable state: besides   *)
(* the buffers' part, where each column is, which column the edge buffer   *)
(* serves, and which requests are on their way.                            *)
(***************************************************************************)
THEOREM SystemInductiveInvariant == Spec => []InductiveInvariant
<1>1. Init => InductiveInvariant
  BY InitInvariant, InitPipeline DEF InductiveInvariant
<1>2. InductiveInvariant /\ [Next]_vars => InductiveInvariant'
  BY StepPipeline
<1>. QED
  BY <1>1, <1>2, PTL DEF Spec

-----------------------------------------------------------------------------
(***************************************************************************)
(* What follows from the invariant.                                        *)
(***************************************************************************)

(***************************************************************************)
(* The aggregator works with the edges of its column or of the column      *)
(* before, never with later ones and never with older ones.                *)
(***************************************************************************)
THEOREM SystemEdgesAtMostOneColumnBehind == Spec => []EdgesAtMostOneColumnBehind
<1>1. InductiveInvariant => EdgesAtMostOneColumnBehind
  BY DEF InductiveInvariant, PipelineInvariant, EdgesAtMostOneColumnBehind, EdgePosition,
         ServedColumn, InsideColumn
<1>. QED
  BY <1>1, SystemInductiveInvariant, PTL

\* A member more makes a finite set larger by at most one.
LEMMA OneMore ==
  ASSUME NEW T, NEW x, NEW k \in Nat, IsFiniteSet(T), Cardinality(T) \in 0 .. k
  PROVE  IsFiniteSet(T \cup {x}) /\ Cardinality(T \cup {x}) \in 0 .. (k + 1)
<1>1. /\ IsFiniteSet(T \cup {x})
      /\ \/ Cardinality(T \cup {x}) = Cardinality(T)
         \/ Cardinality(T \cup {x}) = Cardinality(T) + 1
  BY FS_AddElement
<1>. QED
  BY <1>1

\* A set of five named members has at most five.
LEMMA FiveMembers ==
  ASSUME NEW a, NEW b, NEW c, NEW d, NEW e
  PROVE  IsFiniteSet({a, b, c, d, e}) /\ Cardinality({a, b, c, d, e}) \in 0 .. 5
<1>1. \A T, x : \A k \in Nat : IsFiniteSet(T) /\ Cardinality(T) \in 0 .. k =>
        IsFiniteSet(T \cup {x}) /\ Cardinality(T \cup {x}) \in 0 .. (k + 1)
  BY OneMore
<1>2. IsFiniteSet({a}) /\ Cardinality({a}) \in 0 .. 1
  <2>1. IsFiniteSet({a}) /\ Cardinality({a}) = 1
    BY FS_Singleton
  <2>. QED  BY <2>1
<1>3. IsFiniteSet({a, b}) /\ Cardinality({a, b}) \in 0 .. 2
  <2>1. IsFiniteSet({a} \cup {b}) /\ Cardinality({a} \cup {b}) \in 0 .. (1 + 1)
    BY <1>1, <1>2
  <2>2. {a, b} = {a} \cup {b}
    OBVIOUS
  <2>. QED  BY <2>1, <2>2
<1>4. IsFiniteSet({a, b, c}) /\ Cardinality({a, b, c}) \in 0 .. 3
  <2>1. IsFiniteSet({a, b} \cup {c}) /\ Cardinality({a, b} \cup {c}) \in 0 .. (2 + 1)
    BY <1>1, <1>3
  <2>2. {a, b, c} = {a, b} \cup {c}
    OBVIOUS
  <2>. QED  BY <2>1, <2>2
<1>5. IsFiniteSet({a, b, c, d}) /\ Cardinality({a, b, c, d}) \in 0 .. 4
  <2>1. IsFiniteSet({a, b, c} \cup {d}) /\ Cardinality({a, b, c} \cup {d}) \in 0 .. (3 + 1)
    BY <1>1, <1>4
  <2>2. {a, b, c, d} = {a, b, c} \cup {d}
    OBVIOUS
  <2>. QED  BY <2>1, <2>2
<1>6. IsFiniteSet({a, b, c, d} \cup {e}) /\ Cardinality({a, b, c, d} \cup {e}) \in 0 .. (4 + 1)
  BY <1>1, <1>5
<1>7. {a, b, c, d, e} = {a, b, c, d} \cup {e}
  OBVIOUS
<1>. QED
  BY <1>6, <1>7

\* So has a subset of it.
LEMMA AtMostFive ==
  ASSUME NEW S, NEW a, NEW b, NEW c, NEW d, NEW e, S \subseteq {a, b, c, d, e}
  PROVE  Cardinality(S) <= 5
<1> DEFINE five == {a, b, c, d, e}
<1>1. IsFiniteSet(five) /\ Cardinality(five) \in 0 .. 5 /\ S \in SUBSET five
  BY FiveMembers
<1> HIDE DEF five
<1>2. Cardinality(S) <= Cardinality(five) /\ Cardinality(S) \in Nat
  BY <1>1, FS_Subset, FS_CardinalityType
<1>. QED
  BY <1>1, <1>2

(***************************************************************************)
(* The memory holds at most two requests of each read buffer and one       *)
(* write, however late it answers: the queue of 64 is never full.          *)
(***************************************************************************)
THEOREM SystemAtMostFiveRequests == Spec => []AtMostFiveRequests
<1>1. InductiveInvariant => AtMostFiveRequests
  <2> SUFFICES ASSUME InductiveInvariant PROVE AtMostFiveRequests
    OBVIOUS
  <2>1. BufferInvariant /\ WriteRequests /\ EdgeRequests
    BY DEF InductiveInvariant, PipelineInvariant
  <2>2. \A req \in outstanding : req.t = "input_buffer" =>
           req \in {input_buffer.current.req, input_buffer.next.req}
    <3>1. ASSUME NEW req \in outstanding, NEW slot, SentForItsWindow(slot),
                 input!Awaits(slot, req)
          PROVE  req = slot.req
      BY <2>1, <3>1 DEF SentForItsWindow, input!Awaits, WriteRequests
    <3>. QED
      BY <2>1, <3>1 DEF BufferInvariant, InputAnswers
  <2>3. PICK first : EdgesOnTheirWay \subseteq {first, edge_buffer.next.req}
    BY <2>1 DEF EdgeRequests
  <2>4. \A req \in outstanding : req.t = "edge_buffer" => req \in {first, edge_buffer.next.req}
    BY <2>3 DEF EdgesOnTheirWay
  <2>5. \A req \in outstanding : req.t = "output_buffer" => req = output_buffer.to_memory.req
    BY <2>1 DEF BufferInvariant, Outstanding
  <2>6. \A req \in outstanding : req.t \in Devices
    BY <2>1, PipelineTypes DEF Req
  <2>7. outstanding \subseteq {input_buffer.current.req, input_buffer.next.req, first,
                               edge_buffer.next.req, output_buffer.to_memory.req}
    BY <2>2, <2>4, <2>5, <2>6 DEF Devices
  <2>. QED
    BY <2>7, AtMostFive DEF AtMostFiveRequests
<1>. QED
  BY <1>1, SystemInductiveInvariant, PTL

\* Each place of the pipeline holds at most one column.
LEMMA AtMostOneColumnApart ==
  ASSUME BufferInvariant, ColumnsInOrder
  PROVE  /\ LastLeft \in 0 .. Len(Windows)
         /\ LastRead \in 0 .. Len(Windows) /\ LastFilled \in 0 .. Len(Windows)
         /\ ColumnNumber(LastLeft) <= ColumnNumber(written) + 1
         /\ ColumnNumber(combined) <= ColumnNumber(LastLeft) + 1
         /\ ColumnNumber(LastRead) <= ColumnNumber(combined) + 1
         /\ ColumnNumber(LastFilled) <= ColumnNumber(LastRead) + 1
<1>1. /\ written \in 0 .. Len(Windows) /\ combined \in 0 .. Len(Windows)
      /\ LastLeft \in 0 .. Len(Windows)
      /\ LastRead \in 0 .. Len(Windows) /\ LastFilled \in 0 .. Len(Windows)
      /\ end \notin 0 .. Len(Windows)
  BY PipelineTypes DEF LastLeft, LastRead, LastFilled
<1>2. ASSUME NEW i \in 0 .. Len(Windows), NEW j \in 0 .. Len(Windows),
             j = i \/ j = find_next_col(i)
      PROVE  ColumnNumber(j) <= ColumnNumber(i) + 1
  <2>1. ColumnNumber(i) \in Nat
    <3>1. i \in 0 .. Len(Windows) + 1
      BY WindowFacts
    <3>. QED
      BY <3>1, FirstRowsFinite
  <2>2. CASE j = find_next_col(i)
    <3>1. ColumnNumber(j) = ColumnNumber(i) + 1
      BY <1>1, <2>2, NextColumnNumber
    <3>. QED
      BY <2>1, <3>1
  <2>. QED
    BY <1>2, <2>1, <2>2
<1>3. \/ LastLeft = written
      \/ LastLeft = find_next_col(written)
  BY DEF ColumnsInOrder, LastLeft
<1>4. combined = LastLeft \/ combined = find_next_col(LastLeft)
  BY DEF ColumnsInOrder, BufferInvariant, Output
<1>5. LastRead = combined \/ LastRead = find_next_col(combined)
  BY DEF ColumnsInOrder, LastRead
<1>6. LastFilled = LastRead \/ LastFilled = find_next_col(LastRead)
  BY DEF ColumnsInOrder, LastFilled
<1>. QED
  BY <1>1, <1>2, <1>3, <1>4, <1>5, <1>6

(***************************************************************************)
(* No window is requested that is more than six columns after the last one *)
(* in memory: four columns are in the buffers behind the aggregator, and   *)
(* the input buffer is two windows ahead of it.                            *)
(***************************************************************************)
THEOREM SystemReadAheadBounded == Spec => []ReadAheadBounded
<1>1. InductiveInvariant => ReadAheadBounded
  <2> SUFFICES ASSUME InductiveInvariant PROVE ReadAheadBounded
    OBVIOUS
  <2> DEFINE c == current_sliding_window
             r == LastRequested
  <2>1. BufferInvariant /\ ColumnsInOrder /\ AggregatedColumn
    BY DEF InductiveInvariant, PipelineInvariant
  <2>2. /\ c \in 0 .. Len(Windows) /\ written \in 0 .. Len(Windows)
        /\ combined \in 0 .. Len(Windows) /\ Len(Windows) \in Nat
        /\ Index = 1 .. Len(Windows) /\ end = Len(Windows) + 1
    BY <2>1, PipelineTypes
  <2>3. r \in Index /\ r <= c + 2
    <3>1. /\ input_buffer.current.window \in Index
          /\ ~input_buffer.next.empty => input_buffer.next.window \in Index
          /\ input_buffer.next.window = input_buffer.current.window + 1
          /\ input_buffer.current.window \in {c, c + 1}
      BY <2>1, PipelineTypes, SameSets
      DEF BufferInvariant, ReadBuffers, SlotsInRange, InputPosition, IdleAssert, input!ReadBufferState
    <3>2. \/ r = input_buffer.current.window
          \/ ~input_buffer.next.empty /\ r = input_buffer.next.window
      BY DEF LastRequested
    <3> HIDE DEF r, c
    <3>. QED
      BY <2>2, <3>1, <3>2
  <2>4. \A i \in 0 .. Len(Windows) : ColumnNumber(i) \in Nat
    <3>1. \A i \in 0 .. Len(Windows) : i \in 0 .. Len(Windows) + 1
      BY <2>2
    <3>. QED
      BY <3>1, FirstRowsFinite
  <2>5. ColumnNumber(c) <= ColumnNumber(LastFilled)
    <3>1. CASE c = NoWindow
      BY <2>1, <2>4, <3>1, AtMostOneColumnApart DEF AggregatedColumn, NoWindow
    <3>2. CASE c # NoWindow
      <4>1. LastFilled \in 1 .. c /\ \A k \in LastFilled + 1 .. c : ~Windows[k].first_row
        BY <2>1, <3>2 DEF AggregatedColumn, InColumn
      <4>2. LastFilled \in 0 .. Len(Windows) /\ LastFilled <= c
        BY <2>2, <4>1
      <4>3. ColumnNumber(LastFilled) = ColumnNumber(c)
        BY <2>2, <4>1, <4>2, SameColumnNumber
      <4>. QED
        BY <2>2, <2>4, <4>3
    <3>. QED
      BY <3>1, <3>2
  <2>6. ColumnNumber(r) <= ColumnNumber(c) + 2
    <3> HIDE DEF c, r
    <3>1. \A i \in 0 .. Len(Windows) - 1 : ColumnNumber(i + 1) <= ColumnNumber(i) + 1
      <4>. TAKE i \in 0 .. Len(Windows) - 1
      <4>1. ColumnNumber(i) \in Nat
        BY <2>2, <2>4
      <4>2. ColumnNumber(i + 1) = ColumnNumber(i) + 1 \/ ColumnNumber(i + 1) = ColumnNumber(i)
        BY ColumnNumberStep
      <4>. QED
        BY <4>1, <4>2
    <3>2. CASE r <= c
      <4>1. r \in 0 .. Len(Windows) + 1 /\ c \in 0 .. Len(Windows) + 1 /\ r \in 0 .. Len(Windows)
        BY <2>2, <2>3
      <4>2. ColumnNumber(r) <= ColumnNumber(c)
        BY <3>2, <4>1, ColumnNumberMonotone
      <4>. QED
        BY <2>2, <2>4, <4>1, <4>2
    <3>3. CASE r = c + 1
      <4>1. c \in 0 .. Len(Windows) - 1
        BY <2>2, <2>3, <3>3
      <4>. QED
        BY <2>2, <2>4, <3>1, <3>3, <4>1
    <3>4. CASE r = c + 2
      <4>1. c \in 0 .. Len(Windows) - 1 /\ c + 1 \in 0 .. Len(Windows) - 1
            /\ c + 1 \in 0 .. Len(Windows) /\ r \in 0 .. Len(Windows) /\ r = (c + 1) + 1
        BY <2>2, <2>3, <3>4
      <4>2. ColumnNumber(c + 1) <= ColumnNumber(c) + 1
            /\ ColumnNumber((c + 1) + 1) <= ColumnNumber(c + 1) + 1
        BY <3>1, <4>1
      <4>3. ColumnNumber(c) \in Nat /\ ColumnNumber(c + 1) \in Nat /\ ColumnNumber(r) \in Nat
        BY <2>2, <2>4, <4>1
      <4>. QED
        BY <4>1, <4>2, <4>3
    <3>. QED
      BY <2>2, <2>3, <3>2, <3>3, <3>4
  <2>7. ColumnsWritten = ColumnNumber(written)
    BY NoColumnYet DEF ColumnsWritten
  <2>8. /\ ColumnNumber(LastLeft) <= ColumnNumber(written) + 1
        /\ ColumnNumber(combined) <= ColumnNumber(LastLeft) + 1
        /\ ColumnNumber(LastRead) <= ColumnNumber(combined) + 1
        /\ ColumnNumber(LastFilled) <= ColumnNumber(LastRead) + 1
        /\ ColumnNumber(LastLeft) \in Nat /\ ColumnNumber(written) \in Nat
        /\ ColumnNumber(combined) \in Nat /\ ColumnNumber(LastRead) \in Nat
        /\ ColumnNumber(LastFilled) \in Nat /\ ColumnNumber(c) \in Nat
    BY <2>1, <2>2, <2>4, AtMostOneColumnApart
  <2>9. ColumnNumber(r) \in Nat
    <3> HIDE DEF r
    <3>. QED  BY <2>2, <2>3, <2>4
  <2>10. ColumnNumber(r) - ColumnNumber(written) <= 6
    <3> HIDE DEF r, c
    <3>. QED  BY <2>5, <2>6, <2>8, <2>9
  <2>. QED
    BY <2>7, <2>10 DEF ReadAheadBounded
<1>. QED
  BY <1>1, SystemInductiveInvariant, PTL

-----------------------------------------------------------------------------
(***************************************************************************)
(* No circular wait.                                                       *)
(***************************************************************************)

\* With nothing on its way and nothing to send, move or take, every place is empty or ready.
LEMMA QuietPlaces ==
  ASSUME InductiveInvariant, phase = "buffers", ~NeverStuck
  PROVE  /\ failed = {} /\ ~finished /\ ~aggregator.working
         /\ ~input_buffer.current.empty => input_buffer.current.ready
         /\ input_buffer.current.empty => input_buffer.next.empty
         /\ ~edge_buffer.current.empty => edge_buffer.current.ready
         /\ edge_buffer.current.empty => edge_buffer.next.empty
         /\ output_buffer.to_memory.empty /\ output_buffer.to_buffer.empty
         /\ agg_buffer.read_empty /\ ~agg_buffer.write_ready
         /\ ~CanStart
<1> USE DEF InductiveInvariant
<1>1. /\ ~aggregator.working /\ ~CanStart /\ systolic.empty /\ ~CanTakeColumn
      /\ ~input!MustMove /\ ~edge!MustMove /\ ~output!MustMove
      /\ ~(agg_buffer.write_ready /\ agg_buffer.read_empty)
      /\ NoReadUnsent /\ ~output!WriteUnsent /\ outstanding = {}
  BY DEF NeverStuck
<1>2. failed = {} /\ ~finished
  BY DEF BufferInvariant, Halting, PipelineInvariant, RunState
<1>3. /\ ~input_buffer.current.empty => input_buffer.current.ready
      /\ input_buffer.current.empty => input_buffer.next.empty
  BY <1>1 DEF NoReadUnsent, input!CurrentUnsent, input!MustMove, BufferInvariant, InputAnswers,
              SentForItsWindow
<1>4. /\ ~edge_buffer.current.empty => edge_buffer.current.ready
      /\ edge_buffer.current.empty => edge_buffer.next.empty
  <2>1. EdgesOnTheirWay = {}
    BY <1>1 DEF EdgesOnTheirWay
  <2>2. edge_buffer.current.sent => edge_buffer.current.ready
    BY <1>2, <2>1 DEF PipelineInvariant, EdgeRequests
  <2>. QED
    BY <1>1, <2>2 DEF NoReadUnsent, edge!CurrentUnsent, edge!MustMove
<1>5. output_buffer.to_memory.empty
  BY <1>1 DEF output!WriteUnsent, PipelineInvariant, WriteRequests
<1>6. output_buffer.to_buffer.empty
  BY <1>1, <1>5 DEF output!MustMove, PipelineInvariant, Multiplication
<1>7. agg_buffer.read_empty
  BY <1>1, <1>6 DEF CanTakeColumn, PipelineInvariant, Multiplication, BufferInvariant, ReadPort
<1>. QED
  BY <1>1, <1>2, <1>3, <1>4, <1>5, <1>6, <1>7

\* Then the input buffer is not at the end: the run would be finished.
LEMMA QuietInput ==
  ASSUME InductiveInvariant, phase = "buffers", ~NeverStuck
  PROVE  input_buffer.current.ready
<1> USE DEF InductiveInvariant
<1> DEFINE c == current_sliding_window
<1> SUFFICES ASSUME input_buffer.current.empty PROVE FALSE
  BY QuietPlaces
<1>1. ~finished /\ ~aggregator.working /\ input_buffer.next.empty
      /\ output_buffer.to_memory.empty /\ output_buffer.to_buffer.empty
      /\ agg_buffer.read_empty /\ ~agg_buffer.write_ready
  BY QuietPlaces
<1>2. c = Len(Windows) /\ c # NoWindow
  BY <1>1, PipelineTypes DEF BufferInvariant, ReadBuffers, SlotsInRange, InputPosition, IdleAssert, NoWindow
<1>3. ~InsideColumn /\ agg_buffer.write_empty
  BY <1>1, <1>2, WindowsAssumption DEF InsideColumn, BufferInvariant, WritePort
<1>4. LastFilled = written
  BY <1>1, <1>3
  DEF LastFilled, LastRead, LastLeft, PipelineInvariant, ColumnsInOrder, BufferInvariant, Output
<1>5. InColumn(written, c)
  BY <1>2, <1>4 DEF PipelineInvariant, AggregatedColumn
<1>6. written # NoWindow /\ Windows[written].final_col /\ Windows[written].final_layer
  BY <1>2, <1>5, WindowsAssumption DEF InColumn, NoWindow
<1>. QED
  BY <1>1, <1>6 DEF PipelineInvariant, RunState

\* Nor is the edge buffer: there is still a column it has to serve.
LEMMA QuietEdges ==
  ASSUME InductiveInvariant, phase = "buffers", ~NeverStuck
  PROVE  edge_buffer.current.ready
<1> USE DEF InductiveInvariant
<1> DEFINE c == current_sliding_window
<1> SUFFICES ASSUME edge_buffer.current.empty PROVE FALSE
  BY QuietPlaces
<1>1. ~aggregator.working /\ edge_buffer.next.empty /\ ~InsideColumn
      /\ ~input_buffer.current.empty
  BY QuietPlaces, QuietInput
  DEF PipelineInvariant, EdgePosition, BufferInvariant, ReadBuffers, ReadyWasSent
<1>2. c + 1 \in Index /\ c \in 0 .. Len(Windows) - 1
  BY <1>1, PipelineTypes, SMTT(30) DEF BufferInvariant, ReadBuffers, SlotsInRange, InputPosition, IdleAssert
<1>3. Windows[c + 1].first_row
  <2>1. CASE c = NoWindow
    BY <2>1, WindowsAssumption DEF NoWindow
  <2>2. CASE c # NoWindow
    <3>1. c \in Index /\ Windows[c].final_row
      BY <1>1, <1>2, <2>2, PipelineTypes DEF InsideColumn, NoWindow
    <3>. QED
      BY <1>2, <3>1, WindowsAssumption DEF ColumnsAreContiguous
  <2>. QED
    BY <2>1, <2>2
<1>4. ColumnNumber(c + 1) = ColumnNumber(c) + 1
  <2> HIDE DEF c
  <2>. QED  BY <1>2, <1>3, ColumnNumberStep
<1>5. ColumnNumber(Len(Windows)) <= ColumnNumber(c)
  BY <1>1 DEF PipelineInvariant, EdgePosition, ServedColumn
<1>6. ColumnNumber(c + 1) <= ColumnNumber(Len(Windows))
  <2>1. c + 1 \in 0 .. Len(Windows) + 1 /\ Len(Windows) \in 0 .. Len(Windows) + 1
        /\ c + 1 <= Len(Windows)
    BY <1>2, PipelineTypes
  <2> HIDE DEF c
  <2>. QED  BY <2>1, ColumnNumberMonotone
<1>7. ColumnNumber(c) \in Nat /\ ColumnNumber(Len(Windows)) \in Nat
  <2>1. c \in 0 .. Len(Windows) + 1 /\ Len(Windows) \in 0 .. Len(Windows) + 1
    BY <1>2, PipelineTypes
  <2> HIDE DEF c
  <2>. QED  BY <2>1, FirstRowsFinite
<1>. QED
  BY <1>4, <1>5, <1>6, <1>7

(***************************************************************************)
(* No circular wait: as long as the run goes on, a component works, an     *)
(* answer is due, or something can be taken, moved or sent.                *)
(***************************************************************************)
THEOREM SystemNeverStuck == Spec => []NeverStuck
<1>1. InductiveInvariant => NeverStuck
  <2> SUFFICES ASSUME InductiveInvariant, phase = "buffers", ~NeverStuck PROVE FALSE
    BY DEF NeverStuck
  <2>1. /\ ~CanStart /\ ~aggregator.working /\ ~agg_buffer.write_ready
        /\ agg_buffer.read_empty
    BY QuietPlaces
  <2>2. input_buffer.current.ready /\ edge_buffer.current.ready
    BY QuietInput, QuietEdges
  <2>3. ~agg_buffer.write_empty => /\ current_sliding_window # NoWindow
          /\ Windows[agg_buffer.write_window].x = Windows[current_sliding_window].x
    BY <2>1
    DEF InductiveInvariant, PipelineInvariant, AggregatedColumn, InColumn, LastFilled,
        BufferInvariant, WritePort, InsideColumn
  <2>. QED
    BY <2>1, <2>2, <2>3 DEF CanStart, ColumnWaits
<1>. QED
  BY <1>1, SystemInductiveInvariant, PTL

-----------------------------------------------------------------------------
(***************************************************************************)
(* The end of the run.                                                     *)
(***************************************************************************)

\* Nothing follows the last column of the last layer.
LEMMA NothingAfterTheEnd ==
  ASSUME InductiveInvariant, finished
  PROVE  /\ written \in Index /\ written # NoWindow
         /\ Windows[written].first_row
         /\ \A j \in written + 1 .. Len(Windows) : ~Windows[j].first_row
         /\ find_next_col(written) = end
<1>1. written \in 0 .. Len(Windows) /\ Index = 1 .. Len(Windows) /\ Len(Windows) \in Nat
      /\ end = Len(Windows) + 1
  BY PipelineTypes DEF InductiveInvariant
<1>2. /\ written # NoWindow /\ Windows[written].first_row
      /\ Windows[written].final_col /\ Windows[written].final_layer
  BY DEF InductiveInvariant, PipelineInvariant, RunState
<1>3. \A j \in written + 1 .. Len(Windows) : ~Windows[j].first_row
  BY <1>1, <1>2, WindowsAssumption DEF OneLastColumn, NoWindow
<1>4. find_next_col(written) = end
  BY <1>1, <1>3, NextColumnFacts
<1>. QED
  BY <1>1, <1>2, <1>3, <1>4 DEF NoWindow

\* So no place of the pipeline holds a column any more.
LEMMA NothingLeft ==
  ASSUME InductiveInvariant, finished
  PROVE  /\ output_buffer.to_memory.empty /\ output_buffer.to_buffer.empty
         /\ agg_buffer.read_empty /\ agg_buffer.write_empty
         /\ LastFilled = written
<1> USE DEF InductiveInvariant
<1>1. find_next_col(written) = end /\ end \notin Index /\ end \notin 0 .. Len(Windows)
  BY NothingAfterTheEnd, PipelineTypes
<1>2. output_buffer.to_memory.empty
  <2>1. ~output_buffer.to_memory.empty => output_buffer.to_memory.req.window \in Index
    BY PipelineTypes
  <2>. QED
    BY <1>1, <2>1 DEF PipelineInvariant, ColumnsInOrder
<1>3. output_buffer.to_buffer.empty
  <2>1. ~output_buffer.to_buffer.empty => output_buffer.to_buffer.req.window \in Index
    BY PipelineTypes
  <2>. QED
    BY <1>1, <1>2, <2>1 DEF PipelineInvariant, ColumnsInOrder, LastLeft
<1>4. combined = written
  BY <1>2, <1>3 DEF PipelineInvariant, ColumnsInOrder, LastLeft, BufferInvariant, Output
<1>5. agg_buffer.read_empty
  BY <1>1, <1>4, PipelineTypes DEF PipelineInvariant, ColumnsInOrder
<1>6. agg_buffer.write_empty
  BY <1>1, <1>4, <1>5, PipelineTypes DEF PipelineInvariant, ColumnsInOrder, LastRead
<1>. QED
  BY <1>2, <1>3, <1>4, <1>5, <1>6 DEF LastFilled, LastRead

\* And the input buffer has consumed the last window.
LEMMA InputConsumed ==
  ASSUME InductiveInvariant, finished
  PROVE  input_buffer.current.empty /\ input_buffer.next.empty
<1> USE DEF InductiveInvariant
<1> DEFINE c == current_sliding_window
<1>1. agg_buffer.write_empty /\ LastFilled = written /\ written # NoWindow
  BY NothingLeft, NothingAfterTheEnd
<1>2. c # NoWindow /\ written \in 1 .. c /\ c \in 0 .. Len(Windows)
  BY <1>1, PipelineTypes DEF PipelineInvariant, AggregatedColumn, InColumn
<1>3. ~aggregator.working /\ Windows[c].final_row
  BY <1>1, <1>2 DEF BufferInvariant, WritePort, InsideColumn
<1>4. c = Len(Windows)
  <2> SUFFICES ASSUME c # Len(Windows) PROVE FALSE
    OBVIOUS
  <2>1. c \in Index /\ c + 1 \in Index /\ c + 1 \in written + 1 .. Len(Windows)
    BY <1>2, PipelineTypes
  <2>2. Windows[c + 1].first_row
    BY <1>3, <2>1, WindowsAssumption DEF ColumnsAreContiguous
  <2>. QED
    BY <2>1, <2>2, NothingAfterTheEnd
<1>. QED
  BY <1>3, <1>4, PipelineTypes DEF BufferInvariant, ReadBuffers, SlotsInRange, InputPosition, IdleAssert

\* The layers up to the last column are all the layers.
LEMMA AllLayersDone ==
  ASSUME InductiveInvariant, finished
  PROVE  finished_time_stamp = Layers
<1>1. /\ written \in Index /\ \A j \in written + 1 .. Len(Windows) : ~Windows[j].first_row
      /\ Index = 1 .. Len(Windows) /\ Len(Windows) \in Nat
  BY NothingAfterTheEnd, PipelineTypes DEF InductiveInvariant
<1>2. {i \in 1 .. written : Windows[i].final_col /\ Windows[i].first_row}
        = {i \in Index : Windows[i].final_col /\ Windows[i].first_row}
  BY <1>1
<1>. QED
  BY <1>2 DEF InductiveInvariant, PipelineInvariant, RunState, LayersUpTo, Layers

\* The last first row is the column of the last window.
LEMMA LastColumnWritten ==
  ASSUME InductiveInvariant, finished
  PROVE  written = ColumnOf(Len(Windows))
<1> DEFINE Is(j) == /\ j <= Len(Windows) /\ Windows[j].first_row
                    /\ \A k \in j + 1 .. Len(Windows) : ~Windows[k].first_row
<1>1. Index = 1 .. Len(Windows) /\ Len(Windows) \in Nat
  BY PipelineTypes DEF InductiveInvariant
<1>2. written \in Index /\ Is(written)
  BY <1>1, NothingAfterTheEnd
<1>3. \A i, j \in Index : Is(i) /\ Is(j) => i = j
  <2>1. \A i, j \in Index : Is(i) /\ Is(j) => ~(i < j)
    BY <1>1
  <2>2. \A i, j \in Index : ~(i < j) /\ ~(j < i) => i = j
    BY <1>1
  <2> HIDE DEF Is
  <2>. QED  BY <2>1, <2>2
<1>4. (CHOOSE j \in Index : Is(j)) = written
  <2> HIDE DEF Is
  <2>. QED  BY <1>2, <1>3
<1>. QED
  BY <1>4 DEF ColumnOf

(***************************************************************************)
(* When the run is over, the last column of the last layer is in memory,   *)
(* each layer has its time stamp, nothing is left in the buffers behind    *)
(* the aggregator, and only edges may still be on their way.               *)
(***************************************************************************)
THEOREM SystemRunEndsComplete == Spec => []RunEndsComplete
<1>1. InductiveInvariant => RunEndsComplete
  <2> SUFFICES ASSUME InductiveInvariant, finished PROVE RunEndsComplete
    BY DEF RunEndsComplete
  <2>1. \A req \in outstanding : req.t # "input_buffer"
    BY InputConsumed DEF InductiveInvariant, BufferInvariant, InputAnswers, input!Awaits
  <2>2. \A req \in outstanding : req.t # "output_buffer"
    BY NothingLeft DEF InductiveInvariant, BufferInvariant, Outstanding, Output
  <2>3. \A req \in outstanding : req.t \in Devices
    BY PipelineTypes DEF InductiveInvariant, Req
  <2>4. \A req \in outstanding : req.t = "edge_buffer"
    BY <2>1, <2>2, <2>3 DEF Devices
  <2>. QED
    BY <2>4, NothingLeft, AllLayersDone, LastColumnWritten DEF RunEndsComplete
<1>. QED
  BY <1>1, SystemInductiveInvariant, PTL

-----------------------------------------------------------------------------
(***************************************************************************)
(* The system implements the pipeline of columns.                          *)
(***************************************************************************)

\* Steps of which the abstract pipeline sees nothing.
LEMMA QuietForColumns ==
  ASSUME BufferInvariant, BufferInvariant', PipelineInvariant, [Next]_vars,
         ~(AggregatorPhase /\ FinishWindow), ~(SystolicPhase /\ FinishColumn),
         \A req \in task_return_queue : ~ReceiveWrite(req)
  PROVE  UNCHANGED columns!pipeline
<1> USE DEF columns!pipeline, Aggregated
<1>1. CASE BufferCycles \/ DeadLockDetection \/ MemoryAnswers \/ MemoryDone \/ SendNothing
           \/ ReceiveNothing \/ Terminated \/ UNCHANGED vars
  BY <1>1 DEF BufferCycles, DeadLockDetection, MemoryAnswers, MemoryFinishes, MemoryDone,
              SendNothing, ReceiveNothing, Terminated, vars, system, current_sliding_window
<1>2. CASE SendInputCurrent \/ SendInputNext \/ SendEdgeCurrent \/ SendEdgeNext \/ SendWrite
  BY <1>2 DEF SendInputCurrent, SendInputNext, SendEdgeCurrent, SendEdgeNext, SendWrite,
              SendRead, Send, current_sliding_window
<1>3. CASE \E req \in task_return_queue : ReceiveInput(req) \/ ReceiveEdge(req)
  BY <1>3 DEF ReceiveInput, ReceiveEdge, Take, current_sliding_window
<1>4. CASE AggregatorPhase /\ StartWindow
  <2>1. /\ UNCHANGED <<combined, finished, finished_time_stamp, written>>
        /\ ~aggregator.working /\ current_sliding_window' = current_sliding_window + 1
        /\ InsideColumn'
    BY <1>4, StartWindowEffect
  <2>2. aggregator'.working
    <3>1. PICK cycles \in AggregationTimes :
            aggregator' = [working |-> TRUE, remaining_cycles |-> cycles,
                           current_sliding_window |-> input_buffer.current.window]
      BY <1>4 DEF StartWindow
    <3>. QED
      BY <3>1
  <2>3. current_sliding_window \in Nat
    BY PipelineTypes
  <2>. QED
    BY <2>1, <2>2, <2>3
<1>5. CASE AggregatorPhase /\ (NothingToWorkOn \/ Aggregate \/ WaitForWindow)
  <2>1. aggregator \in AggregatorState
    BY PipelineTypes
  <2>2. UNCHANGED <<aggregator.working, current_sliding_window>>
    BY <1>5, <2>1 DEF NothingToWorkOn, Aggregate, WaitForWindow, AggregatorState,
                      current_sliding_window
  <2>. QED
    BY <1>5, <2>2 DEF AggregatorPhase, system
<1>6. CASE SystolicPhase /\ (TakeColumn \/ Multiply \/ WaitForColumn)
  BY <1>6 DEF SystolicPhase, TakeColumn, Multiply, WaitForColumn, system, current_sliding_window
<1>. QED
  BY <1>1, <1>2, <1>3, <1>4, <1>5, <1>6
  DEF Next, AggregatorPhase, AggregatorCycle, SystolicPhase, SystolicCycle

\* FinishWindow: no window is skipped or aggregated twice.
LEMMA FinishWindowAggregates ==
  ASSUME BufferInvariant, BufferInvariant', AggregatorPhase, FinishWindow
  PROVE  columns!AggregateWindow
<1>1. /\ UNCHANGED <<combined, finished, finished_time_stamp, written>>
      /\ aggregator.working /\ ~aggregator'.working
      /\ current_sliding_window \in Index /\ UNCHANGED current_sliding_window
  BY FinishWindowEffect
<1>2. Aggregated + 1 = current_sliding_window /\ Aggregated' = current_sliding_window
  BY <1>1, PipelineTypes DEF Aggregated
<1>. QED
  BY <1>1, <1>2, SameStream DEF columns!AggregateWindow

\* A column that has left the write port was aggregated to its last row.
LEMMA ReadColumnComplete ==
  ASSUME BufferInvariant, PipelineInvariant, ~agg_buffer.read_empty
  PROVE  find_next_col(agg_buffer.read_window) <= Aggregated + 1
<1> DEFINE c == current_sliding_window
           r == agg_buffer.read_window
           n == find_next_col(r)
<1>1. /\ c \in 0 .. Len(Windows) /\ r \in 0 .. Len(Windows) /\ Len(Windows) \in Nat
      /\ Index = 1 .. Len(Windows) /\ end = Len(Windows) + 1
      /\ Aggregated \in {c - 1, c}
  BY PipelineTypes DEF Aggregated
<1>2. LastRead = r /\ r # NoWindow
  BY DEF LastRead, BufferInvariant, ReadPort
<1>3. CASE ~agg_buffer.write_empty
  <2>1. LastFilled = n /\ n # NoWindow
    BY <1>2, <1>3 DEF LastFilled, PipelineInvariant, ColumnsInOrder, BufferInvariant, WritePort
  <2>2. n \in 1 .. c
    BY <2>1 DEF PipelineInvariant, AggregatedColumn, InColumn
  <2>3. n <= Aggregated + 1
    <3> HIDE DEF n, c
    <3>. QED  BY <1>1, <2>2
  <2>. QED
    BY <2>3
<1>4. CASE agg_buffer.write_empty
  <2>1. LastFilled = r /\ c # NoWindow /\ r \in 1 .. c
    BY <1>2, <1>4 DEF LastFilled, PipelineInvariant, AggregatedColumn, InColumn
  <2>2. ~aggregator.working /\ Windows[c].final_row
    BY <1>4, <2>1 DEF BufferInvariant, WritePort, InsideColumn
  <2>3. Aggregated = c
    BY <2>2 DEF Aggregated
  <2>4. n \in Index \cup {end} /\ \A k \in r + 1 .. n - 1 : ~Windows[k].first_row
    BY <1>1, NextColumnFacts
  <2>5. c + 1 \in Index => Windows[c + 1].first_row
    BY <1>1, <2>1, <2>2, WindowsAssumption DEF ColumnsAreContiguous
  <2>6. n <= c + 1
    <3> HIDE DEF n, c, r
    <3>. QED  BY <1>1, <2>1, <2>4, <2>5
  <2>. QED
    BY <2>3, <2>6
<1>. QED
  BY <1>3, <1>4

\* FinishColumn: the next column is multiplied, and it is complete.
LEMMA FinishColumnMultiplies ==
  ASSUME BufferInvariant, BufferInvariant', PipelineInvariant, SystolicPhase, FinishColumn
  PROVE  columns!MultiplyColumn
<1>1. /\ UNCHANGED <<aggregator, finished, finished_time_stamp, written, current_sliding_window>>
      /\ ~agg_buffer.read_empty /\ combined' = agg_buffer.read_window
  BY FinishColumnEffect
<1>2. combined' = find_next_col(combined) /\ combined' # end
  BY <1>1, PipelineTypes DEF PipelineInvariant, ColumnsInOrder
<1>3. find_next_col(combined') <= Aggregated + 1
  BY <1>1, ReadColumnComplete
<1>4. Aggregated' = Aggregated
  BY <1>1 DEF Aggregated
<1>. QED
  BY <1>1, <1>2, <1>3, <1>4, SameStream DEF columns!MultiplyColumn

\* ReceiveWrite: the next column is written back, and it was multiplied.
LEMMA ReceiveWriteWrites ==
  ASSUME BufferInvariant, BufferInvariant', PipelineInvariant,
         NEW req \in task_return_queue, ReceiveWrite(req)
  PROVE  columns!WriteColumn
<1> DEFINE w == find_next_col(written)
<1>1. /\ UNCHANGED <<aggregator, combined, current_sliding_window>> /\ ~finished
      /\ ~output_buffer.to_memory.empty /\ output_buffer.to_memory.req.window = w
      /\ w \in Index /\ written' = w
      /\ finished' = (Windows[w].final_col /\ Windows[w].final_layer)
      /\ finished_time_stamp' = IF Windows[w].final_col THEN finished_time_stamp + 1
                                                        ELSE finished_time_stamp
  BY ReceiveWriteEffect
<1>2. w <= combined
  <2>1. LastLeft = w
    BY <1>1 DEF LastLeft
  <2>2. CASE ~output_buffer.to_buffer.finished
    BY <1>1, <2>1, <2>2, PipelineTypes DEF PipelineInvariant, ColumnsInOrder
  <2>3. CASE output_buffer.to_buffer.finished
    <3>1. combined = find_next_col(w)
      BY <2>1, <2>3 DEF PipelineInvariant, ColumnsInOrder, BufferInvariant, Output
    <3>2. w \in 0 .. Len(Windows) /\ Len(Windows) \in Nat /\ combined \in 0 .. Len(Windows)
      BY <1>1, PipelineTypes
    <3>3. find_next_col(w) > w
      <4> HIDE DEF w
      <4>. QED  BY <3>2, NextColumnFacts
    <3> HIDE DEF w
    <3>. QED
      BY <3>1, <3>2, <3>3
  <2>. QED
    BY <2>2, <2>3
<1>3. Aggregated' = Aggregated
  BY <1>1 DEF Aggregated
<1>. QED
  BY <1>1, <1>2, <1>3, SameStream DEF columns!WriteColumn

(***************************************************************************)
(* The system implements the pipeline of columns, whatever the durations   *)
(* and the order of the memory's answers: the end of a window, the end of  *)
(* a column's multiplication and the answer to a write are its steps, and  *)
(* everything else leaves it as it is.                                     *)
(***************************************************************************)
THEOREM SystemImplementsColumnPipeline == Spec => ImplementsColumnPipeline
<1>1. Init => columns!Init
  BY DEF Init, AggregatorInit, SystolicInit, columns!Init, Aggregated, current_sliding_window,
         columns!NoWindow, NoWindow
<1>2. InductiveInvariant /\ InductiveInvariant' /\ [Next]_vars => [columns!Next]_columns!pipeline
  <2> SUFFICES ASSUME InductiveInvariant, InductiveInvariant', [Next]_vars
               PROVE  [columns!Next]_columns!pipeline
    OBVIOUS
  <2>1. BufferInvariant /\ BufferInvariant' /\ PipelineInvariant
    BY DEF InductiveInvariant
  <2>2. CASE AggregatorPhase /\ FinishWindow
    BY <2>1, <2>2, FinishWindowAggregates DEF columns!Next
  <2>3. CASE SystolicPhase /\ FinishColumn
    BY <2>1, <2>3, FinishColumnMultiplies DEF columns!Next
  <2>4. CASE \E req \in task_return_queue : ReceiveWrite(req)
    BY <2>1, <2>4, ReceiveWriteWrites DEF columns!Next
  <2>. QED
    BY <2>1, <2>2, <2>3, <2>4, QuietForColumns
<1>. QED
  BY <1>1, <1>2, SystemInductiveInvariant, PTL DEF Spec, ImplementsColumnPipeline, columns!Spec

-----------------------------------------------------------------------------
(***************************************************************************)
(* The system uses the memory as a port.                                   *)
(***************************************************************************)

\* A request with an id of its own is a new one for the port.
LEMMA SendsNewId ==
  ASSUME NEW req, pending' = pending \cup {req}, UNCHANGED task_return_queue,
         \A other \in outstanding : other.id # req.id
  PROVE  port!Send
<1>1. IdsOf(pending') = IdsOf(pending) \cup {req.id}
  BY DEF IdsOf
<1>2. req.id \in IdsOf(pending') \ (IdsOf(pending) \cup IdsOf(task_return_queue))
  BY <1>1 DEF IdsOf, outstanding
<1>. QED
  BY <1>1, <1>2 DEF port!Send

\* A read has the counter's value, which no earlier request has.
LEMMA ReadsUsePort ==
  ASSUME BufferInvariant, PipelineInvariant,
         SendInputCurrent \/ SendInputNext \/ SendEdgeCurrent \/ SendEdgeNext
  PROVE  port!Send
<1>1. PICK req : /\ req.id = global_id /\ pending' = pending \cup {req}
                 /\ UNCHANGED task_return_queue
  BY DEF SendInputCurrent, SendInputNext, SendEdgeCurrent, SendEdgeNext, SendRead, Send, ReadReq
<1>2. \A other \in outstanding : other.id # req.id
  <2>1. \A other \in outstanding : other.id < global_id /\ other.id \in Nat
    BY PipelineTypes DEF PipelineInvariant, WriteRequests
  <2>2. global_id \in Nat
    BY PipelineTypes
  <2>. QED
    BY <1>1, <2>1, <2>2
<1>. QED
  BY <1>1, <1>2, SendsNewId

\* A write has the value it was given when its column was taken.
LEMMA WriteUsesPort ==
  ASSUME BufferInvariant, BufferInvariant', PipelineInvariant, SendWrite
  PROVE  port!Send
<1>1. /\ ~output_buffer.to_memory.empty /\ ~output_buffer.to_memory.started
      /\ pending' = pending \cup {output_buffer.to_memory.req}
      /\ UNCHANGED task_return_queue
  BY SendWriteEffect
<1>2. \A other \in outstanding : other.id # output_buffer.to_memory.req.id
  BY <1>1 DEF PipelineInvariant, WriteRequests
<1>. QED
  BY <1>1, <1>2, SendsNewId

\* An answer finishes the request with its id and no other.
LEMMA AnswersUsePort ==
  ASSUME PipelineInvariant, MemoryAnswers
  PROVE  port!Finish
<1>1. PICK req \in pending : /\ pending' = pending \ {req}
                             /\ task_return_queue' = task_return_queue \cup {req}
  BY DEF MemoryAnswers, MemoryFinishes
<1>2. \A other \in pending : other.id = req.id => other = req
  BY <1>1 DEF PipelineInvariant, WriteRequests, outstanding
<1>3. IdsOf(pending') = IdsOf(pending) \ {req.id} /\ req.id \in IdsOf(pending)
  BY <1>1, <1>2 DEF IdsOf
<1>4. IdsOf(task_return_queue') = IdsOf(task_return_queue) \cup {req.id}
  BY <1>1 DEF IdsOf
<1>. QED
  BY <1>3, <1>4 DEF port!Finish

\* An answer is taken once.
LEMMA TakesUsePort ==
  ASSUME PipelineInvariant, NEW req \in task_return_queue, Take(req)
  PROVE  port!Take
<1>1. task_return_queue' = task_return_queue \ {req} /\ UNCHANGED pending
  BY DEF Take
<1>2. \A other \in task_return_queue : other.id = req.id => other = req
  BY DEF PipelineInvariant, WriteRequests, outstanding
<1>3. IdsOf(task_return_queue') = IdsOf(task_return_queue) \ {req.id}
      /\ req.id \in IdsOf(task_return_queue) /\ UNCHANGED IdsOf(pending)
  BY <1>1, <1>2 DEF IdsOf
<1>. QED
  BY <1>3 DEF port!Take

(***************************************************************************)
(* The system uses the memory as the port that the memory interface        *)
(* implements: a request that is sent has an id no other request on its    *)
(* way has, be it a read's or a write's, and every answer is taken once.   *)
(***************************************************************************)
THEOREM SystemUsesMemoryPort == Spec => UsesMemoryPort
<1>1. Init => port!Init
  BY DEF Init, port!Init, IdsOf
<1>2. InductiveInvariant /\ InductiveInvariant' /\ [Next]_vars
        => [port!Next]_<<IdsOf(pending), IdsOf(task_return_queue)>>
  <2> SUFFICES ASSUME InductiveInvariant, InductiveInvariant', [Next]_vars
               PROVE  port!Next \/ UNCHANGED <<IdsOf(pending), IdsOf(task_return_queue)>>
    OBVIOUS
  <2> USE DEF InductiveInvariant
  <2>1. CASE SendInputCurrent \/ SendInputNext \/ SendEdgeCurrent \/ SendEdgeNext
    BY <2>1, ReadsUsePort DEF port!Next
  <2>2. CASE SendWrite
    BY <2>2, WriteUsesPort DEF port!Next
  <2>3. CASE MemoryAnswers
    BY <2>3, AnswersUsePort DEF port!Next
  <2>4. CASE \E req \in task_return_queue :
               ReceiveInput(req) \/ ReceiveEdge(req) \/ ReceiveWrite(req)
    <3>1. \E req \in task_return_queue : Take(req)
      BY <2>4 DEF ReceiveInput, ReceiveEdge, ReceiveWrite
    <3>. QED
      BY <3>1, TakesUsePort DEF port!Next
  <2>5. CASE \/ BufferCycles \/ AggregatorPhase \/ SystolicPhase \/ DeadLockDetection
             \/ MemoryDone \/ SendNothing \/ ReceiveNothing \/ Terminated \/ UNCHANGED vars
    <3>1. UNCHANGED <<pending, task_return_queue>>
      BY <2>5 DEF BufferCycles, AggregatorPhase, SystolicPhase, DeadLockDetection, MemoryDone,
                  SendNothing, ReceiveNothing, Terminated, vars, system
    <3>. QED
      BY <3>1 DEF IdsOf
  <2>. QED
    BY <2>1, <2>2, <2>3, <2>4, <2>5 DEF Next
<1>. QED
  BY <1>1, <1>2, SystemInductiveInvariant, PTL DEF Spec, UsesMemoryPort, port!Spec
=============================================================================
