------------------------------- MODULE System -------------------------------
(***************************************************************************)
(* System::run() and System::cycle(): one cycle calls every component in a *)
(* fixed order, connects the buffers to the memory, and watches for a dead *)
(* lock.  "phase" is the place in cycle(); an action is one component's    *)
(* cycle(), or one of the system's own blocks.                             *)
(*                                                                         *)
(* The memory is seen from its port: a request is pending from send()      *)
(* until it is put into task_return_queue.  It may take any time and       *)
(* overtake others, so the order of task_return_queue carries nothing and  *)
(* the queue is a set.                                                     *)
(***************************************************************************)
EXTENDS Aggregator, SystolicArray, FiniteSets

CONSTANTS WaitingSize,       \* 64, the size of the memory's request queue
          DeadLockGap        \* 100000 cycles

ASSUME WaitingSizeAssumption == WaitingSize \in Nat \ {0}
ASSUME DeadLockGapAssumption == DeadLockGap \in Nat \ {0}

VARIABLES phase,
          pending,               \* requests the memory is working on
          task_return_queue,     \* requests the memory has finished
          dead_lock,             \* dead_lock_detect, total_detected_times
          finished,              \* global_definitions.finished
          finished_time_stamp,   \* the number of its entries, one per layer
          written                \* history: the last column written to memory

system == <<pending, task_return_queue, dead_lock, finished, finished_time_stamp, written>>
vars   == <<phase, buffers, failed, global_id, aggregator, systolic, combined, system>>

Phases == {"buffers", "aggregator", "systolic", "dead lock", "memory", "send",
           "receive", "halted"}

\* The next block of cycle(), unless an assertion has just failed.
Continue(p) == phase' = IF failed' = {} THEN p ELSE "halted"
-----------------------------------------------------------------------------
(***************************************************************************)
(* dead_lock.left is dead_lock_detect - cycle: a busy cycle sets it, and   *)
(* from then on it counts down.                                            *)
(***************************************************************************)
Init ==
  /\ phase = "buffers"
  /\ input!Constructed /\ edge!Constructed /\ agg!Constructed /\ output!Constructed
  /\ AggregatorInit /\ SystolicInit
  /\ failed = {}
  /\ global_id = 0
  /\ pending = {} /\ task_return_queue = {}
  /\ dead_lock = [left |-> DeadLockGap, total_detected_times |-> 0]
  /\ finished = FALSE
  /\ finished_time_stamp = 0
  /\ written = NoWindow
-----------------------------------------------------------------------------
(***************************************************************************)
(* The four buffers' cycle(): they share nothing, so one step stands for   *)
(* the four calls.                                                         *)
(***************************************************************************)
BufferCycles ==
  /\ phase = "buffers"
  /\ input!InputCycle /\ edge!EdgeCycle /\ agg!Cycle /\ output!Cycle
  /\ failed' = Check("Aggregator_buffer::cycle", agg!CycleAssert)
               \cup Check("WriteBuffer::cycle", output!CycleAssert)
  /\ Continue("aggregator")
  /\ UNCHANGED <<global_id, aggregator, systolic, combined, system>>

AggregatorPhase ==
  /\ phase = "aggregator"
  /\ AggregatorCycle
  /\ Continue("systolic")
  /\ UNCHANGED <<global_id, systolic, combined, system>>

SystolicPhase ==
  /\ phase = "systolic"
  /\ SystolicCycle
  /\ Continue("dead lock")
  /\ UNCHANGED <<aggregator, system>>
-----------------------------------------------------------------------------
(***************************************************************************)
(* Both read buffers idle for DeadLockGap cycles count as a dead lock, and *)
(* the third one ends the program with a throw.                            *)
(***************************************************************************)
SuspectsDeadLock == input!idle /\ edge!idle

DeadLockDetection ==
  /\ phase = "dead lock"
  /\ dead_lock' =
       IF ~SuspectsDeadLock THEN [dead_lock EXCEPT !.left = DeadLockGap - 1]
       ELSE IF dead_lock.left = 0
       THEN [left |-> DeadLockGap - 1,
             total_detected_times |-> dead_lock.total_detected_times + 1]
       ELSE [dead_lock EXCEPT !.left = @ - 1]
  /\ failed' = Check("dead lock", \/ dead_lock'.total_detected_times < 3
                                  \/ UNCHANGED dead_lock.total_detected_times)
  /\ Continue("memory")
  /\ UNCHANGED <<buffers, global_id, aggregator, systolic, combined, pending,
                 task_return_queue, finished, finished_time_stamp, written>>
-----------------------------------------------------------------------------
(***************************************************************************)
(* while (current_dram_time < current_system_time) m_mem->cycle(): no, one *)
(* or several memory cycles, in each of which the memory may finish any    *)
(* request it has.                                                         *)
(***************************************************************************)
MemoryFinishes(req) ==
  /\ phase = "memory"
  /\ pending' = pending \ {req}
  /\ task_return_queue' = task_return_queue \cup {req}
  /\ UNCHANGED <<phase, buffers, failed, global_id, aggregator, systolic, combined,
                 dead_lock, finished, finished_time_stamp, written>>

MemoryAnswers == \E req \in pending : MemoryFinishes(req)

MemoryDone ==
  /\ phase = "memory"
  /\ UNCHANGED <<buffers, failed, global_id, aggregator, systolic, combined, system>>
  /\ Continue("send")
-----------------------------------------------------------------------------
(***************************************************************************)
(* At most one request per cycle goes out: what the aggregator needs now   *)
(* before what it needs next, reads before the write.                      *)
(*                                                                         *)
(* available() looks at req_queue, the part of the pending requests that   *)
(* no memory cycle has taken yet; counting all of them can only refuse     *)
(* more often.                                                             *)
(***************************************************************************)
available == Cardinality(pending) < WaitingSize

Send(req) ==
  /\ phase = "send"
  /\ available
  /\ pending' = pending \cup {req}
  /\ Continue("receive")
  /\ UNCHANGED <<aggregator, systolic, combined, task_return_queue, dead_lock,
                 finished, finished_time_stamp, written>>

\* A read's id is not counted.
SendReadSameId(req) == Send(req) /\ UNCHANGED global_id

SendRead(req) == Send(req) /\ global_id' = global_id + 1

SendInputCurrent ==
  LET req == ReadReq(global_id, "input_buffer", input_buffer.current.window)
  IN  /\ input!CurrentUnsent
      /\ input!PopCurrent(req)
      /\ UNCHANGED <<edge_buffer, agg_buffer, output_buffer, failed>>
      /\ SendRead(req)

SendEdgeCurrent ==
  LET req == ReadReq(global_id, "edge_buffer", edge_buffer.current.window)
  IN  /\ ~input!CurrentUnsent
      /\ edge!CurrentUnsent
      /\ edge!PopCurrent(req)
      /\ UNCHANGED <<input_buffer, agg_buffer, output_buffer, failed>>
      /\ SendRead(req)

SendInputNext ==
  LET req == ReadReq(global_id, "input_buffer", input_buffer.next.window)
  IN  /\ ~input!CurrentUnsent /\ ~edge!CurrentUnsent
      /\ input!NextUnsent
      /\ input!PopNext(req)
      /\ failed' = Check("InputBuffer::pop_next", input!PopNextAssert)
      /\ UNCHANGED <<edge_buffer, agg_buffer, output_buffer>>
      /\ SendRead(req)

SendEdgeNext ==
  LET req == ReadReq(global_id, "edge_buffer", edge_buffer.next.window)
  IN  /\ ~input!CurrentUnsent /\ ~edge!CurrentUnsent /\ ~input!NextUnsent
      /\ edge!NextUnsent
      /\ edge!PopNext(req)
      /\ failed' = Check("EdgeBuffer::pop_next", edge!PopNextAssert)
      /\ UNCHANGED <<input_buffer, agg_buffer, output_buffer>>
      /\ SendRead(req)

NoReadUnsent == /\ ~input!CurrentUnsent /\ ~edge!CurrentUnsent
                /\ ~input!NextUnsent    /\ ~edge!NextUnsent

SendWrite ==
  /\ NoReadUnsent
  /\ output!WriteUnsent
  /\ output!StartWriteMemory
  /\ failed' = Check("start_write_memory", output!StartWriteMemoryAssert)
  /\ UNCHANGED <<input_buffer, edge_buffer, agg_buffer, global_id>>
  /\ Send(output_buffer.to_memory.req)

SendNothing ==
  /\ phase = "send"
  /\ available => NoReadUnsent /\ ~output!WriteUnsent
  /\ UNCHANGED <<buffers, failed, global_id, aggregator, systolic, combined, system>>
  /\ Continue("receive")
-----------------------------------------------------------------------------
(***************************************************************************)
(* At most one answer per cycle is taken.  This is the last block of       *)
(* cycle(); run() then stops if global_definitions.finished is set.        *)
(***************************************************************************)
EndOfCycle == Continue(IF finished' THEN "halted" ELSE "buffers")

Take(req) ==
  /\ phase = "receive"
  /\ req \in task_return_queue
  /\ task_return_queue' = task_return_queue \ {req}
  /\ EndOfCycle
  /\ UNCHANGED <<agg_buffer, global_id, aggregator, systolic, combined, pending, dead_lock>>

ReceiveInput(req) ==
  /\ req.t = "input_buffer"
  /\ input!Receive(req)
  /\ failed' = Check("InputBuffer start_cycle_map.at", input!ReceiveKnowsId(req))
               \cup Check("InputBuffer null request", input!ReceiveDereferences)
               \cup Check("InputBuffer::receive", input!ReceiveAssert(req))
  /\ UNCHANGED <<edge_buffer, output_buffer, finished, finished_time_stamp, written>>
  /\ Take(req)

ReceiveEdge(req) ==
  /\ req.t = "edge_buffer"
  /\ edge!Receive(req)
  /\ failed' = Check("EdgeBuffer start_cycle_map.at", edge!ReceiveKnowsId(req))
               \cup Check("EdgeBuffer null request", edge!ReceiveDereferences)
               \cup Check("EdgeBuffer::receive", edge!ReceiveAssert(req))
  /\ UNCHANGED <<input_buffer, output_buffer, finished, finished_time_stamp, written>>
  /\ Take(req)

\* finished_write_memory() looks at the flags of its own write_to_mem_req.
ReceiveWrite(req) ==
  /\ req.t = "output_buffer"
  /\ output!FinishedWriteMemory
  /\ failed' = Check("finished_write_memory", output!FinishedWriteMemoryAssert)
  /\ finished' = (finished \/ output_buffer.to_memory.req.the_final_request)
  /\ finished_time_stamp' =
       IF output_buffer.to_memory.req.the_final_request_of_the_layer
       THEN finished_time_stamp + 1 ELSE finished_time_stamp
  /\ written' = output_buffer.to_memory.req.window
  /\ UNCHANGED <<input_buffer, edge_buffer>>
  /\ Take(req)

ReceiveNothing ==
  /\ phase = "receive"
  /\ task_return_queue = {}
  /\ UNCHANGED <<buffers, failed, global_id, aggregator, systolic, combined, system>>
  /\ EndOfCycle
-----------------------------------------------------------------------------
Terminated == phase = "halted" /\ UNCHANGED vars

Next ==
  \/ BufferCycles \/ AggregatorPhase \/ SystolicPhase \/ DeadLockDetection
  \/ MemoryAnswers \/ MemoryDone
  \/ SendInputCurrent \/ SendEdgeCurrent \/ SendInputNext \/ SendEdgeNext
  \/ SendWrite \/ SendNothing
  \/ \E req \in task_return_queue :
        ReceiveInput(req) \/ ReceiveEdge(req) \/ ReceiveWrite(req)
  \/ ReceiveNothing
  \/ Terminated

Spec == Init /\ [][Next]_vars

(***************************************************************************)
(* run() calls cycle() again and again, and cycle() returns.  The memory   *)
(* answers every request: it may be the memory's turn and yet not answer,  *)
(* but not forever.                                                        *)
(***************************************************************************)
FairSpec == Spec /\ WF_vars(Next) /\ SF_vars(MemoryAnswers)
=============================================================================
