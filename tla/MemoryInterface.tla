--------------------------- MODULE MemoryInterface ---------------------------
(***************************************************************************)
(* memory_interface: it cuts requests into lines of 64 bytes, fetches a    *)
(* line that several reads want only once, and returns a read when all its *)
(* lines have come, a write when all its lines have been sent.             *)
(*                                                                         *)
(* cycle() is a sequence of loops; "phase" is the loop it is in, and an    *)
(* action is one pass through its body.  The DRAM simulator below answers  *)
(* reads in any order; whether it has room is its own affair, so           *)
(* available() is true or false whenever it is called.                     *)
(***************************************************************************)
EXTENDS Integers, Sequences, FiniteSets, SequencesExt

CONSTANTS Demands,        \* the address ranges the buffers ask for, by id
          WaitingSize     \* 64, the size of req_queue

(***************************************************************************)
(* A demand is a list of addresses (the input nodes of a dense window) or, *)
(* if that is empty, a range of bytes.  Nothing empty is asked for.        *)
(***************************************************************************)
Demand == [id : Nat, req_type : {"read", "write"}, addrs : Seq(Nat), start : Nat, len : Nat]

ASSUME DemandsAssumption ==
  /\ Demands \subseteq Demand
  /\ \A d, e \in Demands : d.id = e.id => d = e
  /\ \A d \in Demands : d.addrs = <<>> => d.len > 0
  /\ \A d \in Demands : d.req_type = "write" => d.addrs = <<>>
ASSUME WaitingSizeAssumption == WaitingSize \in Nat \ {0}
-----------------------------------------------------------------------------
(***************************************************************************)
(* Req::set_addr(): an address is rounded down to its line; what a range   *)
(* loses in front is to be added to its length, but is computed with % 63. *)
(***************************************************************************)
LineOf(addr) == addr - (addr % 64)

Req == [id : Nat, req_type : {"read", "write"}, use_continue_addr : BOOLEAN,
        addr : Seq(Nat), single_addr : Nat, single_len : Nat]

set_addr(req, addr, len) == [req EXCEPT !.use_continue_addr = TRUE,
                                        !.single_addr = LineOf(addr),
                                        !.single_len  = len + (addr % 63)]

NewReq(d) ==
  LET req == [id |-> d.id, req_type |-> d.req_type, use_continue_addr |-> FALSE,
              addr |-> [i \in DOMAIN d.addrs |-> LineOf(d.addrs[i])],
              single_addr |-> 0, single_len |-> 0]
  IN  IF d.addrs = <<>> THEN set_addr(req, d.start, d.len) ELSE req

\* The lines a read is cut into, in the order in which they are sent.
LinesOf(req) ==
  IF req.use_continue_addr
  THEN [i \in 1 .. (req.single_len + 63) \div 64 |-> req.single_addr + 64 * (i - 1)]
  ELSE req.addr
-----------------------------------------------------------------------------
VARIABLES
  phase,
  demanded,              \* the ids that were sent
  req_queue,
  next_line,             \* which line of the read at the front is next
  out_send_queue,        \* lines to fetch
  response_queue,        \* lines that came
  task_return_queue,     \* the ids of requests that are done, in no order
  id_to_reqs_map,        \* the ids of the reads in it
  addr_to_req_map,       \* pairs of a line and the id of a read that waits for it
  req_id_to_addr_map,    \* pairs of the id of a read and a line it waits for
  dram,                  \* lines the DRAM is fetching
  dram_return,           \* lines the DRAM has fetched
  transferred            \* history: pairs of an id and a line that came or was written

maps   == <<id_to_reqs_map, addr_to_req_map, req_id_to_addr_map>>
m_mem  == <<dram, dram_return>>
memory == <<phase, demanded, req_queue, next_line, out_send_queue, response_queue,
            task_return_queue, maps, m_mem, transferred>>

Init == /\ phase = "client"
        /\ demanded = {}
        /\ req_queue = <<>> /\ next_line = 1
        /\ out_send_queue = <<>> /\ response_queue = <<>> /\ task_return_queue = {}
        /\ id_to_reqs_map = {} /\ addr_to_req_map = {} /\ req_id_to_addr_map = {}
        /\ dram = {} /\ dram_return = <<>>
        /\ transferred = {}
-----------------------------------------------------------------------------
(***************************************************************************)
(* Between two calls of cycle() the system may send requests and take      *)
(* answers: none, one or several, because its clock may be faster.         *)
(***************************************************************************)
send(d) ==
  /\ phase = "client"
  /\ d.id \notin demanded
  /\ Len(req_queue) < WaitingSize
  /\ demanded' = demanded \cup {d.id}
  /\ id_to_reqs_map' = IF d.req_type = "read" THEN id_to_reqs_map \cup {d.id}
                                              ELSE id_to_reqs_map
  /\ req_queue' = Append(req_queue, NewReq(d))
  /\ UNCHANGED <<phase, next_line, out_send_queue, response_queue, task_return_queue,
                 addr_to_req_map, req_id_to_addr_map, m_mem, transferred>>

get_req(id) ==
  /\ phase = "client"
  /\ id \in task_return_queue
  /\ task_return_queue' = task_return_queue \ {id}
  /\ UNCHANGED <<phase, demanded, req_queue, next_line, out_send_queue, response_queue,
                 maps, m_mem, transferred>>

StartCycle ==
  /\ phase = "client"
  /\ phase' = "dram"
  /\ UNCHANGED <<demanded, req_queue, next_line, out_send_queue, response_queue,
                 task_return_queue, maps, m_mem, transferred>>
-----------------------------------------------------------------------------
(***************************************************************************)
(* m_mem->cycle(): any of the lines in work may be done.  Writes are done  *)
(* without notice.                                                         *)
(***************************************************************************)
DramAnswers(line) ==
  /\ phase = "dram"
  /\ line \in dram
  /\ dram' = dram \ {line}
  /\ dram_return' = Append(dram_return, line)
  /\ UNCHANGED <<phase, demanded, req_queue, next_line, out_send_queue, response_queue,
                 task_return_queue, maps, transferred>>

DramDone ==
  /\ phase = "dram"
  /\ phase' = "requests"
  /\ UNCHANGED <<demanded, req_queue, next_line, out_send_queue, response_queue,
                 task_return_queue, maps, m_mem, transferred>>
-----------------------------------------------------------------------------
(***************************************************************************)
(* The loop over req_queue.  send_reqs() queues a line only if no read     *)
(* waits for it yet, and records that this read does.                      *)
(***************************************************************************)
FirstReq == Head(req_queue)

\* send_reqs() that looks at the lines still to be sent instead.
IsQueued(line) == line \in ToSet(out_send_queue)

IsAwaited(line) == \E pair \in addr_to_req_map : pair[1] = line

send_reqs ==
  LET lines == LinesOf(FirstReq)
      line  == lines[next_line]
  IN  /\ phase = "requests"
      /\ req_queue # <<>> /\ FirstReq.req_type = "read"
      /\ out_send_queue' = IF IsAwaited(line) THEN out_send_queue
                                              ELSE Append(out_send_queue, line)
      /\ addr_to_req_map' = addr_to_req_map \cup {<<line, FirstReq.id>>}
      /\ req_id_to_addr_map' = req_id_to_addr_map \cup {<<FirstReq.id, line>>}
      /\ IF next_line < Len(lines)
         THEN next_line' = next_line + 1 /\ UNCHANGED req_queue
         ELSE next_line' = 1 /\ req_queue' = Tail(req_queue)
      /\ UNCHANGED <<phase, demanded, response_queue, task_return_queue, id_to_reqs_map,
                     m_mem, transferred>>

\* A write whose end is recognised only if it is the end of a line.
SendWriteLineExactly ==
  /\ phase = "requests"
  /\ req_queue # <<>> /\ FirstReq.req_type = "write"
  /\ transferred' = transferred \cup {<<FirstReq.id, FirstReq.single_addr>>}
  /\ IF FirstReq.single_len = 64
     THEN /\ task_return_queue' = task_return_queue \cup {FirstReq.id}
          /\ req_queue' = Tail(req_queue)
          /\ phase' = "client"
     ELSE /\ req_queue' = [req_queue EXCEPT
               ![1] = set_addr(FirstReq, FirstReq.single_addr + 64, FirstReq.single_len - 64)]
          /\ UNCHANGED <<task_return_queue, phase>>
  /\ UNCHANGED <<demanded, next_line, out_send_queue, response_queue, maps, m_mem>>

\* A write that is answered with its first line and goes on.
SendWriteLineAnsweredAtOnce ==
  /\ phase = "requests"
  /\ req_queue # <<>> /\ FirstReq.req_type = "write"
  /\ transferred' = transferred \cup {<<FirstReq.id, FirstReq.single_addr>>}
  /\ task_return_queue' = task_return_queue \cup {FirstReq.id}
  /\ IF FirstReq.single_len <= 64
     THEN req_queue' = Tail(req_queue) /\ phase' = "client"
     ELSE /\ req_queue' = [req_queue EXCEPT
               ![1] = set_addr(FirstReq, FirstReq.single_addr + 64, FirstReq.single_len - 64)]
          /\ UNCHANGED phase
  /\ UNCHANGED <<demanded, next_line, out_send_queue, response_queue, maps, m_mem>>

(***************************************************************************)
(* A write goes to the DRAM at once, a line at a time, each time with      *)
(* set_addr() for the rest.  After its last line, and whenever the DRAM    *)
(* has no room, cycle() returns without having looked at anything else.    *)
(***************************************************************************)
SendWriteLine ==
  /\ phase = "requests"
  /\ req_queue # <<>> /\ FirstReq.req_type = "write"
  /\ transferred' = transferred \cup {<<FirstReq.id, FirstReq.single_addr>>}
  /\ IF FirstReq.single_len <= 64
     THEN /\ task_return_queue' = task_return_queue \cup {FirstReq.id}
          /\ req_queue' = Tail(req_queue)
          /\ phase' = "client"
     ELSE /\ req_queue' = [req_queue EXCEPT
               ![1] = set_addr(FirstReq, FirstReq.single_addr + 64, FirstReq.single_len - 64)]
          /\ UNCHANGED <<task_return_queue, phase>>
  /\ UNCHANGED <<demanded, next_line, out_send_queue, response_queue, maps, m_mem>>

WriteWaits ==
  /\ phase = "requests"
  /\ req_queue # <<>> /\ FirstReq.req_type = "write"
  /\ phase' = "client"
  /\ UNCHANGED <<demanded, req_queue, next_line, out_send_queue, response_queue,
                 task_return_queue, maps, m_mem, transferred>>

RequestsDone ==
  /\ phase = "requests"
  /\ req_queue = <<>>
  /\ phase' = "responses"
  /\ UNCHANGED <<demanded, req_queue, next_line, out_send_queue, response_queue,
                 task_return_queue, maps, m_mem, transferred>>
-----------------------------------------------------------------------------
(***************************************************************************)
(* The loop over response_queue, with receive_req(): the line is taken off *)
(* every read that waits for it, and the reads it was the last line of are *)
(* done.                                                                   *)
(***************************************************************************)
Waiting(line) == {pair[2] : pair \in {p \in addr_to_req_map : p[1] = line}}

\* receive_req() that takes every read that waits for the line for done.
FinishedWithOthersMissing(line) == Waiting(line)

\* The reads that wait for this line and for no other.
Finished(line) ==
  {id \in Waiting(line) : \A pair \in req_id_to_addr_map : pair[1] = id => pair[2] = line}

\* receive_req() that does not retire the line.
HandleResponseKeepingLine ==
  LET line == Head(response_queue)
  IN  /\ phase = "responses"
      /\ response_queue # <<>>
      /\ response_queue' = Tail(response_queue)
      /\ task_return_queue' = task_return_queue \cup Finished(line)
      /\ id_to_reqs_map' = id_to_reqs_map \ Finished(line)
      /\ req_id_to_addr_map' =
           req_id_to_addr_map \ {<<id, line>> : id \in Waiting(line)}
      /\ transferred' = transferred \cup {<<id, line>> : id \in Waiting(line)}
      /\ UNCHANGED <<phase, demanded, req_queue, next_line, out_send_queue,
                     addr_to_req_map, m_mem>>

HandleResponse ==
  LET line == Head(response_queue)
  IN  /\ phase = "responses"
      /\ response_queue # <<>>
      /\ response_queue' = Tail(response_queue)
      /\ task_return_queue' = task_return_queue \cup Finished(line)
      /\ id_to_reqs_map' = id_to_reqs_map \ Finished(line)
      /\ req_id_to_addr_map' =
           req_id_to_addr_map \ {<<id, line>> : id \in Waiting(line)}
      /\ addr_to_req_map' = {pair \in addr_to_req_map : pair[1] # line}
      /\ transferred' = transferred \cup {<<id, line>> : id \in Waiting(line)}
      /\ UNCHANGED <<phase, demanded, req_queue, next_line, out_send_queue, m_mem>>

ResponsesDone ==
  /\ phase = "responses"
  /\ response_queue = <<>>
  /\ phase' = "to dram"
  /\ UNCHANGED <<demanded, req_queue, next_line, out_send_queue, response_queue,
                 task_return_queue, maps, m_mem, transferred>>
-----------------------------------------------------------------------------
(***************************************************************************)
(* The loop over out_send_queue, which ends when the DRAM has no room for  *)
(* the line at the front, and the one that collects what the DRAM has.     *)
(***************************************************************************)
SendLine ==
  /\ phase = "to dram"
  /\ out_send_queue # <<>>
  /\ dram' = dram \cup {Head(out_send_queue)}
  /\ out_send_queue' = Tail(out_send_queue)
  /\ UNCHANGED <<phase, demanded, req_queue, next_line, response_queue,
                 task_return_queue, maps, dram_return, transferred>>

\* The DRAM's answers are collected, and cycle() returns.
EndCycle ==
  /\ phase = "to dram"
  /\ response_queue' = response_queue \o dram_return
  /\ dram_return' = <<>>
  /\ phase' = "client"
  /\ UNCHANGED <<demanded, req_queue, next_line, out_send_queue, task_return_queue,
                 maps, dram, transferred>>
-----------------------------------------------------------------------------
Next ==
  \/ \E d \in Demands : send(d)
  \/ \E id \in task_return_queue : get_req(id)
  \/ StartCycle
  \/ \E line \in dram : DramAnswers(line)
  \/ DramDone
  \/ send_reqs \/ SendWriteLine \/ WriteWaits \/ RequestsDone
  \/ HandleResponse \/ ResponsesDone
  \/ SendLine \/ EndCycle

Spec == Init /\ [][Next]_memory

(***************************************************************************)
(* cycle() is called for ever and returns.  The DRAM has room for a line   *)
(* again and again, and completes every read.                              *)
(***************************************************************************)
FairSpec == /\ Spec
            /\ WF_memory(Next)
            /\ SF_memory(\E line \in dram : DramAnswers(line))
            /\ SF_memory(SendWriteLine) /\ SF_memory(SendLine)
=============================================================================
