-------------------------- MODULE MemoryProperties --------------------------
(***************************************************************************)
(* What the memory interface is expected to satisfy.                       *)
(***************************************************************************)
EXTENDS MemoryInterface

Ids == {d.id : d \in Demands}
DemandOf(id) == CHOOSE d \in Demands : d.id = id
QueuedIds == {req.id : req \in ToSet(req_queue)}
LinesUnderWay == ToSet(out_send_queue) \cup dram \cup ToSet(dram_return) \cup ToSet(response_queue)

TypeOK ==
  /\ phase \in {"client", "dram", "requests", "responses", "to dram"}
  /\ demanded \subseteq Ids
  /\ req_queue \in Seq(Req)
  /\ next_line \in Nat \ {0}
  /\ out_send_queue \in Seq(Nat)
  /\ response_queue \in Seq(Nat)
  /\ task_return_queue \subseteq Ids
  /\ id_to_reqs_map \subseteq Ids
  /\ addr_to_req_map \subseteq Nat \X Ids
  /\ req_id_to_addr_map \subseteq Ids \X Nat
  /\ dram \subseteq Nat
  /\ dram_return \in Seq(Nat)
  /\ transferred \subseteq Ids \X Nat

(***************************************************************************)
(* A request is sent to the memory and answered exactly once, whatever it  *)
(* shares with others: the interface implements the port that the          *)
(* accelerator is modelled with.  Reads are pending while id_to_reqs_map   *)
(* has them, writes while they are in req_queue.                           *)
(***************************************************************************)
PendingIds == id_to_reqs_map \cup QueuedIds
IsPending(id) == id \in PendingIds

port == INSTANCE MemoryPort WITH pending <- PendingIds, returned <- task_return_queue

ImplementsMemoryPort == port!Spec

(***************************************************************************)
(* A line that reads wait for is under way in exactly one place, once, and *)
(* no other line is: sharing a line neither fetches it twice, which would  *)
(* complete a later read too early, nor loses it.                          *)
(***************************************************************************)
UnderWayOnce ==
  /\ IsInjective(out_send_queue) /\ IsInjective(dram_return) /\ IsInjective(response_queue)
  /\ ToSet(out_send_queue) \cap (dram \cup ToSet(dram_return) \cup ToSet(response_queue)) = {}
  /\ dram \cap (ToSet(dram_return) \cup ToSet(response_queue)) = {}
  /\ ToSet(dram_return) \cap ToSet(response_queue) = {}

EachAwaitedLineUnderWayOnce ==
  /\ \A line \in LinesUnderWay : IsAwaited(line)
  /\ \A pair \in addr_to_req_map : pair[1] \in LinesUnderWay
  /\ UnderWayOnce

Turned(pairs) == {<<pair[2], pair[1]>> : pair \in pairs}

(***************************************************************************)
(* The two maps say the same of who waits for what, and whoever waits is   *)
(* known: the look-up id_to_reqs_map.at() cannot throw.                    *)
(***************************************************************************)
MapsAgree ==
  /\ req_id_to_addr_map = Turned(addr_to_req_map)
  /\ \A pair \in req_id_to_addr_map : pair[1] \in id_to_reqs_map

(***************************************************************************)
(* A read is done exactly when each line it was cut into has come from     *)
(* memory, also if its last lines were fetched for others.  A write is     *)
(* done only when lines that follow one another from its first on, without *)
(* a gap and with room for all its bytes, have gone there.  (Which line    *)
(* should be the last is the subject of TransfersItsRange below.)          *)
(***************************************************************************)
TransferredLines(id) == {pair[2] : pair \in {p \in transferred : p[1] = id}}

Consecutive(first, lines) ==
  first \in lines /\ \A line \in lines : line = first \/ line - 64 \in lines

RoomFor(d, lines) ==
  /\ Consecutive(LineOf(d.start), lines)
  /\ \E line \in lines : line + 64 >= LineOf(d.start) + d.len

DoneWhenTransferred ==
  \A id \in demanded :
    LET d == DemandOf(id)
        wanted == ToSet(LinesOf(NewReq(d)))
    IN  /\ d.req_type = "read" => (~IsPending(id) <=> TransferredLines(id) = wanted)
        /\ d.req_type = "write" /\ ~IsPending(id) => RoomFor(d, TransferredLines(id))

\* Every request is done at some time, also the reads behind a write that waits.
EveryRequestIsDone == \A id \in Ids : IsPending(id) ~> ~IsPending(id)
-----------------------------------------------------------------------------
(***************************************************************************)
(* types.h:44 says that with what is added to the length "the start+len    *)
(* should be identical to the original one!": a request that is done has   *)
(* transferred the lines its bytes lie in, and no others.                  *)
(***************************************************************************)
LinesOfRange(start, len) ==
  {64 * k : k \in start \div 64 .. (start + len - 1) \div 64}

TransfersItsRange ==
  \A d \in Demands :
    d.addrs = <<>> /\ d.id \in demanded /\ ~IsPending(d.id) =>
      TransferredLines(d.id) = LinesOfRange(d.start, d.len)
-----------------------------------------------------------------------------
(***************************************************************************)
(* The inductive invariant behind the properties of the memory interface.  *)
(***************************************************************************)

(***************************************************************************)
(* Everything in req_queue was sent, once, and is not answered; the reads  *)
(* of it are those with an entry in id_to_reqs_map.                        *)
(***************************************************************************)
QueuedOnce ==
  \A i, j \in DOMAIN req_queue : req_queue[i].id = req_queue[j].id => i = j

Queued ==
  \A i \in DOMAIN req_queue :
     /\ req_queue[i].id \in demanded \ task_return_queue
     /\ req_queue[i].req_type = "read" <=> req_queue[i].id \in id_to_reqs_map
     /\ req_queue[i].req_type = "read" => LinesOf(req_queue[i]) \in Seq(Nat) \ {<<>>}

\* A read is cut into lines without a break: only the loop over req_queue sees it half cut.
Cutting ==
  /\ next_line # 1 => /\ phase = "requests"
                      /\ req_queue # <<>> /\ FirstReq.req_type = "read"
                      /\ next_line <= Len(LinesOf(FirstReq))
  /\ phase \in {"responses", "to dram"} => req_queue = <<>>

\* What is pending was sent and is not answered.
Pending ==
  /\ id_to_reqs_map \subseteq demanded
  /\ task_return_queue \subseteq demanded
  /\ id_to_reqs_map \cap task_return_queue = {}

\* All of this together is inductive by itself.
QueuesInvariant ==
  /\ TypeOK
  /\ QueuedOnce /\ Queued /\ Cutting /\ Pending
  /\ MapsAgree
  /\ EachAwaitedLineUnderWayOnce
-----------------------------------------------------------------------------
(***************************************************************************)
(* What a queued request has kept of the demand it was made for: a read    *)
(* all of it, a write its kind.                                            *)
(***************************************************************************)
FromDemand(req, d) == /\ req.req_type = d.req_type
                      /\ d.req_type = "read" => req = NewReq(d)

KeptDemands ==
  \A i \in DOMAIN req_queue, d \in Demands :
     req_queue[i].id = d.id => FromDemand(req_queue[i], d)

(***************************************************************************)
(* The lines that were cut off a read so far: all of them once it has left *)
(* the queue, none before it is at the front.                              *)
(***************************************************************************)
CutOff(d) ==
  LET lines == LinesOf(NewReq(d))
      count == IF d.id \notin QueuedIds THEN Len(lines)
               ELSE IF FirstReq.id = d.id THEN next_line - 1 ELSE 0
  IN  {lines[k] : k \in 1 .. count}

AwaitedLines(id) == {pair[2] : pair \in {p \in req_id_to_addr_map : p[1] = id}}

(***************************************************************************)
(* Each line cut off a read is awaited or has come.  None comes before all *)
(* are cut off, and a read that is not done waits for one.                 *)
(***************************************************************************)
LinesAccounted(d) ==
  /\ AwaitedLines(d.id) \cup TransferredLines(d.id) = CutOff(d)
  /\ AwaitedLines(d.id) \cap TransferredLines(d.id) = {}
  /\ d.id \in QueuedIds => TransferredLines(d.id) = {}
  /\ d.id \in id_to_reqs_map \ QueuedIds => AwaitedLines(d.id) # {}

(***************************************************************************)
(* A write in the queue still holds what its lines have no room for, from  *)
(* the line on that follows one that has gone; no read waits in its name.  *)
(***************************************************************************)
Remains(req, d, lines) ==
  LET first == LineOf(d.start)
  IN  /\ req.single_addr % 64 = 0
      /\ req.single_addr + req.single_len >= first + d.len
      /\ \/ lines = {} /\ req.single_addr = first
         \/ Consecutive(first, lines) /\ req.single_addr - 64 \in lines

WriteAccounted(d) ==
  /\ d.id \notin id_to_reqs_map
  /\ \A i \in DOMAIN req_queue :
       req_queue[i].id = d.id => Remains(req_queue[i], d, TransferredLines(d.id))
  /\ d.id \notin QueuedIds => RoomFor(d, TransferredLines(d.id))

TransfersInvariant ==
  /\ KeptDemands
  /\ \A pair \in transferred : pair[1] \in demanded
  /\ \A d \in Demands : d.id \in demanded /\ d.req_type = "read" => LinesAccounted(d)
  /\ \A d \in Demands : d.id \in demanded /\ d.req_type = "write" => WriteAccounted(d)

MemoryIndInv == QueuesInvariant /\ TransfersInvariant
=============================================================================
