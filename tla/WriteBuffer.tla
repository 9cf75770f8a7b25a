----------------------------- MODULE WriteBuffer -----------------------------
(***************************************************************************)
(* WriteBuffer: the double buffer behind the systolic array.  One column   *)
(* is written into it while the one before is written back to memory.  The *)
(* code changes most flags with r(flag), which flips them.                 *)
(***************************************************************************)
EXTENDS Requests

VARIABLE output_buffer

WriteBufferState ==
  [to_buffer : [empty : BOOLEAN, started : BOOLEAN, finished : BOOLEAN,
                req : Req \cup {NoReq}],
   to_memory : [empty : BOOLEAN, started : BOOLEAN, req : Req \cup {NoReq}]]

Constructed == output_buffer =
  [to_buffer |-> [empty |-> TRUE, started |-> FALSE, finished |-> FALSE, req |-> NoReq],
   to_memory |-> [empty |-> TRUE, started |-> FALSE, req |-> NoReq]]
-----------------------------------------------------------------------------
(***************************************************************************)
(* cycle(): a column that is complete moves on once the one before is in   *)
(* memory.                                                                 *)
(***************************************************************************)
MustMove == output_buffer.to_buffer.finished /\ output_buffer.to_memory.empty

CycleAssert == MustMove => /\ ~output_buffer.to_memory.started
                           /\ output_buffer.to_buffer.started
                           /\ ~output_buffer.to_buffer.empty

MoveToMemory == [output_buffer EXCEPT
  !.to_memory.empty    = ~@,
  !.to_buffer.empty    = ~@,
  !.to_buffer.started  = ~@,
  !.to_buffer.finished = ~@,
  !.to_memory.req      = output_buffer.to_buffer.req,
  !.to_buffer.req      = NoReq]

\* cycle() that takes a column whose write back has been requested for done.
CycleNotWaiting ==
  output_buffer' = IF output_buffer.to_buffer.finished
                      /\ (output_buffer.to_memory.empty \/ output_buffer.to_memory.started)
                   THEN MoveToMemory ELSE output_buffer

Cycle == output_buffer' = IF MustMove THEN MoveToMemory ELSE output_buffer
-----------------------------------------------------------------------------
\* The systolic array's side.
StartWriteToBufferAssert ==
  /\ output_buffer.to_buffer.empty
  /\ ~output_buffer.to_buffer.started /\ ~output_buffer.to_buffer.finished
StartWriteToBuffer(req) ==
  output_buffer' = [output_buffer EXCEPT !.to_buffer.empty   = ~@,
                                         !.to_buffer.started = ~@,
                                         !.to_buffer.req     = req]

FinishedWriteToBufferAssert ==
  /\ output_buffer.to_buffer.req # NoReq /\ ~output_buffer.to_buffer.empty
  /\ output_buffer.to_buffer.started /\ ~output_buffer.to_buffer.finished
FinishedWriteToBuffer ==
  output_buffer' = [output_buffer EXCEPT !.to_buffer.finished = ~@]

\* The system's side: popWriteToMemReq() and finished_write_memory().
\* The two flags of the write back, mixed up.
WriteUnsentMixedUp == output_buffer.to_memory.started /\ ~output_buffer.to_memory.empty
WriteUnsent == ~output_buffer.to_memory.empty /\ ~output_buffer.to_memory.started

StartWriteMemoryAssert == WriteUnsent /\ output_buffer.to_memory.req # NoReq
StartWriteMemory ==
  output_buffer' = [output_buffer EXCEPT !.to_memory.started = ~@]

FinishedWriteMemoryAssert ==
  /\ ~output_buffer.to_memory.empty /\ output_buffer.to_memory.started
  /\ output_buffer.to_memory.req # NoReq
FinishedWriteMemory ==
  output_buffer' = [output_buffer EXCEPT !.to_memory.empty   = ~@,
                                         !.to_memory.started = ~@,
                                         !.to_memory.req     = NoReq]
=============================================================================
