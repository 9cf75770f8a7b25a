----------------------------- MODULE ReadBuffer -----------------------------
(***************************************************************************)
(* A double buffer that reads ahead: ReadBuffer with its two subclasses.   *)
(* InputBuffer holds the input features of one window and prefetches the   *)
(* next one; EdgeBuffer holds the edges of one column and prefetches the   *)
(* next column.  "empty" means that a slot has nothing assigned to load,   *)
(* "sent" that the request has gone out, "ready" that the data is there.   *)
(***************************************************************************)
EXTENDS Requests

VARIABLE buffer

Slot == [window : Index \cup {end},     \* m_current_iter, m_next_iter
         empty  : BOOLEAN,
         sent   : BOOLEAN,
         ready  : BOOLEAN,
         req    : Req \cup {NoReq}]     \* current_req, next_req

ReadBufferState == [current : Slot, next : Slot,
                    start_cycle_map : SUBSET Nat]   \* its keys: request ids

\* Both constructors start the prefetch at the second window, std::next(begin).
ConstructedSlot(w) == [window |-> w, empty |-> FALSE, sent |-> FALSE,
                       ready |-> FALSE, req |-> NoReq]
Constructed == buffer = [current |-> ConstructedSlot(1), next |-> ConstructedSlot(2),
                         start_cycle_map |-> {}]
-----------------------------------------------------------------------------
(***************************************************************************)
(* cycle(): when the current slot has been consumed, the next slot takes   *)
(* its place, and the next slot goes on to window w.  At the end of the    *)
(* windows only next_empty is set: the other flags keep what was moved.    *)
(***************************************************************************)
\* The end of the windows is not noticed.
AdvancedPastEnd(slot, w) ==
  [slot EXCEPT !.window = w, !.empty = FALSE, !.sent = FALSE, !.ready = FALSE]

AdvancedTo(slot, w) ==
  IF w # end
  THEN [slot EXCEPT !.window = w, !.empty = FALSE, !.sent = FALSE, !.ready = FALSE]
  ELSE [slot EXCEPT !.window = w, !.empty = TRUE]

MustMove == buffer.current.empty /\ ~buffer.next.empty

\* InputBuffer::cycle(), without the assignment current_req = next_req.
InputCycleKeepsOldReq ==
  IF MustMove
  THEN buffer' = [buffer EXCEPT
         !.current = [buffer.next EXCEPT !.req = buffer.current.req],
         !.next    = AdvancedTo(buffer.next, buffer.next.window + 1)]
  ELSE UNCHANGED buffer

\* InputBuffer::cycle() that forgets that the request is on its way.
InputCycleResending ==
  IF MustMove
  THEN buffer' = [buffer EXCEPT
         !.current = [buffer.next EXCEPT !.sent = buffer.next.ready],
         !.next    = AdvancedTo(buffer.next, buffer.next.window + 1)]
  ELSE UNCHANGED buffer

InputCycle ==
  IF MustMove
  THEN buffer' = [buffer EXCEPT
         !.current = buffer.next,
         !.next    = AdvancedTo(buffer.next, buffer.next.window + 1)]
  ELSE UNCHANGED buffer

\* EdgeBuffer::cycle(), prefetching row by row as InputBuffer does.
EdgeCycleByRow ==
  IF MustMove
  THEN buffer' = [buffer EXCEPT
         !.current = [buffer.next EXCEPT !.req = buffer.current.req],
         !.next    = AdvancedTo(buffer.next, buffer.next.window + 1)]
  ELSE UNCHANGED buffer

(***************************************************************************)
(* EdgeBuffer::cycle() moves to the next column, and unlike InputBuffer's  *)
(* it does not take next_req over: current_req stays the request of the    *)
(* column before.                                                          *)
(***************************************************************************)
EdgeCycle ==
  IF MustMove
  THEN buffer' = [buffer EXCEPT
         !.current = [buffer.next EXCEPT !.req = buffer.current.req],
         !.next    = AdvancedTo(buffer.next, find_next_col(buffer.next.window))]
  ELSE UNCHANGED buffer
-----------------------------------------------------------------------------
(***************************************************************************)
(* pop_current() and pop_next() hand a slot's request to the system.  The  *)
(* flags they assert are the ones System::cycle() has just tested.         *)
(***************************************************************************)
CurrentUnsent == ~buffer.current.empty /\ ~buffer.current.sent
NextUnsent    == ~buffer.next.empty    /\ ~buffer.next.sent

PopCurrent(req) ==
  buffer' = [buffer EXCEPT !.current.sent = TRUE, !.current.req = req,
                           !.start_cycle_map = @ \cup {req.id}]

\* The iterator must not be end() when pop_next() dereferences it.
PopNextAssert == buffer.next.window \in Index
PopNext(req) ==
  buffer' = [buffer EXCEPT !.next.sent = TRUE, !.next.req = req,
                           !.start_cycle_map = @ \cup {req.id}]
-----------------------------------------------------------------------------
(***************************************************************************)
(* receive(): the answer belongs to the current slot if that one waits for *)
(* this request, and must belong to the next slot otherwise.               *)
(***************************************************************************)
Awaits(slot, req) == /\ ~slot.empty /\ slot.sent /\ ~slot.ready
                     /\ slot.req # NoReq /\ slot.req.id = req.id

\* The id is compared with that of a slot's request, which must not be null.
ReceiveDereferences ==
  \A slot \in {buffer.current, buffer.next} :
     ~slot.empty /\ slot.sent /\ ~slot.ready => slot.req # NoReq

ReceiveKnowsId(req) == req.id \in buffer.start_cycle_map
ReceiveAssert(req)  == Awaits(buffer.current, req) \/ Awaits(buffer.next, req)

Receive(req) ==
  buffer' = [buffer EXCEPT
    !.start_cycle_map = @ \ {req.id},
    !.current.ready   = @ \/ Awaits(buffer.current, req),
    !.next.ready      = @ \/ ~Awaits(buffer.current, req)]

FinishedCurrentAssert ==
  ~buffer.current.empty /\ buffer.current.sent /\ buffer.current.ready

FinishedCurrent ==
  buffer' = [buffer EXCEPT !.current.empty = TRUE, !.current.sent = FALSE,
                           !.current.ready = FALSE]

\* idle(): what the dead-lock detection takes for having nothing to do.
idle == buffer.current.ready /\ buffer.next.ready
=============================================================================
