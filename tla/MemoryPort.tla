----------------------------- MODULE MemoryPort -----------------------------
(***************************************************************************)
(* What the accelerator relies on in the memory, whatever happens behind   *)
(* its port: a request that was sent is finished once, at any time and in  *)
(* any order, several of them together if it so happens, and its answer is *)
(* there to be taken once.  Requests are known by their ids.               *)
(***************************************************************************)
VARIABLES pending,       \* sent and not finished
          returned       \* finished and not taken

Init == pending = {} /\ returned = {}

Send == \E id \in pending' \ (pending \cup returned) :
           pending' = pending \cup {id} /\ UNCHANGED returned

Finish == /\ pending' \subseteq pending
          /\ pending' # pending
          /\ returned' = returned \cup (pending \ pending')

Take == \E id \in returned :
           returned' = returned \ {id} /\ UNCHANGED pending

Next == Send \/ Finish \/ Take

Spec == Init /\ [][Next]_<<pending, returned>>
=============================================================================
