--------------------------- MODULE NeighborPolicy ---------------------------
(***************************************************************************)
(* __setup_bloom_and_neighbor_short_long: outputs are scored as in the     *)
(* bloom policy, but the working queue is a set: after an output is done,  *)
(* the one that shared most inputs in this window comes next.              *)
(*                                                                         *)
(* next(iter(..)) of a set, and the order of equal scores in a dictionary, *)
(* depend on the hash table: the model leaves the choice open.             *)
(***************************************************************************)
EXTENDS WindowBase, BloomFilter

VARIABLES current_output_set,
          next_select_item,
          next_waiting_set,   \* output -> how often it shared an input
          short, long, divider, i, pc

vars == <<windowVars, counters, zero_deleted, divider, short, long, i, pc,
          current_output_set, next_select_item, next_waiting_set>>

filterVars == <<counters, zero_deleted, divider>>
queueVars == <<short, long, i>>

Init ==
    /\ working_set = array
    /\ window = EmptyWindow
    /\ plan = EmptyWindow
    /\ counters = ZeroCounters(conf.bloom_entries)
    /\ zero_deleted = FALSE
    /\ divider = conf.divider
    /\ short = <<>>
    /\ long = <<>>
    /\ i = 0
    /\ pc = "setup_outer"
    /\ current_output_set = {}
    /\ next_select_item = -1
    /\ next_waiting_set = <<>>

HasRoom == Cardinality(current_output_set) < conf.max_output_num

\* The loops over the two outer queues are those of the bloom policy.
Bloom == INSTANCE BloomPolicy WITH current <- <<>>

EnqueueOutput ==
    /\ Bloom!EnqueueScored
    /\ UNCHANGED <<current_output_set, next_select_item, next_waiting_set>>

EnqueueDone ==
    /\ Bloom!EnqueueDone
    /\ UNCHANGED <<filterVars, current_output_set, next_select_item, next_waiting_set>>

AddOutput(queue) ==
    /\ pc \in {"setup", "fill"}
    /\ HasRoom
    /\ queue # <<>>
    /\ current_output_set' = current_output_set \cup {Head(queue)}

MoveOutput ==
    /\ \/ AddOutput(short) /\ short' = Tail(short) /\ UNCHANGED long
       \/ short = <<>> /\ AddOutput(long) /\ long' = Tail(long) /\ UNCHANGED short
    /\ UNCHANGED <<windowVars, filterVars, i, pc, next_select_item, next_waiting_set>>

FillDone ==
    /\ \/ pc \in {"setup", "fill"} /\ ~HasRoom
       \/ pc = "fill" /\ HasRoom /\ Bloom!OuterEmpty
    /\ pc' = IF current_output_set = {} THEN "done" ELSE "open"
    /\ UNCHANGED <<windowVars, filterVars, queueVars, current_output_set,
                   next_select_item, next_waiting_set>>

FillSpins ==
    /\ pc = "setup"
    /\ HasRoom
    /\ Bloom!OuterEmpty
    /\ UNCHANGED vars

\* The window goes on with the output the last one stopped at, unless that is
\* output 0 or has left the working set.
BeginWindow ==
    /\ pc = "open"
    /\ IF next_select_item > 0 /\ next_select_item \in current_output_set
       THEN UNCHANGED next_select_item
       ELSE next_select_item' \in current_output_set
    /\ window' = FreshWindow(current_output_set, Cardinality(current_output_set))
    /\ pc' = "skip"
    /\ UNCHANGED <<graphVars, working_set, plan, filterVars, queueVars,
                   current_output_set, next_waiting_set>>

SkipEmpty ==
    /\ pc = "skip"
    /\ working_set[next_select_item] = {}
    /\ current_output_set' = current_output_set \ {next_select_item}
    /\ IF current_output_set' = {}
       THEN pc' = "outer" /\ window' = EmptyWindow /\ UNCHANGED next_select_item
       ELSE next_select_item' \in current_output_set' /\ UNCHANGED <<pc, window>>
    /\ UNCHANGED <<graphVars, working_set, plan, filterVars, queueVars, next_waiting_set>>

SkipDone ==
    /\ pc = "skip"
    /\ working_set[next_select_item] # {}
    /\ next_waiting_set' = <<>>
    /\ pc' = "take"
    /\ UNCHANGED <<windowVars, filterVars, queueVars, current_output_set, next_select_item>>

\* One more shared input for each of the outputs.
Touch(outputs) ==
    [o \in DOMAIN next_waiting_set \cup outputs |->
        (IF o \in DOMAIN next_waiting_set THEN next_waiting_set[o] ELSE 0)
        + (IF o \in outputs THEN 1 ELSE 0)]

TakeInput ==
    /\ pc = "take"
    /\ window.input_num < conf.max_input_num
    /\ \E x \in working_set[next_select_item] :
          LET sharing == Sharing(x, next_select_item, current_output_set)
          IN  /\ Take(x, next_select_item, current_output_set)
              /\ next_waiting_set' = Touch(sharing)
              /\ Delete(x, Cardinality(sharing))
    /\ pc' = "drop"
    /\ UNCHANGED <<graphVars, plan, queueVars, divider, current_output_set, next_select_item>>

\* find_max_in_dict
MaxInDict(dict) == {o \in DOMAIN dict : \A p \in DOMAIN dict : dict[p] <= dict[o]}

\* The selected output stays in the dictionary.
DropFinishedKeepingScore ==
    /\ pc = "drop"
    /\ working_set[next_select_item] = {}
    /\ next_select_item \in current_output_set
    /\ current_output_set' = current_output_set \ {next_select_item}
    /\ IF current_output_set' = {}
       THEN pc' = "close" /\ UNCHANGED next_select_item
       ELSE /\ UNCHANGED pc
            /\ next_select_item' \in IF DOMAIN next_waiting_set = {} THEN current_output_set'
                                     ELSE MaxInDict(next_waiting_set)
    /\ UNCHANGED <<windowVars, filterVars, queueVars, next_waiting_set>>

\* current_output_set.remove raises KeyError unless the item is in the set.
DropFinished ==
    /\ pc = "drop"
    /\ working_set[next_select_item] = {}
    /\ next_select_item \in current_output_set
    /\ current_output_set' = current_output_set \ {next_select_item}
    /\ IF current_output_set' = {}
       THEN pc' = "close" /\ UNCHANGED <<next_select_item, next_waiting_set>>
       ELSE /\ UNCHANGED pc
            /\ IF DOMAIN next_waiting_set = {}
               THEN /\ next_select_item' \in current_output_set'
                    /\ UNCHANGED next_waiting_set
               ELSE \E o \in MaxInDict(next_waiting_set) :
                       /\ next_select_item' = o
                       /\ next_waiting_set' =
                             [p \in DOMAIN next_waiting_set \ {o} |-> next_waiting_set[p]]
    /\ UNCHANGED <<windowVars, filterVars, queueVars>>

KeepSelected ==
    /\ pc = "drop"
    /\ working_set[next_select_item] # {}
    /\ pc' = "take"
    /\ UNCHANGED <<windowVars, filterVars, queueVars, current_output_set,
                   next_select_item, next_waiting_set>>

CloseWindow ==
    /\ \/ pc = "close"
       \/ pc = "take" /\ window.input_num >= conf.max_input_num
    /\ AppendWindow
    /\ next_waiting_set' = <<>>
    /\ pc' = "outer"
    /\ UNCHANGED <<graphVars, working_set, filterVars, queueVars, current_output_set,
                   next_select_item>>

Next ==
    \/ EnqueueOutput
    \/ EnqueueDone
    \/ MoveOutput
    \/ FillDone
    \/ FillSpins
    \/ BeginWindow
    \/ SkipEmpty
    \/ SkipDone
    \/ TakeInput
    \/ DropFinished
    \/ KeepSelected
    \/ CloseWindow

Spec == Init /\ [][Next]_vars /\ WF_vars(Next)

-----------------------------------------------------------------------------
BuilderPhase ==
    CASE pc \in {"skip", "take", "drop", "close"} -> "window"
      [] pc = "done"                              -> "done"
      [] OTHER                                    -> "fill"

Builder == INSTANCE WindowBuilder
    WITH waiting <- (i .. NumOutputs - 1) \cup Members(short) \cup Members(long),
         current <- current_output_set,
         phase   <- BuilderPhase
=============================================================================
