---------------------------- MODULE BloomPolicy ----------------------------
(***************************************************************************)
(* __setup_bloom_short_long: as the outer policy, but an output goes to    *)
(* the short queue, served first, when the bloom filter says that it has   *)
(* more than `divider' inputs in common with the outputs read before it.   *)
(* The divider follows the lengths of the two queues.                      *)
(***************************************************************************)
EXTENDS OuterPolicy, BloomFilter

VARIABLE divider

bloomVars == <<counters, zero_deleted, divider>>
allVars == <<vars, bloomVars>>

BloomInit ==
    /\ Init
    /\ counters = ZeroCounters(conf.bloom_entries)
    /\ zero_deleted = FALSE
    /\ divider = conf.divider

\* The divider may fall to zero.
NewDividerUnbounded ==
    CASE ~conf.dynamic                          -> divider
      [] conf.dynamic /\ Len(short) > Len(long) -> divider + 1
      [] OTHER                                  -> divider - 1

\* A longer short queue makes it harder to get in.
NewDivider ==
    CASE ~conf.dynamic                          -> divider
      [] conf.dynamic /\ Len(short) > Len(long) -> divider + 1
      [] OTHER -> IF divider = 1 THEN 1 ELSE divider - 1

EnqueueScored ==
    /\ Filling
    /\ OuterHasRoom
    /\ i < NumOutputs
    /\ divider' = NewDivider
    /\ IF Query(array[i]) > divider'
       THEN short' = Append(short, i) /\ UNCHANGED long
       ELSE long' = Append(long, i) /\ UNCHANGED short
    /\ Insert(array[i])
    /\ i' = i + 1
    /\ UNCHANGED <<windowVars, current, pc, zero_deleted>>

\* The filter forgets an input once for every output that shares it, but not
\* for the selected output it was popped from.
TakeScored ==
    /\ pc = "take"
    /\ \E x \in working_set[Selected] :
          /\ PopInput(x)
          /\ Delete(x, Cardinality(Sharing(x, Selected, Members(current))))
    /\ UNCHANGED <<short, long, divider>>

BloomNext ==
    \/ EnqueueScored
    \/ TakeScored
    \/ /\ EnqueueDone \/ MoveOutput \/ FillDone \/ FillSpins
       /\ UNCHANGED bloomVars
    \/ /\ BeginWindow \/ SkipEmpty \/ SkipDone
       /\ UNCHANGED bloomVars
    \/ /\ DropFinished \/ KeepSelected \/ CloseWindow
       /\ UNCHANGED bloomVars

BloomSpec == BloomInit /\ [][BloomNext]_allVars /\ WF_allVars(BloomNext)
=============================================================================
