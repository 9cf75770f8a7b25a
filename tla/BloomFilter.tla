---------------------------- MODULE BloomFilter ----------------------------
(***************************************************************************)
(* class BloomFilter: counters indexed by two hashes of an input.          *)
(***************************************************************************)
EXTENDS Integers, FiniteSets, FiniteSetsExt

VARIABLES counters,     \* BloomFilter.array
          zero_deleted  \* "error , it's zero!!" was printed

Slots == DOMAIN counters

ZeroCounters(entries) == [h \in 0 .. entries - 1 |-> 0]

Hash1(x) == x % Cardinality(Slots)

\* 0x12323123
Hash2(x) == (x * 305279267) % Cardinality(Slots)

\* How often input x counts in slot h.
Hits(x, h) == Cardinality({k \in {1, 2} : (IF k = 1 THEN Hash1(x) ELSE Hash2(x)) = h})

\* Only the first hash is counted.
InsertOnce(inputs) ==
    counters' = [h \in Slots |-> counters[h] + Cardinality({x \in inputs : Hash1(x) = h})]

Insert(inputs) ==
    counters' = [h \in Slots |-> counters[h] +
                    MapThenSumSet(LAMBDA x : Hits(x, h), inputs)]

\* delete([x]), called `times' times.  A counter that is zero stays zero.
Delete(x, times) ==
    /\ counters' = [h \in Slots |->
                      LET left == counters[h] - times * Hits(x, h)
                      IN  IF left > 0 THEN left ELSE 0]
    /\ zero_deleted' = (zero_deleted \/ \E h \in Slots : counters[h] < times * Hits(x, h))

Query(inputs) ==
    MapThenSumSet(LAMBDA x : counters[Hash1(x)] + counters[Hash2(x)], inputs)
=============================================================================
