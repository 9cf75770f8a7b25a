------------------------------- MODULE MCMemory -------------------------------
(***************************************************************************)
(* Instances of the memory interface for TLC.                              *)
(***************************************************************************)
EXTENDS MemoryProperties

Nodes(id, addrs)      == [id |-> id, req_type |-> "read", addrs |-> addrs, start |-> 0, len |-> 0]
Edges(id, start, len) == [id |-> id, req_type |-> "read", addrs |-> <<>>, start |-> start, len |-> len]
Column(id, start, len) == [id |-> id, req_type |-> "write", addrs |-> <<>>, start |-> start, len |-> len]

(***************************************************************************)
(* Two windows that share a node, one of them with two addresses in one    *)
(* line, an edge range that ends in the same line, and a write of several  *)
(* lines: as many as the accelerator ever has outstanding, but for one.    *)
(***************************************************************************)
SharedLines == { Nodes(1, <<4096, 4160>>), Nodes(2, <<4164, 4190, 4224>>),
                 Edges(3, 4100, 40), Column(4, 4224, 150) }

\* An edge range that begins in the last word of a line, and a one-line write.
OddRanges == { Edges(1, 252, 8), Column(2, 3968, 64) }
=============================================================================
