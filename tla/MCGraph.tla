------------------------------ MODULE MCGraph ------------------------------
EXTENDS GraphProperties, TLC

BothVersions == {GraphPy, GetGraphPy}
NewVersion == {GraphPy}
OldVersion == {GetGraphPy}

\* Every graph of three lines over three nodes; a blank last line leaves two.
SmallFiles == [1 .. 3 -> SUBSET (0 .. 2)]

\* Graphs of four lines: a hub, a cycle, a chain, two pairs, and graphs with
\* neighbours that are not lines of the file.
LargerFiles ==
    {<<{1, 2, 3}, {0}, {0}, {0}>>, <<{1}, {2}, {3}, {0}>>, <<{}, {0}, {1}, {2}>>,
     <<{1}, {0}, {3}, {2}>>, <<{3, 4}, {5}, {3, 5}, {0}>>, <<{0, 1, 2}, {0, 1, 2}, {2}, {1, 2}>>}

DanglingFiles == {<<{3}, {3}, {1}>>, <<{4, 5}, {}, {0, 4}>>}

AllFiles == SmallFiles \cup LargerFiles \cup DanglingFiles

Setup(in, out, div, queue, dyn, entries) ==
    [max_input_num |-> in, max_output_num |-> out, divider |-> div,
     max_queue_size |-> queue, dynamic |-> dyn, bloom_entries |-> entries]

\* Columns and working queues of one, two and all outputs; windows of one
\* input and of more than an output has; outer queues with room for one output
\* less than the file and for all.  With 2 entries the two hashes are the same.
AllSetups ==
    {Setup(1, 2, 1, 2, TRUE, 3), Setup(2, 2, 2, 3, FALSE, 2), Setup(2, 1, 1, 1, TRUE, 5),
     Setup(3, 3, 2, 3, TRUE, 2)}
=============================================================================
