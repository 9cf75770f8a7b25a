----------------------------- MODULE MCScripts -----------------------------
EXTENDS Scripts, TLC

TwoGraphs == <<"g1", "g2">>
OneLarge == <<"g1">>
ThreeGraphs == <<"g1", "g2", "lost">>
SomeBuffers == <<1, 2>>
SomeDividers == <<2, 4>>

\* g1 and g2 have a file, "lost" has none.
Present == {"g1", "g2"}

DataFiles == <<"d1", "d2">>

\* Frames that fit exactly, that leave a rest on either side or on both, the
\* example of the file, and no row at all.
SomeArgs ==
    [systolic_x : 1 .. 3, systolic_y : 1 .. 3, input_x : 0 .. 7, input_y : {2},
     weight_y : 1 .. 7, cycle_to_write_back_all_output : {0, 5}]
    \cup
    {[systolic_x |-> 2, systolic_y |-> 3, input_x |-> 3, input_y |-> 100, weight_y |-> 4,
      cycle_to_write_back_all_output |-> 0]}
=============================================================================
