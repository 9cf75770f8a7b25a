--------------------------- MODULE SystolicCycle ---------------------------
(***************************************************************************)
(* calculate_systolic_cycle: the cycles a systolic array needs to multiply *)
(* a matrix of input_x rows by one of weight_y columns.  The product is    *)
(* cut into frames of the size of the array; st counts the full rows of    *)
(* frames, est the full frames of a row.                                   *)
(***************************************************************************)
EXTENDS Integers

CONSTANT Args   \* the arguments it may be called with, a set of Arguments

VARIABLES args, st, est, total_cycle, pc

vars == <<args, st, est, total_cycle, pc>>

Argument == [systolic_x : Nat \ {0}, systolic_y : Nat \ {0}, input_x : Nat,
             input_y : Nat \ {0}, weight_y : Nat \ {0},
             cycle_to_write_back_all_output : Nat]

\* How many frames of the given size cover n.
Frames(n, size) == (n + size - 1) \div size

Steps == Frames(args.input_x, args.systolic_x)
OutputSteps == Frames(args.weight_y, args.systolic_y)

\* A frame: the last input reaches the array, its last element too, and the
\* last element leaves; then the output is written back.
FrameCycle(rows, cols) ==
    rows + cols + args.input_y - 2 + args.cycle_to_write_back_all_output

RemainingRows == args.input_x - (Steps - 1) * args.systolic_x
RemainingCols == args.weight_y - (OutputSteps - 1) * args.systolic_y

\* assert(remaining_cols <= systolic_y), assert(remaining_cols > 0)
ColsAssert == RemainingCols \in 1 .. args.systolic_y

Init ==
    /\ args \in Args
    /\ st = 0
    /\ est = 0
    /\ total_cycle = 0
    /\ pc = "rows"

\* The rows of the frames of row st.
Rows == IF pc = "rows" THEN args.systolic_x ELSE RemainingRows

StartLastRow ==
    /\ pc = "rows"
    /\ st >= Steps - 1
    /\ pc' = IF RemainingRows # 0 THEN "last" ELSE "return"
    /\ UNCHANGED <<args, st, est, total_cycle>>

InRow ==
    \/ pc = "last"
    \/ pc = "rows" /\ st < Steps - 1

FullFrame ==
    /\ InRow
    /\ est < OutputSteps - 1
    /\ total_cycle' = total_cycle + FrameCycle(Rows, args.systolic_y)
    /\ est' = est + 1
    /\ UNCHANGED <<args, st, pc>>

\* The last frame of a row is counted as a full one.
LastFrameSkipping ==
    /\ InRow
    /\ est = OutputSteps - 1
    /\ total_cycle' = total_cycle + FrameCycle(Rows, args.systolic_y)
    /\ est' = 0
    /\ st' = st + 1
    /\ pc' = IF pc = "last" THEN "return" ELSE "rows"
    /\ UNCHANGED args

LastFrame ==
    /\ InRow
    /\ est = OutputSteps - 1
    /\ total_cycle' = total_cycle + FrameCycle(Rows, RemainingCols)
    /\ est' = 0
    /\ st' = st + 1
    /\ pc' = IF pc = "last" THEN "return" ELSE "rows"
    /\ UNCHANGED args

Return == pc = "return" /\ UNCHANGED vars

Next ==
    \/ StartLastRow
    \/ FullFrame
    \/ LastFrame
    \/ Return

Spec == Init /\ [][Next]_vars
=============================================================================
