---------------------------- MODULE WindowProofs ----------------------------
(***************************************************************************)
(* Theorems about the common algorithm of the queue policies, for every    *)
(* graph, every size of the hardware and every order of its steps.         *)
(*                                                                         *)
(* The invariant says, of the open window, that its inputs are exhausted   *)
(* in all its outputs, and of an output that is neither waiting nor in the *)
(* working queue, that it has no input left.                               *)
(***************************************************************************)
EXTENDS WindowBuilder, WindowLemmas

\* A finite graph, and limits that are numbers.
ValidSetup ==
    /\ IsFiniteSet(Outputs)
    /\ conf.max_input_num \in Nat
    /\ conf.max_output_num \in Nat

QueuesOK ==
    /\ DOMAIN working_set = Outputs
    /\ waiting \subseteq Outputs
    /\ current \subseteq Outputs
    /\ waiting \cap current = {}
    /\ Cardinality(current) <= conf.max_output_num
    /\ \A o \in Outputs : o \notin waiting \cup current => working_set[o] = {}

OutputsOK ==
    /\ current \subseteq window.outputs
    /\ window.outputs \subseteq Outputs
    /\ window.outputs \cap waiting = {}
    /\ window.output_num = Cardinality(window.outputs)
    /\ window.output_num \in 1 .. conf.max_output_num

InputsOK ==
    /\ IsFiniteSet(window.inputs)
    /\ window.input_num = Cardinality(window.inputs)
    /\ window.input_num <= conf.max_input_num
    /\ \A x \in window.inputs, o \in window.outputs : x \notin working_set[o]

EdgesOK ==
    /\ IsFiniteSet(window.all_edges)
    /\ window.edges = Cardinality(window.all_edges)
    /\ window.all_edges \subseteq window.inputs \X window.outputs
    /\ window.input_num > 0 => window.all_edges # {}

WindowOK ==
    /\ WindowIsRecord
    /\ OutputsOK
    /\ InputsOK
    /\ EdgesOK

BuilderInv ==
    /\ QueuesOK
    /\ phase = "window" => WindowOK
    /\ phase # "window" => window = EmptyWindow
    /\ phase = "done" => waiting = {} /\ current = {}

-----------------------------------------------------------------------------
\* The invariant holds initially.
LEMMA BuilderInvInit ==
  ASSUME ValidSetup, Init
  PROVE  BuilderInv
<1>1. Cardinality({}) = 0
  BY FS_EmptySet
<1> QED
  BY <1>1 DEF ValidSetup, Init, BuilderInv, QueuesOK, Outputs

\* An output enters the working queue only while it has room.
LEMMA AdmitKeepsInv ==
  ASSUME ValidSetup, BuilderInv, NEW o \in Outputs, Admit(o)
  PROVE  BuilderInv'
<1>1. IsFiniteSet(current)
  BY FS_Subset DEF ValidSetup, BuilderInv, QueuesOK
<1>2. Cardinality(current) \in Nat
  BY <1>1, FS_CardinalityType
<1>3. o \notin current
  BY DEF BuilderInv, QueuesOK, Admit
<1>4. Cardinality(current \cup {o}) = Cardinality(current) + 1
  BY <1>1, <1>3, FS_AddElement
<1>5. Cardinality(current') <= conf'.max_output_num
  BY <1>2, <1>4 DEF Admit, ValidSetup, windowVars
<1>6. QueuesOK'
  BY <1>5 DEF BuilderInv, QueuesOK, Admit, windowVars, Outputs
<1> QED
  BY <1>6 DEF BuilderInv, Admit, windowVars

\* An output leaves the working queue with no input left.
LEMMA DropKeepsInv ==
  ASSUME ValidSetup, BuilderInv, NEW o \in Outputs, Drop(o)
  PROVE  BuilderInv'
<1>1. IsFiniteSet(current)
  BY FS_Subset DEF ValidSetup, BuilderInv, QueuesOK
<1>2. current' \in SUBSET current
  BY DEF Drop
<1>3. Cardinality(current') <= Cardinality(current) /\ Cardinality(current) \in Nat
        /\ Cardinality(current') \in Nat
  BY <1>1, <1>2, FS_Subset, FS_CardinalityType
<1>4. Cardinality(current') <= conf'.max_output_num
  BY <1>3 DEF Drop, ValidSetup, BuilderInv, QueuesOK, windowVars
<1>5. QueuesOK'
  BY <1>4 DEF BuilderInv, QueuesOK, Drop, windowVars, Outputs
<1>6. phase' = "window" => WindowOK'
  <2>1. phase' = phase /\ windowVars' = windowVars /\ waiting' = waiting
    BY DEF Drop
  <2>2. (WindowIsRecord' /\ InputsOK' /\ EdgesOK' /\ OutputsOK') \/ phase' # "window"
    BY <1>2, <2>1 DEF BuilderInv, WindowOK, WindowIsRecord, InputsOK, EdgesOK, OutputsOK,
                      windowVars, Outputs
  <2> QED
    BY <2>2 DEF WindowOK
<1> QED
  BY <1>5, <1>6 DEF BuilderInv, Drop, windowVars

\* A window begins with the outputs of the working queue and no input.
LEMMA BeginWindowKeepsInv ==
  ASSUME ValidSetup, BuilderInv, BeginWindow
  PROVE  BuilderInv'
<1>1. window' = [input_num |-> 0, output_num |-> Cardinality(current), edges |-> 0,
                 all_edges |-> {}, inputs |-> {}, outputs |-> current]
  BY FreshWindowFields DEF BeginWindow
<1>2. /\ window'.input_num = 0 /\ window'.output_num = Cardinality(current)
      /\ window'.edges = 0 /\ window'.all_edges = {} /\ window'.inputs = {}
      /\ window'.outputs = current
  BY <1>1
<1>3. WindowIsRecord'
  BY <1>1, <1>2 DEF WindowIsRecord
<1>4. IsFiniteSet({}) /\ Cardinality({}) = 0
  BY FS_EmptySet
<1>5. IsFiniteSet(current)
  BY FS_Subset DEF ValidSetup, BuilderInv, QueuesOK
<1>6. Cardinality(current) \in 1 .. conf.max_output_num
  <2>1. Cardinality(current) \in Nat /\ Cardinality(current) # 0
    BY <1>5, FS_CardinalityType, FS_EmptySet DEF BeginWindow
  <2> QED
    BY <2>1 DEF ValidSetup, BuilderInv, QueuesOK
<1>7. OutputsOK'
  BY <1>2, <1>6 DEF OutputsOK, BuilderInv, QueuesOK, BeginWindow, graphVars, Outputs
<1>8. InputsOK'
  BY <1>2, <1>4 DEF InputsOK, ValidSetup, BeginWindow, graphVars
<1>9. EdgesOK'
  BY <1>2, <1>4 DEF EdgesOK
<1>10. QueuesOK'
  BY DEF BuilderInv, QueuesOK, BeginWindow, graphVars, Outputs
<1> QED
  BY <1>3, <1>7, <1>8, <1>9, <1>10 DEF BuilderInv, BeginWindow, WindowOK

\* What taking an input does to the working sets.
LEMMA TakenWorkingSet ==
  ASSUME NEW x, NEW o, TakeInput(x, o), NEW p \in DOMAIN working_set
  PROVE  LET served == Sharing(x, o, current) \cup {o}
         IN  /\ DOMAIN working_set' = DOMAIN working_set
             /\ p \in served => working_set'[p] = working_set[p] \ {x}
             /\ p \notin served => working_set'[p] = working_set[p]
  BY DEF TakeInput, Take

\* An input is new to the window, and is taken of every output that has it.
LEMMA TakeInputKeepsInv ==
  ASSUME ValidSetup, BuilderInv, NEW o \in Outputs, NEW x \in working_set[o],
         TakeInput(x, o)
  PROVE  BuilderInv'
<1> DEFINE served == Sharing(x, o, current) \cup {o}
<1>0. WindowOK /\ phase = "window" /\ o \in current
  BY DEF TakeInput, BuilderInv
<1>1. served \subseteq current
  BY <1>0 DEF Sharing
<1>2. IsFiniteSet(served)
  <2>1. IsFiniteSet(current)
    BY FS_Subset DEF ValidSetup, BuilderInv, QueuesOK
  <2> QED
    BY <1>1, <2>1, FS_Subset
<1>3. \A p \in current : x \in working_set[p] => p \in served
  BY DEF Sharing
<1>4. x \notin window.inputs
  BY <1>0 DEF WindowOK, InputsOK, OutputsOK
<1>5. /\ window'.input_num = window.input_num + 1
      /\ window'.inputs = window.inputs \cup {x}
      /\ window'.edges = window.edges + Cardinality(served)
      /\ window'.all_edges = window.all_edges \cup ({x} \X served)
      /\ window'.output_num = window.output_num
      /\ window'.outputs = window.outputs
      /\ WindowIsRecord'
  <2>1. window' = [window EXCEPT
                         !.input_num = @ + 1,
                         !.inputs    = @ \cup {x},
                         !.edges     = @ + Cardinality(served),
                         !.all_edges = @ \cup ({x} \X served)]
    BY Zenon DEF TakeInput, Take
  <2>2. WindowIsRecord
    BY <1>0 DEF WindowOK
  <2> HIDE DEF served
  <2> QED
    BY <2>1, <2>2, TakenWindow
<1>6. /\ DOMAIN working_set' = DOMAIN working_set
      /\ \A p \in DOMAIN working_set :
            /\ p \in served => working_set'[p] = working_set[p] \ {x}
            /\ p \notin served => working_set'[p] = working_set[p]
  <2>1. DOMAIN working_set' = DOMAIN working_set
    BY DEF TakeInput, Take
  <2>2. \A p \in DOMAIN working_set :
            /\ p \in served => working_set'[p] = working_set[p] \ {x}
            /\ p \notin served => working_set'[p] = working_set[p]
    BY TakenWorkingSet
  <2> QED
    BY <2>1, <2>2
<1>7. UNCHANGED <<array, conf, waiting, current, phase>>
  BY DEF TakeInput, graphVars
<1> HIDE DEF served
<1>8. QueuesOK'
  BY <1>1, <1>6, <1>7 DEF BuilderInv, QueuesOK, Outputs
<1>9. OutputsOK'
  BY <1>0, <1>5, <1>7 DEF WindowOK, OutputsOK, Outputs
<1>10. IsFiniteSet(window.inputs) /\ Cardinality(window.inputs) \in Nat
  BY <1>0, FS_CardinalityType DEF WindowOK, InputsOK
<1>11. InputsOK'
  <2>1. IsFiniteSet(window'.inputs) /\ Cardinality(window'.inputs) = window'.input_num
    BY <1>0, <1>4, <1>5, <1>10, FS_AddElement DEF WindowOK, InputsOK
  <2>2. window'.input_num <= conf'.max_input_num
    BY <1>0, <1>5, <1>7, <1>10 DEF TakeInput, ValidSetup, WindowOK, InputsOK
  <2>3. ASSUME NEW y \in window'.inputs, NEW p \in window'.outputs
        PROVE  y \notin working_set'[p]
    <3>1. p \in window.outputs /\ p \in DOMAIN working_set
      BY <1>0, <1>5 DEF WindowOK, OutputsOK, BuilderInv, QueuesOK
    <3>2. CASE y # x
      BY <3>1, <3>2, <1>0, <1>5, <1>6 DEF WindowOK, InputsOK
    <3>3. CASE y = x
      <4>1. p \in current \/ working_set[p] = {}
        BY <3>1, <1>0 DEF WindowOK, OutputsOK, BuilderInv, QueuesOK
      <4> QED
        BY <4>1, <3>1, <3>3, <1>3, <1>6
    <3> QED
      BY <3>2, <3>3
  <2> QED
    BY <2>1, <2>2, <2>3 DEF InputsOK
<1>12. EdgesOK'
  <2>1. IsFiniteSet({x} \X served) /\ Cardinality({x} \X served) = Cardinality(served)
    BY <1>2, EdgesOfOneInput
  <2>2. window.all_edges \cap ({x} \X served) = {}
    BY <1>0, <1>4 DEF WindowOK, EdgesOK
  <2>3. IsFiniteSet(window.all_edges) /\ window.edges = Cardinality(window.all_edges)
    BY <1>0 DEF WindowOK, EdgesOK
  <2>4. IsFiniteSet(window'.all_edges) /\ window'.edges = Cardinality(window'.all_edges)
    <3>1. Cardinality(window.all_edges) \in Nat /\ Cardinality(served) \in Nat
      BY <2>3, <1>2, FS_CardinalityType
    <3>2. /\ IsFiniteSet(window.all_edges \cup ({x} \X served))
          /\ Cardinality(window.all_edges \cup ({x} \X served)) =
               Cardinality(window.all_edges) + Cardinality({x} \X served)
                 - Cardinality(window.all_edges \cap ({x} \X served))
      BY <2>1, <2>3, FS_Union
    <3>3. Cardinality(window.all_edges \cap ({x} \X served)) = 0
      BY <2>2, FS_EmptySet
    <3> QED
      BY <1>5, <2>1, <2>3, <3>1, <3>2, <3>3
  <2>5. served \subseteq window.outputs
    BY <1>0, <1>1 DEF WindowOK, OutputsOK
  <2>6. window'.all_edges \subseteq window'.inputs \X window'.outputs
    BY <1>0, <1>5, <2>5 DEF WindowOK, EdgesOK
  <2>7. <<x, o>> \in window'.all_edges
    BY <1>5 DEF served
  <2> QED
    BY <2>4, <2>6, <2>7 DEF EdgesOK
<1> QED
  BY <1>0, <1>5, <1>7, <1>8, <1>9, <1>11, <1>12 DEF BuilderInv, WindowOK

\* The other steps leave the queues alone and end with no window open.
LEMMA OtherStepsKeepInv ==
  ASSUME ValidSetup, BuilderInv, CloseWindow \/ AbandonWindow \/ Finish \/ UNCHANGED vars
  PROVE  BuilderInv'
<1>1. CASE CloseWindow
  BY <1>1 DEF BuilderInv, QueuesOK, CloseWindow, AppendWindow, graphVars, Outputs,
              EmptyWindow
<1>2. CASE AbandonWindow
  BY <1>2 DEF BuilderInv, QueuesOK, AbandonWindow, graphVars, Outputs, EmptyWindow
<1>3. CASE Finish
  BY <1>3 DEF BuilderInv, QueuesOK, Finish, windowVars, Outputs, EmptyWindow
<1>4. CASE UNCHANGED vars
  <2>1. UNCHANGED <<array, conf, working_set, window, waiting, current, phase>>
    BY <1>4 DEF vars, windowVars
  <2>2. QueuesOK'
    BY <2>1 DEF BuilderInv, QueuesOK, Outputs
  <2>3. phase = "window" => WindowOK'
    BY <2>1 DEF BuilderInv, WindowOK, WindowIsRecord, OutputsOK, InputsOK, EdgesOK, Outputs
  <2> QED
    BY <2>1, <2>2, <2>3 DEF BuilderInv, EmptyWindow
<1> QED
  BY <1>1, <1>2, <1>3, <1>4

\* Every step keeps the setup valid and the invariant.
LEMMA BuilderInvStep ==
  ASSUME ValidSetup, BuilderInv, [Next]_vars
  PROVE  ValidSetup' /\ BuilderInv'
<1>1. ValidSetup'
  BY DEF ValidSetup, Outputs, Next, vars, windowVars, graphVars, Admit, Drop, BeginWindow,
         TakeInput, CloseWindow, AbandonWindow, Finish
<1>2. CASE \E o \in Outputs : Admit(o) \/ Drop(o)
  BY <1>1, <1>2, AdmitKeepsInv, DropKeepsInv
<1>3. CASE BeginWindow
  BY <1>1, <1>3, BeginWindowKeepsInv
<1>4. CASE \E o \in Outputs : \E x \in working_set[o] : TakeInput(x, o)
  BY <1>1, <1>4, TakeInputKeepsInv
<1>5. CASE CloseWindow \/ AbandonWindow \/ Finish \/ UNCHANGED vars
  BY <1>1, <1>5, OtherStepsKeepInv
<1> QED
  BY <1>1, <1>2, <1>3, <1>4, <1>5 DEF Next

\* The invariant of the common algorithm, whatever the graph and the hardware.
THEOREM BuilderInvariant == ValidSetup /\ Spec => [](ValidSetup /\ BuilderInv)
  BY BuilderInvInit, BuilderInvStep, PTL DEF Spec

-----------------------------------------------------------------------------
\* While a window is open, its edges have left the working sets.
LEMMA WindowEdgesAreTaken ==
  ASSUME BuilderInv, phase = "window"
  PROVE  /\ EdgesOf(working_set) \cap window.all_edges = {}
         /\ Remaining \cap (window.inputs \X window.outputs) = window.all_edges
<1>1. InputsOK /\ EdgesOK /\ DOMAIN working_set = Outputs
  BY DEF BuilderInv, WindowOK, QueuesOK
<1>2. ASSUME NEW e \in EdgesOf(working_set)
      PROVE  e \notin window.inputs \X window.outputs
  BY <1>1, <1>2, EdgesOfMembers DEF InputsOK
<1> QED
  BY <1>1, <1>2 DEF EdgesOK, Remaining

\* The window that is closed is a window of the plan.
LEMMA CloseWindowPlans ==
  ASSUME ValidSetup, BuilderInv, CloseWindow
  PROVE  Plan!PlanWindow
<1>1. /\ phase = "window" /\ window.input_num > 0
      /\ plan' = window /\ window' = EmptyWindow
      /\ UNCHANGED <<array, conf, working_set>>
  BY DEF CloseWindow, AppendWindow, graphVars
<1>2. WindowOK
  BY <1>1 DEF BuilderInv
<1>3. window.input_num \in Nat
  BY <1>2, FS_CardinalityType DEF WindowOK, InputsOK
<1>4. Plan!FitsHardware(window)
  BY <1>1, <1>2, <1>3
     DEF Plan!FitsHardware, Plan!Cardinality, Cardinality, WindowOK, InputsOK, OutputsOK,
         EdgesOK, ValidSetup
<1>5. /\ EdgesOf(working_set) \cap window.all_edges = {}
      /\ Remaining \cap (window.inputs \X window.outputs) = window.all_edges
  BY <1>1, WindowEdgesAreTaken
<1>6. Remaining' = EdgesOf(working_set)
  <2>1. EdgesOf(working_set)' = EdgesOf(working_set)
    BY <1>1 DEF EdgesOf
  <2>2. window'.all_edges = {}
    BY <1>1 DEF EmptyWindow
  <2> QED
    BY <2>1, <2>2 DEF Remaining
<1>7. Remaining' = Remaining \ plan'.all_edges
  BY <1>1, <1>5, <1>6 DEF Remaining
<1>8. plan'.all_edges # {}
  BY <1>1, <1>2 DEF WindowOK, EdgesOK
<1>9. Plan!FitsHardware(plan')
  BY <1>1, <1>4
<1>10. plan'.all_edges = Remaining \cap (plan'.inputs \X plan'.outputs)
  BY <1>1, <1>5
<1> QED
  BY <1>1, <1>7, <1>8, <1>9, <1>10 DEF Plan!PlanWindow, Plan!graphVars, graphVars

\* Taking an input moves edges from the working sets to the window.
LEMMA TakeInputKeepsRemaining ==
  ASSUME ValidSetup, BuilderInv, NEW o \in Outputs, NEW x \in working_set[o],
         TakeInput(x, o)
  PROVE  Remaining' = Remaining
<1> DEFINE served == Sharing(x, o, current) \cup {o}
<1>1. /\ DOMAIN working_set' = DOMAIN working_set
      /\ DOMAIN working_set = Outputs
      /\ current \subseteq Outputs
  BY TakenWorkingSet DEF BuilderInv, QueuesOK, TakeInput, Take
<1>2. \A p \in Outputs : /\ p \in served => working_set'[p] = working_set[p] \ {x}
                         /\ p \notin served => working_set'[p] = working_set[p]
  BY <1>1, TakenWorkingSet
<1>3. served \subseteq Outputs /\ \A p \in served : x \in working_set[p]
  BY <1>1 DEF Sharing
<1>4. window'.all_edges = window.all_edges \cup ({x} \X served)
  <2>1. WindowIsRecord
    BY DEF BuilderInv, WindowOK, TakeInput
  <2> QED
    BY <2>1, TakenWindow DEF TakeInput, Take
<1> HIDE DEF served
<1>5. ASSUME NEW e
      PROVE  e \in EdgesOf(working_set') \cup ({x} \X served)
               <=> e \in EdgesOf(working_set) \cup ({x} \X served)
  <2>1. ASSUME e \in EdgesOf(working_set'), e \notin {x} \X served
        PROVE  e \in EdgesOf(working_set)
    <3>1. PICK p \in Outputs : \E y \in working_set'[p] : e = <<y, p>>
      BY <2>1, <1>1, EdgesOfMembers
    <3>2. \E y \in working_set[p] : e = <<y, p>>
      BY <3>1, <1>2
    <3> QED
      BY <3>1, <3>2, <1>1, EdgesOfMembers
  <2>2. ASSUME e \in EdgesOf(working_set), e \notin {x} \X served
        PROVE  e \in EdgesOf(working_set')
    <3>1. PICK p \in Outputs : \E y \in working_set[p] : e = <<y, p>>
      BY <2>2, <1>1, EdgesOfMembers
    <3>2. \E y \in working_set'[p] : e = <<y, p>>
      BY <2>2, <3>1, <1>2
    <3> QED
      BY <3>1, <3>2, <1>1, EdgesOfMembers
  <2> QED
    BY <2>1, <2>2
<1>6. {x} \X served \subseteq EdgesOf(working_set)
  <2>1. ASSUME NEW p \in served
        PROVE  <<x, p>> \in EdgesOf(working_set)
    BY <2>1, <1>1, <1>3, EdgesOfMembers
  <2> QED
    BY <2>1
<1>7. EdgesOf(working_set)' = EdgesOf(working_set')
  BY DEF EdgesOf
<1> QED
  BY <1>4, <1>5, <1>6, <1>7 DEF Remaining

\* A step of the builder is a window of the plan or leaves the plan alone.
LEMMA BuilderStepPlans ==
  ASSUME ValidSetup, BuilderInv, [Next]_vars
  PROVE  [Plan!Next]_(Plan!vars)
<1>1. CASE CloseWindow
  BY <1>1, CloseWindowPlans DEF Plan!Next
<1>2. CASE \E o \in Outputs : \E x \in working_set[o] : TakeInput(x, o)
  BY <1>2, TakeInputKeepsRemaining DEF TakeInput, graphVars, Plan!vars
<1>3. CASE BeginWindow \/ AbandonWindow
  <2>1. UNCHANGED <<array, conf, working_set, plan>>
    BY <1>3 DEF BeginWindow, AbandonWindow, graphVars
  <2>2. window.all_edges = {}
    <3>1. CASE BeginWindow
      BY <3>1 DEF BeginWindow, BuilderInv, EmptyWindow
    <3>2. CASE AbandonWindow
      <4>1. InputsOK /\ EdgesOK /\ window.input_num = 0
        BY <3>2 DEF AbandonWindow, BuilderInv, WindowOK
      <4>2. window.inputs = {}
        BY <4>1, FS_EmptySet DEF InputsOK
      <4> QED
        BY <4>1, <4>2 DEF EdgesOK
    <3> QED
      BY <1>3, <3>1, <3>2
  <2>3. window'.all_edges = {}
    <3>1. CASE BeginWindow
      BY <3>1, FreshWindowFields DEF BeginWindow
    <3>2. CASE AbandonWindow
      BY <3>2 DEF AbandonWindow, EmptyWindow
    <3> QED
      BY <1>3, <3>1, <3>2
  <2> QED
    BY <2>1, <2>2, <2>3 DEF Remaining, EdgesOf, Plan!vars
<1>4. CASE (\E o \in Outputs : Admit(o) \/ Drop(o)) \/ Finish \/ UNCHANGED vars
  <2>1. UNCHANGED windowVars
    BY <1>4 DEF Admit, Drop, Finish, vars
  <2> QED
    BY <2>1 DEF windowVars, Remaining, EdgesOf, Plan!vars
<1> QED
  BY <1>1, <1>2, <1>3, <1>4 DEF Next

\* Whatever the order in which a policy admits, selects and drops outputs, its
\* windows cut the edges of the graph: each fits the hardware, is not empty and
\* takes every remaining edge between its inputs and outputs (graph.py, the
\* loops of get_windows and its variants).
THEOREM BuilderImplementsPlan == ValidSetup /\ Spec => Plan!Spec
<1>1. Init => Plan!Init
  <2> SUFFICES ASSUME Init PROVE Plan!Init
    OBVIOUS
  <2>1. Remaining = EdgesOf(array)
    BY DEF Init, Remaining, EmptyWindow
  <2>2. EdgesOf(array) = Plan!EdgesOf(array)
    BY DEF EdgesOf, Plan!EdgesOf
  <2> QED
    BY <2>1, <2>2 DEF Init, Plan!Init, EmptyWindow, Plan!EmptyWindow
<1>2. ValidSetup /\ BuilderInv /\ [Next]_vars => [Plan!Next]_(Plan!vars)
  BY BuilderStepPlans
<1> QED
  BY <1>1, <1>2, BuilderInvariant, PTL DEF Spec, Plan!Spec

\* A policy that is over has put every edge into a window: no output is dropped
\* from the working queue, and none forgotten in the waiting one, with an input
\* left (graph.py, the condition of the loop over the outputs).
THEOREM BuilderSchedulesEverything ==
  ValidSetup /\ Spec => [](phase = "done" => Remaining = {})
<1>1. BuilderInv => (phase = "done" => Remaining = {})
  <2> SUFFICES ASSUME BuilderInv, phase = "done" PROVE Remaining = {}
    OBVIOUS
  <2>1. \A o \in Outputs : working_set[o] = {}
    BY DEF BuilderInv, QueuesOK
  <2>2. window.all_edges = {}
    BY DEF BuilderInv, EmptyWindow
  <2>3. DOMAIN working_set = Outputs
    BY DEF BuilderInv, QueuesOK
  <2> QED
    BY <2>1, <2>2, <2>3 DEF Remaining, EdgesOf
<1> QED
  BY <1>1, BuilderInvariant, PTL
=============================================================================
