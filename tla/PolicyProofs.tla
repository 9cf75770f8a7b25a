---------------------------- MODULE PolicyProofs ----------------------------
(***************************************************************************)
(* The sequential, the outer and the bloom policy implement the common     *)
(* algorithm, each on its own, for every graph, every size of the hardware *)
(* and of the outer queues, every divider and whatever the bloom filter    *)
(* answers.                                                                *)
(*                                                                         *)
(* Two facts make the invariant of the outer and the bloom policy          *)
(* inductive: an output that waits still has all its inputs, so that an    *)
(* output that is admitted has one, and a window is begun for a queue with *)
(* an output that has one left.                                            *)
(***************************************************************************)
EXTENDS BloomPolicy, WindowLemmas

-----------------------------------------------------------------------------
(***************************************************************************)
(* The sequential policy.                                                  *)
(***************************************************************************)
Sequential == INSTANCE SequentialPolicy

\* The common definitions, seen through the instance.
LEMMA SequentialBase ==
  /\ Sequential!NumOutputs = NumOutputs /\ Sequential!Outputs = Outputs
  /\ Sequential!Selected = Selected
  /\ \A q : Sequential!Members(q) = Members(q)
  /\ \A S, n : Sequential!FreshWindow(S, n) = FreshWindow(S, n)
  /\ \A x, o, S : Sequential!Take(x, o, S) <=> Take(x, o, S)
  /\ Sequential!AppendWindow <=> AppendWindow
  BY DEF Sequential!NumOutputs, NumOutputs, Sequential!Outputs, Outputs, Sequential!Cardinality,
         Cardinality, Sequential!Members, Members, Sequential!FreshWindow, FreshWindow,
         Sequential!EmptyWindow, EmptyWindow, Sequential!Take, Take, Sequential!Sharing, Sharing,
         Sequential!AppendWindow, AppendWindow, Sequential!Selected, Selected

\* The loops of the working queue, seen through the instance.
LEMMA SequentialLoops ==
  /\ Sequential!HasRoom <=> HasRoom
  /\ Sequential!WindowEnds <=> WindowEnds
  /\ \A x : Sequential!PopInput(x) <=> PopInput(x)
  /\ \A at, emptied : Sequential!PopEmpty(at, emptied) <=> PopEmpty(at, emptied)
  /\ \A at, next : Sequential!Keep(at, next) <=> Keep(at, next)
  /\ UNCHANGED Sequential!windowVars <=> UNCHANGED windowVars
  BY SequentialBase DEF Sequential!HasRoom, HasRoom, Sequential!WindowEnds, WindowEnds,
     Sequential!PopInput, PopInput, Sequential!PopEmpty, PopEmpty, Sequential!Keep, Keep,
     Sequential!windowVars, windowVars, Sequential!graphVars, graphVars

\* The same in the next state.
LEMMA SequentialBaseNext ==
  /\ Sequential!NumOutputs' = NumOutputs'
  /\ Sequential!Members(current)' = Members(current)'
  BY DEF Sequential!NumOutputs, NumOutputs, Sequential!Outputs, Outputs, Sequential!Cardinality,
         Cardinality, Sequential!Members, Members

\* The outputs are the lines of a file, and a window has room for a node on
\* either side.
RoomForWindow ==
    /\ NumOutputs \in Nat
    /\ Outputs = 0 .. NumOutputs - 1
    /\ conf.max_input_num \in Nat \ {0}
    /\ conf.max_output_num \in Nat \ {0}

DequeInv ==
    /\ i \in 0 .. NumOutputs
    /\ current \in Seq(0 .. i - 1)
    /\ Distinct(current)
    /\ pc \in {"skip", "take", "drop"} => current # <<>>
    /\ pc = "close" => current = <<>>

InputNumInv ==
    /\ WindowIsRecord
    /\ pc \in {"take", "drop", "close"} => window.input_num \in Nat
    /\ pc \in {"drop", "close"} => window.input_num > 0

PopInv == pc = "take" => working_set[Selected] # {}

SequentialInv ==
    /\ pc \in {"fill", "skip", "take", "drop", "close", "done"}
    /\ DequeInv
    /\ InputNumInv
    /\ PopInv

-----------------------------------------------------------------------------
\* One step of PopEmpty takes the selected output out of the queue.
LEMMA PopEmptyKeepsQueue ==
  ASSUME RoomForWindow, SequentialInv, NEW at, NEW emptied, at \in {"skip", "drop"},
         PopEmpty(at, emptied)
  PROVE  /\ current' \in Seq(0 .. i - 1)
         /\ Distinct(current')
         /\ Members(current)' = Members(current) \ {Selected}
         /\ Selected \in Members(current)
         /\ Members(current) \subseteq Outputs
<1>1. /\ current \in Seq(0 .. i - 1) /\ current # <<>> /\ Distinct(current)
      /\ current' = Tail(current) /\ i \in 0 .. NumOutputs
  BY DEF SequentialInv, DequeInv, PopEmpty
<1>2. /\ Tail(current) \in Seq(0 .. i - 1)
      /\ Distinct(Tail(current))
      /\ Members(Tail(current)) = Members(current) \ {Head(current)}
      /\ Head(current) \in Members(current)
  BY <1>1, TailMembers
<1>3. Members(current)' = Members(current')
  BY DEF Members
<1>4. Members(current) \subseteq 0 .. i - 1
  BY <1>1 DEF Members
<1> QED
  BY <1>1, <1>2, <1>3, <1>4 DEF Selected, RoomForWindow

\* A popped input is counted.
LEMMA PopInputCounts ==
  ASSUME RoomForWindow, SequentialInv, NEW x, PopInput(x), pc = "take"
  PROVE  InputNumInv'
<1>1. WindowIsRecord /\ window.input_num \in Nat
  BY DEF SequentialInv, InputNumInv
<1>2. window'.input_num = window.input_num + 1 /\ WindowIsRecord'
  BY <1>1, TakenWindow DEF PopInput, Take
<1> QED
  BY <1>1, <1>2 DEF InputNumInv

\* The invariant holds before the first output is read.
LEMMA SequentialInvInit ==
  ASSUME RoomForWindow, Sequential!Init
  PROVE  SequentialInv
<1>1. WindowIsRecord
  BY DEF Sequential!Init, EmptyWindow, Sequential!EmptyWindow, WindowIsRecord
<1>2. DequeInv
  BY DEF Sequential!Init, DequeInv, RoomForWindow, Distinct
<1> QED
  BY <1>1, <1>2 DEF Sequential!Init, SequentialInv, InputNumInv, PopInv

\* The steps that fill the working queue.
LEMMA FillKeepsInv ==
  ASSUME RoomForWindow, SequentialInv, Sequential!FillOutput \/ Sequential!FillDone
  PROVE  SequentialInv'
<1>1. pc = "fill" /\ UNCHANGED <<working_set, window>>
  BY DEF Sequential!FillOutput, Sequential!FillDone, windowVars, Sequential!windowVars
<1>2. InputNumInv' /\ PopInv'
  BY <1>1 DEF Sequential!FillOutput, Sequential!FillDone, SequentialInv, InputNumInv,
         WindowIsRecord, PopInv
<1>3. CASE Sequential!FillOutput
  <2>1. /\ i \in Nat /\ i' \in 0 .. NumOutputs /\ i' - 1 = i
        /\ current \in Seq(0 .. i - 1) /\ Distinct(current)
        /\ current' = Append(current, i) /\ pc' = "fill"
        /\ UNCHANGED <<array, conf>>
    BY <1>1, <1>3, SequentialBase DEF Sequential!FillOutput, SequentialInv, DequeInv,
           RoomForWindow, windowVars, Sequential!windowVars
  <2>2. NumOutputs' = NumOutputs
    BY <2>1 DEF NumOutputs, Outputs
  <2>3. current' \in Seq(0 .. i) /\ Distinct(current')
    <3>1. current \in Seq(0 .. i) /\ i \in 0 .. i /\ i \notin Members(current)
      BY <2>1 DEF Members
    <3> QED
      BY <2>1, <3>1, AppendMember
  <2>4. DequeInv'
    BY <2>1, <2>2, <2>3 DEF DequeInv
  <2> QED
    BY <1>2, <2>1, <2>4 DEF SequentialInv
<1>4. CASE Sequential!FillDone
  <2>1. UNCHANGED <<array, current, i>> /\ pc' \in {"done", "skip"}
        /\ (pc' = "skip" => current # <<>>)
    BY <1>4 DEF Sequential!FillDone, windowVars, Sequential!windowVars
  <2>2. DequeInv'
    BY <2>1 DEF SequentialInv, DequeInv, NumOutputs, Outputs
  <2> QED
    BY <1>2, <2>1, <2>2 DEF SequentialInv
<1> QED
  BY <1>3, <1>4

\* The loops that skip empty outputs.
LEMMA PopEmptyKeepsInv ==
  ASSUME RoomForWindow, SequentialInv, Sequential!SkipEmpty \/ Sequential!DropFinished
  PROVE  SequentialInv'
<1>1. /\ current' \in Seq(0 .. i - 1) /\ Distinct(current')
      /\ UNCHANGED <<array, conf, working_set, window, i>>
  <2>1. CASE Sequential!SkipEmpty
    BY <2>1, PopEmptyKeepsQueue, SequentialBase, SequentialLoops DEF Sequential!SkipEmpty,
           PopEmpty, Sequential!PopEmpty, windowVars, Sequential!windowVars
  <2>2. CASE Sequential!DropFinished
    BY <2>2, PopEmptyKeepsQueue, SequentialBase, SequentialLoops DEF Sequential!DropFinished,
           PopEmpty, Sequential!PopEmpty, windowVars, Sequential!windowVars
  <2> QED
    BY <2>1, <2>2
<1>2. \/ pc = "skip" /\ pc' \in {"skip", "fill"}
      \/ pc = "drop" /\ pc' \in {"drop", "close"}
  BY DEF Sequential!SkipEmpty, Sequential!DropFinished, PopEmpty, Sequential!PopEmpty
<1>3. (pc' \in {"skip", "drop"} => current' # <<>>) /\ (pc' = "close" => current' = <<>>)
  BY DEF Sequential!SkipEmpty, Sequential!DropFinished, PopEmpty, Sequential!PopEmpty
<1>4. DequeInv'
  BY <1>1, <1>2, <1>3 DEF SequentialInv, DequeInv, NumOutputs, Outputs
<1>5. InputNumInv'
  BY <1>1, <1>2 DEF SequentialInv, InputNumInv, WindowIsRecord
<1> QED
  BY <1>2, <1>4, <1>5 DEF SequentialInv, PopInv

\* The steps of the open window.
LEMMA WindowKeepsInv ==
  ASSUME RoomForWindow, SequentialInv,
         \/ Sequential!BeginWindow \/ Sequential!TakeInput \/ Sequential!KeepSelected
         \/ Sequential!CloseWindow \/ UNCHANGED Sequential!vars
  PROVE  SequentialInv'
<1>1. CASE Sequential!BeginWindow
  <2>1. /\ pc = "skip" /\ pc' = "take" /\ UNCHANGED <<array, conf, working_set, current, i>>
        /\ working_set[Selected] # {}
        /\ window' = FreshWindow(Members(current), Len(current))
    BY <1>1, SequentialBase DEF Sequential!BeginWindow, graphVars, Sequential!graphVars
  <2>2. window' = [input_num |-> 0, output_num |-> Len(current), edges |-> 0,
                   all_edges |-> {}, inputs |-> {}, outputs |-> Members(current)]
    BY <2>1, FreshWindowFields
  <2>3. WindowIsRecord' /\ window'.input_num = 0
    BY <2>2 DEF WindowIsRecord
  <2> QED
    BY <2>1, <2>3 DEF SequentialInv, DequeInv, InputNumInv, PopInv, Selected, NumOutputs, Outputs
<1>2. CASE Sequential!TakeInput
  <2>1. PICK x \in working_set[Selected] : PopInput(x)
    BY <1>2, SequentialBase, SequentialLoops DEF Sequential!TakeInput
  <2>2. pc = "take" /\ pc' = "drop" /\ UNCHANGED <<array, conf, current, i>>
    BY <1>2, <2>1 DEF Sequential!TakeInput, PopInput, Sequential!PopInput, graphVars,
           Sequential!graphVars
  <2>3. InputNumInv'
    BY <2>1, <2>2, PopInputCounts
  <2> QED
    BY <2>2, <2>3 DEF SequentialInv, DequeInv, PopInv, NumOutputs, Outputs
<1>3. CASE Sequential!KeepSelected
  BY <1>3 DEF Sequential!KeepSelected, Keep, Sequential!Keep, SequentialInv, DequeInv,
         InputNumInv, PopInv, Selected, Sequential!Selected, NumOutputs, Sequential!NumOutputs,
         Outputs, Sequential!Outputs, WindowIsRecord, windowVars, Sequential!windowVars
<1>4. CASE Sequential!CloseWindow
  <2>1. /\ pc' = "fill" /\ UNCHANGED <<array, conf, working_set, current, i>>
        /\ window' = EmptyWindow
    BY <1>4, SequentialBase DEF Sequential!CloseWindow, AppendWindow, Sequential!AppendWindow,
           graphVars, Sequential!graphVars
  <2>2. WindowIsRecord'
    BY <2>1 DEF WindowIsRecord, EmptyWindow
  <2> QED
    BY <2>1, <2>2 DEF SequentialInv, DequeInv, InputNumInv, PopInv, NumOutputs, Outputs
<1>5. CASE UNCHANGED Sequential!vars
  BY <1>5 DEF Sequential!vars, windowVars, Sequential!windowVars, SequentialInv, DequeInv,
         InputNumInv, PopInv, Selected, Sequential!Selected, NumOutputs, Sequential!NumOutputs,
         Outputs, Sequential!Outputs, WindowIsRecord
<1> QED
  BY <1>1, <1>2, <1>3, <1>4, <1>5

\* Every step of the sequential policy keeps the invariant.
LEMMA SequentialInvStep ==
  ASSUME RoomForWindow, SequentialInv, [Sequential!Next]_(Sequential!vars)
  PROVE  RoomForWindow' /\ SequentialInv'
<1>1. RoomForWindow'
  <2>1. UNCHANGED <<array, conf>>
    BY DEF Sequential!Next, Sequential!vars, windowVars, Sequential!windowVars, graphVars,
           Sequential!graphVars, Sequential!FillOutput, Sequential!FillDone, Sequential!SkipEmpty,
           PopEmpty, Sequential!PopEmpty, Sequential!BeginWindow, Sequential!TakeInput, PopInput,
           Sequential!PopInput, Sequential!DropFinished, Sequential!KeepSelected, Keep,
           Sequential!Keep, Sequential!CloseWindow
  <2> QED
    BY <2>1 DEF RoomForWindow, NumOutputs, Outputs
<1>2. SequentialInv'
  BY FillKeepsInv, PopEmptyKeepsInv, WindowKeepsInv DEF Sequential!Next
<1> QED
  BY <1>1, <1>2

\* The invariant of the sequential policy.
LEMMA SequentialInvariant ==
  RoomForWindow /\ Sequential!Spec => [](RoomForWindow /\ SequentialInv)
  BY SequentialInvInit, SequentialInvStep, PTL DEF Sequential!Spec

\* The sequential policy never pops an input of an output that has none left:
\* set.pop would raise KeyError (graph.py, __setup_seq_window).
THEOREM SequentialPopsNonEmpty ==
  RoomForWindow /\ Sequential!Spec => [](pc = "take" => working_set[Selected] # {})
<1>1. SequentialInv => (pc = "take" => working_set[Selected] # {})
  BY DEF SequentialInv, PopInv
<1> QED
  BY <1>1, SequentialInvariant, PTL

-----------------------------------------------------------------------------
\* The standard operator, seen through the instance.
LEMMA SequentialCardinality == \A S : Sequential!Builder!Cardinality(S) = Cardinality(S)
  BY DEF Sequential!Builder!Cardinality, Cardinality

\* Reading the next output admits it to the working queue.
LEMMA FillOutputAdmits ==
  ASSUME RoomForWindow, SequentialInv, Sequential!FillOutput
  PROVE  Sequential!Builder!Admit(i) /\ i \in Outputs
<1>1. /\ pc = "fill" /\ pc' = "fill" /\ i \in 0 .. NumOutputs - 1 /\ i' = i + 1
      /\ current \in Seq(0 .. i - 1) /\ Distinct(current) /\ i \in Nat
      /\ current' = Append(current, i) /\ Len(current) < conf.max_output_num
      /\ UNCHANGED windowVars
  BY SequentialBase, SequentialLoops DEF Sequential!FillOutput, HasRoom, Sequential!HasRoom,
         SequentialInv, DequeInv, RoomForWindow
<1>2. Cardinality(Members(current)) = Len(current)
  BY <1>1, MembersCount
<1>3. Members(current)' = Members(current) \cup {i}
  <2>1. Members(Append(current, i)) = Members(current) \cup {i}
    <3>1. current \in Seq(0 .. i) /\ i \in 0 .. i /\ i \notin Members(current)
      BY <1>1 DEF Members
    <3> QED
      BY <1>1, <3>1, AppendMember
  <2>2. Members(current)' = Members(current')
    BY DEF Members
  <2> QED
    BY <1>1, <2>1, <2>2
<1>4. UNCHANGED NumOutputs /\ NumOutputs \in Nat
  BY <1>1 DEF NumOutputs, Outputs, windowVars, RoomForWindow
<1>5. (i .. NumOutputs - 1)' = (i .. NumOutputs - 1) \ {i}
  BY <1>1, <1>4
<1>6. i \in i .. NumOutputs - 1 /\ i \in Outputs
  BY <1>1, <1>4 DEF RoomForWindow
<1>7. Sequential!BuilderPhase = "fill" /\ Sequential!BuilderPhase' = "fill"
  BY <1>1 DEF Sequential!BuilderPhase
<1> QED
  BY <1>1, <1>2, <1>3, <1>5, <1>6, <1>7, SequentialCardinality, SequentialBase, SequentialBaseNext
     DEF Sequential!Builder!Admit, Sequential!Builder!windowVars, windowVars,
         Sequential!windowVars

\* The end of the filling loop is not seen, the end of the policy is.
LEMMA FillDoneFinishes ==
  ASSUME RoomForWindow, SequentialInv, Sequential!FillDone
  PROVE  Sequential!Builder!Finish \/ UNCHANGED Sequential!Builder!vars
<1>1. /\ pc = "fill" /\ UNCHANGED <<windowVars, current, i>>
      /\ ~(HasRoom /\ i < NumOutputs)
      /\ pc' = IF current = <<>> THEN "done" ELSE "skip"
  BY SequentialBase, SequentialLoops DEF Sequential!FillDone
<1>2. UNCHANGED <<NumOutputs, i .. NumOutputs - 1, Members(current)>>
  BY <1>1 DEF NumOutputs, Outputs, Members, windowVars
<1>3. Sequential!BuilderPhase = "fill"
  BY <1>1 DEF Sequential!BuilderPhase
<1>4. CASE current = <<>>
  <2>1. Sequential!BuilderPhase' = "done"
    BY <1>1, <1>4 DEF Sequential!BuilderPhase
  <2>2. Members(current) = {}
    BY <1>4 DEF Members
  <2>3. HasRoom /\ i \in Nat /\ NumOutputs \in Nat
    BY <1>4 DEF HasRoom, RoomForWindow, SequentialInv, DequeInv
  <2>4. i .. NumOutputs - 1 = {}
    BY <1>1, <2>3
  <2> QED
    BY <1>1, <1>2, <1>3, <2>1, <2>2, <2>4, SequentialBase, SequentialBaseNext
       DEF Sequential!Builder!Finish, Sequential!Builder!windowVars, windowVars,
           Sequential!windowVars
<1>5. CASE current # <<>>
  <2>1. Sequential!BuilderPhase' = "fill"
    BY <1>1, <1>5 DEF Sequential!BuilderPhase
  <2> QED
    BY <1>1, <1>2, <1>3, <2>1, SequentialBase, SequentialBaseNext DEF Sequential!Builder!vars,
           Sequential!Builder!windowVars, windowVars, Sequential!windowVars
<1> QED
  BY <1>4, <1>5

\* popleft of an empty output drops it.
LEMMA PopEmptyDrops ==
  ASSUME RoomForWindow, SequentialInv, Sequential!SkipEmpty \/ Sequential!DropFinished
  PROVE  Sequential!Builder!Drop(Selected) /\ Selected \in Outputs
<1>1. PICK at, emptied : /\ <<at, emptied>> \in {<<"skip", "fill">>, <<"drop", "close">>}
                         /\ PopEmpty(at, emptied)
  BY SequentialBase, SequentialLoops DEF Sequential!SkipEmpty, Sequential!DropFinished
<1>2. at \in {"skip", "drop"}
  BY <1>1
<1>3. /\ Members(current)' = Members(current) \ {Selected}
      /\ Selected \in Members(current) /\ Members(current) \subseteq Outputs
  BY <1>1, <1>2, PopEmptyKeepsQueue
<1>4. /\ pc = at /\ pc' \in {at, emptied} /\ working_set[Selected] = {}
      /\ UNCHANGED <<windowVars, i>>
  BY <1>1 DEF PopEmpty
<1>5. /\ Sequential!BuilderPhase \in {"fill", "window"}
      /\ Sequential!BuilderPhase' = Sequential!BuilderPhase
  BY <1>1, <1>4 DEF Sequential!BuilderPhase
<1>6. UNCHANGED (i .. NumOutputs - 1)
  BY <1>4 DEF NumOutputs, Outputs, windowVars
<1> QED
  BY <1>3, <1>4, <1>5, <1>6, SequentialBase, SequentialBaseNext DEF Sequential!Builder!Drop,
         Sequential!Builder!windowVars, windowVars, Sequential!windowVars

\* A window is begun for the whole working queue.
LEMMA BeginWindowBegins ==
  ASSUME RoomForWindow, SequentialInv, Sequential!BeginWindow
  PROVE  Sequential!Builder!BeginWindow
<1>1. /\ pc = "skip" /\ pc' = "take"
      /\ window' = FreshWindow(Members(current), Len(current))
      /\ UNCHANGED <<array, conf, working_set, plan, current, i>>
      /\ current \in Seq(0 .. i - 1) /\ current # <<>> /\ Distinct(current)
  BY SequentialBase DEF Sequential!BeginWindow, graphVars, Sequential!graphVars, SequentialInv,
         DequeInv
<1>2. Cardinality(Members(current)) = Len(current)
  BY <1>1, MembersCount
<1>3. Sequential!Builder!FreshWindow(Members(current), Len(current))
        = FreshWindow(Members(current), Len(current))
  BY DEF Sequential!Builder!FreshWindow, FreshWindow, Sequential!FreshWindow,
         Sequential!Builder!EmptyWindow, EmptyWindow, Sequential!EmptyWindow
<1>4. Members(current) # {}
  BY <1>1, TailMembers
<1>5. Sequential!BuilderPhase = "fill" /\ Sequential!BuilderPhase' = "window"
  BY <1>1 DEF Sequential!BuilderPhase
<1>6. UNCHANGED <<i .. NumOutputs - 1, Members(current)>>
  BY <1>1 DEF NumOutputs, Outputs, Members
<1> QED
  BY <1>1, <1>2, <1>3, <1>4, <1>5, <1>6, SequentialCardinality, SequentialBase, SequentialBaseNext
     DEF Sequential!Builder!BeginWindow, Sequential!Builder!graphVars

\* Popping an input takes it for all outputs of the queue that share it.
LEMMA TakeInputTakes ==
  ASSUME RoomForWindow, SequentialInv, Sequential!TakeInput
  PROVE  /\ Selected \in Outputs
         /\ \E x \in working_set[Selected] : Sequential!Builder!TakeInput(x, Selected)
<1>1. PICK x \in working_set[Selected] : PopInput(x)
  BY SequentialBase, SequentialLoops DEF Sequential!TakeInput
<1>2. /\ pc = "take" /\ pc' = "drop" /\ window.input_num < conf.max_input_num
      /\ Take(x, Selected, Members(current)) /\ UNCHANGED <<array, conf, plan, current, i>>
      /\ current \in Seq(0 .. i - 1) /\ current # <<>> /\ Distinct(current)
      /\ i \in 0 .. NumOutputs
  BY <1>1 DEF Sequential!TakeInput, PopInput, Sequential!PopInput, graphVars,
         Sequential!graphVars, SequentialInv, DequeInv
<1>3. Sequential!Builder!Take(x, Selected, Members(current))
  BY <1>2 DEF Sequential!Builder!Take, Take, Sequential!Take, Sequential!Builder!Sharing, Sharing,
         Sequential!Sharing, Sequential!Builder!Cardinality, Cardinality
<1>4. Selected \in Members(current)
  BY <1>2, TailMembers DEF Selected
<1>5. Members(current) \subseteq Outputs
  BY <1>2 DEF Members, RoomForWindow
<1>6. Sequential!BuilderPhase = "window" /\ Sequential!BuilderPhase' = "window"
  BY <1>2 DEF Sequential!BuilderPhase
<1>7. UNCHANGED <<i .. NumOutputs - 1, Members(current)>>
  BY <1>2 DEF NumOutputs, Outputs, Members
<1>8. Sequential!Builder!TakeInput(x, Selected)
  BY <1>1, <1>2, <1>3, <1>4, <1>6, <1>7, SequentialBase, SequentialBaseNext
     DEF Sequential!Builder!TakeInput, Sequential!Builder!graphVars
<1> QED
  BY <1>1, <1>4, <1>5, <1>8

\* A window is closed when it is full or the working queue is empty.
LEMMA CloseWindowCloses ==
  ASSUME RoomForWindow, SequentialInv, Sequential!CloseWindow
  PROVE  Sequential!Builder!CloseWindow
<1>1. /\ pc' = "fill" /\ WindowEnds /\ AppendWindow
      /\ UNCHANGED <<array, conf, working_set, current, i>>
  BY SequentialBase, SequentialLoops DEF Sequential!CloseWindow, graphVars, Sequential!graphVars
<1>2. \/ pc = "close" /\ current = <<>> /\ window.input_num > 0
      \/ pc = "take" /\ window.input_num >= conf.max_input_num
  BY <1>1 DEF WindowEnds, SequentialInv, DequeInv, InputNumInv
<1>3. window.input_num \in Nat /\ conf.max_input_num \in Nat \ {0}
  BY <1>2 DEF SequentialInv, InputNumInv, RoomForWindow
<1>4. /\ window.input_num > 0
      /\ window.input_num < conf.max_input_num => Members(current) = {}
  BY <1>2, <1>3 DEF Members
<1>5. Sequential!Builder!AppendWindow
  BY <1>1 DEF AppendWindow, Sequential!AppendWindow, Sequential!Builder!AppendWindow, EmptyWindow,
         Sequential!EmptyWindow, Sequential!Builder!EmptyWindow
<1>6. Sequential!BuilderPhase = "window" /\ Sequential!BuilderPhase' = "fill"
  BY <1>1, <1>2 DEF Sequential!BuilderPhase
<1>7. UNCHANGED <<i .. NumOutputs - 1, Members(current)>>
  BY <1>1 DEF NumOutputs, Outputs, Members
<1> QED
  BY <1>1, <1>4, <1>5, <1>6, <1>7, SequentialBase, SequentialBaseNext
     DEF Sequential!Builder!CloseWindow, Sequential!Builder!graphVars

\* A step of the policy is a step of the common algorithm or a stutter.
LEMMA SequentialStepBuilds ==
  ASSUME RoomForWindow, SequentialInv, [Sequential!Next]_(Sequential!vars)
  PROVE  [Sequential!Builder!Next]_(Sequential!Builder!vars)
<1> USE DEF Sequential!Builder!Next
<1>0. Sequential!Builder!Outputs = Outputs
  BY DEF Sequential!Builder!Outputs, Outputs, Sequential!Outputs
<1>1. CASE Sequential!FillOutput
  BY <1>0, <1>1, FillOutputAdmits
<1>2. CASE Sequential!FillDone
  BY <1>2, FillDoneFinishes
<1>3. CASE Sequential!SkipEmpty \/ Sequential!DropFinished
  BY <1>0, <1>3, PopEmptyDrops
<1>4. CASE Sequential!BeginWindow
  BY <1>4, BeginWindowBegins
<1>5. CASE Sequential!TakeInput
  BY <1>0, <1>5, TakeInputTakes
<1>6. CASE Sequential!CloseWindow
  BY <1>6, CloseWindowCloses
<1>7. CASE Sequential!KeepSelected \/ UNCHANGED Sequential!vars
  <2>1. UNCHANGED <<windowVars, current, i>> /\ Sequential!BuilderPhase' = Sequential!BuilderPhase
    BY <1>7, SequentialLoops DEF Sequential!KeepSelected, Keep, Sequential!Keep, Sequential!vars,
           Sequential!BuilderPhase
  <2> QED
    BY <2>1 DEF Sequential!Builder!vars, Sequential!Builder!windowVars, windowVars,
           Sequential!windowVars, NumOutputs, Sequential!NumOutputs, Outputs, Sequential!Outputs,
           Members, Sequential!Members
<1> QED
  BY <1>1, <1>2, <1>3, <1>4, <1>5, <1>6, <1>7 DEF Sequential!Next

\* __setup_seq_window is an order of the common algorithm: it never drops an
\* output with inputs left, forgets none, and closes a window early only when
\* all outputs of the working queue are exhausted.
THEOREM SequentialImplementsBuilder == RoomForWindow /\ Sequential!Spec => Sequential!Builder!Spec
<1>1. RoomForWindow /\ Sequential!Init => Sequential!Builder!Init
  <2> SUFFICES ASSUME RoomForWindow, Sequential!Init PROVE Sequential!Builder!Init
    OBVIOUS
  <2>1. Members(current) = {} /\ i .. NumOutputs - 1 = Outputs /\ Sequential!BuilderPhase = "fill"
    BY DEF Sequential!Init, Members, Sequential!Members, RoomForWindow, Sequential!BuilderPhase
  <2> QED
    BY <2>1, SequentialBase DEF Sequential!Init, Sequential!Builder!Init, EmptyWindow,
           Sequential!EmptyWindow, Sequential!Builder!EmptyWindow, Sequential!Builder!Outputs,
           Outputs, Sequential!Outputs
<1>2. RoomForWindow /\ SequentialInv /\ [Sequential!Next]_(Sequential!vars)
        => [Sequential!Builder!Next]_(Sequential!Builder!vars)
  BY SequentialStepBuilds
<1> QED
  BY <1>1, <1>2, SequentialInvariant, PTL DEF Sequential!Spec, Sequential!Builder!Spec

-----------------------------------------------------------------------------
\* The theorems of the common algorithm, for this policy.
SequentialBuilds == INSTANCE WindowProofs
    WITH waiting <- i .. NumOutputs - 1,
         current <- Members(current),
         phase   <- Sequential!BuilderPhase

\* The two instances of the common algorithm are the same.
LEMMA SequentialIsBuilder ==
  RoomForWindow /\ Sequential!Spec => SequentialBuilds!ValidSetup /\ SequentialBuilds!Spec
<1>1. RoomForWindow => SequentialBuilds!ValidSetup
  <2> SUFFICES ASSUME RoomForWindow PROVE SequentialBuilds!ValidSetup
    OBVIOUS
  <2>1. IsFiniteSet(Outputs)
    BY FS_Interval DEF RoomForWindow
  <2> QED
    BY <2>1 DEF RoomForWindow, SequentialBuilds!ValidSetup, SequentialBuilds!Outputs, Outputs,
           SequentialBuilds!IsFiniteSet, IsFiniteSet
<1>2. Sequential!Builder!Init => SequentialBuilds!Init
  BY SequentialBase DEF Sequential!Builder!Init, SequentialBuilds!Init,
         Sequential!Builder!EmptyWindow, SequentialBuilds!EmptyWindow, Sequential!Builder!Outputs,
         SequentialBuilds!Outputs
<1>3. [Sequential!Builder!Next]_(Sequential!Builder!vars)
        => [SequentialBuilds!Next]_(SequentialBuilds!vars)
  BY SequentialBase, SequentialBaseNext DEF Sequential!Builder!Next, SequentialBuilds!Next,
         Sequential!Builder!vars, SequentialBuilds!vars, Sequential!Builder!windowVars,
         SequentialBuilds!windowVars, Sequential!Builder!graphVars, SequentialBuilds!graphVars,
         Sequential!Builder!Admit, SequentialBuilds!Admit, Sequential!Builder!Drop,
         SequentialBuilds!Drop, Sequential!Builder!BeginWindow, SequentialBuilds!BeginWindow,
         Sequential!Builder!TakeInput, SequentialBuilds!TakeInput, Sequential!Builder!CloseWindow,
         SequentialBuilds!CloseWindow, Sequential!Builder!Finish, SequentialBuilds!Finish,
         Sequential!Builder!AbandonWindow, SequentialBuilds!AbandonWindow,
         Sequential!Builder!AppendWindow, SequentialBuilds!AppendWindow, Sequential!Builder!Take,
         SequentialBuilds!Take, Sequential!Builder!Sharing, SequentialBuilds!Sharing,
         Sequential!Builder!EmptyWindow, SequentialBuilds!EmptyWindow,
         Sequential!Builder!FreshWindow, SequentialBuilds!FreshWindow, Sequential!Builder!Outputs,
         SequentialBuilds!Outputs, Sequential!Builder!Cardinality, SequentialBuilds!Cardinality
<1> QED
  BY <1>1, <1>2, <1>3, SequentialImplementsBuilder, PTL DEF Sequential!Builder!Spec,
         SequentialBuilds!Spec

\* The sequential policy cuts the edges of the graph into windows: each fits
\* the hardware, is not empty and takes every remaining edge between its inputs
\* and its outputs, so that no edge is in two windows (__setup_seq_window).
THEOREM SequentialImplementsPlan == RoomForWindow /\ Sequential!Spec => SequentialBuilds!Plan!Spec
<1>1. SequentialBuilds!ValidSetup /\ SequentialBuilds!Spec => SequentialBuilds!Plan!Spec
  BY SequentialBuilds!BuilderImplementsPlan
<1> QED
  BY <1>1, SequentialIsBuilder, PTL

\* When __setup_seq_window returns, every edge has its window.
THEOREM SequentialSchedulesEverything ==
  RoomForWindow /\ Sequential!Spec =>
    [](pc = "done" => EdgesOf(working_set) \cup window.all_edges = {})
<1>1. SequentialBuilds!ValidSetup /\ SequentialBuilds!Spec
        => [](Sequential!BuilderPhase = "done" => SequentialBuilds!Remaining = {})
  BY SequentialBuilds!BuilderSchedulesEverything
<1>2. (Sequential!BuilderPhase = "done" => SequentialBuilds!Remaining = {})
        => (pc = "done" => EdgesOf(working_set) \cup window.all_edges = {})
  BY DEF Sequential!BuilderPhase, SequentialBuilds!Remaining, SequentialBuilds!EdgesOf, EdgesOf
<1> QED
  BY <1>1, <1>2, SequentialIsBuilder, PTL

-----------------------------------------------------------------------------
(***************************************************************************)
(* The outer and the bloom policy.                                         *)
(***************************************************************************)
\* Every line of the file is a node that is its own neighbour, the hardware has
\* room for a window, and the outer queues for an output.
HardwareHoldsWindow ==
    /\ NumOutputs \in Nat
    /\ Outputs = 0 .. NumOutputs - 1
    /\ \A o \in Outputs : array[o] # {}
    /\ conf.max_input_num \in Nat \ {0}
    /\ conf.max_output_num \in Nat \ {0}
    /\ conf.max_queue_size \in Nat \ {0}

Waiting == (i .. NumOutputs - 1) \cup Members(short) \cup Members(long)

QueuesInv ==
    /\ i \in 0 .. NumOutputs
    /\ current \in Seq(Outputs) /\ Distinct(current)
    /\ short \in Seq(Outputs) /\ Distinct(short)
    /\ long \in Seq(Outputs) /\ Distinct(long)
    /\ Members(current) \subseteq 0 .. i - 1
    /\ Members(short) \subseteq 0 .. i - 1
    /\ Members(long) \subseteq 0 .. i - 1
    /\ Members(current) \cap Members(short) = {}
    /\ Members(current) \cap Members(long) = {}
    /\ Members(short) \cap Members(long) = {}

\* Where the queues may be empty.
PcInv ==
    /\ pc \in {"setup_outer", "outer", "setup", "fill", "open", "skip", "take", "drop",
               "close", "done"}
    /\ pc \in {"open", "skip", "take", "drop"} => current # <<>>
    /\ pc = "close" => current = <<>>
    /\ pc = "fill" /\ OuterEmpty /\ current = <<>> => i = NumOutputs

InputsInv ==
    /\ DOMAIN working_set = Outputs
    /\ \A o \in Waiting : working_set[o] = array[o]
    /\ pc \notin {"drop", "close"} /\ current # <<>> =>
         \E o \in Members(current) : working_set[o] # {}
    /\ pc = "take" => working_set[Selected] # {}

CountInv ==
    /\ WindowIsRecord
    /\ pc \in {"skip", "take", "drop", "close"} => window.input_num \in Nat
    /\ pc \in {"drop", "close"} => window.input_num > 0

OuterInv == QueuesInv /\ PcInv /\ InputsInv /\ CountInv

-----------------------------------------------------------------------------
\* What the two policies do when they read an output: it goes to one of the
\* outer queues.
Enqueue ==
    /\ Filling
    /\ i < NumOutputs
    /\ i' = i + 1
    /\ \/ short' = Append(short, i) /\ UNCHANGED long
       \/ long' = Append(long, i) /\ UNCHANGED short
    /\ UNCHANGED <<windowVars, current, pc>>

Pop ==
    /\ pc = "take"
    /\ \E x \in working_set[Selected] : PopInput(x)
    /\ UNCHANGED <<short, long>>

Step ==
    \/ Enqueue
    \/ EnqueueDone
    \/ MoveOutput
    \/ FillDone
    \/ BeginWindow
    \/ SkipEmpty
    \/ Pop
    \/ SkipDone \/ KeepSelected
    \/ DropFinished
    \/ CloseWindow
    \/ UNCHANGED vars

\* Both policies are made of these steps.
LEMMA PoliciesStep == [Next]_vars \/ [BloomNext]_allVars => Step
<1>1. ASSUME [Next]_vars PROVE Step
  BY <1>1 DEF Next, Step, EnqueueOutput, Enqueue, TakeInput, Pop, FillSpins
<1>2. ASSUME [BloomNext]_allVars PROVE Step
  BY <1>2 DEF BloomNext, Step, EnqueueScored, Enqueue, TakeScored, Pop, FillSpins, allVars
<1> QED
  BY <1>1, <1>2

\* No step changes the graph or the hardware.
LEMMA SetupStays ==
  ASSUME HardwareHoldsWindow, Step
  PROVE  HardwareHoldsWindow' /\ UNCHANGED <<array, conf, Outputs, NumOutputs>>
<1>1. UNCHANGED <<array, conf>>
  BY DEF Step, vars, windowVars, graphVars, Enqueue, EnqueueDone, MoveOutput, FillDone,
         BeginWindow, SkipEmpty, Pop, PopInput, SkipDone, KeepSelected, Keep,
         DropFinished, PopEmpty, CloseWindow
<1> QED
  BY <1>1 DEF HardwareHoldsWindow, NumOutputs, Outputs

\* The invariant holds before the first output is read.
LEMMA OuterInvInit ==
  ASSUME HardwareHoldsWindow, Init
  PROVE  OuterInv
<1>1. WindowIsRecord
  BY DEF Init, EmptyWindow, WindowIsRecord
<1>2. Members(<<>>) = {} /\ Distinct(<<>>)
  BY DEF Members, Distinct
<1>3. QueuesInv
  BY <1>2 DEF Init, QueuesInv, HardwareHoldsWindow
<1>4. InputsInv
  BY <1>2 DEF Init, InputsInv, Waiting, Outputs
<1> QED
  BY <1>1, <1>3, <1>4 DEF Init, OuterInv, PcInv, CountInv

\* An output that is read joins one of the outer queues, where it still waits.
LEMMA EnqueueMembers ==
  ASSUME HardwareHoldsWindow, OuterInv, Enqueue
  PROVE  QueuesInv' /\ Waiting' = Waiting
<1>1. /\ i \in 0 .. NumOutputs /\ i < NumOutputs /\ i' = i + 1 /\ NumOutputs \in Nat
      /\ Outputs = 0 .. NumOutputs - 1
      /\ UNCHANGED <<Outputs, NumOutputs, current>>
  BY DEF OuterInv, QueuesInv, HardwareHoldsWindow, Enqueue, NumOutputs, Outputs, windowVars
<1>2. i \in Outputs /\ i \notin Members(short) /\ i \notin Members(long) /\ i \notin Members(current)
      /\ i \notin 0 .. i - 1 /\ 0 .. i' - 1 = (0 .. i - 1) \cup {i} /\ i' \in 0 .. NumOutputs'
      /\ i .. NumOutputs - 1 = (i' .. NumOutputs - 1) \cup {i}
  BY <1>1 DEF OuterInv, QueuesInv
<1>3. /\ Members(current)' = Members(current')
      /\ Members(short)' = Members(short')
      /\ Members(long)' = Members(long')
  BY DEF Members
<1>4. CASE short' = Append(short, i) /\ UNCHANGED long
  <2>1. /\ short' \in Seq(Outputs) /\ Distinct(short')
        /\ Members(short') = Members(short) \cup {i}
    BY <1>2, <1>4, AppendMember DEF OuterInv, QueuesInv
  <2>2. QueuesInv'
    BY <1>1, <1>2, <1>3, <1>4, <2>1 DEF OuterInv, QueuesInv
  <2> QED
    BY <1>1, <1>2, <1>3, <1>4, <2>1, <2>2 DEF Waiting
<1>5. CASE long' = Append(long, i) /\ UNCHANGED short
  <2>1. /\ long' \in Seq(Outputs) /\ Distinct(long')
        /\ Members(long') = Members(long) \cup {i}
    BY <1>2, <1>5, AppendMember DEF OuterInv, QueuesInv
  <2>2. QueuesInv'
    BY <1>1, <1>2, <1>3, <1>5, <2>1 DEF OuterInv, QueuesInv
  <2> QED
    BY <1>1, <1>2, <1>3, <1>5, <2>1, <2>2 DEF Waiting
<1> QED
  BY <1>4, <1>5 DEF Enqueue

\* Reading an output keeps the invariant.
LEMMA EnqueueKeepsInv ==
  ASSUME HardwareHoldsWindow, OuterInv, Enqueue
  PROVE  OuterInv'
<1>1. /\ pc \in {"setup_outer", "outer"}
      /\ UNCHANGED <<array, working_set, window, current, pc, Outputs, Members(current)>>
  BY DEF Enqueue, Filling, windowVars, Outputs, Members
<1>2. QueuesInv' /\ Waiting' = Waiting
  BY EnqueueMembers
<1> QED
  BY <1>1, <1>2 DEF OuterInv, PcInv, InputsInv, CountInv, WindowIsRecord, Selected

\* The output that is moved is taken from the waiting ones.
LEMMA MoveMembers ==
  ASSUME HardwareHoldsWindow, OuterInv, MoveOutput
  PROVE  /\ QueuesInv' /\ current' # <<>>
         /\ \E o \in Outputs \cap Waiting : /\ Members(current)' = Members(current) \cup {o}
                                          /\ Waiting' = Waiting \ {o}
<1>1. UNCHANGED <<array, i, Outputs, NumOutputs>> /\ i \in 0 .. NumOutputs
  BY DEF MoveOutput, windowVars, NumOutputs, Outputs, OuterInv, QueuesInv
<1>2. /\ Members(current)' = Members(current')
      /\ Members(short)' = Members(short')
      /\ Members(long)' = Members(long')
  BY DEF Members
<1>3. ASSUME NEW queue \in Seq(Outputs), queue # <<>>, Distinct(queue),
             Members(queue) \cap Members(current) = {},
             current' = Append(current, Head(queue))
      PROVE  /\ Head(queue) \in Members(queue) /\ Head(queue) \in Outputs
             /\ Tail(queue) \in Seq(Outputs) /\ Distinct(Tail(queue))
             /\ Members(Tail(queue)) = Members(queue) \ {Head(queue)}
             /\ current' \in Seq(Outputs) /\ Distinct(current') /\ current' # <<>>
             /\ Members(current') = Members(current) \cup {Head(queue)}
  <2>1. /\ Head(queue) \in Members(queue) /\ Head(queue) \in Outputs
        /\ Tail(queue) \in Seq(Outputs) /\ Distinct(Tail(queue))
        /\ Members(Tail(queue)) = Members(queue) \ {Head(queue)}
    BY <1>3, TailMembers
  <2>2. Head(queue) \notin Members(current)
    BY <1>3, <2>1
  <2>3. current \in Seq(Outputs) /\ Distinct(current)
    BY DEF OuterInv, QueuesInv
  <2>4. /\ Append(current, Head(queue)) \in Seq(Outputs)
        /\ Distinct(Append(current, Head(queue)))
        /\ Members(Append(current, Head(queue))) = Members(current) \cup {Head(queue)}
        /\ Append(current, Head(queue)) # <<>>
    BY <2>1, <2>2, <2>3, AppendMember
  <2> QED
    BY <1>3, <2>1, <2>4
<1>4. CASE /\ short # <<>>
           /\ current' = Append(current, Head(short))
           /\ short' = Tail(short)
           /\ UNCHANGED long
  <2> DEFINE o == Head(short)
  <2>1. /\ o \in Members(short) /\ o \in Outputs
        /\ short' \in Seq(Outputs) /\ Distinct(short')
        /\ Members(short') = Members(short) \ {o}
        /\ current' \in Seq(Outputs) /\ Distinct(current') /\ current' # <<>>
        /\ Members(current') = Members(current) \cup {o}
    BY <1>3, <1>4 DEF OuterInv, QueuesInv
  <2> HIDE DEF o
  <2>2. o \notin i .. NumOutputs - 1 /\ o \notin Members(long)
    BY <2>1 DEF OuterInv, QueuesInv
  <2>3. QueuesInv'
    BY <1>1, <1>2, <1>4, <2>1 DEF OuterInv, QueuesInv
  <2>4. o \in Waiting /\ Waiting' = Waiting \ {o}
    BY <1>1, <1>2, <1>4, <2>1, <2>2 DEF Waiting
  <2> QED
    BY <1>2, <2>1, <2>3, <2>4
<1>5. CASE /\ long # <<>>
           /\ current' = Append(current, Head(long))
           /\ long' = Tail(long)
           /\ UNCHANGED short
  <2> DEFINE o == Head(long)
  <2>1. /\ o \in Members(long) /\ o \in Outputs
        /\ long' \in Seq(Outputs) /\ Distinct(long')
        /\ Members(long') = Members(long) \ {o}
        /\ current' \in Seq(Outputs) /\ Distinct(current') /\ current' # <<>>
        /\ Members(current') = Members(current) \cup {o}
    BY <1>3, <1>5 DEF OuterInv, QueuesInv
  <2> HIDE DEF o
  <2>2. o \notin i .. NumOutputs - 1 /\ o \notin Members(short)
    BY <2>1 DEF OuterInv, QueuesInv
  <2>3. QueuesInv'
    BY <1>1, <1>2, <1>5, <2>1 DEF OuterInv, QueuesInv
  <2>4. o \in Waiting /\ Waiting' = Waiting \ {o}
    BY <1>1, <1>2, <1>5, <2>1, <2>2 DEF Waiting
  <2> QED
    BY <1>2, <2>1, <2>3, <2>4
<1> QED
  BY <1>4, <1>5 DEF MoveOutput

\* The output that is moved has all its inputs.
LEMMA MoveKeepsInv ==
  ASSUME HardwareHoldsWindow, OuterInv, MoveOutput
  PROVE  OuterInv'
<1>1. /\ pc \in {"setup", "fill"}
      /\ UNCHANGED <<array, working_set, window, pc, Outputs>>
  BY DEF MoveOutput, windowVars, Outputs
<1>2. QueuesInv' /\ current' # <<>>
  BY MoveMembers
<1>3. PICK o \in Outputs \cap Waiting : /\ Members(current)' = Members(current) \cup {o}
                                      /\ Waiting' = Waiting \ {o}
  BY MoveMembers
<1>4. working_set[o] # {}
  BY DEF OuterInv, InputsInv, HardwareHoldsWindow
<1>5. InputsInv'
  BY <1>1, <1>3, <1>4 DEF OuterInv, InputsInv
<1> QED
  BY <1>1, <1>2, <1>5 DEF OuterInv, PcInv, CountInv, WindowIsRecord

\* The queues are as they were.
LEMMA QueuesStay ==
  ASSUME OuterInv, UNCHANGED <<array, current, i, short, long>>
  PROVE  QueuesInv' /\ UNCHANGED <<Waiting, Members(current), Outputs, NumOutputs>>
<1>1. UNCHANGED <<Outputs, NumOutputs, Members(current), Members(short), Members(long)>>
  BY DEF Outputs, NumOutputs, Members
<1>2. QueuesInv'
  BY <1>1 DEF OuterInv, QueuesInv
<1>3. Waiting' = Waiting
  BY <1>1 DEF Waiting
<1> QED
  BY <1>1, <1>2, <1>3

\* The ends of the loops that fill the queues.
LEMMA FillDoneKeepsInv ==
  ASSUME HardwareHoldsWindow, OuterInv, EnqueueDone \/ FillDone
  PROVE  OuterInv'
<1>1. UNCHANGED <<array, working_set, window, current, i, short, long>>
  BY DEF EnqueueDone, FillDone, windowVars
<1>2. QueuesInv' /\ UNCHANGED <<Waiting, Members(current), Outputs, NumOutputs>>
  BY <1>1, QueuesStay
<1>3. \/ pc \in {"setup_outer", "outer"} /\ pc' \in {"setup", "fill"}
      \/ pc \in {"setup", "fill"} /\ pc' \in {"open", "done"} /\ (pc' = "open" => current # <<>>)
  BY DEF EnqueueDone, Filling, FillDone
<1>4. pc' = "fill" /\ OuterEmpty /\ current = <<>> => i = NumOutputs
  <2> SUFFICES ASSUME pc' = "fill", OuterEmpty PROVE i = NumOutputs
    OBVIOUS
  <2>1. EnqueueDone
    BY <1>3 DEF FillDone
  <2>2. OuterHasRoom
    BY DEF OuterEmpty, OuterHasRoom, HardwareHoldsWindow
  <2> QED
    BY <2>1, <2>2 DEF EnqueueDone, OuterInv, QueuesInv, HardwareHoldsWindow
<1>5. PcInv'
  BY <1>1, <1>2, <1>3, <1>4 DEF PcInv, OuterEmpty
<1>6. InputsInv' /\ CountInv'
  BY <1>1, <1>2, <1>3 DEF OuterInv, InputsInv, CountInv, WindowIsRecord
<1> QED
  BY <1>2, <1>5, <1>6 DEF OuterInv

\* A window is begun.
LEMMA BeginKeepsInv ==
  ASSUME HardwareHoldsWindow, OuterInv, BeginWindow
  PROVE  OuterInv'
<1>1. /\ pc = "open" /\ pc' = "skip"
      /\ window' = FreshWindow(Members(current), Len(current))
      /\ UNCHANGED <<array, working_set, current, i, short, long>>
  BY DEF BeginWindow, graphVars
<1>2. QueuesInv' /\ UNCHANGED <<Waiting, Members(current), Outputs, NumOutputs>>
  BY <1>1, QueuesStay
<1>3. window' = [input_num |-> 0, output_num |-> Len(current), edges |-> 0,
                 all_edges |-> {}, inputs |-> {}, outputs |-> Members(current)]
  BY <1>1, FreshWindowFields
<1>4. WindowIsRecord' /\ window'.input_num = 0
  BY <1>3 DEF WindowIsRecord
<1> QED
  BY <1>1, <1>2, <1>4 DEF OuterInv, PcInv, InputsInv, CountInv

\* popleft of an empty output.
LEMMA PopLeftMembers ==
  ASSUME HardwareHoldsWindow, OuterInv, pc \in {"skip", "drop"},
         current' = Tail(current), UNCHANGED <<array, i, short, long>>
  PROVE  /\ QueuesInv' /\ Waiting' = Waiting
         /\ Members(current)' = Members(current) \ {Selected}
         /\ Selected \in Members(current) /\ Selected \in Outputs
         /\ UNCHANGED <<Outputs, NumOutputs>>
<1>1. current \in Seq(Outputs) /\ current # <<>> /\ Distinct(current)
  BY DEF OuterInv, QueuesInv, PcInv
<1>2. /\ current' \in Seq(Outputs) /\ Distinct(current')
      /\ Members(current') = Members(current) \ {Head(current)}
      /\ Head(current) \in Members(current) /\ Head(current) \in Outputs
  BY <1>1, TailMembers
<1>3. Members(current)' = Members(current')
  BY DEF Members
<1>4. UNCHANGED <<Outputs, NumOutputs, Members(short), Members(long)>>
  BY DEF Outputs, NumOutputs, Members
<1> QED
  BY <1>2, <1>3, <1>4 DEF OuterInv, QueuesInv, Waiting, Selected

\* The outputs that are skipped are empty, and one with inputs follows.
LEMMA SkipKeepsInv ==
  ASSUME HardwareHoldsWindow, OuterInv, SkipEmpty
  PROVE  OuterInv' /\ pc' = "skip" /\ window' = window
<1>1. /\ pc = "skip" /\ working_set[Selected] = {} /\ current' = Tail(current)
      /\ UNCHANGED <<array, working_set, i, short, long>>
  BY DEF SkipEmpty, graphVars
<1>2. /\ QueuesInv' /\ Waiting' = Waiting
      /\ Members(current)' = Members(current) \ {Selected}
      /\ UNCHANGED <<Outputs, NumOutputs>>
  BY <1>1, PopLeftMembers
<1>3. \E o \in Members(current) : working_set[o] # {}
  BY <1>1 DEF OuterInv, InputsInv, PcInv
<1>4. \E o \in Members(current)' : working_set[o] # {}
  BY <1>1, <1>2, <1>3
<1>5. Tail(current) # <<>>
  BY <1>1, <1>4 DEF Members
<1>6. pc' = "skip" /\ window' = window
  BY <1>5 DEF SkipEmpty
<1> QED
  BY <1>1, <1>2, <1>4, <1>5, <1>6
     DEF OuterInv, PcInv, InputsInv, CountInv, WindowIsRecord

\* The outputs that a pop emptied leave the queue.
LEMMA DropKeepsInv ==
  ASSUME HardwareHoldsWindow, OuterInv, DropFinished
  PROVE  OuterInv'
<1>1. /\ pc = "drop" /\ current' = Tail(current)
      /\ pc' = IF Tail(current) = <<>> THEN "close" ELSE "drop"
      /\ UNCHANGED <<array, working_set, window, i, short, long>>
  BY DEF DropFinished, PopEmpty, windowVars
<1>2. /\ QueuesInv' /\ Waiting' = Waiting /\ UNCHANGED <<Outputs, NumOutputs>>
  BY <1>1, PopLeftMembers
<1> QED
  BY <1>1, <1>2 DEF OuterInv, PcInv, InputsInv, CountInv, WindowIsRecord

\* The loops over the empty outputs end at one that has inputs.
LEMMA KeepKeepsInv ==
  ASSUME HardwareHoldsWindow, OuterInv, SkipDone \/ KeepSelected
  PROVE  OuterInv'
<1>1. /\ pc \in {"skip", "drop"} /\ pc' = "take" /\ working_set[Selected] # {}
      /\ UNCHANGED <<array, working_set, window, current, i, short, long>>
  BY DEF SkipDone, KeepSelected, Keep, windowVars
<1>2. QueuesInv' /\ UNCHANGED <<Waiting, Members(current), Outputs, NumOutputs>>
  BY <1>1, QueuesStay
<1>3. current # <<>>
  BY <1>1 DEF OuterInv, PcInv
<1>4. Selected \in Members(current)
  BY <1>3, TailMembers DEF OuterInv, QueuesInv, Selected
<1>5. InputsInv'
  BY <1>1, <1>2, <1>4 DEF OuterInv, InputsInv, Selected
<1> QED
  BY <1>1, <1>2, <1>3, <1>5 DEF OuterInv, PcInv, CountInv, WindowIsRecord

\* A pop serves outputs of the working queue, none that waits.
LEMMA PopKeepsInv ==
  ASSUME HardwareHoldsWindow, OuterInv, Pop
  PROVE  OuterInv'
<1>1. PICK x \in working_set[Selected] : PopInput(x)
  BY DEF Pop
<1>2. /\ pc = "take" /\ pc' = "drop" /\ Take(x, Selected, Members(current))
      /\ UNCHANGED <<array, current, i, short, long>>
  BY <1>1 DEF Pop, PopInput, graphVars
<1>3. QueuesInv' /\ UNCHANGED <<Waiting, Members(current), Outputs, NumOutputs>>
  BY <1>2, QueuesStay
<1>4. current # <<>>
  BY <1>2 DEF OuterInv, PcInv
<1>5. Selected \in Members(current)
  BY <1>4, TailMembers DEF OuterInv, QueuesInv, Selected
<1>6. \A o \in Waiting : o \notin Members(current) /\ o \in Outputs
  BY DEF OuterInv, QueuesInv, Waiting, HardwareHoldsWindow
<1>7. /\ DOMAIN working_set' = DOMAIN working_set
      /\ \A o \in Waiting : working_set'[o] = working_set[o]
  BY <1>2, <1>5, <1>6 DEF Take, Sharing, OuterInv, InputsInv
<1>8. window'.input_num = window.input_num + 1 /\ WindowIsRecord'
  BY <1>2, TakenWindow DEF Take, OuterInv, CountInv
<1>9. InputsInv'
  BY <1>2, <1>3, <1>7 DEF OuterInv, InputsInv
<1>10. CountInv'
  BY <1>2, <1>8 DEF OuterInv, CountInv
<1> QED
  BY <1>2, <1>3, <1>4, <1>9, <1>10 DEF OuterInv, PcInv

\* A window that is full leaves a selected output with inputs in the queue.
LEMMA CloseKeepsInv ==
  ASSUME HardwareHoldsWindow, OuterInv, CloseWindow
  PROVE  OuterInv'
<1>1. /\ pc \in {"close", "take"} /\ pc' = "outer" /\ window' = EmptyWindow
      /\ UNCHANGED <<array, working_set, current, i, short, long>>
  BY DEF CloseWindow, WindowEnds, AppendWindow, graphVars
<1>2. QueuesInv' /\ UNCHANGED <<Waiting, Members(current), Outputs, NumOutputs>>
  BY <1>1, QueuesStay
<1>3. WindowIsRecord'
  BY <1>1 DEF WindowIsRecord, EmptyWindow
<1> QED
  BY <1>1, <1>2, <1>3 DEF OuterInv, PcInv, InputsInv, CountInv

\* A step that changes nothing keeps it.
LEMMA StutterKeepsInv ==
  ASSUME OuterInv, UNCHANGED vars
  PROVE  OuterInv'
<1>1. UNCHANGED <<array, working_set, window, current, i, pc, short, long>>
  BY DEF vars, windowVars
<1>2. QueuesInv' /\ UNCHANGED <<Waiting, Members(current), Outputs, NumOutputs>>
  BY <1>1, QueuesStay
<1> QED
  BY <1>1, <1>2 DEF OuterInv, PcInv, InputsInv, CountInv, WindowIsRecord, OuterEmpty, Selected

\* Every step of the policies keeps the invariant.
LEMMA OuterInvStep ==
  ASSUME HardwareHoldsWindow, OuterInv, Step
  PROVE  HardwareHoldsWindow' /\ OuterInv'
  BY SetupStays, EnqueueKeepsInv, FillDoneKeepsInv, MoveKeepsInv, BeginKeepsInv,
     SkipKeepsInv, PopKeepsInv, KeepKeepsInv, DropKeepsInv, CloseKeepsInv, StutterKeepsInv
     DEF Step

\* The invariant of the outer policy.
LEMMA OuterInvariant ==
  HardwareHoldsWindow /\ Spec => [](HardwareHoldsWindow /\ OuterInv)
<1>1. HardwareHoldsWindow /\ Init => OuterInv
  BY OuterInvInit
<1>2. HardwareHoldsWindow /\ OuterInv /\ [Next]_vars => (HardwareHoldsWindow /\ OuterInv)'
  BY PoliciesStep, OuterInvStep
<1> QED
  BY <1>1, <1>2, PTL DEF Spec

\* The invariant of the bloom policy.
LEMMA BloomInvariant ==
  HardwareHoldsWindow /\ BloomSpec => [](HardwareHoldsWindow /\ OuterInv)
<1>1. HardwareHoldsWindow /\ BloomInit => OuterInv
  BY OuterInvInit DEF BloomInit
<1>2. HardwareHoldsWindow /\ OuterInv /\ [BloomNext]_allVars
        => (HardwareHoldsWindow /\ OuterInv)'
  BY PoliciesStep, OuterInvStep
<1> QED
  BY <1>1, <1>2, PTL DEF BloomSpec

\* Neither policy pops an input of an output that has none left: set.pop would
\* raise KeyError (graph.py, __setup_outer_short_long, __setup_bloom_short_long).
THEOREM OuterPopsNonEmpty ==
  HardwareHoldsWindow /\ (Spec \/ BloomSpec) => [](pc = "take" => working_set[Selected] # {})
<1>1. OuterInv => (pc = "take" => working_set[Selected] # {})
  BY DEF OuterInv, InputsInv
<1> QED
  BY <1>1, OuterInvariant, BloomInvariant, PTL

-----------------------------------------------------------------------------
\* The standard operator, seen through the instance.
LEMMA BuilderCardinality == \A S : Builder!Cardinality(S) = Cardinality(S)
  BY DEF Builder!Cardinality, Cardinality

\* An output moved to the working queue is admitted.
LEMMA MoveAdmits ==
  ASSUME HardwareHoldsWindow, OuterInv, MoveOutput
  PROVE  \E o \in Outputs : Builder!Admit(o)
<1>1. PICK o \in Outputs \cap Waiting : /\ Members(current)' = Members(current) \cup {o}
                                      /\ Waiting' = Waiting \ {o}
  BY MoveMembers
<1>2. /\ pc \in {"setup", "fill"} /\ pc' = pc
      /\ Len(current) < conf.max_output_num /\ UNCHANGED windowVars
  BY DEF MoveOutput, HasRoom
<1>3. Cardinality(Members(current)) = Len(current)
  BY MembersCount DEF OuterInv, QueuesInv
<1>4. BuilderPhase = "fill" /\ BuilderPhase' = "fill"
  BY <1>2 DEF BuilderPhase
<1>5. Builder!Admit(o)
  BY <1>1, <1>2, <1>3, <1>4, BuilderCardinality
     DEF Builder!Admit, Builder!windowVars, windowVars, Waiting
<1> QED
  BY <1>1, <1>5

\* popleft of an empty output drops it.
LEMMA PopLeftDrops ==
  ASSUME HardwareHoldsWindow, OuterInv, SkipEmpty \/ DropFinished
  PROVE  \E o \in Outputs : Builder!Drop(o)
<1>1. /\ pc \in {"skip", "drop"} /\ pc' \in {"skip", "drop", "close"}
      /\ working_set[Selected] = {} /\ current' = Tail(current)
      /\ UNCHANGED <<array, conf, working_set, window, plan, i, short, long>>
  <2>1. CASE SkipEmpty
    BY <2>1, SkipKeepsInv DEF SkipEmpty, graphVars
  <2>2. CASE DropFinished
    BY <2>2 DEF DropFinished, PopEmpty, windowVars
  <2> QED
    BY <2>1, <2>2
<1>2. /\ Waiting' = Waiting /\ Members(current)' = Members(current) \ {Selected}
      /\ Selected \in Members(current) /\ Selected \in Outputs
  BY <1>1, PopLeftMembers
<1>3. BuilderPhase = "window" /\ BuilderPhase' = "window"
  BY <1>1 DEF BuilderPhase
<1>4. Builder!Drop(Selected)
  BY <1>1, <1>2, <1>3 DEF Builder!Drop, Builder!windowVars, Waiting
<1> QED
  BY <1>2, <1>4

\* A window is begun for the whole working queue.
LEMMA BeginBegins ==
  ASSUME HardwareHoldsWindow, OuterInv, BeginWindow
  PROVE  Builder!BeginWindow
<1>1. /\ pc = "open" /\ pc' = "skip"
      /\ window' = FreshWindow(Members(current), Len(current))
      /\ UNCHANGED <<array, conf, working_set, plan, current, i, short, long>>
      /\ current \in Seq(Outputs) /\ current # <<>> /\ Distinct(current)
  BY DEF BeginWindow, graphVars, OuterInv, QueuesInv, PcInv
<1>2. Cardinality(Members(current)) = Len(current)
  BY <1>1, MembersCount
<1>3. Builder!FreshWindow(Members(current), Len(current))
        = FreshWindow(Members(current), Len(current))
  BY DEF Builder!FreshWindow, FreshWindow, Builder!EmptyWindow, EmptyWindow
<1>4. Members(current) # {}
  BY <1>1, TailMembers
<1>5. BuilderPhase = "fill" /\ BuilderPhase' = "window"
  BY <1>1 DEF BuilderPhase
<1>6. UNCHANGED <<Waiting, Members(current)>>
  BY <1>1, QueuesStay
<1> QED
  BY <1>1, <1>2, <1>3, <1>4, <1>5, <1>6, BuilderCardinality
     DEF Builder!BeginWindow, Builder!graphVars, Waiting

\* Popping an input takes it for all outputs of the queue that share it.
LEMMA PopTakes ==
  ASSUME HardwareHoldsWindow, OuterInv, Pop
  PROVE  \E o \in Outputs : \E x \in working_set[o] : Builder!TakeInput(x, o)
<1>1. PICK x \in working_set[Selected] : PopInput(x)
  BY DEF Pop
<1>2. /\ pc = "take" /\ pc' = "drop" /\ window.input_num < conf.max_input_num
      /\ Take(x, Selected, Members(current))
      /\ UNCHANGED <<array, conf, plan, current, i, short, long>>
  BY <1>1 DEF Pop, PopInput, graphVars
<1>3. Builder!Take(x, Selected, Members(current))
  BY <1>2 DEF Builder!Take, Take, Builder!Sharing, Sharing, Builder!Cardinality, Cardinality
<1>4. Selected \in Members(current) /\ Members(current) \subseteq Outputs
  <2>1. current # <<>> /\ current \in Seq(Outputs) /\ Distinct(current)
    BY <1>2 DEF OuterInv, PcInv, QueuesInv
  <2> QED
    BY <2>1, TailMembers DEF Selected, Members
<1>5. BuilderPhase = "window" /\ BuilderPhase' = "window"
  BY <1>2 DEF BuilderPhase
<1>6. UNCHANGED <<Waiting, Members(current)>>
  BY <1>2, QueuesStay
<1>7. Builder!TakeInput(x, Selected)
  BY <1>1, <1>2, <1>3, <1>4, <1>5, <1>6 DEF Builder!TakeInput, Builder!graphVars, Waiting
<1> QED
  BY <1>1, <1>4, <1>7

\* A window is closed when it is full or the working queue is empty.
LEMMA CloseCloses ==
  ASSUME HardwareHoldsWindow, OuterInv, CloseWindow
  PROVE  Builder!CloseWindow
<1>1. /\ pc' = "outer" /\ WindowEnds /\ AppendWindow
      /\ UNCHANGED <<array, conf, working_set, current, i, short, long>>
  BY DEF CloseWindow, graphVars
<1>2. \/ pc = "close" /\ current = <<>> /\ window.input_num > 0
      \/ pc = "take" /\ window.input_num >= conf.max_input_num
  BY <1>1 DEF WindowEnds, OuterInv, PcInv, CountInv
<1>3. window.input_num \in Nat /\ conf.max_input_num \in Nat \ {0}
  BY <1>2 DEF OuterInv, CountInv, HardwareHoldsWindow
<1>4. /\ window.input_num > 0
      /\ window.input_num < conf.max_input_num => Members(current) = {}
  BY <1>2, <1>3 DEF Members
<1>5. Builder!AppendWindow
  BY <1>1 DEF AppendWindow, Builder!AppendWindow, EmptyWindow, Builder!EmptyWindow
<1>6. BuilderPhase = "window" /\ BuilderPhase' = "fill"
  BY <1>1, <1>2 DEF BuilderPhase
<1>7. UNCHANGED <<Waiting, Members(current)>>
  BY <1>1, QueuesStay
<1> QED
  BY <1>1, <1>4, <1>5, <1>6, <1>7 DEF Builder!CloseWindow, Builder!graphVars, Waiting

\* The loops that end are not seen, the end of the policy is.
LEMMA DoneFinishes ==
  ASSUME HardwareHoldsWindow, OuterInv, EnqueueDone \/ FillDone
  PROVE  Builder!Finish \/ UNCHANGED Builder!vars
<1>1. UNCHANGED <<windowVars, current, i, short, long>>
  BY DEF EnqueueDone, FillDone
<1>2. UNCHANGED <<Waiting, Members(current)>>
  BY <1>1, QueuesStay DEF windowVars
<1>3. BuilderPhase = "fill"
  BY DEF EnqueueDone, FillDone, Filling, BuilderPhase
<1>4. CASE pc' = "done"
  <2>1. FillDone /\ current = <<>>
    BY <1>4 DEF EnqueueDone, FillDone
  <2>2. HasRoom
    BY <2>1 DEF HasRoom, HardwareHoldsWindow
  <2>3. pc = "fill" /\ OuterEmpty
    BY <2>1, <2>2 DEF FillDone
  <2>4. i = NumOutputs
    BY <2>1, <2>3 DEF OuterInv, PcInv
  <2>5. i .. NumOutputs - 1 = {}
    BY <2>4 DEF HardwareHoldsWindow
  <2>6. Members(current) = {} /\ Waiting = {}
    BY <2>1, <2>3, <2>5 DEF Members, Waiting, OuterEmpty
  <2>7. BuilderPhase' = "done"
    BY <1>4 DEF BuilderPhase
  <2> QED
    BY <1>1, <1>2, <1>3, <2>6, <2>7 DEF Builder!Finish, Builder!windowVars, windowVars, Waiting
<1>5. CASE pc' # "done"
  <2>1. BuilderPhase' = "fill"
    BY <1>5 DEF EnqueueDone, FillDone, BuilderPhase
  <2> QED
    BY <1>1, <1>2, <1>3, <2>1 DEF Builder!vars, Builder!windowVars, windowVars, Waiting
<1> QED
  BY <1>4, <1>5

\* A step of either policy is a step of the common algorithm or a stutter.
LEMMA StepBuilds ==
  ASSUME HardwareHoldsWindow, OuterInv, Step
  PROVE  [Builder!Next]_(Builder!vars)
<1> USE DEF Builder!Next
<1>0. Builder!Outputs = Outputs
  BY DEF Builder!Outputs, Outputs
<1>1. CASE Enqueue
  <2>1. Waiting' = Waiting
    BY <1>1, EnqueueMembers
  <2>2. UNCHANGED <<windowVars, Members(current), BuilderPhase>>
    BY <1>1 DEF Enqueue, Members, BuilderPhase
  <2> QED
    BY <2>1, <2>2 DEF Builder!vars, Builder!windowVars, windowVars, Waiting
<1>2. CASE EnqueueDone \/ FillDone
  BY <1>2, DoneFinishes
<1>3. CASE MoveOutput
  BY <1>0, <1>3, MoveAdmits
<1>4. CASE BeginWindow
  BY <1>4, BeginBegins
<1>5. CASE SkipEmpty \/ DropFinished
  BY <1>0, <1>5, PopLeftDrops
<1>6. CASE Pop
  BY <1>0, <1>6, PopTakes
<1>7. CASE CloseWindow
  BY <1>7, CloseCloses
<1>8. CASE SkipDone \/ KeepSelected \/ UNCHANGED vars
  <2>1. UNCHANGED <<windowVars, current, i, short, long>> /\ BuilderPhase' = BuilderPhase
    BY <1>8 DEF SkipDone, KeepSelected, Keep, vars, BuilderPhase
  <2>2. UNCHANGED <<Waiting, Members(current)>>
    BY <2>1, QueuesStay DEF windowVars
  <2> QED
    BY <2>1, <2>2 DEF Builder!vars, Builder!windowVars, windowVars, Waiting
<1> QED
  BY <1>1, <1>2, <1>3, <1>4, <1>5, <1>6, <1>7, <1>8 DEF Step

\* __setup_outer_short_long and __setup_bloom_short_long are orders of the
\* common algorithm: whatever queue an output waits in, it is neither forgotten
\* nor dropped before all its inputs are in a window.
THEOREM OuterImplementsBuilder ==
  HardwareHoldsWindow /\ (Spec \/ BloomSpec) => Builder!Spec
<1>1. HardwareHoldsWindow /\ Init => Builder!Init
  <2> SUFFICES ASSUME HardwareHoldsWindow, Init PROVE Builder!Init
    OBVIOUS
  <2>1. Members(<<>>) = {} /\ i .. NumOutputs - 1 = Outputs
    BY DEF Init, Members, HardwareHoldsWindow
  <2>2. BuilderPhase = "fill" /\ Waiting = Outputs /\ Members(current) = {}
    BY <2>1 DEF Init, BuilderPhase, Waiting
  <2> QED
    BY <2>2 DEF Init, Builder!Init, EmptyWindow, Builder!EmptyWindow, Builder!Outputs, Outputs,
                Waiting
<1>2. BloomInit => Init
  BY DEF BloomInit
<1>3. HardwareHoldsWindow /\ OuterInv /\ ([Next]_vars \/ [BloomNext]_allVars)
        => [Builder!Next]_(Builder!vars)
  BY PoliciesStep, StepBuilds
<1>4. HardwareHoldsWindow /\ Spec => Builder!Spec
  BY <1>1, <1>3, OuterInvariant, PTL DEF Spec, Builder!Spec
<1>5. HardwareHoldsWindow /\ BloomSpec => Builder!Spec
  BY <1>1, <1>2, <1>3, BloomInvariant, PTL DEF BloomSpec, Builder!Spec
<1> QED
  BY <1>4, <1>5

-----------------------------------------------------------------------------
\* The theorems of the common algorithm, for these policies.
Builds == INSTANCE WindowProofs
    WITH waiting <- (i .. NumOutputs - 1) \cup Members(short) \cup Members(long),
         current <- Members(current),
         phase   <- BuilderPhase

\* The two instances of the common algorithm are the same.
LEMMA OuterBuilds ==
  HardwareHoldsWindow /\ (Spec \/ BloomSpec) => Builds!ValidSetup /\ Builds!Spec
<1>1. HardwareHoldsWindow => Builds!ValidSetup
  <2> SUFFICES ASSUME HardwareHoldsWindow PROVE Builds!ValidSetup
    OBVIOUS
  <2>1. IsFiniteSet(Outputs)
    BY FS_Interval DEF HardwareHoldsWindow
  <2> QED
    BY <2>1 DEF HardwareHoldsWindow, Builds!ValidSetup, Builds!Outputs, Outputs,
                Builds!IsFiniteSet, IsFiniteSet
<1>2. Builder!Init => Builds!Init
  BY DEF Builder!Init, Builds!Init, Builder!EmptyWindow, Builds!EmptyWindow,
         Builder!Outputs, Builds!Outputs
<1>3. [Builder!Next]_(Builder!vars) => [Builds!Next]_(Builds!vars)
  BY DEF Builder!Next, Builds!Next, Builder!vars, Builds!vars,
         Builder!windowVars, Builds!windowVars, Builder!graphVars, Builds!graphVars,
         Builder!Admit, Builds!Admit, Builder!Drop, Builds!Drop,
         Builder!BeginWindow, Builds!BeginWindow, Builder!TakeInput, Builds!TakeInput,
         Builder!CloseWindow, Builds!CloseWindow, Builder!Finish, Builds!Finish,
         Builder!AbandonWindow, Builds!AbandonWindow,
         Builder!AppendWindow, Builds!AppendWindow, Builder!Take, Builds!Take,
         Builder!Sharing, Builds!Sharing, Builder!EmptyWindow, Builds!EmptyWindow,
         Builder!FreshWindow, Builds!FreshWindow, Builder!Outputs, Builds!Outputs,
         Builder!Cardinality, Builds!Cardinality
<1> QED
  BY <1>1, <1>2, <1>3, OuterImplementsBuilder, PTL DEF Builder!Spec, Builds!Spec

\* The outer and the bloom policy cut the edges of the graph into windows: each
\* fits the hardware, is not empty and takes every remaining edge between its
\* inputs and its outputs (__setup_outer_short_long, __setup_bloom_short_long).
THEOREM OuterImplementsPlan ==
  HardwareHoldsWindow /\ (Spec \/ BloomSpec) => Builds!Plan!Spec
<1>1. Builds!ValidSetup /\ Builds!Spec => Builds!Plan!Spec
  BY Builds!BuilderImplementsPlan
<1> QED
  BY <1>1, OuterBuilds, PTL

\* When one of the two functions returns, every edge has its window.
THEOREM OuterSchedulesEverything ==
  HardwareHoldsWindow /\ (Spec \/ BloomSpec) =>
    [](pc = "done" => EdgesOf(working_set) \cup window.all_edges = {})
<1>1. Builds!ValidSetup /\ Builds!Spec => [](BuilderPhase = "done" => Builds!Remaining = {})
  BY Builds!BuilderSchedulesEverything
<1>2. (BuilderPhase = "done" => Builds!Remaining = {})
        => (pc = "done" => EdgesOf(working_set) \cup window.all_edges = {})
  BY DEF BuilderPhase, Builds!Remaining, Builds!EdgesOf, EdgesOf
<1> QED
  BY <1>1, <1>2, OuterBuilds, PTL
=============================================================================
