----------------------------- MODULE QueueProofs -----------------------------
(***************************************************************************)
(* The queue policies of graph.py and of get_graph.py as setup_window runs *)
(* them, for every graph and every size of the hardware.                   *)
(*                                                                         *)
(* The steps of the eight policies are put into ten kinds (QueueStep).     *)
(* Each kind keeps the invariant of the queues (PolicyInv) and is a step   *)
(* of the common algorithm, whose theorems in WindowProofs then apply.     *)
(***************************************************************************)
EXTENDS GraphProperties, WindowLemmas

SeqPolicies == {"sequential", "get_graph_sequential"}

OuterPolicies == {"outer", "bloom", "get_graph_outer"}

\* The policies with outer queues.
OuterQueued == OuterPolicies \cup {"neighbor"}

QueuePolicies == DequePolicies \cup SplitPolicies \cup {"neighbor"}

NewPolicies == {"sequential", "current", "outer", "bloom", "neighbor"}

\* The graph that is read and the arguments, whichever policy runs.
SetupInv ==
    /\ conf \in Config
    /\ conf.max_input_num > 0 /\ conf.max_output_num > 0
    /\ conf.divider > 0 /\ conf.max_queue_size > 0
    /\ NumOutputs \in Nat \ {0}
    /\ Outputs = 0 .. NumOutputs - 1
    /\ \A o \in Outputs : /\ o \in array[o]
                          /\ array[o] \subseteq Nat
                          /\ IsFiniteSet(array[o])
    /\ order \in {GraphPy, GetGraphPy}
    /\ policy \in 1 .. Len(order)

\* A queue of the outputs below n.
ReadQueue(q, n) ==
    /\ q \in Seq(Nat)
    /\ Distinct(q)
    /\ Members(q) \subseteq 0 .. n - 1

\* No output is in two places, and each policy has its own queues.
QueuesInv ==
    /\ i \in 0 .. NumOutputs
    /\ ReadQueue(current, i) /\ ReadQueue(short, i) /\ ReadQueue(long, i)
    /\ current_output_set \subseteq 0 .. i - 1
    /\ Members(short) \cap Members(long) = {}
    /\ (Members(current) \cup current_output_set) \cap (Members(short) \cup Members(long)) = {}
    /\ Running \notin DequePolicies => current = <<>>
    /\ Running # "neighbor" => current_output_set = {}
    /\ Running \in SeqPolicies => short = <<>> /\ long = <<>>

Served ==
    /\ Running \in DequePolicies => current # <<>>
    /\ Running \in SplitPolicies =>
         /\ selected_queue \in {"short", "long"}
         /\ selected_queue = "short" => short # <<>>
         /\ selected_queue = "long" => short = <<>> /\ long # <<>>
    /\ Running = "neighbor" => next_select_item \in current_output_set

\* The loops of the policies, and where their queues may be empty.
LoopInv ==
    /\ pc \in {"fill", "skip", "take", "drop", "close", "done", "KeyError", "open",
               "setup_outer", "outer", "setup"}
    /\ Running \in SeqPolicies => pc # "open"
    /\ Running \notin OuterQueued => pc \notin {"setup_outer", "outer", "setup"}
    /\ order = GraphPy => pc # "KeyError"
    /\ order # GraphPy /\ Running \notin SeqPolicies => pc # "skip"
    /\ pc \in {"skip", "take", "drop"} => Served
    /\ pc = "open" => WorkingOutputs # {}
    /\ pc \in {"close", "done"} => WorkingOutputs = {}
    /\ pc = "done" => Waiting = {}
    /\ Running \in OuterQueued /\ pc = "fill" /\ WorkingOutputs = {}
         /\ short = <<>> /\ long = <<>> => i = NumOutputs

\* An output that waits has all its inputs; the policies of graph.py begin a
\* window for outputs of which one has an input left.
InputsInv ==
    /\ DOMAIN working_set = Outputs
    /\ \A o \in Outputs : working_set[o] \subseteq array[o]
    /\ \A o \in Waiting : working_set[o] = array[o]
    /\ order = GraphPy /\ pc \notin {"drop", "close"} /\ WorkingOutputs # {} =>
         \E o \in WorkingOutputs : working_set[o] # {}
    /\ order = GraphPy /\ pc = "take" => working_set[SelectedOutput] # {}
    /\ pc \in {"drop", "close"} => window.input_num > 0

\* The outputs that shared an input in this window wait in the working set.
TouchedInv ==
    /\ DOMAIN next_waiting_set \subseteq Outputs
    /\ Running = "neighbor" /\ pc \in {"take", "drop"} =>
         DOMAIN next_waiting_set \subseteq current_output_set \ {next_select_item}

PolicyInv ==
    Running \in QueuePolicies =>
        QueuesInv /\ LoopInv /\ InputsInv /\ TouchedInv

-----------------------------------------------------------------------------
\* Which policies setup_window runs.
LEMMA RunningPolicy ==
  SetupInv => /\ Running \in TilePolicies \cup QueuePolicies
              /\ order = GraphPy => Running \in TilePolicies \cup NewPolicies
              /\ order # GraphPy => Running \in TilePolicies \cup (QueuePolicies \ NewPolicies)
<1> SUFFICES ASSUME SetupInv
             PROVE  /\ Running \in TilePolicies \cup QueuePolicies
                    /\ order = GraphPy => Running \in TilePolicies \cup NewPolicies
                    /\ order # GraphPy =>
                         Running \in TilePolicies \cup (QueuePolicies \ NewPolicies)
  OBVIOUS
<1>1. CASE order = GraphPy
  <2>1. Len(GraphPy) = 7 /\ policy \in 1 .. 7
    BY <1>1 DEF SetupInv, GraphPy
  <2>2. policy \in {1, 2, 3, 4, 5, 6, 7}
    BY <2>1
  <2> QED
    BY <1>1, <2>2 DEF Running, GraphPy, TilePolicies, NewPolicies, QueuePolicies, DequePolicies,
                      SplitPolicies
<1>2. CASE order # GraphPy
  <2>1. order = GetGraphPy /\ Len(GetGraphPy) = 5 /\ policy \in 1 .. 5
    BY <1>2 DEF SetupInv, GetGraphPy
  <2>2. policy \in {1, 2, 3, 4, 5}
    BY <2>1
  <2> QED
    BY <1>2, <2>1, <2>2 DEF Running, GetGraphPy, TilePolicies, NewPolicies, QueuePolicies,
                      DequePolicies, SplitPolicies
<1> QED
  BY <1>1, <1>2

\* The working queue and the selected output of a policy with one deque.
LEMMA DequeQueues ==
  Running \in DequePolicies =>
    WorkingOutputs = Members(current) /\ SelectedOutput = Head(current)
  BY DEF DequePolicies, SplitPolicies, WorkingOutputs, SelectedOutput

\* Those of a policy with two.
LEMMA SplitQueues ==
  Running \in SplitPolicies =>
    /\ WorkingOutputs = Members(short) \cup Members(long)
    /\ SelectedOutput = Head(IF selected_queue = "short" THEN short ELSE long)
    /\ Waiting = i .. NumOutputs - 1
  BY DEF DequePolicies, SplitPolicies, WorkingOutputs, SelectedOutput, ShortLong!Selected,
         ShortLong!Queue, Waiting

\* Those of the neighbor policy.
LEMMA NeighborQueues ==
  Running = "neighbor" =>
    WorkingOutputs = current_output_set /\ SelectedOutput = next_select_item
  BY DEF DequePolicies, SplitPolicies, WorkingOutputs, SelectedOutput

\* The outputs that are not in the working queue yet.
LEMMA WaitingQueues ==
  Running \in QueuePolicies \ SplitPolicies =>
    Waiting = (i .. NumOutputs - 1) \cup Members(short) \cup Members(long)
  BY DEF Waiting

\* The loops that build a window.
LEMMA Phases ==
  Running \in QueuePolicies /\ LoopInv =>
    /\ pc \in {"take", "drop", "close", "KeyError"} => QueuePhase = "window"
    /\ pc = "skip" => QueuePhase = IF Running \in SeqPolicies THEN "fill" ELSE "window"
    /\ pc = "done" => QueuePhase = "done"
    /\ pc \in {"fill", "open", "setup_outer", "outer", "setup"} => QueuePhase = "fill"
  BY DEF QueuePolicies, DequePolicies, SplitPolicies, SeqPolicies, OuterQueued, OuterPolicies,
         LoopInv, QueuePhase, Raised, ShortLong!BuilderPhase, Sequential!BuilderPhase,
         Outer!BuilderPhase

\* The same in the next state.
LEMMA QueuesNext ==
  /\ (Running \in DequePolicies =>
        WorkingOutputs = Members(current) /\ SelectedOutput = Head(current))'
  /\ (Running \in SplitPolicies =>
        /\ WorkingOutputs = Members(short) \cup Members(long)
        /\ SelectedOutput = Head(IF selected_queue = "short" THEN short ELSE long)
        /\ Waiting = i .. NumOutputs - 1)'
  /\ (Running = "neighbor" =>
        WorkingOutputs = current_output_set /\ SelectedOutput = next_select_item)'
  /\ (Running \in QueuePolicies \ SplitPolicies =>
        Waiting = (i .. NumOutputs - 1) \cup Members(short) \cup Members(long))'
<1>1. (Running \in DequePolicies =>
         WorkingOutputs = Members(current) /\ SelectedOutput = Head(current))'
  BY DequeQueues, PTL
<1>2. (Running \in SplitPolicies =>
         /\ WorkingOutputs = Members(short) \cup Members(long)
         /\ SelectedOutput = Head(IF selected_queue = "short" THEN short ELSE long)
         /\ Waiting = i .. NumOutputs - 1)'
  BY SplitQueues, PTL
<1>3. (Running = "neighbor" =>
         WorkingOutputs = current_output_set /\ SelectedOutput = next_select_item)'
  BY NeighborQueues, PTL
<1>4. (Running \in QueuePolicies \ SplitPolicies =>
         Waiting = (i .. NumOutputs - 1) \cup Members(short) \cup Members(long))'
  BY WaitingQueues, PTL
<1> QED
  BY <1>1, <1>2, <1>3, <1>4

\* The loops in the next state.
LEMMA PhasesNext ==
  (Running \in QueuePolicies /\ LoopInv =>
    /\ pc \in {"take", "drop", "close", "KeyError"} => QueuePhase = "window"
    /\ pc = "skip" => QueuePhase = IF Running \in SeqPolicies THEN "fill" ELSE "window"
    /\ pc = "done" => QueuePhase = "done"
    /\ pc \in {"fill", "open", "setup_outer", "outer", "setup"} => QueuePhase = "fill")'
  BY Phases, PTL

\* A queue without members is empty.
LEMMA EmptyQueue ==
  ASSUME NEW S, NEW q \in Seq(S)
  PROVE  Members(q) = {} <=> q = <<>>
<1>1. CASE q = <<>>
  BY <1>1 DEF Members
<1>2. CASE q # <<>>
  <2>1. 1 \in 1 .. Len(q)
    BY <1>2
  <2>2. q[1] \in Members(q)
    BY <2>1 DEF Members
  <2> QED
    BY <1>2, <2>2
<1> QED
  BY <1>1, <1>2

-----------------------------------------------------------------------------
\* What a step of any queue policy does to the outputs.

\* An output is read into an outer queue.
ReadStep ==
    /\ pc \in {"setup_outer", "outer"} /\ pc' = pc
    /\ UNCHANGED <<windowVars, WorkingOutputs, Waiting>>

\* An output enters the working queue.
AdmitStep ==
    /\ pc \in {"setup", "fill"} /\ pc' = pc
    /\ Cardinality(WorkingOutputs) < conf.max_output_num
    /\ \E o \in Outputs \cap Waiting :
          /\ WorkingOutputs' = WorkingOutputs \cup {o}
          /\ Waiting' = Waiting \ {o}
    /\ UNCHANGED windowVars

\* A loop that fills a queue ends.
LoopStep ==
    /\ pc \in {"setup_outer", "outer", "setup", "fill"}
    /\ \/ pc' \in {"setup", "fill"} /\ Running \in OuterQueued
       \/ pc' = "skip" /\ Running \in SeqPolicies /\ WorkingOutputs # {}
       \/ pc' = "open" /\ Running \notin SeqPolicies /\ WorkingOutputs # {}
       \/ pc' = "done" /\ WorkingOutputs = {} /\ Waiting = {}
    /\ Running \in OuterQueued /\ pc' = "fill" /\ short' = <<>> /\ long' = <<>>
         => i' = NumOutputs
    /\ UNCHANGED <<windowVars, WorkingOutputs, Waiting>>

\* A window is begun for the working queue.
BeginStep ==
    /\ \/ pc = "open"
       \/ pc = "skip" /\ Running \in SeqPolicies
    /\ \/ pc' = "take"
       \/ pc' = "skip" /\ Running \notin SeqPolicies /\ order = GraphPy
    /\ WorkingOutputs # {}
    /\ window' = FreshWindow(WorkingOutputs, Cardinality(WorkingOutputs))
    /\ order = GraphPy /\ pc' = "take" => working_set[SelectedOutput'] # {}
    /\ UNCHANGED <<graphVars, working_set, plan, WorkingOutputs, Waiting>>

\* An empty output leaves the working queue.
PopStep ==
    /\ \/ pc \in {"skip", "drop"} /\ pc' = pc /\ order = GraphPy
       \/ pc = "drop" /\ pc' = "close" /\ WorkingOutputs' = {}
       \/ pc = "drop" /\ pc' = "take" /\ order # GraphPy
    /\ SelectedOutput \in WorkingOutputs
    /\ working_set[SelectedOutput] = {}
    /\ WorkingOutputs' = WorkingOutputs \ {SelectedOutput}
    /\ UNCHANGED <<windowVars, Waiting>>

\* The selected output still needs inputs.
KeepStep ==
    /\ \/ pc = "skip" /\ Running \notin SeqPolicies
       \/ pc = "drop"
    /\ pc' = "take"
    /\ working_set[SelectedOutput] # {}
    /\ UNCHANGED <<windowVars, WorkingOutputs, SelectedOutput, Waiting>>

\* An input is popped.
TakeStep ==
    /\ pc = "take" /\ pc' = "drop"
    /\ window.input_num < conf.max_input_num
    /\ SelectedOutput \in WorkingOutputs
    /\ \E x \in working_set[SelectedOutput] : Take(x, SelectedOutput, WorkingOutputs)
    /\ UNCHANGED <<graphVars, plan, WorkingOutputs, Waiting>>

\* The window is appended.
CloseStep ==
    /\ \/ pc = "close"
       \/ pc = "take" /\ window.input_num >= conf.max_input_num
    /\ \/ pc' = "fill" /\ Running \notin OuterQueued
       \/ pc' = "outer" /\ Running \in OuterQueued
    /\ AppendWindow
    /\ UNCHANGED <<graphVars, working_set, WorkingOutputs, Waiting>>

\* set.pop raises KeyError.
RaiseStep ==
    /\ pc = "take" /\ pc' = "KeyError" /\ order # GraphPy
    /\ UNCHANGED <<windowVars, WorkingOutputs, Waiting>>

\* The first fill goes round its loop.
SpinStep ==
    UNCHANGED <<windowVars, pc, i, short, long, WorkingOutputs, SelectedOutput, Waiting>>

Represented ==
    /\ QueuesInv
    /\ TouchedInv
    /\ pc \in {"skip", "take", "drop"} => Served

QueueStep ==
    /\ \/ ReadStep \/ AdmitStep \/ LoopStep \/ BeginStep \/ PopStep
       \/ KeepStep \/ TakeStep \/ CloseStep \/ RaiseStep \/ SpinStep
    /\ Represented'

-----------------------------------------------------------------------------
\* The selected output is in the working queue.
LEMMA SelectedServed ==
  Running \in QueuePolicies /\ QueuesInv /\ Served => SelectedOutput \in WorkingOutputs
<1> SUFFICES ASSUME Running \in QueuePolicies, QueuesInv, Served
             PROVE  SelectedOutput \in WorkingOutputs
  OBVIOUS
<1>0. ASSUME NEW q \in Seq(Nat), q # <<>>, Distinct(q)
      PROVE  Head(q) \in Members(q)
  BY <1>0, TailMembers
<1>1. CASE Running \in DequePolicies
  BY <1>0, <1>1, DequeQueues DEF QueuesInv, Served, ReadQueue
<1>2. CASE Running \in SplitPolicies
  <2>1. SelectedOutput = Head(IF selected_queue = "short" THEN short ELSE long)
        /\ WorkingOutputs = Members(short) \cup Members(long)
    BY <1>2, SplitQueues
  <2>2. CASE selected_queue = "short"
    BY <1>0, <1>2, <2>1, <2>2 DEF QueuesInv, Served, ReadQueue
  <2>3. CASE selected_queue = "long"
    BY <1>0, <1>2, <2>1, <2>3 DEF QueuesInv, Served, ReadQueue
  <2> QED
    BY <1>2, <2>2, <2>3 DEF Served
<1>3. CASE Running = "neighbor"
  BY <1>3, NeighborQueues DEF Served
<1> QED
  BY <1>1, <1>2, <1>3 DEF QueuePolicies

\* The loops go on where their step says.
LEMMA QueueStepLoops ==
  ASSUME SetupInv, Running \in QueuePolicies, PolicyInv, QueueStep,
         UNCHANGED <<order, policy, array>>
  PROVE  LoopInv'
<1>1. UNCHANGED <<Running, NumOutputs>>
  BY DEF Running, NumOutputs, Outputs
<1>2. LoopInv /\ Represented'
  BY DEF PolicyInv, QueueStep
<1>3. CASE ReadStep
  BY <1>1, <1>2, <1>3 DEF LoopInv, ReadStep, Represented
<1>4. CASE AdmitStep
  BY <1>1, <1>2, <1>4 DEF LoopInv, AdmitStep, Represented
<1>5. CASE LoopStep
  BY <1>1, <1>2, <1>5 DEF LoopInv, LoopStep, Represented, SeqPolicies, OuterQueued, OuterPolicies
<1>6. CASE BeginStep
  BY <1>1, <1>2, <1>6 DEF LoopInv, BeginStep, Represented
<1>7. CASE PopStep
  BY <1>1, <1>2, <1>7 DEF LoopInv, PopStep, Represented
<1>8. CASE KeepStep \/ TakeStep \/ RaiseStep
  BY <1>1, <1>2, <1>8 DEF LoopInv, KeepStep, TakeStep, RaiseStep, Represented
<1>9. CASE CloseStep
  BY <1>1, <1>2, <1>9 DEF LoopInv, CloseStep, Represented
<1>10. CASE SpinStep
  BY <1>1, <1>2, <1>10 DEF LoopInv, SpinStep, Represented
<1> QED
  BY <1>3, <1>4, <1>5, <1>6, <1>7, <1>8, <1>9, <1>10 DEF QueueStep

Builds == INSTANCE WindowProofs
    WITH waiting <- Waiting, current <- WorkingOutputs, phase <- QueuePhase

\* The hardware of setup_window can hold a window.
LEMMA SetupIsValid == SetupInv => Builds!ValidSetup
<1> SUFFICES ASSUME SetupInv PROVE Builds!ValidSetup
  OBVIOUS
<1>1. IsFiniteSet(Outputs)
  BY FS_Interval DEF SetupInv
<1>2. conf.max_input_num \in Nat /\ conf.max_output_num \in Nat
  BY DEF SetupInv, Config
<1> QED
  BY <1>1, <1>2 DEF Builds!ValidSetup, Builds!Outputs, Outputs, Builds!IsFiniteSet, IsFiniteSet

\* The open window counts its inputs.
LEMMA WindowCounts ==
  ASSUME SetupInv, Running \in QueuePolicies, PolicyInv, Builds!BuilderInv,
         pc \in {"take", "drop", "close"}
  PROVE  window.input_num \in Nat /\ WindowIsRecord
<1>1. QueuePhase = "window"
  BY Phases DEF PolicyInv
<1>2. Builds!WindowOK
  BY <1>1 DEF Builds!BuilderInv
<1>3. WindowIsRecord
  BY <1>2 DEF Builds!WindowOK, Builds!WindowIsRecord, WindowIsRecord
<1>4. window.input_num = Builds!Cardinality(window.inputs) /\ Builds!IsFiniteSet(window.inputs)
  BY <1>2 DEF Builds!WindowOK, Builds!InputsOK
<1>5. window.input_num = Cardinality(window.inputs) /\ IsFiniteSet(window.inputs)
  BY <1>4 DEF Builds!Cardinality, Cardinality, Builds!IsFiniteSet, IsFiniteSet
<1> QED
  BY <1>3, <1>5, FS_CardinalityType

\* What an input that is taken leaves of the working sets.
LEMMA TakenSets ==
  ASSUME NEW x, NEW o, Take(x, o, WorkingOutputs)
  PROVE  /\ DOMAIN working_set' = DOMAIN working_set
         /\ \A p \in DOMAIN working_set :
              /\ working_set'[p] \subseteq working_set[p]
              /\ p \notin WorkingOutputs \cup {o} => working_set'[p] = working_set[p]
  BY DEF Take, Sharing

\* No output is both in the working queue and before it.
LEMMA WaitingApart ==
  Running \in QueuePolicies /\ SetupInv /\ QueuesInv => WorkingOutputs \cap Waiting = {}
<1> SUFFICES ASSUME Running \in QueuePolicies, SetupInv, QueuesInv
             PROVE  WorkingOutputs \cap Waiting = {}
  OBVIOUS
<1>0. \A o \in 0 .. i - 1 : o \notin i .. NumOutputs - 1
  BY DEF QueuesInv, SetupInv
<1>1. CASE Running \in DequePolicies
  <2>1. WorkingOutputs = Members(current)
    BY <1>1, DequeQueues
  <2>2. Waiting = (i .. NumOutputs - 1) \cup Members(short) \cup Members(long)
    BY <1>1, WaitingQueues DEF DequePolicies, SplitPolicies, QueuePolicies
  <2> QED
    BY <1>0, <2>1, <2>2 DEF QueuesInv, ReadQueue
<1>2. CASE Running \in SplitPolicies
  BY <1>0, <1>2, SplitQueues DEF QueuesInv, ReadQueue
<1>3. CASE Running = "neighbor"
  <2>1. Waiting = (i .. NumOutputs - 1) \cup Members(short) \cup Members(long)
    BY <1>3, WaitingQueues DEF DequePolicies, SplitPolicies, QueuePolicies
  <2> QED
    BY <1>0, <1>3, <2>1, NeighborQueues DEF QueuesInv, ReadQueue
<1> QED
  BY <1>1, <1>2, <1>3 DEF QueuePolicies

\* An output that is empty is skipped while one with inputs follows.
LEMMA SkipLeaves ==
  ASSUME PolicyInv, Running \in QueuePolicies, order = GraphPy, pc = "skip",
         working_set[SelectedOutput] = {}, SelectedOutput \in WorkingOutputs
  PROVE  WorkingOutputs \ {SelectedOutput} # {}
<1>1. \E o \in WorkingOutputs : working_set[o] # {}
  BY DEF PolicyInv, InputsInv
<1> QED
  BY <1>1

\* Each step keeps what the invariant says of the inputs.
LEMMA QueueStepInputs ==
  ASSUME SetupInv, Running \in QueuePolicies, PolicyInv, QueueStep, Builds!BuilderInv,
         UNCHANGED <<order, policy, array>>
  PROVE  InputsInv'
<1>0. InputsInv /\ LoopInv
  BY DEF PolicyInv
<1>1. Outputs' = Outputs
  BY DEF Outputs
<1>2. CASE ReadStep
  BY <1>0, <1>1, <1>2 DEF InputsInv, ReadStep, windowVars
<1>3. CASE AdmitStep
  <2>1. PICK o \in Outputs \cap Waiting : /\ WorkingOutputs' = WorkingOutputs \cup {o}
                                          /\ Waiting' = Waiting \ {o}
    BY <1>3 DEF AdmitStep
  <2>2. working_set[o] # {} /\ o \in WorkingOutputs'
    BY <1>0, <2>1 DEF InputsInv, SetupInv
  <2> QED
    BY <1>0, <1>1, <1>3, <2>1, <2>2 DEF InputsInv, AdmitStep, windowVars
<1>4. CASE LoopStep
  BY <1>0, <1>1, <1>4 DEF InputsInv, LoopStep, windowVars
<1>5. CASE BeginStep
  BY <1>0, <1>1, <1>5 DEF InputsInv, BeginStep, graphVars
<1>6. CASE PopStep
  <2>1. UNCHANGED <<working_set, window, Waiting>> /\ WorkingOutputs' = WorkingOutputs \ {SelectedOutput}
    BY <1>6 DEF PopStep, windowVars
  <2>2. order = GraphPy /\ pc' \notin {"drop", "close"} =>
          \E o \in WorkingOutputs' : working_set[o] # {}
    <3> SUFFICES ASSUME order = GraphPy, pc' \notin {"drop", "close"}
                 PROVE  \E o \in WorkingOutputs' : working_set[o] # {}
      OBVIOUS
    <3>1. pc = "skip" /\ SelectedOutput \in WorkingOutputs /\ working_set[SelectedOutput] = {}
      BY <1>6 DEF PopStep
    <3>2. PICK o \in WorkingOutputs : working_set[o] # {}
      BY <1>0, <3>1 DEF InputsInv
    <3> QED
      BY <2>1, <3>1, <3>2
  <2> QED
    <3>1. Outputs' = Outputs /\ UNCHANGED array
      BY <1>1
    <3>2. pc' = "take" => order # GraphPy
      BY <1>6 DEF PopStep
    <3>3. pc' \in {"drop", "close"} => pc = "drop"
      BY <1>6 DEF PopStep
    <3>4. /\ DOMAIN working_set' = Outputs'
          /\ \A o \in Outputs' : working_set'[o] \subseteq array'[o]
          /\ \A o \in Waiting' : working_set'[o] = array'[o]
      BY <1>0, <2>1, <3>1 DEF InputsInv
    <3>5. pc' \in {"drop", "close"} => window'.input_num > 0
      BY <1>0, <2>1, <3>3 DEF InputsInv
    <3> QED
      BY <2>1, <2>2, <3>2, <3>4, <3>5 DEF InputsInv
<1>7. CASE KeepStep
  <2>1. SelectedOutput \in WorkingOutputs
    BY <1>7, SelectedServed DEF KeepStep, PolicyInv, LoopInv
  <2> QED
    BY <1>0, <1>1, <1>7, <2>1 DEF InputsInv, KeepStep, windowVars
<1>8. CASE TakeStep
  <2>1. PICK x \in working_set[SelectedOutput] : Take(x, SelectedOutput, WorkingOutputs)
    BY <1>8 DEF TakeStep
  <2>2. /\ DOMAIN working_set' = DOMAIN working_set
        /\ \A p \in DOMAIN working_set :
             /\ working_set'[p] \subseteq working_set[p]
             /\ p \notin WorkingOutputs \cup {SelectedOutput} => working_set'[p] = working_set[p]
    BY <2>1, TakenSets
  <2>3. window.input_num \in Nat /\ WindowIsRecord
    BY <1>8, WindowCounts DEF TakeStep
  <2>4. window'.input_num > 0
    <3> DEFINE served == Sharing(x, SelectedOutput, WorkingOutputs) \cup {SelectedOutput}
    <3>1. window' = [window EXCEPT
                         !.input_num = @ + 1,
                         !.inputs    = @ \cup {x},
                         !.edges     = @ + Cardinality(served),
                         !.all_edges = @ \cup ({x} \X served)]
      BY <2>1, Zenon DEF Take
    <3> HIDE DEF served
    <3>2. /\ window'.input_num = window.input_num + 1
          /\ window'.inputs = window.inputs \cup {x}
          /\ window'.edges = window.edges + Cardinality(served)
          /\ window'.all_edges = window.all_edges \cup ({x} \X served)
          /\ window'.output_num = window.output_num
          /\ window'.outputs = window.outputs
          /\ WindowIsRecord'
      BY <2>3, <3>1, TakenWindow, Zenon
    <3> QED
      BY <2>3, <3>2
  <2>5. WorkingOutputs \cap Waiting = {} /\ Waiting' = Waiting /\ SelectedOutput \in WorkingOutputs
        /\ pc' = "drop"
    BY <1>8, WaitingApart DEF TakeStep, PolicyInv
  <2>6. DOMAIN working_set' = Outputs' /\ \A o \in Outputs' : working_set'[o] \subseteq array'[o]
    BY <1>0, <1>1, <2>2 DEF InputsInv
  <2>7. \A o \in Waiting' : working_set'[o] = array'[o]
    <3> SUFFICES ASSUME NEW o \in Waiting PROVE working_set'[o] = array[o]
      BY <2>5
    <3>1. working_set[o] = array[o] /\ o \notin WorkingOutputs \cup {SelectedOutput}
      BY <1>0, <2>5 DEF InputsInv
    <3>2. o \in DOMAIN working_set
      BY <1>0 DEF InputsInv, Builds!BuilderInv, Builds!QueuesOK, Builds!Outputs, Outputs
    <3> QED
      BY <2>2, <3>1, <3>2
  <2> QED
    BY <2>4, <2>5, <2>6, <2>7 DEF InputsInv
<1>9. CASE CloseStep
  BY <1>0, <1>1, <1>9 DEF InputsInv, LoopInv, CloseStep, graphVars
<1>10. CASE RaiseStep
  BY <1>0, <1>1, <1>10 DEF InputsInv, RaiseStep, windowVars
<1>11. CASE SpinStep
  BY <1>0, <1>1, <1>11 DEF InputsInv, SpinStep, windowVars
<1> QED
  BY <1>2, <1>3, <1>4, <1>5, <1>6, <1>7, <1>8, <1>9, <1>10, <1>11 DEF QueueStep

\* The standard operators, seen through the instance.
LEMMA BuilderStandard ==
  (\A S : Builder!Cardinality(S) = Cardinality(S)) /\ Builder!Outputs = Outputs
  BY DEF Builder!Cardinality, Cardinality, Builder!Outputs, Outputs

\* Which step of the common algorithm each step is.
LEMMA QueueStepBuilder ==
  ASSUME SetupInv, Running \in QueuePolicies, PolicyInv, QueueStep, Builds!BuilderInv,
         UNCHANGED <<order, policy, array>>
  PROVE  [Builder!Next]_(Builder!vars)
<1> USE DEF Builder!Next
<1>1. LoopInv' /\ LoopInv /\ Running' = Running
  BY QueueStepLoops DEF Running, PolicyInv
<1>2. /\ pc \in {"take", "drop", "close", "KeyError"} => QueuePhase = "window"
      /\ pc = "skip" => QueuePhase = IF Running \in SeqPolicies THEN "fill" ELSE "window"
      /\ pc = "done" => QueuePhase = "done"
      /\ pc \in {"fill", "open", "setup_outer", "outer", "setup"} => QueuePhase = "fill"
  BY <1>1, Phases
<1>3. /\ pc' \in {"take", "drop", "close", "KeyError"} => QueuePhase' = "window"
      /\ pc' = "skip" => QueuePhase' = IF Running \in SeqPolicies THEN "fill" ELSE "window"
      /\ pc' = "done" => QueuePhase' = "done"
      /\ pc' \in {"fill", "open", "setup_outer", "outer", "setup"} => QueuePhase' = "fill"
  BY <1>1, PhasesNext
<1>4. WorkingOutputs \subseteq Outputs
  BY DEF Builds!BuilderInv, Builds!QueuesOK, Builds!Outputs, Outputs
<1>5. CASE ReadStep \/ RaiseStep
  <2>1. UNCHANGED <<windowVars, WorkingOutputs, Waiting>>
    BY <1>5 DEF ReadStep, RaiseStep
  <2>2. QueuePhase' = QueuePhase
    BY <1>2, <1>3, <1>5 DEF ReadStep, RaiseStep
  <2> QED
    BY <2>1, <2>2 DEF Builder!vars, Builder!windowVars, windowVars
<1>6. CASE AdmitStep
  <2>1. PICK o \in Outputs \cap Waiting : /\ WorkingOutputs' = WorkingOutputs \cup {o}
                                          /\ Waiting' = Waiting \ {o}
    BY <1>6 DEF AdmitStep
  <2>2. QueuePhase = "fill" /\ QueuePhase' = "fill" /\ UNCHANGED windowVars
        /\ Cardinality(WorkingOutputs) < conf.max_output_num
    BY <1>2, <1>3, <1>6 DEF AdmitStep
  <2>3. Builder!Admit(o) /\ o \in Builder!Outputs
    BY <2>1, <2>2, BuilderStandard DEF Builder!Admit, Builder!windowVars, windowVars
  <2> QED
    BY <2>3
<1>7. CASE LoopStep
  <2>1. QueuePhase = "fill" /\ UNCHANGED <<windowVars, WorkingOutputs, Waiting>>
    BY <1>2, <1>7 DEF LoopStep
  <2>2. \/ QueuePhase' = "fill"
        \/ QueuePhase' = "done" /\ WorkingOutputs = {} /\ Waiting = {}
    BY <1>3, <1>7 DEF LoopStep
  <2> QED
    BY <2>1, <2>2 DEF Builder!vars, Builder!windowVars, windowVars, Builder!Finish
<1>8. CASE BeginStep
  <2>1. QueuePhase = "fill" /\ QueuePhase' = "window" /\ WorkingOutputs # {}
    BY <1>2, <1>3, <1>8 DEF BeginStep
  <2>2. window' = FreshWindow(WorkingOutputs, Cardinality(WorkingOutputs))
        /\ UNCHANGED <<graphVars, working_set, plan, WorkingOutputs, Waiting>>
    BY <1>8 DEF BeginStep
  <2>3. window' = Builder!FreshWindow(WorkingOutputs, Builder!Cardinality(WorkingOutputs))
    BY <2>2, BuilderStandard
       DEF Builder!FreshWindow, FreshWindow, Builder!EmptyWindow, EmptyWindow
  <2> QED
    BY <2>1, <2>2, <2>3 DEF Builder!BeginWindow, Builder!graphVars, graphVars
<1>9. CASE PopStep
  <2>1. QueuePhase \in {"fill", "window"} /\ QueuePhase' = QueuePhase
    BY <1>2, <1>3, <1>9 DEF PopStep
  <2>2. SelectedOutput \in WorkingOutputs /\ working_set[SelectedOutput] = {}
        /\ WorkingOutputs' = WorkingOutputs \ {SelectedOutput}
        /\ UNCHANGED <<windowVars, Waiting>>
    BY <1>9 DEF PopStep
  <2>3. Builder!Drop(SelectedOutput) /\ SelectedOutput \in Builder!Outputs
    BY <1>4, <2>1, <2>2, BuilderStandard DEF Builder!Drop, Builder!windowVars, windowVars
  <2> QED
    BY <2>3
<1>10. CASE KeepStep
  <2>1. QueuePhase' = QueuePhase
    BY <1>2, <1>3, <1>10 DEF KeepStep
  <2> QED
    BY <2>1, <1>10 DEF KeepStep, Builder!vars, Builder!windowVars, windowVars
<1>11. CASE TakeStep
  <2>1. QueuePhase = "window" /\ QueuePhase' = "window"
    BY <1>2, <1>3, <1>11 DEF TakeStep
  <2>2. PICK x \in working_set[SelectedOutput] : Take(x, SelectedOutput, WorkingOutputs)
    BY <1>11 DEF TakeStep
  <2>3. Builder!Take(x, SelectedOutput, WorkingOutputs)
    BY <2>2 DEF Builder!Take, Take, Builder!Sharing, Sharing, Builder!Cardinality, Cardinality
  <2>4. Builder!TakeInput(x, SelectedOutput)
    BY <1>11, <2>1, <2>2, <2>3 DEF TakeStep, Builder!TakeInput, Builder!graphVars, graphVars
  <2>5. SelectedOutput \in Builder!Outputs
    BY <1>4, <1>11, BuilderStandard DEF TakeStep
  <2> QED
    BY <2>2, <2>4, <2>5
<1>12. CASE CloseStep
  <2>1. QueuePhase = "window" /\ QueuePhase' = "fill"
    BY <1>2, <1>3, <1>12 DEF CloseStep
  <2>2. window.input_num \in Nat
    BY <1>12, WindowCounts DEF CloseStep
  <2>3. conf.max_input_num \in Nat /\ conf.max_input_num > 0
    BY DEF SetupInv, Config
  <2>4. /\ window.input_num > 0
        /\ window.input_num < conf.max_input_num => WorkingOutputs = {}
    BY <1>1, <1>12, <2>2, <2>3 DEF CloseStep, PolicyInv, InputsInv, LoopInv
  <2>5. Builder!AppendWindow
    BY <1>12 DEF CloseStep, AppendWindow, Builder!AppendWindow, EmptyWindow, Builder!EmptyWindow
  <2> QED
    BY <1>12, <2>1, <2>4, <2>5 DEF CloseStep, Builder!CloseWindow, Builder!graphVars, graphVars
<1>13. CASE SpinStep
  <2>1. UNCHANGED <<windowVars, WorkingOutputs, Waiting, pc>>
    BY <1>13 DEF SpinStep
  <2>2. QueuePhase' = QueuePhase
    BY <1>1, <1>2, <1>3, <2>1 DEF LoopInv
  <2> QED
    BY <2>1, <2>2 DEF Builder!vars, Builder!windowVars, windowVars
<1> QED
  BY <1>5, <1>6, <1>7, <1>8, <1>9, <1>10, <1>11, <1>12, <1>13 DEF QueueStep

\* The two instances of the common algorithm are the same.
LEMMA BuilderBuilds == [Builder!Next]_(Builder!vars) => [Builds!Next]_(Builds!vars)
  BY DEF Builder!Next, Builds!Next, Builder!vars, Builds!vars,
         Builder!windowVars, Builds!windowVars, Builder!graphVars, Builds!graphVars,
         Builder!Admit, Builds!Admit, Builder!Drop, Builds!Drop,
         Builder!BeginWindow, Builds!BeginWindow, Builder!TakeInput, Builds!TakeInput,
         Builder!CloseWindow, Builds!CloseWindow, Builder!Finish, Builds!Finish,
         Builder!AbandonWindow, Builds!AbandonWindow,
         Builder!AppendWindow, Builds!AppendWindow, Builder!Take, Builds!Take,
         Builder!Sharing, Builds!Sharing, Builder!EmptyWindow, Builds!EmptyWindow,
         Builder!FreshWindow, Builds!FreshWindow, Builder!Outputs, Builds!Outputs,
         Builder!Cardinality, Builds!Cardinality

\* What a step of a queue policy keeps, and what it is to the common algorithm
\* and to the plan.
LEMMA QueueStepKeeps ==
  ASSUME SetupInv, Running \in QueuePolicies, PolicyInv, Builds!BuilderInv, QueueStep,
         UNCHANGED <<order, policy, array>>
  PROVE  /\ PolicyInv' /\ Builds!BuilderInv'
         /\ Builder!Next \/ UNCHANGED Builder!vars
         /\ [Builds!Plan!Next]_(Builds!Plan!vars)
<1>1. [Builds!Next]_(Builds!vars)
  BY QueueStepBuilder, BuilderBuilds
<1>2. Builds!ValidSetup
  BY SetupIsValid
<1>3. Builds!BuilderInv'
  BY <1>1, <1>2, Builds!BuilderInvStep
<1>4. [Builds!Plan!Next]_(Builds!Plan!vars)
  BY <1>1, <1>2, Builds!BuilderStepPlans
<1>5. PolicyInv'
  BY QueueStepLoops, QueueStepInputs DEF PolicyInv, QueueStep, Represented
<1> QED
  BY <1>3, <1>4, <1>5, QueueStepBuilder

-----------------------------------------------------------------------------
\* What the steps of the policies do to a queue.
LEMMA QueueGrows == \A n \in Nat : \A q : ReadQueue(q, n) => ReadQueue(q, n + 1)
  BY DEF ReadQueue

\* The next output is read.
LEMMA QueueReads ==
  \A n \in Nat : \A q :
    ReadQueue(q, n) => /\ ReadQueue(Append(q, n), n + 1)
                       /\ Members(Append(q, n)) = Members(q) \cup {n}
                       /\ Append(q, n) # <<>>
<1> SUFFICES ASSUME NEW n \in Nat, NEW q, ReadQueue(q, n)
             PROVE  /\ ReadQueue(Append(q, n), n + 1)
                    /\ Members(Append(q, n)) = Members(q) \cup {n}
                    /\ Append(q, n) # <<>>
  OBVIOUS
<1>1. q \in Seq(Nat) /\ Distinct(q) /\ n \notin Members(q) /\ Members(q) \subseteq 0 .. n - 1
  BY DEF ReadQueue
<1>2. /\ Append(q, n) \in Seq(Nat)
      /\ Distinct(Append(q, n))
      /\ Members(Append(q, n)) = Members(q) \cup {n}
      /\ Append(q, n) # <<>>
  BY <1>1, AppendMember
<1>3. Members(q) \cup {n} \subseteq 0 .. n + 1 - 1
  BY <1>1
<1> QED
  BY <1>2, <1>3 DEF ReadQueue

\* The first output of a queue leaves it.
LEMMA QueuePops ==
  \A n \in Nat : \A q :
    ReadQueue(q, n) /\ q # <<>> => /\ ReadQueue(Tail(q), n)
                                   /\ Members(Tail(q)) = Members(q) \ {Head(q)}
                                   /\ Head(q) \in Members(q)
<1> SUFFICES ASSUME NEW n \in Nat, NEW q, ReadQueue(q, n), q # <<>>
             PROVE  /\ ReadQueue(Tail(q), n)
                    /\ Members(Tail(q)) = Members(q) \ {Head(q)}
                    /\ Head(q) \in Members(q)
  OBVIOUS
<1>1. q \in Seq(Nat) /\ Distinct(q) /\ Members(q) \subseteq 0 .. n - 1
  BY DEF ReadQueue
<1>2. /\ Tail(q) \in Seq(Nat)
      /\ Distinct(Tail(q))
      /\ Members(Tail(q)) = Members(q) \ {Head(q)}
      /\ Head(q) \in Members(q)
  BY <1>1, TailMembers
<1> QED
  BY <1>1, <1>2 DEF ReadQueue

\* The first output of one queue goes to the end of another.
LEMMA QueueTakes ==
  \A n \in Nat : \A q : \A o \in 0 .. n - 1 :
    ReadQueue(q, n) /\ o \notin Members(q) =>
      /\ ReadQueue(Append(q, o), n)
      /\ Members(Append(q, o)) = Members(q) \cup {o}
      /\ Append(q, o) # <<>>
<1> SUFFICES ASSUME NEW n \in Nat, NEW q, NEW o \in 0 .. n - 1,
                    ReadQueue(q, n), o \notin Members(q)
             PROVE  /\ ReadQueue(Append(q, o), n)
                    /\ Members(Append(q, o)) = Members(q) \cup {o}
                    /\ Append(q, o) # <<>>
  OBVIOUS
<1>1. q \in Seq(Nat) /\ Distinct(q) /\ o \in Nat /\ Members(q) \subseteq 0 .. n - 1
  BY DEF ReadQueue
<1>2. /\ Append(q, o) \in Seq(Nat)
      /\ Distinct(Append(q, o))
      /\ Members(Append(q, o)) = Members(q) \cup {o}
      /\ Append(q, o) # <<>>
  BY <1>1, AppendMember
<1> QED
  BY <1>1, <1>2 DEF ReadQueue

\* A queue has as many members as places.
LEMMA QueueCounts ==
  \A n \in Nat : \A q :
    ReadQueue(q, n) => /\ IsFiniteSet(Members(q))
                       /\ Cardinality(Members(q)) = Len(q)
                       /\ Members(q) = {} <=> q = <<>>
<1> SUFFICES ASSUME NEW n \in Nat, NEW q, ReadQueue(q, n)
             PROVE  /\ IsFiniteSet(Members(q))
                    /\ Cardinality(Members(q)) = Len(q)
                    /\ Members(q) = {} <=> q = <<>>
  OBVIOUS
<1>1. q \in Seq(Nat) /\ Distinct(q) /\ Members(q) \subseteq 0 .. n - 1
  BY DEF ReadQueue
<1>2. IsFiniteSet(Members(q))
  <2>1. IsFiniteSet(0 .. n - 1)
    BY FS_Interval
  <2> QED
    BY <1>1, <2>1, FS_Subset
<1>3. Members(q) = {} <=> q = <<>>
  BY <1>1, EmptyQueue
<1>4. Cardinality(Members(q)) = Len(q)
  BY <1>1, MembersCount
<1> QED
  BY <1>2, <1>3, <1>4

\* Two queues have as many members as places.
LEMMA SplitCounts ==
  \A n \in Nat : \A q, r :
    ReadQueue(q, n) /\ ReadQueue(r, n) /\ Members(q) \cap Members(r) = {} =>
      Cardinality(Members(q) \cup Members(r)) = Len(q) + Len(r)
<1> SUFFICES ASSUME NEW n \in Nat, NEW q, NEW r,
                    ReadQueue(q, n), ReadQueue(r, n), Members(q) \cap Members(r) = {}
             PROVE  Cardinality(Members(q) \cup Members(r)) = Len(q) + Len(r)
  OBVIOUS
<1>1. /\ IsFiniteSet(Members(q)) /\ Cardinality(Members(q)) = Len(q)
      /\ IsFiniteSet(Members(r)) /\ Cardinality(Members(r)) = Len(r)
  BY QueueCounts
<1>2. Len(q) \in Nat /\ Len(r) \in Nat
  BY DEF ReadQueue
<1>3. Cardinality(Members(q) \cap Members(r)) = 0
  BY FS_EmptySet
<1>4. Cardinality(Members(q) \cup Members(r)) =
        Cardinality(Members(q)) + Cardinality(Members(r)) - Cardinality(Members(q) \cap Members(r))
  BY <1>1, FS_Union
<1> QED
  BY <1>1, <1>2, <1>3, <1>4

\* A queue is empty before the first output is read.
LEMMA QueueEmpty == \A n : ReadQueue(<<>>, n) /\ Members(<<>>) = {}
  BY DEF ReadQueue, Members, Distinct

-----------------------------------------------------------------------------
\* A step that moves no output.
LEMMA QueuesUnmoved ==
  ASSUME QueuesInv,
         UNCHANGED <<order, policy, array, i, current, short, long, current_output_set>>
  PROVE  QueuesInv' /\ UNCHANGED <<Running, NumOutputs, WorkingOutputs, Waiting>>
<1>1. UNCHANGED <<Running, NumOutputs, Members(current), Members(short), Members(long)>>
  BY DEF Running, NumOutputs, Outputs, Members
<1>2. QueuesInv'
  BY <1>1 DEF QueuesInv
<1>3. UNCHANGED <<WorkingOutputs, Waiting>>
  BY <1>1 DEF WorkingOutputs, Waiting
<1> QED
  BY <1>1, <1>2, <1>3

\* Such a step that serves the same output.
LEMMA SelectionUnmoved ==
  ASSUME UNCHANGED <<order, policy, current, short, long, current_output_set,
                     selected_queue, next_select_item>>
  PROVE  UNCHANGED SelectedOutput /\ (Served => Served')
<1>1. UNCHANGED Running
  BY DEF Running
<1>2. UNCHANGED SelectedOutput
  BY <1>1 DEF SelectedOutput, ShortLong!Selected, ShortLong!Queue
<1> QED
  BY <1>1, <1>2 DEF Served

\* An output is read into one of the two queues.
ReadsOutput ==
    /\ i < NumOutputs
    /\ i' = i + 1
    /\ \/ short' = Append(short, i) /\ UNCHANGED long
       \/ long' = Append(long, i) /\ UNCHANGED short

\* What that does to them.
LEMMA OutputRead ==
  ASSUME SetupInv, QueuesInv, ReadsOutput, UNCHANGED <<order, policy, array>>
  PROVE  /\ UNCHANGED <<Running, NumOutputs>>
         /\ i' \in 0 .. NumOutputs /\ i \in Nat /\ i \in Outputs
         /\ ReadQueue(short', i') /\ ReadQueue(long', i')
         /\ Members(short') \cup Members(long') = Members(short) \cup Members(long) \cup {i}
         /\ Members(short') \cap Members(long') = {}
         /\ (i .. NumOutputs - 1) = (i' .. NumOutputs - 1) \cup {i}
         /\ i \notin i' .. NumOutputs - 1
         /\ i \notin Members(current) \cup current_output_set \cup Members(short) \cup Members(long)
<1>1. UNCHANGED <<Running, NumOutputs>>
  BY DEF Running, NumOutputs, Outputs
<1>2. i \in Nat /\ NumOutputs \in Nat /\ i \in 0 .. NumOutputs - 1
  BY DEF QueuesInv, SetupInv, ReadsOutput
<1>3. i \in Outputs /\ i' \in 0 .. NumOutputs
      /\ (i .. NumOutputs - 1) = (i' .. NumOutputs - 1) \cup {i} /\ i \notin i' .. NumOutputs - 1
  BY <1>2 DEF SetupInv, ReadsOutput
<1>4. i \notin Members(current) \cup current_output_set \cup Members(short) \cup Members(long)
  BY <1>2 DEF QueuesInv, ReadQueue
<1>5. ReadQueue(short', i') /\ ReadQueue(long', i')
  BY <1>2, QueueReads, QueueGrows DEF QueuesInv, ReadsOutput
<1>6. \/ Members(short') = Members(short) \cup {i} /\ Members(long') = Members(long)
      \/ Members(long') = Members(long) \cup {i} /\ Members(short') = Members(short)
  BY <1>2, QueueReads DEF QueuesInv, ReadsOutput
<1>7. Members(short) \cap Members(long) = {}
  BY DEF QueuesInv
<1> QED
  BY <1>1, <1>2, <1>3, <1>4, <1>5, <1>6, <1>7

\* A step of a policy changes nothing that setup_window keeps for all.
OfPolicy == UNCHANGED <<order, policy, array>>

\* An output is read into an outer queue.
LEMMA ReadsIntoOuter ==
  ASSUME SetupInv, Running \in OuterQueued, PolicyInv, ReadsOutput, OfPolicy,
         pc \in {"setup_outer", "outer"}, pc' = pc,
         UNCHANGED <<windowVars, current, current_output_set, next_waiting_set>>
  PROVE  QueueStep
<1>0. QueuesInv /\ TouchedInv
  BY DEF PolicyInv, OuterQueued, OuterPolicies, QueuePolicies, DequePolicies
<1>1. /\ UNCHANGED <<Running, NumOutputs>>
      /\ i' \in 0 .. NumOutputs /\ i \in Nat /\ i \in Outputs
      /\ ReadQueue(short', i') /\ ReadQueue(long', i')
      /\ Members(short') \cup Members(long') = Members(short) \cup Members(long) \cup {i}
      /\ Members(short') \cap Members(long') = {}
      /\ (i .. NumOutputs - 1) = (i' .. NumOutputs - 1) \cup {i}
      /\ i \notin Members(current) \cup current_output_set \cup Members(short) \cup Members(long)
  BY <1>0, OutputRead DEF OfPolicy
<1>2. ReadQueue(current', i') /\ current_output_set' \subseteq 0 .. i' - 1
  BY <1>0, <1>1, QueueGrows DEF QueuesInv, ReadsOutput
<1>3. (Members(current') \cup current_output_set') \cap (Members(short') \cup Members(long')) = {}
  BY <1>0, <1>1 DEF QueuesInv
<1>4. Running \notin SeqPolicies /\ Running \in QueuePolicies \ SplitPolicies
  BY DEF OuterQueued, OuterPolicies, SeqPolicies, QueuePolicies, DequePolicies, SplitPolicies
<1>5. QueuesInv'
  BY <1>0, <1>1, <1>2, <1>3, <1>4 DEF QueuesInv
<1>6. TouchedInv'
  BY <1>0, <1>1 DEF TouchedInv, OfPolicy, Outputs
<1>7. UNCHANGED Waiting
  <2>1. Waiting = (i .. NumOutputs - 1) \cup Members(short) \cup Members(long)
    BY <1>4, WaitingQueues
  <2>2. Waiting' = (i' .. NumOutputs - 1) \cup Members(short') \cup Members(long')
    BY <1>1, <1>4, QueuesNext
  <2> QED
    BY <1>1, <2>1, <2>2
<1>8. UNCHANGED WorkingOutputs
  BY <1>1, <1>4, DequeQueues, NeighborQueues, QueuesNext DEF QueuePolicies
<1> QED
  BY <1>5, <1>6, <1>7, <1>8 DEF QueueStep, ReadStep, Represented

\* An output is taken from an outer queue.
MovesOutput(o) ==
    \/ short # <<>> /\ o = Head(short) /\ short' = Tail(short) /\ UNCHANGED long
    \/ long # <<>> /\ o = Head(long) /\ long' = Tail(long) /\ UNCHANGED short

\* It enters the working queue.
LEMMA AdmitsFromOuter ==
  ASSUME SetupInv, Running \in OuterQueued, PolicyInv, OfPolicy, NEW o, MovesOutput(o),
         pc \in {"setup", "fill"}, pc' = pc,
         Cardinality(WorkingOutputs) < conf.max_output_num,
         Running \in OuterPolicies => current' = Append(current, o) /\ UNCHANGED current_output_set,
         Running = "neighbor" =>
           current_output_set' = current_output_set \cup {o} /\ UNCHANGED current,
         UNCHANGED <<windowVars, i, next_waiting_set>>
  PROVE  QueueStep
<1>0. QueuesInv /\ TouchedInv
  BY DEF PolicyInv, OuterQueued, OuterPolicies, QueuePolicies, DequePolicies
<1>1. UNCHANGED <<Running, NumOutputs>>
  BY DEF OfPolicy, Running, NumOutputs, Outputs
<1>2. i \in Nat /\ i \in 0 .. NumOutputs /\ NumOutputs \in Nat
  BY <1>0 DEF QueuesInv, SetupInv
<1>3. /\ ReadQueue(short, i) /\ ReadQueue(long, i) /\ ReadQueue(current, i)
      /\ Members(short) \cap Members(long) = {}
      /\ (Members(current) \cup current_output_set) \cap (Members(short) \cup Members(long)) = {}
      /\ current_output_set \subseteq 0 .. i - 1
  BY <1>0 DEF QueuesInv
<1>4. \/ /\ o \in Members(short) /\ UNCHANGED long
         /\ ReadQueue(short', i) /\ Members(short') = Members(short) \ {o}
      \/ /\ o \in Members(long) /\ UNCHANGED short
         /\ ReadQueue(long', i) /\ Members(long') = Members(long) \ {o}
  BY <1>2, <1>3, QueuePops DEF MovesOutput
<1>5. /\ ReadQueue(short', i) /\ ReadQueue(long', i)
      /\ o \in Members(short) \cup Members(long)
      /\ Members(short') \cup Members(long') = (Members(short) \cup Members(long)) \ {o}
      /\ Members(short') \cap Members(long') = {}
  BY <1>3, <1>4
<1>6. o \in 0 .. i - 1 /\ o \notin Members(current) /\ o \notin current_output_set
  BY <1>3, <1>5 DEF ReadQueue
<1>7. /\ ReadQueue(current', i)
      /\ current_output_set' \subseteq 0 .. i - 1
      /\ Running \in OuterPolicies =>
           Members(current') = Members(current) \cup {o} /\ UNCHANGED current_output_set
      /\ Running = "neighbor" =>
           current_output_set' = current_output_set \cup {o} /\ Members(current') = Members(current)
  <2>1. "neighbor" \notin OuterPolicies
    BY DEF OuterPolicies
  <2>2. CASE Running \in OuterPolicies
    <3>1. current' = Append(current, o) /\ UNCHANGED current_output_set
      BY <2>2
    <3> QED
      BY <1>2, <1>3, <1>6, <2>1, <2>2, <3>1, QueueTakes
  <2>3. CASE Running = "neighbor"
    <3>1. current_output_set' = current_output_set \cup {o} /\ UNCHANGED current
      BY <2>3
    <3> QED
      BY <1>3, <1>6, <2>1, <2>3, <3>1
  <2> QED
    BY <2>2, <2>3 DEF OuterQueued
<1>8. (Members(current') \cup current_output_set') \cap (Members(short') \cup Members(long')) = {}
  BY <1>3, <1>5, <1>7 DEF OuterQueued
<1>9. /\ Running \notin SeqPolicies /\ Running \in QueuePolicies \ SplitPolicies
      /\ Running \in OuterPolicies => Running \in DequePolicies /\ Running # "neighbor"
      /\ Running = "neighbor" => Running \notin DequePolicies
  BY DEF OuterQueued, OuterPolicies, SeqPolicies, QueuePolicies, DequePolicies, SplitPolicies
<1>10. QueuesInv'
  BY <1>0, <1>1, <1>2, <1>5, <1>7, <1>8, <1>9 DEF QueuesInv, OuterQueued
<1>11. TouchedInv'
  BY <1>0, <1>1 DEF TouchedInv, OfPolicy, Outputs
<1>12. o \notin i .. NumOutputs - 1 /\ o \in Outputs
  BY <1>2, <1>6 DEF SetupInv
<1>13. Waiting' = Waiting \ {o} /\ o \in Waiting
  <2>1. Waiting = (i .. NumOutputs - 1) \cup Members(short) \cup Members(long)
    BY <1>9, WaitingQueues
  <2>2. Waiting' = (i .. NumOutputs - 1) \cup Members(short') \cup Members(long')
    BY <1>1, <1>9, QueuesNext
  <2> QED
    BY <1>5, <1>12, <2>1, <2>2
<1>14. WorkingOutputs' = WorkingOutputs \cup {o}
  BY <1>1, <1>7, <1>9, DequeQueues, NeighborQueues, QueuesNext DEF OuterQueued
<1> QED
  BY <1>10, <1>11, <1>12, <1>13, <1>14 DEF QueueStep, AdmitStep, Represented

\* The sequential policies read an output into the working queue.
LEMMA ReadsIntoCurrent ==
  ASSUME SetupInv, Running \in SeqPolicies, PolicyInv, OfPolicy,
         pc = "fill", pc' = pc, i < NumOutputs, Len(current) < conf.max_output_num,
         current' = Append(current, i), i' = i + 1,
         UNCHANGED <<windowVars, short, long, current_output_set, next_waiting_set>>
  PROVE  QueueStep
<1>0. QueuesInv /\ TouchedInv
  BY DEF PolicyInv, SeqPolicies, QueuePolicies, DequePolicies
<1>1. UNCHANGED <<Running, NumOutputs>>
  BY DEF OfPolicy, Running, NumOutputs, Outputs
<1>2. /\ Running \in DequePolicies \ SplitPolicies /\ Running # "neighbor"
      /\ Running \in QueuePolicies
  BY DEF SeqPolicies, DequePolicies, SplitPolicies, QueuePolicies
<1>3. /\ i \in Nat /\ NumOutputs \in Nat /\ ReadQueue(current, i)
      /\ short = <<>> /\ long = <<>> /\ current_output_set = {}
  BY <1>0, <1>2 DEF QueuesInv, SetupInv
<1>4. ReadQueue(current', i') /\ Members(current') = Members(current) \cup {i}
  BY <1>3, QueueReads
<1>5. i' \in 0 .. NumOutputs /\ i \in Outputs /\ i \in i .. NumOutputs - 1
      /\ i' .. NumOutputs - 1 = (i .. NumOutputs - 1) \ {i}
  BY <1>3 DEF SetupInv
<1>6. QueuesInv'
  BY <1>0, <1>1, <1>2, <1>3, <1>4, <1>5, QueueEmpty DEF QueuesInv
<1>7. TouchedInv'
  BY <1>0, <1>1 DEF TouchedInv, OfPolicy, Outputs
<1>8. Waiting = i .. NumOutputs - 1 /\ Waiting' = i' .. NumOutputs - 1
  BY <1>1, <1>2, <1>3, WaitingQueues, QueuesNext, QueueEmpty
<1>9. WorkingOutputs = Members(current) /\ WorkingOutputs' = Members(current')
  BY <1>1, <1>2, DequeQueues, QueuesNext
<1>10. Cardinality(WorkingOutputs) < conf.max_output_num
  BY <1>3, <1>9, QueueCounts
<1> QED
  BY <1>4, <1>5, <1>6, <1>7, <1>8, <1>9, <1>10 DEF QueueStep, AdmitStep, Represented

\* The policies with two working queues read an output into one of them.
LEMMA ReadsIntoSplit ==
  ASSUME SetupInv, Running \in SplitPolicies, PolicyInv, OfPolicy, ReadsOutput,
         pc = "fill", pc' = pc, Len(short) + Len(long) < conf.max_output_num,
         UNCHANGED <<windowVars, current, current_output_set, next_waiting_set>>
  PROVE  QueueStep
<1>0. QueuesInv /\ TouchedInv
  BY DEF PolicyInv, SplitPolicies, QueuePolicies
<1>1. /\ UNCHANGED <<Running, NumOutputs>>
      /\ i' \in 0 .. NumOutputs /\ i \in Nat /\ i \in Outputs
      /\ ReadQueue(short', i') /\ ReadQueue(long', i')
      /\ Members(short') \cup Members(long') = Members(short) \cup Members(long) \cup {i}
      /\ Members(short') \cap Members(long') = {}
      /\ (i .. NumOutputs - 1) = (i' .. NumOutputs - 1) \cup {i}
      /\ i \notin i' .. NumOutputs - 1
  BY <1>0, OutputRead DEF OfPolicy
<1>2. /\ Running \notin DequePolicies \cup SeqPolicies /\ Running # "neighbor"
  BY DEF SeqPolicies, DequePolicies, SplitPolicies
<1>3. current = <<>> /\ current_output_set = {}
  BY <1>0, <1>2 DEF QueuesInv
<1>4. QueuesInv'
  BY <1>0, <1>1, <1>2, <1>3, QueueEmpty DEF QueuesInv
<1>5. TouchedInv'
  BY <1>0, <1>1 DEF TouchedInv, OfPolicy, Outputs
<1>6. Waiting = i .. NumOutputs - 1 /\ Waiting' = i' .. NumOutputs - 1
      /\ WorkingOutputs = Members(short) \cup Members(long)
      /\ WorkingOutputs' = Members(short') \cup Members(long')
  BY <1>1, SplitQueues, QueuesNext
<1>7. Cardinality(WorkingOutputs) = Len(short) + Len(long)
  <2>1. ReadQueue(short, i) /\ ReadQueue(long, i) /\ Members(short) \cap Members(long) = {}
    BY <1>0 DEF QueuesInv
  <2> QED
    BY <1>1, <1>6, <2>1, SplitCounts
<1> QED
  BY <1>1, <1>4, <1>5, <1>6, <1>7 DEF QueueStep, AdmitStep, Represented

\* A step that leaves the queues and the selected output alone.
Rests ==
    /\ OfPolicy
    /\ UNCHANGED <<i, current, short, long, current_output_set>>

\* What such a step keeps.
LEMMA RestKeeps ==
  ASSUME SetupInv, Running \in QueuePolicies, PolicyInv, Rests
  PROVE  QueuesInv' /\ UNCHANGED <<Running, NumOutputs, WorkingOutputs, Waiting>>
  BY QueuesUnmoved DEF Rests, OfPolicy, PolicyInv

\* Where the queues are empty.
LEMMA WorkingEmpty ==
  ASSUME SetupInv, Running \in QueuePolicies, QueuesInv
  PROVE  /\ Running \in DequePolicies => (WorkingOutputs = {} <=> current = <<>>)
         /\ Running \in SplitPolicies => (WorkingOutputs = {} <=> short = <<>> /\ long = <<>>)
         /\ Running = "neighbor" => (WorkingOutputs = {} <=> current_output_set = {})
         /\ short = <<>> /\ long = <<>> /\ i = NumOutputs => Waiting = {}
<1>1. i \in Nat /\ NumOutputs \in Nat
      /\ ReadQueue(current, i) /\ ReadQueue(short, i) /\ ReadQueue(long, i)
  BY DEF QueuesInv, SetupInv
<1>2. /\ Members(current) = {} <=> current = <<>>
      /\ Members(short) = {} <=> short = <<>>
      /\ Members(long) = {} <=> long = <<>>
  BY <1>1, QueueCounts
<1>3. Running \in DequePolicies => (WorkingOutputs = {} <=> current = <<>>)
  BY <1>2, DequeQueues
<1>4. Running \in SplitPolicies => (WorkingOutputs = {} <=> short = <<>> /\ long = <<>>)
  BY <1>2, SplitQueues
<1>5. Running = "neighbor" => (WorkingOutputs = {} <=> current_output_set = {})
  BY NeighborQueues
<1>6. i = NumOutputs => i .. NumOutputs - 1 = {}
  BY <1>1
<1>7. short = <<>> /\ long = <<>> /\ i = NumOutputs => Waiting = {}
  BY <1>2, <1>6, SplitQueues, WaitingQueues
<1> QED
  BY <1>3, <1>4, <1>5, <1>7

\* How many outputs the working queue holds.
LEMMA WorkingCounts ==
  ASSUME SetupInv, Running \in QueuePolicies, QueuesInv
  PROVE  /\ Running \in DequePolicies => Cardinality(WorkingOutputs) = Len(current)
         /\ Running \in SplitPolicies => Cardinality(WorkingOutputs) = Len(short) + Len(long)
<1>1. i \in Nat /\ ReadQueue(current, i) /\ ReadQueue(short, i) /\ ReadQueue(long, i)
      /\ Members(short) \cap Members(long) = {}
  BY DEF QueuesInv, SetupInv
<1>2. Running \in DequePolicies => Cardinality(WorkingOutputs) = Len(current)
  BY <1>1, DequeQueues, QueueCounts
<1>3. Running \in SplitPolicies => Cardinality(WorkingOutputs) = Len(short) + Len(long)
  BY <1>1, SplitQueues, SplitCounts
<1> QED
  BY <1>2, <1>3

\* A loop that fills a queue ends.
LEMMA LoopEnds ==
  ASSUME SetupInv, Running \in QueuePolicies, PolicyInv, Rests,
         pc \in {"setup_outer", "outer", "setup", "fill"},
         \/ pc' \in {"setup", "fill"} /\ Running \in OuterQueued
         \/ pc' = "skip" /\ Running \in SeqPolicies /\ WorkingOutputs # {}
         \/ pc' = "open" /\ Running \notin SeqPolicies /\ WorkingOutputs # {}
         \/ pc' = "done" /\ WorkingOutputs = {} /\ Waiting = {},
         Running \in OuterQueued /\ pc' = "fill" /\ short = <<>> /\ long = <<>> => i = NumOutputs,
         UNCHANGED <<windowVars, next_waiting_set>>
  PROVE  QueueStep
<1>1. QueuesInv' /\ UNCHANGED <<Running, NumOutputs, WorkingOutputs, Waiting>>
  BY RestKeeps
<1>2. UNCHANGED <<i, current, short, long>>
  BY DEF Rests
<1>3. LoopStep
  BY <1>1, <1>2 DEF LoopStep
<1>4. pc' \in {"skip", "take", "drop"} => Served'
  <2> SUFFICES ASSUME pc' \in {"skip", "take", "drop"} PROVE Served'
    OBVIOUS
  <2>1. Running \in SeqPolicies /\ WorkingOutputs # {}
    OBVIOUS
  <2>2. Running \in DequePolicies \ SplitPolicies /\ Running # "neighbor"
    BY <2>1 DEF SeqPolicies, DequePolicies, SplitPolicies
  <2>3. current # <<>>
    BY <2>1, <2>2, WorkingEmpty DEF PolicyInv
  <2> QED
    BY <1>1, <1>2, <2>2, <2>3 DEF Served
<1>5. TouchedInv'
  BY <1>1 DEF PolicyInv, TouchedInv, Rests, OfPolicy, Outputs
<1> QED
  BY <1>1, <1>3, <1>4, <1>5 DEF QueueStep, Represented

\* A window is begun.
LEMMA WindowBegins ==
  ASSUME SetupInv, Running \in QueuePolicies, PolicyInv, Rests,
         \/ pc = "open"
         \/ pc = "skip" /\ Running \in SeqPolicies,
         \/ pc' = "take"
         \/ pc' = "skip" /\ Running \notin SeqPolicies /\ order = GraphPy,
         window' = FreshWindow(WorkingOutputs, Cardinality(WorkingOutputs)),
         order = GraphPy /\ pc' = "take" => working_set[SelectedOutput'] # {},
         WorkingOutputs # {}, Served',
         Running = "neighbor" => pc' = "skip",
         UNCHANGED <<graphVars, working_set, plan, next_waiting_set>>
  PROVE  QueueStep
<1>1. QueuesInv' /\ UNCHANGED <<Running, NumOutputs, WorkingOutputs, Waiting>>
  BY RestKeeps
<1>2. BeginStep
  BY <1>1 DEF BeginStep
<1>3. TouchedInv'
  BY <1>1 DEF PolicyInv, TouchedInv, Rests, OfPolicy, Outputs
<1> QED
  BY <1>1, <1>2, <1>3 DEF QueueStep, Represented

\* The steps that change no queue.
LEMMA SelectedRests ==
  ASSUME SetupInv, Running \in QueuePolicies, PolicyInv, Rests,
         UNCHANGED <<selected_queue, next_select_item>>,
         pc \in {"skip", "take", "drop"} \/ pc' \notin {"skip", "take", "drop"},
         TouchedInv'
  PROVE  /\ Represented'
         /\ UNCHANGED <<WorkingOutputs, Waiting, SelectedOutput>>
         /\ pc \in {"skip", "take", "drop"} => SelectedOutput \in WorkingOutputs
<1>1. QueuesInv' /\ UNCHANGED <<Running, NumOutputs, WorkingOutputs, Waiting>>
  BY RestKeeps
<1>2. UNCHANGED SelectedOutput /\ (Served => Served')
  BY SelectionUnmoved DEF Rests, OfPolicy
<1>3. pc \in {"skip", "take", "drop"} => Served /\ SelectedOutput \in WorkingOutputs
  BY SelectedServed DEF PolicyInv, LoopInv
<1> QED
  BY <1>1, <1>2, <1>3 DEF Represented

\* The dictionary of the neighbor policy is left alone.
LEMMA TouchedKept ==
  ASSUME SetupInv, Running \in QueuePolicies, PolicyInv, Rests,
         UNCHANGED next_select_item,
         next_waiting_set' = <<>> \/ UNCHANGED next_waiting_set,
         \/ pc \in {"take", "drop"} \/ pc' \notin {"take", "drop"} \/ next_waiting_set' = <<>>
         \/ Running # "neighbor"
  PROVE  TouchedInv'
<1>1. UNCHANGED <<Running, Outputs, current_output_set>>
  BY DEF Rests, OfPolicy, Running, Outputs
<1>2. DOMAIN <<>> = {}
  OBVIOUS
<1> QED
  BY <1>1, <1>2 DEF TouchedInv, PolicyInv

-----------------------------------------------------------------------------
\* A deque loses its first output.
LEMMA DequePops ==
  ASSUME SetupInv, Running \in DequePolicies, PolicyInv, Served, OfPolicy,
         working_set[Head(current)] = {},
         current' = Tail(current),
         \/ pc \in {"skip", "drop"} /\ pc' = pc /\ order = GraphPy
         \/ pc = "drop" /\ pc' = "close" /\ current' = <<>>
         \/ pc = "drop" /\ pc' = "take" /\ order # GraphPy,
         pc' \in {"skip", "take", "drop"} => current' # <<>>,
         UNCHANGED <<windowVars, i, short, long, current_output_set, next_waiting_set>>
  PROVE  QueueStep
<1>0. QueuesInv /\ TouchedInv /\ Running \in QueuePolicies
  BY DEF PolicyInv, QueuePolicies
<1>1. UNCHANGED <<Running, NumOutputs>> /\ Running \notin SplitPolicies /\ Running # "neighbor"
  BY DEF OfPolicy, Running, NumOutputs, Outputs, DequePolicies, SplitPolicies
<1>2. i \in Nat /\ ReadQueue(current, i) /\ current # <<>>
  BY <1>0 DEF QueuesInv, SetupInv, Served
<1>3. /\ ReadQueue(current', i)
      /\ Members(current') = Members(current) \ {Head(current)}
      /\ Head(current) \in Members(current)
  BY <1>2, QueuePops
<1>4. UNCHANGED <<i, short, long, current_output_set>>
  OBVIOUS
<1>5. QueuesInv'
  BY <1>0, <1>1, <1>3, <1>4 DEF QueuesInv
<1>6. /\ WorkingOutputs = Members(current) /\ WorkingOutputs' = Members(current')
      /\ SelectedOutput = Head(current)
  BY <1>1, DequeQueues, QueuesNext
<1>7. UNCHANGED Waiting
  BY <1>0, <1>1, <1>4, WaitingQueues, QueuesNext
<1>8. current' = <<>> => WorkingOutputs' = {}
  BY <1>6, QueueEmpty
<1>9. PopStep
  BY <1>3, <1>6, <1>7, <1>8 DEF PopStep
<1>10. TouchedInv' /\ (pc' \in {"skip", "take", "drop"} => Served')
  BY <1>0, <1>1 DEF TouchedInv, OfPolicy, Outputs, Served
<1> QED
  BY <1>5, <1>9, <1>10 DEF QueueStep, Represented

\* One of two working queues loses its first output.
LEMMA SplitPops ==
  ASSUME SetupInv, Running \in SplitPolicies, PolicyInv, Served, OfPolicy,
         working_set[ShortLong!Selected] = {},
         short' = IF selected_queue = "short" THEN Tail(short) ELSE short,
         long' = IF selected_queue = "long" THEN Tail(long) ELSE long,
         selected_queue' = IF Tail(ShortLong!Queue) = <<>> /\ long' # <<>>
                           THEN "long" ELSE selected_queue,
         \/ pc \in {"skip", "drop"} /\ pc' = pc /\ order = GraphPy
         \/ pc = "drop" /\ pc' = "close" /\ Tail(ShortLong!Queue) = <<>> /\ long' = <<>>
         \/ pc = "drop" /\ pc' = "take" /\ order # GraphPy,
         pc' \in {"skip", "take", "drop"} => ~(Tail(ShortLong!Queue) = <<>> /\ long' = <<>>),
         UNCHANGED <<windowVars, i, current, current_output_set, next_waiting_set>>
  PROVE  QueueStep
<1>0. QueuesInv /\ TouchedInv /\ Running \in QueuePolicies
  BY DEF PolicyInv, QueuePolicies
<1>1. /\ UNCHANGED <<Running, NumOutputs>> /\ Running \notin DequePolicies
      /\ Running \notin SeqPolicies /\ Running # "neighbor"
  BY DEF OfPolicy, Running, NumOutputs, Outputs, DequePolicies, SplitPolicies, SeqPolicies
<1>2. /\ i \in Nat /\ ReadQueue(short, i) /\ ReadQueue(long, i)
      /\ Members(short) \cap Members(long) = {} /\ current = <<>> /\ current_output_set = {}
  BY <1>0, <1>1 DEF QueuesInv, SetupInv
<1>3. \/ /\ selected_queue = "short" /\ short # <<>> /\ ShortLong!Queue = short
         /\ short' = Tail(short) /\ long' = long
      \/ /\ selected_queue = "long" /\ short = <<>> /\ long # <<>> /\ ShortLong!Queue = long
         /\ long' = Tail(long) /\ short' = short
  BY DEF Served, ShortLong!Queue
<1>4. /\ ReadQueue(short', i) /\ ReadQueue(long', i)
      /\ Members(short') \cap Members(long') = {}
      /\ ShortLong!Selected \in Members(short) \cup Members(long)
      /\ Members(short') \cup Members(long') =
           (Members(short) \cup Members(long)) \ {ShortLong!Selected}
  <2>1. CASE selected_queue = "short"
    <3>1. short # <<>> /\ short' = Tail(short) /\ long' = long /\ ShortLong!Selected = Head(short)
      BY <1>3, <2>1 DEF ShortLong!Selected
    <3> QED
      BY <1>2, <3>1, QueuePops
  <2>2. CASE selected_queue = "long"
    <3>1. long # <<>> /\ long' = Tail(long) /\ short' = short /\ ShortLong!Selected = Head(long)
      BY <1>3, <2>2 DEF ShortLong!Selected
    <3> QED
      BY <1>2, <3>1, QueuePops
  <2> QED
    BY <1>3, <2>1, <2>2
<1>5. QueuesInv'
  BY <1>0, <1>1, <1>2, <1>4, QueueEmpty DEF QueuesInv
<1>6. /\ WorkingOutputs = Members(short) \cup Members(long)
      /\ WorkingOutputs' = Members(short') \cup Members(long')
      /\ SelectedOutput = ShortLong!Selected
      /\ UNCHANGED Waiting
  BY <1>1, SplitQueues, QueuesNext DEF ShortLong!Selected, ShortLong!Queue
<1>7. Tail(ShortLong!Queue) = <<>> /\ long' = <<>> => WorkingOutputs' = {}
  BY <1>3, <1>6, QueueEmpty
<1>8. PopStep
  BY <1>4, <1>6, <1>7 DEF PopStep
<1>9. pc' \in {"skip", "take", "drop"} => Served'
  BY <1>1, <1>3 DEF Served
<1>10. TouchedInv'
  BY <1>0, <1>1 DEF TouchedInv, OfPolicy, Outputs
<1> QED
  BY <1>5, <1>8, <1>9, <1>10 DEF QueueStep, Represented

\* The working set loses the selected output.
LEMMA NeighborPops ==
  ASSUME SetupInv, Running = "neighbor", PolicyInv, Served, OfPolicy,
         working_set[next_select_item] = {}, order = GraphPy,
         current_output_set' = current_output_set \ {next_select_item},
         \/ pc \in {"skip", "drop"} /\ pc' = pc
         \/ pc = "drop" /\ pc' = "close" /\ current_output_set' = {},
         pc' \in {"skip", "drop"} => next_select_item' \in current_output_set',
         TouchedInv',
         UNCHANGED <<windowVars, i, current, short, long>>
  PROVE  QueueStep
<1>0. QueuesInv /\ Running \in QueuePolicies
  BY DEF PolicyInv, QueuePolicies
<1>1. /\ UNCHANGED <<Running, NumOutputs>> /\ Running \notin DequePolicies
      /\ Running \notin SeqPolicies /\ Running \notin SplitPolicies
  BY DEF OfPolicy, Running, NumOutputs, Outputs, DequePolicies, SplitPolicies, SeqPolicies
<1>2. UNCHANGED <<i, current, short, long>>
  OBVIOUS
<1>3. QueuesInv'
  BY <1>0, <1>1, <1>2 DEF QueuesInv
<1>4. /\ WorkingOutputs = current_output_set /\ WorkingOutputs' = current_output_set'
      /\ SelectedOutput = next_select_item /\ UNCHANGED Waiting
  BY <1>0, <1>1, <1>2, NeighborQueues, WaitingQueues, QueuesNext
<1>5. next_select_item \in current_output_set
  BY DEF Served
<1>6. PopStep
  BY <1>4, <1>5 DEF PopStep
<1>7. pc' \in {"skip", "take", "drop"} => Served'
  BY <1>1 DEF Served
<1> QED
  BY <1>3, <1>6, <1>7 DEF QueueStep, Represented

\* A step that leaves the selection alone as well.
Stays == Rests /\ UNCHANGED <<selected_queue, next_select_item>>

\* An input is taken.
LEMMA Takes ==
  ASSUME SetupInv, Running \in QueuePolicies, PolicyInv, Stays, TouchedInv',
         pc = "take", pc' = "drop", window.input_num < conf.max_input_num,
         \E x \in working_set[SelectedOutput] : Take(x, SelectedOutput, WorkingOutputs),
         UNCHANGED <<graphVars, plan>>
  PROVE  QueueStep
<1>1. /\ Represented'
      /\ UNCHANGED <<WorkingOutputs, Waiting, SelectedOutput>>
      /\ SelectedOutput \in WorkingOutputs
  BY SelectedRests DEF Stays
<1> QED
  BY <1>1 DEF QueueStep, TakeStep

\* The selected output stays selected.
LEMMA Keeps ==
  ASSUME SetupInv, Running \in QueuePolicies, PolicyInv, Stays, TouchedInv',
         pc = "drop" \/ (pc = "skip" /\ Running \notin SeqPolicies), pc' = "take",
         working_set[SelectedOutput] # {},
         UNCHANGED windowVars
  PROVE  QueueStep
<1>1. /\ Represented'
      /\ UNCHANGED <<WorkingOutputs, Waiting, SelectedOutput>>
  BY SelectedRests DEF Stays
<1> QED
  BY <1>1 DEF QueueStep, KeepStep

\* The window is appended.
LEMMA Closes ==
  ASSUME SetupInv, Running \in QueuePolicies, PolicyInv, Stays, TouchedInv',
         pc = "close" \/ (pc = "take" /\ window.input_num >= conf.max_input_num),
         \/ pc' = "fill" /\ Running \notin OuterQueued
         \/ pc' = "outer" /\ Running \in OuterQueued,
         AppendWindow,
         UNCHANGED <<graphVars, working_set>>
  PROVE  QueueStep
<1>1. /\ Represented'
      /\ UNCHANGED <<WorkingOutputs, Waiting, SelectedOutput>>
  BY SelectedRests DEF Stays
<1> QED
  BY <1>1 DEF QueueStep, CloseStep

\* The selected output has no input left to pop.
LEMMA Raises ==
  ASSUME SetupInv, Running \in QueuePolicies, PolicyInv, Stays, TouchedInv',
         pc = "take", pc' = "KeyError", order # GraphPy,
         UNCHANGED windowVars
  PROVE  QueueStep
<1>1. /\ Represented'
      /\ UNCHANGED <<WorkingOutputs, Waiting, SelectedOutput>>
  BY SelectedRests DEF Stays
<1> QED
  BY <1>1 DEF QueueStep, RaiseStep

\* The loop before the first window goes round.
LEMMA Spins ==
  ASSUME SetupInv, Running \in QueuePolicies, PolicyInv, Stays, TouchedInv',
         pc = "setup", pc' = "setup",
         UNCHANGED windowVars
  PROVE  QueueStep
<1>1. /\ Represented'
      /\ UNCHANGED <<WorkingOutputs, Waiting, SelectedOutput>>
  BY SelectedRests DEF Stays
<1> QED
  BY <1>1 DEF QueueStep, SpinStep, Stays, Rests

-----------------------------------------------------------------------------
\* The common definitions, seen through the instance.
LEMMA SequentialBase ==
  /\ Sequential!NumOutputs = NumOutputs
  /\ \A q : Sequential!Members(q) = Members(q)
  /\ \A S, n : Sequential!FreshWindow(S, n) = FreshWindow(S, n)
  /\ \A x, o, S : Sequential!Take(x, o, S) <=> Take(x, o, S)
  /\ Sequential!AppendWindow <=> AppendWindow
  /\ UNCHANGED Sequential!windowVars <=> UNCHANGED windowVars
  /\ UNCHANGED Sequential!graphVars <=> UNCHANGED graphVars
  BY DEF Sequential!NumOutputs, NumOutputs, Sequential!Outputs, Outputs, Sequential!Cardinality,
         Cardinality, Sequential!Members, Members, Sequential!FreshWindow, FreshWindow,
         Sequential!EmptyWindow, EmptyWindow, Sequential!Take, Take, Sequential!Sharing, Sharing,
         Sequential!AppendWindow, AppendWindow, Sequential!windowVars, windowVars,
         Sequential!graphVars, graphVars

\* The working deque and the output it selects.
LEMMA DequeFacts ==
  ASSUME SetupInv, Running \in DequePolicies, PolicyInv, UNCHANGED <<order, policy>>
  PROVE  /\ Running \in QueuePolicies /\ Running \notin SplitPolicies /\ Running # "neighbor"
         /\ QueuesInv /\ LoopInv
         /\ WorkingOutputs = Members(current) /\ SelectedOutput = Head(current)
         /\ SelectedOutput' = Head(current')
         /\ Cardinality(WorkingOutputs) = Len(current)
         /\ WorkingOutputs = {} <=> current = <<>>
<1>1. Running \in QueuePolicies /\ Running \notin SplitPolicies /\ Running # "neighbor"
  BY DEF QueuePolicies, DequePolicies, SplitPolicies
<1>2. QueuesInv /\ LoopInv
  BY <1>1 DEF PolicyInv
<1>3. WorkingOutputs = Members(current) /\ SelectedOutput = Head(current)
      /\ SelectedOutput' = Head(current')
  BY DequeQueues, QueuesNext DEF Running
<1>4. Cardinality(WorkingOutputs) = Len(current) /\ (WorkingOutputs = {} <=> current = <<>>)
  BY <1>1, <1>2, WorkingCounts, WorkingEmpty
<1> QED
  BY <1>1, <1>2, <1>3, <1>4

\* The loop that fills the working queue of __setup_seq_window, and the end of a
\* window.
LEMMA SequentialFills ==
  ASSUME SetupInv, PolicyInv, Running \in SeqPolicies,
         UNCHANGED <<order, policy, short, long, selected_queue, neighborVars>>,
         Sequential!FillOutput \/ Sequential!FillDone \/ Sequential!CloseWindow
  PROVE  QueueStep
<1>0. UNCHANGED <<order, policy, short, long, selected_queue, current_output_set,
                  next_select_item, next_waiting_set>>
  BY DEF neighborVars
<1>1. /\ Running \in DequePolicies /\ Running \in QueuePolicies
      /\ Running \notin OuterQueued /\ Running # "neighbor"
  BY DEF QueuePolicies, SeqPolicies, DequePolicies, OuterQueued, OuterPolicies
<1>3. QueuesInv /\ LoopInv /\ short = <<>> /\ long = <<>>
  BY <1>1 DEF PolicyInv, QueuesInv
<1>5. WorkingOutputs = {} <=> current = <<>>
  BY <1>0, <1>1, DequeFacts
<1>6. CASE Sequential!FillOutput
  <2>1. UNCHANGED <<windowVars, pc>> /\ UNCHANGED array
    BY <1>6, SequentialBase DEF Sequential!FillOutput, windowVars
  <2> QED
    BY <1>0, <1>1, <1>6, <2>1, SequentialBase, ReadsIntoCurrent
       DEF Sequential!FillOutput, Sequential!HasRoom, OfPolicy
<1>7. CASE Sequential!FillDone
  <2>1. /\ UNCHANGED <<windowVars, current, i>> /\ UNCHANGED array /\ pc = "fill"
        /\ pc' = IF current = <<>> THEN "done" ELSE "skip"
        /\ ~(Len(current) < conf.max_output_num /\ i < NumOutputs)
    BY <1>7, SequentialBase DEF Sequential!FillDone, Sequential!HasRoom, windowVars
  <2>2. Rests
    BY <1>0, <2>1 DEF Rests, OfPolicy
  <2>3. current = <<>> => i = NumOutputs
    BY <1>3, <2>1 DEF QueuesInv, SetupInv, Config
  <2>4. current = <<>> => Waiting = {}
    BY <1>1, <1>3, <2>3, WorkingEmpty
  <2> QED
    BY <1>0, <1>1, <1>5, <2>1, <2>2, <2>4, LoopEnds
<1>8. CASE Sequential!CloseWindow
  <2>1. Stays
    BY <1>0, <1>8, SequentialBase DEF Sequential!CloseWindow, graphVars, Stays, Rests, OfPolicy
  <2>2. TouchedInv'
    BY <1>0, <1>1, <2>1, TouchedKept DEF Stays
  <2> QED
    BY <1>1, <1>8, <2>1, <2>2, SequentialBase, Closes
       DEF Sequential!CloseWindow, Sequential!WindowEnds
<1> QED
  BY <1>6, <1>7, <1>8

\* The steps of __setup_seq_window.
LEMMA SequentialQueues ==
  ASSUME SetupInv, PolicyInv, SequentialStep
  PROVE  QueueStep
<1>0. /\ Running = "sequential" /\ UNCHANGED <<order, policy>>
      /\ UNCHANGED <<short, long, selected_queue, current_output_set, next_select_item,
                     next_waiting_set>>
  BY DEF SequentialStep, Runs, neighborVars
<1>1. /\ Running \in SeqPolicies /\ Running \in DequePolicies /\ Running \notin TilePolicies
      /\ Running \in QueuePolicies /\ Running # "neighbor" /\ Running \notin SplitPolicies
  BY <1>0 DEF SeqPolicies, DequePolicies, TilePolicies, QueuePolicies, SplitPolicies
<1>2. order = GraphPy
  BY <1>0, RunningPolicy DEF TilePolicies, QueuePolicies, NewPolicies
<1>3. QueuesInv /\ LoopInv
  BY <1>0, <1>1, DequeFacts
<1>4. WorkingOutputs = Members(current) /\ SelectedOutput = Head(current)
      /\ SelectedOutput' = Head(current')
  BY <1>0, <1>1, DequeFacts
<1>5. Cardinality(WorkingOutputs) = Len(current) /\ (WorkingOutputs = {} <=> current = <<>>)
  BY <1>0, <1>1, DequeFacts
<1>6. CASE Sequential!FillOutput \/ Sequential!FillDone \/ Sequential!CloseWindow
  BY <1>0, <1>1, <1>6, SequentialFills DEF SequentialStep, neighborVars
<1>8. CASE Sequential!SkipEmpty
  <2>1. /\ UNCHANGED <<windowVars, i>> /\ UNCHANGED array /\ pc = "skip"
        /\ working_set[Head(current)] = {} /\ current' = Tail(current)
        /\ pc' = IF Tail(current) = <<>> THEN "fill" ELSE "skip"
    BY <1>8, SequentialBase
       DEF Sequential!SkipEmpty, Sequential!PopEmpty, Sequential!Selected, windowVars
  <2>2. Served /\ SelectedOutput \in WorkingOutputs
    BY <1>1, <1>3, <2>1, SelectedServed DEF LoopInv
  <2>3. Tail(current) # <<>>
    <3>1. WorkingOutputs \ {SelectedOutput} # {}
      BY <1>1, <1>2, <1>4, <2>1, <2>2, SkipLeaves
    <3>2. Members(Tail(current)) = Members(current) \ {Head(current)}
      BY <1>1, <1>3, <2>2, QueuePops DEF QueuesInv, SetupInv, Served
    <3> QED
      BY <1>4, <3>1, <3>2, QueueEmpty
  <2> QED
    BY <1>0, <1>1, <1>2, <2>1, <2>2, <2>3, DequePops DEF OfPolicy
<1>9. CASE Sequential!BeginWindow
  <2>1. /\ pc = "skip" /\ pc' = "take" /\ working_set[Head(current)] # {}
        /\ window' = FreshWindow(Members(current), Len(current))
        /\ UNCHANGED <<graphVars, working_set, plan, current, i>> /\ UNCHANGED array
    BY <1>9, SequentialBase DEF Sequential!BeginWindow, Sequential!Selected, graphVars
  <2>2. Served /\ Served' /\ WorkingOutputs # {}
    <3>1. Served
      BY <1>3, <2>1 DEF LoopInv
    <3> QED
      BY <1>0, <1>1, <1>5, <2>1, <3>1 DEF Served, Running
  <2> QED
    BY <1>0, <1>1, <1>4, <1>5, <2>1, <2>2, WindowBegins DEF Rests, OfPolicy
<1>10. CASE Sequential!TakeInput \/ Sequential!KeepSelected
  <2>1. Stays
    BY <1>0, <1>10, SequentialBase
       DEF Sequential!TakeInput, Sequential!KeepSelected, Sequential!Keep,
           Sequential!PopInput, windowVars, graphVars, Stays, Rests, OfPolicy
  <2>2. TouchedInv'
    BY <1>0, <1>1, <2>1, TouchedKept DEF Stays
  <2>3. CASE Sequential!TakeInput
    <3>1. PICK x \in working_set[Head(current)] : Sequential!PopInput(x)
      BY <2>3 DEF Sequential!TakeInput, Sequential!Selected
    <3>2. /\ pc = "take" /\ pc' = "drop" /\ window.input_num < conf.max_input_num
          /\ Take(x, Head(current), Members(current)) /\ UNCHANGED <<graphVars, plan>>
      BY <2>3, <3>1, SequentialBase
         DEF Sequential!TakeInput, Sequential!PopInput, Sequential!Selected
    <3> QED
      BY <1>1, <1>4, <2>1, <2>2, <3>1, <3>2, Takes
  <2>4. CASE Sequential!KeepSelected
    BY <1>1, <1>4, <2>1, <2>2, <2>4, SequentialBase, Keeps
       DEF Sequential!KeepSelected, Sequential!Keep, Sequential!Selected
  <2> QED
    BY <1>10, <2>3, <2>4
<1>11. CASE Sequential!DropFinished
  <2>1. /\ UNCHANGED <<windowVars, i>> /\ UNCHANGED array /\ pc = "drop"
        /\ working_set[Head(current)] = {} /\ current' = Tail(current)
        /\ pc' = IF Tail(current) = <<>> THEN "close" ELSE "drop"
    BY <1>11, SequentialBase
       DEF Sequential!DropFinished, Sequential!PopEmpty, Sequential!Selected, windowVars
  <2>2. Served
    BY <1>3, <2>1 DEF LoopInv
  <2> QED
    BY <1>0, <1>1, <1>2, <2>1, <2>2, DequePops DEF OfPolicy
<1> QED
  BY <1>6, <1>8, <1>9, <1>10, <1>11 DEF SequentialStep, Sequential!Next

\* The common definitions, seen through the instance.
LEMMA OuterBase ==
  /\ Outer!NumOutputs = NumOutputs
  /\ \A q : Outer!Members(q) = Members(q)
  /\ \A S, n : Outer!FreshWindow(S, n) = FreshWindow(S, n)
  /\ \A x, o, S : Outer!Take(x, o, S) <=> Take(x, o, S)
  /\ Outer!AppendWindow <=> AppendWindow
  /\ Outer!EmptyWindow = EmptyWindow
  /\ UNCHANGED Outer!windowVars <=> UNCHANGED windowVars
  /\ UNCHANGED Outer!graphVars <=> UNCHANGED graphVars
  BY DEF Outer!NumOutputs, NumOutputs, Outer!Outputs, Outputs, Outer!Cardinality,
         Cardinality, Outer!Members, Members, Outer!FreshWindow, FreshWindow,
         Outer!EmptyWindow, EmptyWindow, Outer!Take, Take, Outer!Sharing, Sharing,
         Outer!AppendWindow, AppendWindow, Outer!windowVars, windowVars,
         Outer!graphVars, graphVars

\* The loops over the outer queues of __setup_outer_short_long, and the end of a
\* window.
LEMMA OuterFills ==
  ASSUME SetupInv, PolicyInv, Running \in OuterPolicies,
         UNCHANGED <<order, policy, selected_queue, neighborVars>>,
         \/ Outer!EnqueueOutput \/ Outer!EnqueueDone \/ Outer!MoveOutput
         \/ Outer!FillDone \/ Outer!FillSpins \/ Outer!CloseWindow
  PROVE  QueueStep
<1>0. UNCHANGED <<order, policy, selected_queue, current_output_set,
                  next_select_item, next_waiting_set>>
  BY DEF neighborVars
<1>1. /\ Running \in DequePolicies /\ Running \in QueuePolicies /\ Running # "neighbor"
      /\ Running \in OuterQueued /\ Running \notin SeqPolicies
  BY DEF QueuePolicies, SeqPolicies, DequePolicies, OuterQueued, OuterPolicies
<1>2. QueuesInv /\ LoopInv
  BY <1>0, <1>1, DequeFacts
<1>3. Cardinality(WorkingOutputs) = Len(current) /\ (WorkingOutputs = {} <=> current = <<>>)
  BY <1>0, <1>1, DequeFacts
<1>4. CASE Outer!EnqueueOutput
  <2>1. /\ UNCHANGED <<windowVars, current, pc>> /\ UNCHANGED array
        /\ pc \in {"setup_outer", "outer"} /\ ReadsOutput
    BY <1>4, OuterBase DEF Outer!EnqueueOutput, Outer!Filling, windowVars, ReadsOutput
  <2> QED
    BY <1>0, <1>1, <2>1, ReadsIntoOuter DEF OfPolicy
<1>5. CASE Outer!EnqueueDone
  <2>1. /\ UNCHANGED <<windowVars, current, i, short, long>> /\ UNCHANGED array
        /\ pc \in {"setup_outer", "outer"} /\ pc' \in {"setup", "fill"}
        /\ ~(Len(short) + Len(long) < conf.max_queue_size /\ i < NumOutputs)
    BY <1>5, OuterBase DEF Outer!EnqueueDone, Outer!Filling, Outer!OuterHasRoom, windowVars
  <2>2. Rests
    BY <1>0, <2>1 DEF Rests, OfPolicy
  <2>3. short = <<>> /\ long = <<>> => i = NumOutputs
    BY <1>2, <2>1 DEF QueuesInv, SetupInv, Config
  <2> QED
    BY <1>0, <1>1, <2>1, <2>2, <2>3, LoopEnds
<1>6. CASE Outer!MoveOutput
  <2>1. /\ UNCHANGED <<windowVars, i, pc>> /\ UNCHANGED array
        /\ pc \in {"setup", "fill"} /\ Len(current) < conf.max_output_num
        /\ \E o : MovesOutput(o) /\ current' = Append(current, o)
    BY <1>6, OuterBase DEF Outer!MoveOutput, Outer!HasRoom, windowVars, MovesOutput
  <2>2. PICK o : MovesOutput(o) /\ current' = Append(current, o)
    BY <2>1
  <2> QED
    BY <1>0, <1>1, <1>3, <2>1, <2>2, AdmitsFromOuter DEF OfPolicy
<1>7. CASE Outer!FillDone
  <2>1. /\ UNCHANGED <<windowVars, current, i, short, long>> /\ UNCHANGED array
        /\ pc \in {"setup", "fill"}
        /\ pc' = IF current = <<>> THEN "done" ELSE "open"
        /\ \/ ~(Len(current) < conf.max_output_num)
           \/ pc = "fill" /\ short = <<>> /\ long = <<>>
    BY <1>7, OuterBase DEF Outer!FillDone, Outer!HasRoom, Outer!OuterEmpty, windowVars
  <2>2. Rests
    BY <1>0, <2>1 DEF Rests, OfPolicy
  <2>3. current = <<>> => pc = "fill" /\ short = <<>> /\ long = <<>>
    BY <2>1 DEF SetupInv, Config
  <2>4. current = <<>> => i = NumOutputs
    BY <1>1, <1>2, <1>3, <2>3 DEF LoopInv
  <2>5. current = <<>> => Waiting = {}
    BY <1>1, <1>2, <2>3, <2>4, WorkingEmpty
  <2> QED
    BY <1>0, <1>1, <1>3, <2>1, <2>2, <2>5, LoopEnds
<1>8. CASE Outer!FillSpins
  <2>1. /\ UNCHANGED <<windowVars, current, i, short, long, pc>> /\ UNCHANGED array
        /\ pc = "setup"
    BY <1>8, OuterBase DEF Outer!FillSpins, Outer!vars, Outer!windowVars, windowVars
  <2>2. Stays
    BY <1>0, <2>1 DEF Stays, Rests, OfPolicy
  <2>3. TouchedInv'
    BY <1>0, <1>1, <2>2, TouchedKept DEF Stays
  <2> QED
    BY <1>1, <2>1, <2>2, <2>3, Spins
<1>9. CASE Outer!CloseWindow
  <2>1. Stays
    BY <1>0, <1>9, OuterBase DEF Outer!CloseWindow, graphVars, Stays, Rests, OfPolicy
  <2>2. TouchedInv'
    BY <1>0, <1>1, <2>1, TouchedKept DEF Stays
  <2> QED
    BY <1>1, <1>9, <2>1, <2>2, OuterBase, Closes
       DEF Outer!CloseWindow, Outer!WindowEnds
<1> QED
  BY <1>4, <1>5, <1>6, <1>7, <1>8, <1>9

\* An input popped of the first output of the deque.
LEMMA DequeTakes ==
  ASSUME SetupInv, PolicyInv, Running \in DequePolicies,
         UNCHANGED <<order, policy, neighborVars, short, long, selected_queue, current, i, plan>>,
         UNCHANGED graphVars, pc = "take", pc' = "drop",
         window.input_num < conf.max_input_num,
         \E x \in working_set[Head(current)] : Take(x, Head(current), Members(current))
  PROVE  QueueStep
<1>1. Stays
  BY DEF Stays, Rests, OfPolicy, neighborVars, graphVars
<1>2. Running \in QueuePolicies /\ Running # "neighbor"
      /\ WorkingOutputs = Members(current) /\ SelectedOutput = Head(current)
  BY DequeFacts
<1>3. TouchedInv'
  BY <1>1, <1>2, TouchedKept DEF Stays, neighborVars
<1> QED
  BY <1>1, <1>2, <1>3, Takes

\* The window of __setup_outer_short_long.
LEMMA OuterWindow ==
  ASSUME SetupInv, PolicyInv, Running \in OuterPolicies, order = GraphPy,
         UNCHANGED <<order, policy, selected_queue, neighborVars>>,
         \/ Outer!BeginWindow \/ Outer!SkipEmpty \/ Outer!SkipDone \/ Outer!TakeInput
         \/ Outer!DropFinished \/ Outer!KeepSelected
  PROVE  QueueStep
<1>0. UNCHANGED <<order, policy, selected_queue, current_output_set,
                  next_select_item, next_waiting_set>>
  BY DEF neighborVars
<1>1. /\ Running \in DequePolicies /\ Running \in QueuePolicies /\ Running # "neighbor"
      /\ Running \in OuterQueued /\ Running \notin SeqPolicies /\ Running \notin SplitPolicies
  BY DEF QueuePolicies, SeqPolicies, DequePolicies, SplitPolicies, OuterQueued, OuterPolicies
<1>2. QueuesInv /\ LoopInv
  BY <1>0, <1>1, DequeFacts
<1>3. WorkingOutputs = Members(current) /\ SelectedOutput = Head(current)
      /\ SelectedOutput' = Head(current')
  BY <1>0, <1>1, DequeFacts
<1>4. Cardinality(WorkingOutputs) = Len(current) /\ (WorkingOutputs = {} <=> current = <<>>)
  BY <1>0, <1>1, DequeFacts
<1>5. CASE Outer!BeginWindow
  <2>1. /\ pc = "open" /\ pc' = "skip"
        /\ window' = FreshWindow(Members(current), Len(current))
        /\ UNCHANGED <<graphVars, working_set, plan, current, i, short, long>> /\ UNCHANGED array
    BY <1>5, OuterBase DEF Outer!BeginWindow, graphVars
  <2>2. WorkingOutputs # {} /\ current # <<>>
    BY <1>2, <1>4, <2>1 DEF LoopInv
  <2>3. Served'
    BY <1>0, <1>1, <2>1, <2>2 DEF Served, Running
  <2>4. Rests
    BY <1>0, <2>1 DEF Rests, OfPolicy
  <2> QED
    BY <1>0, <1>1, <1>3, <1>4, <2>1, <2>2, <2>3, <2>4, WindowBegins
<1>6. CASE Outer!SkipEmpty
  <2>1. /\ pc = "skip" /\ working_set[Head(current)] = {} /\ current' = Tail(current)
        /\ Tail(current) # <<>> => UNCHANGED window /\ pc' = "skip"
        /\ UNCHANGED <<graphVars, working_set, plan, i, short, long>> /\ UNCHANGED array
    BY <1>6, OuterBase DEF Outer!SkipEmpty, Outer!Selected, graphVars
  <2>2. Served /\ SelectedOutput \in WorkingOutputs
    BY <1>1, <1>2, <2>1, SelectedServed DEF LoopInv
  <2>3. Tail(current) # <<>>
    <3>1. WorkingOutputs \ {SelectedOutput} # {}
      BY <1>1, <1>3, <2>1, <2>2, SkipLeaves
    <3>2. Members(Tail(current)) = Members(current) \ {Head(current)}
      BY <1>1, <1>2, <2>2, QueuePops DEF QueuesInv, SetupInv, Served
    <3> QED
      BY <1>3, <3>1, <3>2, QueueEmpty
  <2>4. UNCHANGED windowVars
    BY <2>1, <2>3 DEF windowVars, graphVars
  <2> QED
    BY <1>0, <1>1, <2>1, <2>2, <2>3, <2>4, DequePops DEF OfPolicy
<1>7. CASE Outer!SkipDone \/ Outer!KeepSelected
  <2>1. /\ pc \in {"skip", "drop"} /\ pc' = "take" /\ working_set[Head(current)] # {}
        /\ UNCHANGED <<windowVars, current, i, short, long>> /\ UNCHANGED array
    BY <1>7, OuterBase
       DEF Outer!SkipDone, Outer!KeepSelected, Outer!Keep, Outer!Selected, windowVars
  <2>2. Stays
    BY <1>0, <2>1 DEF Stays, Rests, OfPolicy
  <2>3. TouchedInv'
    BY <1>0, <1>1, <2>2, TouchedKept DEF Stays
  <2> QED
    BY <1>1, <1>3, <2>1, <2>2, <2>3, Keeps
<1>8. CASE Outer!TakeInput
  <2>1. PICK x \in working_set[Head(current)] : Outer!PopInput(x)
    BY <1>8 DEF Outer!TakeInput, Outer!Selected
  <2>2. /\ pc = "take" /\ pc' = "drop" /\ window.input_num < conf.max_input_num
        /\ Take(x, Head(current), Members(current))
        /\ UNCHANGED <<plan, current, i, short, long>> /\ UNCHANGED graphVars
    BY <1>8, <2>1, OuterBase DEF Outer!TakeInput, Outer!PopInput, Outer!Selected
  <2> QED
    BY <1>0, <1>1, <2>1, <2>2, DequeTakes
<1>9. CASE Outer!DropFinished
  <2>1. /\ UNCHANGED <<windowVars, i, short, long>> /\ UNCHANGED array /\ pc = "drop"
        /\ working_set[Head(current)] = {} /\ current' = Tail(current)
        /\ pc' = IF Tail(current) = <<>> THEN "close" ELSE "drop"
    BY <1>9, OuterBase
       DEF Outer!DropFinished, Outer!PopEmpty, Outer!Selected, windowVars
  <2>2. Served
    BY <1>2, <2>1 DEF LoopInv
  <2> QED
    BY <1>0, <1>1, <2>1, <2>2, DequePops DEF OfPolicy
<1> QED
  BY <1>5, <1>6, <1>7, <1>8, <1>9

\* The steps of __setup_outer_short_long.
LEMMA OuterQueues ==
  ASSUME SetupInv, PolicyInv, OuterStep
  PROVE  QueueStep
<1>1. /\ Running = "outer" /\ Running \in OuterPolicies
      /\ UNCHANGED <<order, policy, selected_queue, neighborVars>>
  BY DEF OuterStep, Runs, OuterPolicies
<1>2. order = GraphPy
  BY <1>1, RunningPolicy DEF TilePolicies, QueuePolicies, NewPolicies
<1>3. \/ Outer!EnqueueOutput \/ Outer!EnqueueDone \/ Outer!MoveOutput
      \/ Outer!FillDone \/ Outer!FillSpins \/ Outer!CloseWindow
      \/ Outer!BeginWindow \/ Outer!SkipEmpty \/ Outer!SkipDone \/ Outer!TakeInput
      \/ Outer!DropFinished \/ Outer!KeepSelected
  BY DEF OuterStep, Outer!Next
<1> QED
  BY <1>1, <1>2, <1>3, OuterFills, OuterWindow

\* The loops of the bloom policy that are those of the outer policy.
LEMMA BloomOuter ==
  /\ Bloom!EnqueueDone <=> Outer!EnqueueDone
  /\ Bloom!MoveOutput <=> Outer!MoveOutput
  /\ Bloom!FillDone <=> Outer!FillDone
  /\ Bloom!FillSpins <=> Outer!FillSpins
  /\ Bloom!BeginWindow <=> Outer!BeginWindow
  /\ Bloom!SkipEmpty <=> Outer!SkipEmpty
  /\ Bloom!SkipDone <=> Outer!SkipDone
  /\ Bloom!DropFinished <=> Outer!DropFinished
  /\ Bloom!KeepSelected <=> Outer!KeepSelected
  /\ Bloom!CloseWindow <=> Outer!CloseWindow
<1>1. /\ Bloom!EnqueueDone <=> Outer!EnqueueDone
      /\ Bloom!MoveOutput <=> Outer!MoveOutput
      /\ Bloom!FillDone <=> Outer!FillDone
      /\ Bloom!FillSpins <=> Outer!FillSpins
  BY DEF Bloom!EnqueueDone, Outer!EnqueueDone, Bloom!MoveOutput, Outer!MoveOutput,
         Bloom!FillDone, Outer!FillDone, Bloom!FillSpins, Outer!FillSpins,
         Bloom!Filling, Outer!Filling, Bloom!OuterHasRoom, Outer!OuterHasRoom,
         Bloom!OuterEmpty, Outer!OuterEmpty, Bloom!HasRoom, Outer!HasRoom,
         Bloom!windowVars, Outer!windowVars, Bloom!vars, Outer!vars,
         Bloom!NumOutputs, Outer!NumOutputs, Bloom!Outputs, Outer!Outputs,
         Bloom!Cardinality, Outer!Cardinality
<1>2. /\ Bloom!BeginWindow <=> Outer!BeginWindow
      /\ Bloom!SkipEmpty <=> Outer!SkipEmpty
      /\ Bloom!SkipDone <=> Outer!SkipDone
      /\ Bloom!DropFinished <=> Outer!DropFinished
      /\ Bloom!KeepSelected <=> Outer!KeepSelected
      /\ Bloom!CloseWindow <=> Outer!CloseWindow
  BY DEF Bloom!BeginWindow, Outer!BeginWindow, Bloom!SkipEmpty, Outer!SkipEmpty,
         Bloom!SkipDone, Outer!SkipDone, Bloom!DropFinished, Outer!DropFinished,
         Bloom!KeepSelected, Outer!KeepSelected, Bloom!CloseWindow, Outer!CloseWindow,
         Bloom!Keep, Outer!Keep, Bloom!PopEmpty, Outer!PopEmpty, Bloom!Selected, Outer!Selected,
         Bloom!WindowEnds, Outer!WindowEnds, Bloom!AppendWindow, Outer!AppendWindow,
         Bloom!FreshWindow, Outer!FreshWindow, Bloom!EmptyWindow, Outer!EmptyWindow,
         Bloom!Members, Outer!Members, Bloom!windowVars, Outer!windowVars,
         Bloom!graphVars, Outer!graphVars
<1> QED
  BY <1>1, <1>2

\* An input popped by the bloom policy.
LEMMA BloomTakes ==
  ASSUME NEW x, Bloom!PopInput(x)
  PROVE  /\ pc' = "drop" /\ window.input_num < conf.max_input_num
         /\ x \in working_set[Head(current)]
         /\ Take(x, Head(current), Members(current))
         /\ UNCHANGED <<plan, current, i>> /\ UNCHANGED graphVars
  BY DEF Bloom!PopInput, Bloom!Selected, Bloom!Take, Take, Bloom!Sharing, Sharing,
         Bloom!Members, Members, Bloom!graphVars, graphVars, Bloom!Cardinality, Cardinality

\* An output scored by the bloom policy.
LEMMA BloomReads ==
  ASSUME Bloom!EnqueueScored
  PROVE  /\ UNCHANGED <<windowVars, current, pc>> /\ UNCHANGED array
         /\ pc \in {"setup_outer", "outer"} /\ ReadsOutput
<1>1. Bloom!NumOutputs = NumOutputs
  BY DEF Bloom!NumOutputs, NumOutputs, Bloom!Outputs, Outputs, Bloom!Cardinality, Cardinality
<1>2. /\ UNCHANGED <<windowVars, current, pc>> /\ UNCHANGED array
      /\ pc \in {"setup_outer", "outer"} /\ i < Bloom!NumOutputs /\ i' = i + 1
  BY DEF Bloom!EnqueueScored, Bloom!Filling, Bloom!windowVars, windowVars
<1>3. \/ short' = Append(short, i) /\ UNCHANGED long
      \/ long' = Append(long, i) /\ UNCHANGED short
  BY DEF Bloom!EnqueueScored
<1> QED
  BY <1>1, <1>2, <1>3 DEF ReadsOutput

\* The steps of __setup_bloom_short_long.
LEMMA BloomQueues ==
  ASSUME SetupInv, PolicyInv, BloomStep
  PROVE  QueueStep
<1>1. /\ Running = "bloom" /\ Running \in OuterPolicies /\ Running \in OuterQueued
      /\ Running \in DequePolicies
      /\ UNCHANGED <<order, policy, selected_queue, neighborVars>>
  BY DEF BloomStep, Runs, OuterPolicies, OuterQueued, DequePolicies
<1>2. order = GraphPy
  BY <1>1, RunningPolicy DEF TilePolicies, QueuePolicies, NewPolicies
<1>3. CASE Bloom!EnqueueScored
  BY <1>1, <1>3, BloomReads, ReadsIntoOuter DEF OfPolicy, neighborVars
<1>4. CASE Bloom!TakeScored
  <2>1. /\ pc = "take" /\ UNCHANGED <<short, long>>
        /\ \E x \in working_set[Bloom!Selected] : Bloom!PopInput(x)
    BY <1>4 DEF Bloom!TakeScored
  <2>2. PICK x : Bloom!PopInput(x)
    BY <2>1
  <2>3. /\ pc' = "drop" /\ window.input_num < conf.max_input_num
        /\ x \in working_set[Head(current)]
        /\ Take(x, Head(current), Members(current))
        /\ UNCHANGED <<plan, current, i>> /\ UNCHANGED graphVars
    BY <2>2, BloomTakes
  <2> QED
    BY <1>1, <2>1, <2>3, DequeTakes
<1>5. CASE \/ Bloom!EnqueueDone \/ Bloom!MoveOutput \/ Bloom!FillDone \/ Bloom!FillSpins
           \/ Bloom!CloseWindow
  BY <1>1, <1>5, BloomOuter, OuterFills
<1>6. CASE \/ Bloom!BeginWindow \/ Bloom!SkipEmpty \/ Bloom!SkipDone
           \/ Bloom!DropFinished \/ Bloom!KeepSelected
  BY <1>1, <1>2, <1>6, BloomOuter, OuterWindow
<1> QED
  BY <1>3, <1>4, <1>5, <1>6 DEF BloomStep, Bloom!BloomNext

\* The common definitions, seen through the instance.
LEMMA GetGraphBase ==
  /\ \A q : GetGraph!Members(q) = Members(q)
  /\ \A S, n : GetGraph!FreshWindow(S, n) = FreshWindow(S, n)
  /\ UNCHANGED GetGraph!windowVars <=> UNCHANGED windowVars
  /\ UNCHANGED GetGraph!graphVars <=> UNCHANGED graphVars
  BY DEF GetGraph!Members, Members, GetGraph!FreshWindow, FreshWindow,
         GetGraph!EmptyWindow, EmptyWindow, GetGraph!windowVars, windowVars,
         GetGraph!graphVars, graphVars

\* The loops that get_graph.py shares with graph.py.
LEMMA GetGraphLoops ==
  /\ GetGraph!Sequential!FillOutput <=> Sequential!FillOutput
  /\ GetGraph!Sequential!FillDone <=> Sequential!FillDone
  /\ GetGraph!Sequential!CloseWindow <=> Sequential!CloseWindow
  /\ GetGraph!Outer!EnqueueOutput <=> Outer!EnqueueOutput
  /\ GetGraph!Outer!EnqueueDone <=> Outer!EnqueueDone
  /\ GetGraph!Outer!MoveOutput <=> Outer!MoveOutput
  /\ GetGraph!Outer!FillDone <=> Outer!FillDone
  /\ GetGraph!Outer!FillSpins <=> Outer!FillSpins
  /\ GetGraph!Outer!CloseWindow <=> Outer!CloseWindow
<1>1. /\ GetGraph!Sequential!FillOutput <=> Sequential!FillOutput
      /\ GetGraph!Sequential!FillDone <=> Sequential!FillDone
      /\ GetGraph!Sequential!CloseWindow <=> Sequential!CloseWindow
  BY DEF GetGraph!Sequential!FillOutput, Sequential!FillOutput,
         GetGraph!Sequential!FillDone, Sequential!FillDone,
         GetGraph!Sequential!CloseWindow, Sequential!CloseWindow,
         GetGraph!Sequential!HasRoom, Sequential!HasRoom,
         GetGraph!Sequential!WindowEnds, Sequential!WindowEnds,
         GetGraph!Sequential!AppendWindow, Sequential!AppendWindow,
         GetGraph!Sequential!EmptyWindow, Sequential!EmptyWindow,
         GetGraph!Sequential!windowVars, Sequential!windowVars,
         GetGraph!Sequential!graphVars, Sequential!graphVars,
         GetGraph!Sequential!NumOutputs, Sequential!NumOutputs,
         GetGraph!Sequential!Outputs, Sequential!Outputs,
         GetGraph!Sequential!Cardinality, Sequential!Cardinality
<1>2. /\ GetGraph!Outer!EnqueueOutput <=> Outer!EnqueueOutput
      /\ GetGraph!Outer!EnqueueDone <=> Outer!EnqueueDone
      /\ GetGraph!Outer!MoveOutput <=> Outer!MoveOutput
  BY DEF GetGraph!Outer!EnqueueOutput, Outer!EnqueueOutput,
         GetGraph!Outer!EnqueueDone, Outer!EnqueueDone,
         GetGraph!Outer!MoveOutput, Outer!MoveOutput,
         GetGraph!Outer!Filling, Outer!Filling, GetGraph!Outer!OuterHasRoom, Outer!OuterHasRoom,
         GetGraph!Outer!HasRoom, Outer!HasRoom,
         GetGraph!Outer!windowVars, Outer!windowVars,
         GetGraph!Outer!NumOutputs, Outer!NumOutputs, GetGraph!Outer!Outputs, Outer!Outputs,
         GetGraph!Outer!Cardinality, Outer!Cardinality
<1>3. /\ GetGraph!Outer!FillDone <=> Outer!FillDone
      /\ GetGraph!Outer!FillSpins <=> Outer!FillSpins
      /\ GetGraph!Outer!CloseWindow <=> Outer!CloseWindow
  BY DEF GetGraph!Outer!FillDone, Outer!FillDone, GetGraph!Outer!FillSpins, Outer!FillSpins,
         GetGraph!Outer!CloseWindow, Outer!CloseWindow,
         GetGraph!Outer!OuterEmpty, Outer!OuterEmpty, GetGraph!Outer!HasRoom, Outer!HasRoom,
         GetGraph!Outer!WindowEnds, Outer!WindowEnds,
         GetGraph!Outer!AppendWindow, Outer!AppendWindow,
         GetGraph!Outer!EmptyWindow, Outer!EmptyWindow,
         GetGraph!Outer!vars, Outer!vars,
         GetGraph!Outer!windowVars, Outer!windowVars, GetGraph!Outer!graphVars, Outer!graphVars
<1> QED
  BY <1>1, <1>2, <1>3

\* An input popped by get_graph.py.
LEMMA GetGraphPops ==
  ASSUME NEW x, GetGraph!Sequential!PopInput(x)
  PROVE  /\ pc' = "drop" /\ window.input_num < conf.max_input_num
         /\ x \in working_set[Head(current)]
         /\ Take(x, Head(current), Members(current))
         /\ UNCHANGED <<plan, current, i>> /\ UNCHANGED graphVars
  BY DEF GetGraph!Sequential!PopInput, GetGraph!Sequential!Selected, GetGraph!Sequential!Take,
         Take, GetGraph!Sequential!Sharing, Sharing, GetGraph!Sequential!Members, Members,
         GetGraph!Sequential!graphVars, graphVars, GetGraph!Sequential!Cardinality, Cardinality

\* The window of the policies of get_graph.py with one deque.
LEMMA GetGraphWindow ==
  ASSUME SetupInv, PolicyInv, Running \in {"get_graph_sequential", "get_graph_outer"},
         order # GraphPy,
         UNCHANGED <<order, policy, short, long, selected_queue, neighborVars>>,
         \/ GetGraph!DequeBegin(IF Running \in SeqPolicies THEN "skip" ELSE "open")
         \/ GetGraph!DequeWindow
  PROVE  QueueStep
<1>0. UNCHANGED <<order, policy, short, long, selected_queue, current_output_set,
                  next_select_item, next_waiting_set>>
  BY DEF neighborVars
<1>1. /\ Running \in DequePolicies /\ Running \in QueuePolicies /\ Running # "neighbor"
      /\ Running \notin SplitPolicies
  BY DEF QueuePolicies, DequePolicies, SplitPolicies
<1>2. QueuesInv /\ LoopInv
  BY <1>0, <1>1, DequeFacts
<1>3. WorkingOutputs = Members(current) /\ SelectedOutput = Head(current)
      /\ SelectedOutput' = Head(current')
  BY <1>0, <1>1, DequeFacts
<1>4. Cardinality(WorkingOutputs) = Len(current) /\ (WorkingOutputs = {} <=> current = <<>>)
  BY <1>0, <1>1, DequeFacts
<1>5. CASE GetGraph!DequeBegin(IF Running \in SeqPolicies THEN "skip" ELSE "open")
  <2>1. /\ pc = IF Running \in SeqPolicies THEN "skip" ELSE "open"
        /\ pc' = "take"
        /\ window' = FreshWindow(Members(current), Len(current))
        /\ UNCHANGED <<graphVars, working_set, plan, current, i>> /\ UNCHANGED array
    BY <1>5, GetGraphBase DEF GetGraph!DequeBegin, graphVars
  <2>2. current # <<>>
    BY <1>1, <1>2, <1>4, <2>1 DEF LoopInv, Served
  <2>3. Served'
    BY <1>0, <1>1, <2>1, <2>2 DEF Served, Running
  <2>4. Rests
    BY <1>0, <2>1 DEF Rests, OfPolicy
  <2> QED
    BY <1>0, <1>1, <1>3, <1>4, <2>1, <2>2, <2>3, <2>4, WindowBegins
<1>6. CASE GetGraph!DequeKeyError
  <2>1. /\ pc = "take" /\ pc' = "KeyError"
        /\ UNCHANGED <<windowVars, current, i>> /\ UNCHANGED array
    BY <1>6, GetGraphBase DEF GetGraph!DequeKeyError, windowVars
  <2>2. Stays
    BY <1>0, <2>1 DEF Stays, Rests, OfPolicy
  <2>3. TouchedInv'
    BY <1>0, <1>1, <2>2, TouchedKept DEF Stays
  <2> QED
    BY <1>1, <2>1, <2>2, <2>3, Raises
<1>7. CASE GetGraph!DequeTake
  <2>1. PICK x : pc = "take" /\ GetGraph!Sequential!PopInput(x)
    BY <1>7 DEF GetGraph!DequeTake
  <2>2. /\ pc' = "drop" /\ window.input_num < conf.max_input_num
        /\ x \in working_set[Head(current)]
        /\ Take(x, Head(current), Members(current))
        /\ UNCHANGED <<plan, current, i>> /\ UNCHANGED graphVars
    BY <2>1, GetGraphPops
  <2> QED
    BY <1>1, <2>1, <2>2, DequeTakes
<1>8. CASE GetGraph!DequeDrop
  <2>1. pc = "drop" /\ UNCHANGED <<windowVars, i>> /\ UNCHANGED array
    BY <1>8, GetGraphBase DEF GetGraph!DequeDrop, windowVars
  <2>2. CASE working_set[Head(current)] # {}
    <3>1. UNCHANGED current /\ pc' = "take"
      BY <1>8, <2>2 DEF GetGraph!DequeDrop
    <3>2. Stays
      BY <1>0, <2>1, <3>1 DEF Stays, Rests, OfPolicy
    <3>3. TouchedInv'
      BY <1>0, <1>1, <3>2, TouchedKept DEF Stays
    <3> QED
      BY <1>1, <1>3, <2>1, <2>2, <3>1, <3>2, <3>3, Keeps
  <2>3. CASE working_set[Head(current)] = {}
    <3>1. current' = Tail(current) /\ pc' = IF Tail(current) = <<>> THEN "close" ELSE "take"
      BY <1>8, <2>3 DEF GetGraph!DequeDrop
    <3>2. Served
      BY <1>2, <2>1 DEF LoopInv
    <3> QED
      BY <1>0, <1>1, <2>1, <2>3, <3>1, <3>2, DequePops DEF OfPolicy
  <2> QED
    BY <2>2, <2>3
<1> QED
  BY <1>5, <1>6, <1>7, <1>8 DEF GetGraph!DequeWindow

\* The steps of the sequential policy of get_graph.py.
LEMMA GetGraphSequentialQueues ==
  ASSUME SetupInv, PolicyInv, Runs("get_graph_sequential"), GetGraph!SeqNext,
         UNCHANGED <<short, long, selected_queue, neighborVars>>
  PROVE  QueueStep
<1>1. Running = "get_graph_sequential" /\ Running \in SeqPolicies /\ UNCHANGED <<order, policy>>
  BY DEF Runs, SeqPolicies
<1>2. order # GraphPy
  BY <1>1, RunningPolicy DEF TilePolicies, NewPolicies
<1>3. CASE \/ GetGraph!Sequential!FillOutput \/ GetGraph!Sequential!FillDone
           \/ GetGraph!Sequential!CloseWindow
  BY <1>1, <1>3, GetGraphLoops, SequentialFills
<1>4. CASE GetGraph!DequeBegin("skip") \/ GetGraph!DequeWindow
  BY <1>1, <1>2, <1>4, GetGraphWindow
<1> QED
  BY <1>3, <1>4 DEF GetGraph!SeqNext

\* The steps of the outer policy of get_graph.py.
LEMMA GetGraphOuterQueues ==
  ASSUME SetupInv, PolicyInv, Runs("get_graph_outer"), GetGraph!OuterNext,
         UNCHANGED <<selected_queue, neighborVars>>
  PROVE  QueueStep
<1>1. /\ Running = "get_graph_outer" /\ Running \in OuterPolicies /\ UNCHANGED <<order, policy>>
      /\ Running \notin SeqPolicies
  BY DEF Runs, OuterPolicies, SeqPolicies
<1>2. order # GraphPy
  BY <1>1, RunningPolicy DEF TilePolicies, NewPolicies
<1>3. CASE \/ GetGraph!Outer!EnqueueOutput \/ GetGraph!Outer!EnqueueDone
           \/ GetGraph!Outer!MoveOutput \/ GetGraph!Outer!FillDone
           \/ GetGraph!Outer!FillSpins \/ GetGraph!Outer!CloseWindow
  BY <1>1, <1>3, GetGraphLoops, OuterFills
<1>4. CASE (GetGraph!DequeBegin("open") \/ GetGraph!DequeWindow) /\ UNCHANGED <<short, long>>
  BY <1>1, <1>2, <1>4, GetGraphWindow
<1> QED
  BY <1>3, <1>4 DEF GetGraph!OuterNext

\* The common definitions, seen through the instance.
LEMMA ShortLongBase ==
  /\ ShortLong!NumOutputs = NumOutputs
  /\ ShortLong!Current = Members(short) \cup Members(long)
  /\ \A S, n : ShortLong!FreshWindow(S, n) = FreshWindow(S, n)
  /\ \A x, o, S : ShortLong!Take(x, o, S) <=> Take(x, o, S)
  /\ ShortLong!AppendWindow <=> AppendWindow
  /\ UNCHANGED ShortLong!windowVars <=> UNCHANGED windowVars
  /\ UNCHANGED ShortLong!graphVars <=> UNCHANGED graphVars
  BY DEF ShortLong!NumOutputs, NumOutputs, ShortLong!Outputs, Outputs, ShortLong!Cardinality,
         Cardinality, ShortLong!Current, ShortLong!Members, Members, ShortLong!FreshWindow,
         FreshWindow, ShortLong!EmptyWindow, EmptyWindow, ShortLong!Take, Take,
         ShortLong!Sharing, Sharing, ShortLong!AppendWindow, AppendWindow,
         ShortLong!windowVars, windowVars, ShortLong!graphVars, graphVars

\* The two working queues and the output they select.
LEMMA SplitFacts ==
  ASSUME SetupInv, Running \in SplitPolicies, PolicyInv, UNCHANGED <<order, policy>>
  PROVE  /\ Running \in QueuePolicies /\ Running \notin DequePolicies /\ Running # "neighbor"
         /\ Running \notin SeqPolicies /\ Running \notin OuterQueued
         /\ QueuesInv /\ LoopInv
         /\ WorkingOutputs = Members(short) \cup Members(long)
         /\ SelectedOutput = ShortLong!Selected
         /\ Cardinality(WorkingOutputs) = Len(short) + Len(long)
         /\ WorkingOutputs = {} <=> short = <<>> /\ long = <<>>
         /\ pc \in {"skip", "take", "drop"} => Served
<1>1. /\ Running \in QueuePolicies /\ Running \notin DequePolicies /\ Running # "neighbor"
      /\ Running \notin SeqPolicies /\ Running \notin OuterQueued
  BY DEF QueuePolicies, DequePolicies, SplitPolicies, SeqPolicies, OuterQueued, OuterPolicies
<1>2. QueuesInv /\ LoopInv /\ (pc \in {"skip", "take", "drop"} => Served)
  BY <1>1 DEF PolicyInv, LoopInv
<1>3. WorkingOutputs = Members(short) \cup Members(long) /\ SelectedOutput = ShortLong!Selected
  BY SplitQueues DEF ShortLong!Selected, ShortLong!Queue
<1>4. Cardinality(WorkingOutputs) = Len(short) + Len(long)
      /\ (WorkingOutputs = {} <=> short = <<>> /\ long = <<>>)
  BY <1>1, <1>2, WorkingCounts, WorkingEmpty
<1> QED
  BY <1>1, <1>2, <1>3, <1>4

\* The steps of __setup_current_short_long that get_graph.py has as well.
LEMMA ShortLongCommon ==
  ASSUME SetupInv, PolicyInv, Running \in SplitPolicies,
         UNCHANGED <<order, policy, current, neighborVars>>,
         \/ ShortLong!FillOutput \/ ShortLong!FillDone \/ ShortLong!TakeInput
         \/ ShortLong!CloseWindow
  PROVE  QueueStep
<1>0. UNCHANGED <<order, policy, current, current_output_set, next_select_item, next_waiting_set>>
  BY DEF neighborVars
<1>1. /\ Running \in QueuePolicies /\ Running # "neighbor"
      /\ Running \notin SeqPolicies /\ Running \notin OuterQueued
  BY <1>0, SplitFacts
<1>2. QueuesInv /\ LoopInv
  BY <1>0, SplitFacts
<1>3. WorkingOutputs = Members(short) \cup Members(long) /\ SelectedOutput = ShortLong!Selected
  BY <1>0, SplitFacts
<1>4. WorkingOutputs = {} <=> short = <<>> /\ long = <<>>
  BY <1>0, SplitFacts
<1>5. CASE ShortLong!FillOutput
  <2>1. /\ UNCHANGED <<windowVars, pc>> /\ UNCHANGED array
        /\ pc = "fill" /\ Len(short) + Len(long) < conf.max_output_num /\ ReadsOutput
    BY <1>5, ShortLongBase DEF ShortLong!FillOutput, ShortLong!HasRoom, windowVars, ReadsOutput
  <2> QED
    BY <1>0, <1>1, <2>1, ReadsIntoSplit DEF OfPolicy
<1>6. CASE ShortLong!FillDone
  <2>1. /\ UNCHANGED <<windowVars, i, short, long>> /\ UNCHANGED array /\ pc = "fill"
        /\ pc' = IF short = <<>> /\ long = <<>> THEN "done" ELSE "open"
        /\ ~(Len(short) + Len(long) < conf.max_output_num /\ i < NumOutputs)
    BY <1>6, ShortLongBase DEF ShortLong!FillDone, ShortLong!HasRoom, windowVars
  <2>2. Rests
    BY <1>0, <2>1 DEF Rests, OfPolicy
  <2>3. short = <<>> /\ long = <<>> => i = NumOutputs
    BY <1>2, <2>1 DEF QueuesInv, SetupInv, Config
  <2>4. short = <<>> /\ long = <<>> => Waiting = {}
    BY <1>1, <1>2, <2>3, WorkingEmpty
  <2> QED
    BY <1>0, <1>1, <1>4, <2>1, <2>2, <2>4, LoopEnds
<1>7. CASE ShortLong!TakeInput
  <2>1. PICK x \in working_set[ShortLong!Selected] :
             ShortLong!Take(x, ShortLong!Selected, ShortLong!Current)
    BY <1>7 DEF ShortLong!TakeInput
  <2>2. /\ pc = "take" /\ pc' = "drop" /\ window.input_num < conf.max_input_num
        /\ Take(x, ShortLong!Selected, Members(short) \cup Members(long))
        /\ UNCHANGED <<plan, short, long, selected_queue, i>> /\ UNCHANGED graphVars
    BY <1>7, <2>1, ShortLongBase DEF ShortLong!TakeInput
  <2>3. Stays
    BY <1>0, <2>2 DEF Stays, Rests, OfPolicy, graphVars
  <2>4. TouchedInv'
    BY <1>0, <1>1, <2>3, TouchedKept DEF Stays
  <2> QED
    BY <1>1, <1>3, <2>1, <2>2, <2>3, <2>4, Takes
<1>8. CASE ShortLong!CloseWindow
  <2>1. Stays
    BY <1>0, <1>8, ShortLongBase DEF ShortLong!CloseWindow, graphVars, Stays, Rests, OfPolicy
  <2>2. TouchedInv'
    BY <1>0, <1>1, <2>1, TouchedKept DEF Stays
  <2> QED
    BY <1>1, <1>8, <2>1, <2>2, ShortLongBase, Closes DEF ShortLong!CloseWindow
<1> QED
  BY <1>5, <1>6, <1>7, <1>8

\* A window is begun for one of the two queues.
LEMMA SplitBegins ==
  ASSUME SetupInv, PolicyInv, Running \in SplitPolicies,
         UNCHANGED <<order, policy, current, neighborVars, short, long, i, working_set, plan>>,
         UNCHANGED graphVars, pc = "open",
         \/ pc' = "skip" /\ order = GraphPy
         \/ pc' = "take" /\ order # GraphPy,
         selected_queue' = IF short = <<>> THEN "long" ELSE "short",
         window' = FreshWindow(Members(short) \cup Members(long), Len(short) + Len(long))
  PROVE  QueueStep
<1>1. /\ Running \in QueuePolicies /\ Running # "neighbor" /\ Running \notin DequePolicies
      /\ Running \notin SeqPolicies
  BY SplitFacts
<1>2. /\ WorkingOutputs = Members(short) \cup Members(long)
      /\ Cardinality(WorkingOutputs) = Len(short) + Len(long)
      /\ WorkingOutputs = {} <=> short = <<>> /\ long = <<>>
  BY SplitFacts
<1>3. WorkingOutputs # {}
  BY <1>1 DEF PolicyInv, LoopInv
<1>4. Served'
  BY <1>1, <1>2, <1>3 DEF Served, Running
<1>5. Rests /\ UNCHANGED next_waiting_set
  BY DEF Rests, OfPolicy, graphVars, neighborVars
<1> QED
  BY <1>1, <1>2, <1>3, <1>4, <1>5, WindowBegins

\* The selected output stays in its queue.
LEMMA SplitKeeps ==
  ASSUME SetupInv, PolicyInv, Running \in SplitPolicies,
         UNCHANGED <<order, policy, current, neighborVars, short, long, selected_queue, i>>,
         UNCHANGED windowVars, pc \in {"skip", "drop"}, pc' = "take",
         working_set[ShortLong!Selected] # {}
  PROVE  QueueStep
<1>1. /\ Running \in QueuePolicies /\ Running # "neighbor" /\ Running \notin SeqPolicies
      /\ SelectedOutput = ShortLong!Selected
  BY SplitFacts
<1>2. Stays
  BY DEF Stays, Rests, OfPolicy, windowVars, neighborVars
<1>3. TouchedInv'
  BY <1>1, <1>2, TouchedKept DEF Stays, neighborVars
<1> QED
  BY <1>1, <1>2, <1>3, Keeps

\* The steps of __setup_current_short_long.
LEMMA CurrentQueues ==
  ASSUME SetupInv, PolicyInv, CurrentStep
  PROVE  QueueStep
<1>0. UNCHANGED <<order, policy, current, current_output_set, next_select_item, next_waiting_set>>
  BY DEF neighborVars, CurrentStep, Runs
<1>1. /\ Running = "current" /\ Running \in SplitPolicies
      /\ UNCHANGED <<order, policy, current, neighborVars>>
  BY DEF CurrentStep, Runs, SplitPolicies
<1>2. order = GraphPy
  BY <1>1, RunningPolicy DEF TilePolicies, QueuePolicies, NewPolicies
<1>3. /\ Running \in QueuePolicies /\ QueuesInv /\ LoopInv
      /\ WorkingOutputs = Members(short) \cup Members(long)
      /\ SelectedOutput = ShortLong!Selected
      /\ pc \in {"skip", "take", "drop"} => Served
  BY <1>1, SplitFacts
<1>4. CASE \/ ShortLong!FillOutput \/ ShortLong!FillDone \/ ShortLong!TakeInput
           \/ ShortLong!CloseWindow
  BY <1>1, <1>4, ShortLongCommon
<1>5. CASE ShortLong!BeginWindow
  BY <1>1, <1>2, <1>5, ShortLongBase, SplitBegins DEF ShortLong!BeginWindow
<1>6. CASE ShortLong!SkipDone \/ ShortLong!KeepSelected
  BY <1>1, <1>6, ShortLongBase, SplitKeeps
     DEF ShortLong!SkipDone, ShortLong!KeepSelected, ShortLong!Keep
<1>7. CASE ShortLong!SkipEmpty
  <2>1. /\ pc = "skip" /\ working_set[ShortLong!Selected] = {}
        /\ short' = IF selected_queue = "short" THEN Tail(short) ELSE short
        /\ long' = IF selected_queue = "long" THEN Tail(long) ELSE long
        /\ selected_queue' = IF Tail(ShortLong!Queue) = <<>> /\ long' # <<>>
                             THEN "long" ELSE selected_queue
        /\ pc' = IF Tail(ShortLong!Queue) = <<>> /\ long' = <<>> THEN "fill" ELSE "skip"
        /\ UNCHANGED <<working_set, plan, i>> /\ UNCHANGED graphVars
        /\ pc' # "fill" => UNCHANGED window
    BY <1>7, ShortLongBase DEF ShortLong!SkipEmpty, ShortLong!PopSelected
  <2>2. Served /\ SelectedOutput \in WorkingOutputs
    BY <1>3, <2>1, SelectedServed
  <2>3. ~(Tail(ShortLong!Queue) = <<>> /\ long' = <<>>)
    <3> SUFFICES ASSUME Tail(ShortLong!Queue) = <<>>, long' = <<>> PROVE FALSE
      OBVIOUS
    <3>1. PICK o \in WorkingOutputs \ {SelectedOutput} : TRUE
      BY <1>2, <1>3, <2>1, <2>2, SkipLeaves
    <3>2. i \in Nat /\ ReadQueue(short, i) /\ ReadQueue(long, i)
      BY <1>3 DEF QueuesInv, SetupInv
    <3>3. CASE selected_queue = "short"
      <4>1. short # <<>> /\ Tail(short) = <<>> /\ long = <<>> /\ ShortLong!Selected = Head(short)
        BY <1>1, <2>1, <2>2, <3>3 DEF Served, ShortLong!Queue, ShortLong!Selected
      <4>2. Members(short) \ {Head(short)} = {} /\ Members(long) = {}
        BY <3>2, <4>1, QueuePops, QueueEmpty
      <4> QED
        BY <1>3, <3>1, <4>1, <4>2
    <3>4. CASE selected_queue = "long"
      <4>1. short = <<>> /\ long # <<>> /\ Tail(long) = <<>> /\ ShortLong!Selected = Head(long)
        BY <1>1, <2>1, <2>2, <3>4 DEF Served, ShortLong!Queue, ShortLong!Selected
      <4>2. Members(long) \ {Head(long)} = {} /\ Members(short) = {}
        BY <3>2, <4>1, QueuePops, QueueEmpty
      <4> QED
        BY <1>3, <3>1, <4>1, <4>2
    <3> QED
      BY <1>1, <2>2, <3>3, <3>4 DEF Served
  <2>4. UNCHANGED windowVars /\ pc' = "skip" /\ OfPolicy
    BY <1>1, <2>1, <2>3 DEF windowVars, graphVars, OfPolicy
  <2> QED
    BY <1>0, <1>1, <1>2, <2>1, <2>2, <2>3, <2>4, SplitPops
<1>8. CASE ShortLong!DropFinished
  <2>1. /\ pc = "drop" /\ working_set[ShortLong!Selected] = {}
        /\ short' = IF selected_queue = "short" THEN Tail(short) ELSE short
        /\ long' = IF selected_queue = "long" THEN Tail(long) ELSE long
        /\ selected_queue' = IF Tail(ShortLong!Queue) = <<>> /\ long' # <<>>
                             THEN "long" ELSE selected_queue
        /\ pc' = IF Tail(ShortLong!Queue) = <<>> /\ long' = <<>> THEN "close" ELSE "drop"
        /\ UNCHANGED <<working_set, plan, i, window>> /\ UNCHANGED graphVars
    BY <1>8, ShortLongBase DEF ShortLong!DropFinished, ShortLong!PopSelected
  <2>2. UNCHANGED windowVars /\ OfPolicy /\ Served
    BY <1>1, <1>3, <2>1 DEF windowVars, graphVars, OfPolicy
  <2> QED
    BY <1>0, <1>1, <1>2, <2>1, <2>2, SplitPops
<1> QED
  BY <1>4, <1>5, <1>6, <1>7, <1>8 DEF CurrentStep, ShortLong!Next

\* The loops that get_graph.py shares with graph.py.
LEMMA GetGraphShortLong ==
  /\ GetGraph!ShortLong!FillOutput <=> ShortLong!FillOutput
  /\ GetGraph!ShortLong!FillDone <=> ShortLong!FillDone
  /\ GetGraph!ShortLong!TakeInput <=> ShortLong!TakeInput
  /\ GetGraph!ShortLong!CloseWindow <=> ShortLong!CloseWindow
  /\ GetGraph!ShortLong!Selected = ShortLong!Selected
  /\ GetGraph!ShortLong!Queue = ShortLong!Queue
  /\ GetGraph!ShortLong!Current = ShortLong!Current
  BY DEF GetGraph!ShortLong!FillOutput, ShortLong!FillOutput,
         GetGraph!ShortLong!FillDone, ShortLong!FillDone,
         GetGraph!ShortLong!TakeInput, ShortLong!TakeInput,
         GetGraph!ShortLong!CloseWindow, ShortLong!CloseWindow,
         GetGraph!ShortLong!Selected, ShortLong!Selected,
         GetGraph!ShortLong!Queue, ShortLong!Queue,
         GetGraph!ShortLong!Current, ShortLong!Current,
         GetGraph!ShortLong!Members, ShortLong!Members,
         GetGraph!ShortLong!HasRoom, ShortLong!HasRoom,
         GetGraph!ShortLong!AppendWindow, ShortLong!AppendWindow,
         GetGraph!ShortLong!EmptyWindow, ShortLong!EmptyWindow,
         GetGraph!ShortLong!Take, ShortLong!Take, GetGraph!ShortLong!Sharing, ShortLong!Sharing,
         GetGraph!ShortLong!windowVars, ShortLong!windowVars,
         GetGraph!ShortLong!graphVars, ShortLong!graphVars,
         GetGraph!ShortLong!NumOutputs, ShortLong!NumOutputs,
         GetGraph!ShortLong!Outputs, ShortLong!Outputs,
         GetGraph!ShortLong!Cardinality, ShortLong!Cardinality

\* The steps of the policy of get_graph.py with two working queues.
LEMMA GetGraphCurrentQueues ==
  ASSUME SetupInv, PolicyInv, Runs("get_graph_current"), GetGraph!ShortLongNext,
         UNCHANGED current, UNCHANGED neighborVars
  PROVE  QueueStep
<1>1. /\ Running = "get_graph_current" /\ Running \in SplitPolicies
      /\ UNCHANGED <<order, policy, current, neighborVars>>
  BY DEF Runs, SplitPolicies
<1>2. order # GraphPy
  BY <1>1, RunningPolicy DEF TilePolicies, NewPolicies
<1>3. /\ Running \in QueuePolicies /\ Running # "neighbor" /\ QueuesInv /\ LoopInv
      /\ pc \in {"skip", "take", "drop"} => Served
  BY <1>1, SplitFacts
<1>4. CASE \/ GetGraph!ShortLong!FillOutput \/ GetGraph!ShortLong!FillDone
           \/ GetGraph!ShortLong!TakeInput \/ GetGraph!ShortLong!CloseWindow
  BY <1>1, <1>4, GetGraphShortLong, ShortLongCommon
<1>5. CASE GetGraph!ShortLongBegin
  BY <1>1, <1>2, <1>5, GetGraphBase, GetGraphShortLong, ShortLongBase, SplitBegins
     DEF GetGraph!ShortLongBegin
<1>6. CASE GetGraph!ShortLongKeyError
  <2>1. /\ pc = "take" /\ pc' = "KeyError"
        /\ UNCHANGED <<windowVars, short, long, selected_queue, i>> /\ UNCHANGED array
    BY <1>6, GetGraphBase DEF GetGraph!ShortLongKeyError, windowVars
  <2>2. Stays /\ UNCHANGED next_waiting_set
    BY <1>1, <2>1 DEF Stays, Rests, OfPolicy, neighborVars
  <2>3. TouchedInv'
    BY <1>3, <2>2, TouchedKept DEF Stays
  <2> QED
    BY <1>2, <1>3, <2>1, <2>2, <2>3, Raises
<1>7. CASE GetGraph!ShortLongDrop
  <2>1. pc = "drop" /\ UNCHANGED <<windowVars, i>> /\ UNCHANGED array
    BY <1>7, GetGraphBase DEF GetGraph!ShortLongDrop, windowVars
  <2>2. CASE working_set[ShortLong!Selected] # {}
    <3>1. pc' = "take" /\ UNCHANGED <<short, long, selected_queue>>
      BY <1>7, <2>2, GetGraphShortLong DEF GetGraph!ShortLongDrop
    <3> QED
      BY <1>1, <2>1, <2>2, <3>1, SplitKeeps
  <2>3. CASE working_set[ShortLong!Selected] = {}
    <3>1. /\ short' = IF selected_queue = "short" THEN Tail(short) ELSE short
          /\ long' = IF selected_queue = "long" THEN Tail(long) ELSE long
          /\ selected_queue' = IF Tail(ShortLong!Queue) = <<>> /\ long' # <<>>
                               THEN "long" ELSE selected_queue
          /\ pc' = IF Tail(ShortLong!Queue) = <<>> /\ long' = <<>> THEN "close" ELSE "take"
      BY <1>7, <2>3, GetGraphShortLong DEF GetGraph!ShortLongDrop
    <3>2. Served /\ OfPolicy /\ UNCHANGED <<current_output_set, next_waiting_set>>
      BY <1>1, <1>3, <2>1 DEF OfPolicy, neighborVars
    <3> QED
      BY <1>1, <1>2, <2>1, <2>3, <3>1, <3>2, SplitPops
  <2> QED
    BY <2>2, <2>3
<1> QED
  BY <1>4, <1>5, <1>6, <1>7 DEF GetGraph!ShortLongNext

\* The common definitions, seen through the instance.
LEMMA NeighborBase ==
  /\ \A S : Neighbor!Cardinality(S) = Cardinality(S)
  /\ \A S, n : Neighbor!FreshWindow(S, n) = FreshWindow(S, n)
  /\ \A x, o, S : Neighbor!Take(x, o, S) <=> Take(x, o, S)
  /\ \A x, o, S : Neighbor!Sharing(x, o, S) = Sharing(x, o, S)
  /\ Neighbor!AppendWindow <=> AppendWindow
  /\ Neighbor!EmptyWindow = EmptyWindow
  /\ UNCHANGED Neighbor!windowVars <=> UNCHANGED windowVars
  /\ UNCHANGED Neighbor!graphVars <=> UNCHANGED graphVars
  BY DEF Neighbor!Cardinality, Cardinality, Neighbor!FreshWindow, FreshWindow,
         Neighbor!EmptyWindow, EmptyWindow, Neighbor!Take, Take, Neighbor!Sharing, Sharing,
         Neighbor!AppendWindow, AppendWindow, Neighbor!windowVars, windowVars,
         Neighbor!graphVars, graphVars

\* The outer queues of the neighbor policy.
LEMMA NeighborReads ==
  ASSUME Neighbor!EnqueueOutput
  PROVE  /\ UNCHANGED <<windowVars, pc, current_output_set, next_waiting_set>> /\ UNCHANGED array
         /\ pc \in {"setup_outer", "outer"} /\ ReadsOutput
<1>1. Neighbor!Bloom!NumOutputs = NumOutputs
  BY DEF Neighbor!Bloom!NumOutputs, NumOutputs, Neighbor!Bloom!Outputs, Outputs,
         Neighbor!Bloom!Cardinality, Cardinality
<1>2. Neighbor!Bloom!EnqueueScored /\ UNCHANGED <<current_output_set, next_waiting_set>>
  BY DEF Neighbor!EnqueueOutput
<1>3. /\ UNCHANGED <<windowVars, pc>> /\ UNCHANGED array
      /\ pc \in {"setup_outer", "outer"} /\ i < Neighbor!Bloom!NumOutputs /\ i' = i + 1
  BY <1>2 DEF Neighbor!Bloom!EnqueueScored, Neighbor!Bloom!Filling, Neighbor!Bloom!windowVars,
              windowVars
<1>4. \/ short' = Append(short, i) /\ UNCHANGED long
      \/ long' = Append(long, i) /\ UNCHANGED short
  BY <1>2 DEF Neighbor!Bloom!EnqueueScored
<1> QED
  BY <1>1, <1>2, <1>3, <1>4 DEF ReadsOutput

\* They are full, or all outputs are read.
LEMMA NeighborEnqueueEnds ==
  ASSUME Neighbor!EnqueueDone
  PROVE  /\ UNCHANGED <<windowVars, i, short, long, current_output_set, next_select_item,
                        next_waiting_set>>
         /\ UNCHANGED array
         /\ pc \in {"setup_outer", "outer"} /\ pc' \in {"setup", "fill"}
         /\ ~(Len(short) + Len(long) < conf.max_queue_size /\ i < NumOutputs)
<1>1. Neighbor!Bloom!NumOutputs = NumOutputs
  BY DEF Neighbor!Bloom!NumOutputs, NumOutputs, Neighbor!Bloom!Outputs, Outputs,
         Neighbor!Bloom!Cardinality, Cardinality
<1> QED
  BY <1>1 DEF Neighbor!EnqueueDone, Neighbor!Bloom!EnqueueDone, Neighbor!Bloom!Filling,
              Neighbor!Bloom!OuterHasRoom, Neighbor!Bloom!windowVars, windowVars

\* An output goes from an outer queue into the working set.
LEMMA NeighborMoves ==
  ASSUME Neighbor!MoveOutput
  PROVE  /\ UNCHANGED <<windowVars, i, pc, next_waiting_set>> /\ UNCHANGED array
         /\ pc \in {"setup", "fill"}
         /\ Cardinality(current_output_set) < conf.max_output_num
         /\ \E o : MovesOutput(o) /\ current_output_set' = current_output_set \cup {o}
<1>1. /\ UNCHANGED <<windowVars, i, pc, next_waiting_set>> /\ UNCHANGED array
      /\ pc \in {"setup", "fill"}
      /\ Cardinality(current_output_set) < conf.max_output_num
  BY NeighborBase DEF Neighbor!MoveOutput, Neighbor!AddOutput, Neighbor!HasRoom, windowVars
<1>2. \E o : MovesOutput(o) /\ current_output_set' = current_output_set \cup {o}
  BY DEF Neighbor!MoveOutput, Neighbor!AddOutput, MovesOutput
<1> QED
  BY <1>1, <1>2

\* Before the windows of __setup_bloom_and_neighbor_short_long.
LEMMA NeighborFills ==
  ASSUME SetupInv, PolicyInv, Running = "neighbor",
         UNCHANGED <<order, policy, current, selected_queue>>,
         \/ Neighbor!EnqueueOutput \/ Neighbor!EnqueueDone \/ Neighbor!MoveOutput
         \/ Neighbor!FillDone \/ Neighbor!FillSpins
  PROVE  QueueStep
<1>1. /\ Running \in QueuePolicies /\ Running \in OuterQueued
      /\ Running \notin SeqPolicies /\ Running \notin OuterPolicies
  BY DEF QueuePolicies, OuterQueued, SeqPolicies, OuterPolicies
<1>2. QueuesInv /\ LoopInv /\ WorkingOutputs = current_output_set
  BY <1>1, NeighborQueues DEF PolicyInv
<1>3. CASE Neighbor!EnqueueOutput
  BY <1>1, <1>3, NeighborReads, ReadsIntoOuter DEF OfPolicy
<1>4. CASE Neighbor!EnqueueDone
  <2>1. /\ UNCHANGED <<windowVars, i, short, long, current_output_set, next_waiting_set>>
        /\ UNCHANGED array
        /\ pc \in {"setup_outer", "outer"} /\ pc' \in {"setup", "fill"}
        /\ ~(Len(short) + Len(long) < conf.max_queue_size /\ i < NumOutputs)
    BY <1>4, NeighborEnqueueEnds
  <2>2. Rests
    BY <2>1 DEF Rests, OfPolicy
  <2>3. short = <<>> /\ long = <<>> => i = NumOutputs
    BY <1>2, <2>1 DEF QueuesInv, SetupInv, Config
  <2> QED
    BY <1>1, <2>1, <2>2, <2>3, LoopEnds
<1>5. CASE Neighbor!MoveOutput
  <2>1. /\ UNCHANGED <<windowVars, i, pc, next_waiting_set>> /\ UNCHANGED array
        /\ pc \in {"setup", "fill"}
        /\ Cardinality(current_output_set) < conf.max_output_num
    BY <1>5, NeighborMoves
  <2>2. PICK o : MovesOutput(o) /\ current_output_set' = current_output_set \cup {o}
    BY <1>5, NeighborMoves
  <2> QED
    BY <1>1, <1>2, <2>1, <2>2, AdmitsFromOuter DEF OfPolicy
<1>6. CASE Neighbor!FillDone
  <2>1. /\ UNCHANGED <<windowVars, i, short, long, current_output_set, next_waiting_set>>
        /\ UNCHANGED array
        /\ pc \in {"setup", "fill"}
        /\ pc' = IF current_output_set = {} THEN "done" ELSE "open"
        /\ \/ ~(Cardinality(current_output_set) < conf.max_output_num)
           \/ pc = "fill" /\ short = <<>> /\ long = <<>>
    BY <1>6, NeighborBase
       DEF Neighbor!FillDone, Neighbor!HasRoom, Neighbor!Bloom!OuterEmpty, windowVars,
           Neighbor!queueVars
  <2>2. Rests
    BY <2>1 DEF Rests, OfPolicy
  <2>3. current_output_set = {} => pc = "fill" /\ short = <<>> /\ long = <<>>
    BY <2>1, FS_EmptySet DEF SetupInv, Config
  <2>4. current_output_set = {} => i = NumOutputs
    BY <1>1, <1>2, <2>3 DEF LoopInv
  <2>5. current_output_set = {} => Waiting = {}
    BY <1>1, <1>2, <2>3, <2>4, WorkingEmpty
  <2> QED
    BY <1>1, <1>2, <2>1, <2>2, <2>5, LoopEnds
<1>7. CASE Neighbor!FillSpins
  <2>1. /\ UNCHANGED <<windowVars, i, short, long, pc, current_output_set, next_select_item,
                       next_waiting_set>>
        /\ UNCHANGED array /\ pc = "setup"
    BY <1>7, NeighborBase DEF Neighbor!FillSpins, Neighbor!vars, windowVars
  <2>2. Stays
    BY <2>1 DEF Stays, Rests, OfPolicy
  <2>3. TouchedInv'
    BY <1>1, <2>1, <2>2, TouchedKept DEF Stays
  <2> QED
    BY <1>1, <2>1, <2>2, <2>3, Spins
<1> QED
  BY <1>3, <1>4, <1>5, <1>6, <1>7

\* The outputs that share the input are noted.
LEMMA NeighborTakes ==
  ASSUME SetupInv, PolicyInv, Running = "neighbor",
         UNCHANGED <<order, policy, current, selected_queue>>, Neighbor!TakeInput
  PROVE  QueueStep
<1>1. Running \in QueuePolicies /\ Running \notin SeqPolicies
  BY DEF QueuePolicies, SeqPolicies
<1>2. /\ QueuesInv /\ LoopInv /\ TouchedInv /\ WorkingOutputs = current_output_set
      /\ SelectedOutput = next_select_item
  BY <1>1, NeighborQueues DEF PolicyInv
<1>3. /\ pc = "take" /\ pc' = "drop" /\ window.input_num < conf.max_input_num
      /\ UNCHANGED <<plan, short, long, i, current_output_set, next_select_item>>
      /\ UNCHANGED graphVars
  BY NeighborBase DEF Neighbor!TakeInput, Neighbor!queueVars
<1>4. PICK x \in working_set[next_select_item] :
        /\ Neighbor!Take(x, next_select_item, current_output_set)
        /\ next_waiting_set' =
             Neighbor!Touch(Neighbor!Sharing(x, next_select_item, current_output_set))
  BY DEF Neighbor!TakeInput
<1>5. Take(x, next_select_item, current_output_set)
  BY <1>4, NeighborBase
<1>6. DOMAIN next_waiting_set' =
        DOMAIN next_waiting_set \cup Sharing(x, next_select_item, current_output_set)
  BY <1>4, NeighborBase DEF Neighbor!Touch
<1>7. Sharing(x, next_select_item, current_output_set) \subseteq
        current_output_set \ {next_select_item}
  BY DEF Sharing
<1>8. Stays
  BY <1>3 DEF Stays, Rests, OfPolicy, graphVars
<1>9. current_output_set \subseteq Outputs
  BY <1>2 DEF QueuesInv, SetupInv
<1>10. TouchedInv'
  <2>1. UNCHANGED Outputs
    BY <1>3 DEF Outputs, graphVars
  <2>2. DOMAIN next_waiting_set \subseteq current_output_set \ {next_select_item}
    BY <1>2, <1>3 DEF TouchedInv
  <2> QED
    BY <1>3, <1>6, <1>7, <1>9, <2>1, <2>2 DEF TouchedInv
<1> QED
  BY <1>1, <1>2, <1>3, <1>5, <1>8, <1>10, Takes

\* The selected output is done, and the most touched one is selected.
LEMMA NeighborDrops ==
  ASSUME SetupInv, PolicyInv, Running = "neighbor", order = GraphPy,
         UNCHANGED <<order, policy, current, selected_queue>>, Neighbor!DropFinished
  PROVE  QueueStep
<1>1. Running \in QueuePolicies
  BY DEF QueuePolicies
<1>2. QueuesInv /\ LoopInv /\ TouchedInv
  BY <1>1 DEF PolicyInv
<1>3. /\ pc = "drop" /\ working_set[next_select_item] = {}
      /\ current_output_set' = current_output_set \ {next_select_item}
      /\ UNCHANGED <<windowVars, i, short, long>> /\ UNCHANGED array
  BY NeighborBase DEF Neighbor!DropFinished, Neighbor!queueVars, windowVars
<1>4. Served
  BY <1>2, <1>3 DEF LoopInv
<1>5. /\ DOMAIN next_waiting_set \subseteq current_output_set'
      /\ DOMAIN next_waiting_set \subseteq Outputs
  BY <1>2, <1>3 DEF TouchedInv
<1>6. UNCHANGED <<Outputs, Running>>
  BY <1>3 DEF Outputs, Running
<1>7. CASE current_output_set' = {}
  <2>1. pc' = "close" /\ UNCHANGED next_waiting_set
    BY <1>7 DEF Neighbor!DropFinished
  <2>2. TouchedInv'
    BY <1>5, <1>6, <2>1 DEF TouchedInv
  <2> QED
    BY <1>3, <1>4, <1>7, <2>1, <2>2, NeighborPops DEF OfPolicy
<1>8. CASE current_output_set' # {}
  <2>1. pc' = "drop"
    BY <1>3, <1>8 DEF Neighbor!DropFinished
  <2>2. CASE DOMAIN next_waiting_set = {}
    <3>1. next_select_item' \in current_output_set' /\ UNCHANGED next_waiting_set
      BY <1>8, <2>2 DEF Neighbor!DropFinished
    <3>2. TouchedInv'
      BY <1>6, <2>2, <3>1 DEF TouchedInv
    <3> QED
      BY <1>3, <1>4, <2>1, <3>1, <3>2, NeighborPops DEF OfPolicy
  <2>3. CASE DOMAIN next_waiting_set # {}
    <3>1. PICK o \in Neighbor!MaxInDict(next_waiting_set) :
             /\ next_select_item' = o
             /\ next_waiting_set' =
                  [p \in DOMAIN next_waiting_set \ {o} |-> next_waiting_set[p]]
      BY <1>8, <2>3 DEF Neighbor!DropFinished
    <3>2. o \in DOMAIN next_waiting_set
      BY DEF Neighbor!MaxInDict
    <3>3. DOMAIN next_waiting_set' = DOMAIN next_waiting_set \ {next_select_item'}
      BY <3>1
    <3>4. TouchedInv'
      BY <1>5, <1>6, <3>3 DEF TouchedInv
    <3> QED
      BY <1>3, <1>4, <1>5, <2>1, <3>1, <3>2, <3>4, NeighborPops DEF OfPolicy
  <2> QED
    BY <2>2, <2>3
<1> QED
  BY <1>7, <1>8

\* The steps of __setup_bloom_and_neighbor_short_long.
LEMMA NeighborPolicyQueues ==
  ASSUME SetupInv, PolicyInv, NeighborStep
  PROVE  QueueStep
<1>1. /\ Running = "neighbor" /\ Running \in QueuePolicies /\ Running \notin SeqPolicies
      /\ Running \notin DequePolicies /\ Running \notin SplitPolicies /\ Running \in OuterQueued
      /\ UNCHANGED <<order, policy, current, selected_queue>> /\ Neighbor!Next
  BY DEF NeighborStep, Runs, QueuePolicies, SeqPolicies, DequePolicies, SplitPolicies, OuterQueued
<1>2. order = GraphPy
  BY <1>1, RunningPolicy DEF TilePolicies, QueuePolicies, NewPolicies
<1>3. /\ QueuesInv /\ LoopInv /\ TouchedInv /\ WorkingOutputs = current_output_set
      /\ SelectedOutput = next_select_item
  BY <1>1, NeighborQueues DEF PolicyInv
<1>4. CASE \/ Neighbor!EnqueueOutput \/ Neighbor!EnqueueDone \/ Neighbor!MoveOutput
           \/ Neighbor!FillDone \/ Neighbor!FillSpins
  BY <1>1, <1>4, NeighborFills
<1>5. CASE Neighbor!BeginWindow
  <2>1. /\ pc = "open" /\ pc' = "skip"
        /\ window' = FreshWindow(current_output_set, Cardinality(current_output_set))
        /\ next_select_item' \in current_output_set
        /\ UNCHANGED <<working_set, plan, i, short, long, current_output_set, next_waiting_set>>
        /\ UNCHANGED graphVars
    BY <1>5, NeighborBase DEF Neighbor!BeginWindow, Neighbor!queueVars
  <2>2. WorkingOutputs # {}
    BY <1>3, <2>1 DEF LoopInv
  <2>3. Served'
    BY <1>1, <2>1 DEF Served, Running
  <2>4. Rests
    BY <1>1, <2>1 DEF Rests, OfPolicy, graphVars
  <2> QED
    BY <1>1, <1>2, <1>3, <2>1, <2>2, <2>3, <2>4, WindowBegins
<1>6. CASE Neighbor!SkipEmpty
  <2>1. /\ pc = "skip" /\ working_set[next_select_item] = {}
        /\ current_output_set' = current_output_set \ {next_select_item}
        /\ UNCHANGED <<working_set, plan, i, short, long, next_waiting_set>>
        /\ UNCHANGED graphVars
        /\ current_output_set' # {} =>
             next_select_item' \in current_output_set' /\ UNCHANGED <<pc, window>>
    BY <1>6, NeighborBase DEF Neighbor!SkipEmpty, Neighbor!queueVars
  <2>2. Served /\ SelectedOutput \in WorkingOutputs
    BY <1>1, <1>3, <2>1, SelectedServed DEF LoopInv
  <2>3. current_output_set' # {}
    BY <1>1, <1>2, <1>3, <2>1, <2>2, SkipLeaves
  <2>4. UNCHANGED windowVars /\ pc' = "skip" /\ next_select_item' \in current_output_set' /\ OfPolicy
    BY <1>1, <2>1, <2>3 DEF windowVars, graphVars, OfPolicy
  <2>5. TouchedInv'
    BY <1>3, <2>1, <2>4 DEF TouchedInv, OfPolicy, Outputs
  <2> QED
    BY <1>1, <1>2, <2>1, <2>2, <2>4, <2>5, NeighborPops
<1>7. CASE Neighbor!SkipDone \/ Neighbor!KeepSelected
  <2>1. /\ pc \in {"skip", "drop"} /\ pc' = "take" /\ working_set[next_select_item] # {}
        /\ UNCHANGED <<windowVars, i, short, long, current_output_set, next_select_item>>
        /\ UNCHANGED array
        /\ \/ next_waiting_set' = <<>>
           \/ pc = "drop" /\ UNCHANGED next_waiting_set
    BY <1>7, NeighborBase
       DEF Neighbor!SkipDone, Neighbor!KeepSelected, Neighbor!queueVars, windowVars
  <2>2. Stays
    BY <1>1, <2>1 DEF Stays, Rests, OfPolicy
  <2>3. TouchedInv'
    BY <1>1, <2>1, <2>2, TouchedKept DEF Stays
  <2> QED
    BY <1>1, <1>3, <2>1, <2>2, <2>3, Keeps
<1>8. CASE Neighbor!TakeInput
  BY <1>1, <1>8, NeighborTakes
<1>9. CASE Neighbor!DropFinished
  BY <1>1, <1>2, <1>9, NeighborDrops
<1>10. CASE Neighbor!CloseWindow
  <2>1. /\ pc = "close" \/ (pc = "take" /\ window.input_num >= conf.max_input_num)
        /\ pc' = "outer" /\ AppendWindow /\ next_waiting_set' = <<>>
        /\ UNCHANGED <<working_set, i, short, long, current_output_set, next_select_item>>
        /\ UNCHANGED graphVars
    BY <1>10, NeighborBase DEF Neighbor!CloseWindow, Neighbor!queueVars
  <2>2. Stays
    BY <1>1, <2>1 DEF Stays, Rests, OfPolicy, graphVars
  <2>3. TouchedInv'
    BY <1>1, <2>1, <2>2, TouchedKept DEF Stays
  <2> QED
    BY <1>1, <2>1, <2>2, <2>3, Closes
<1> QED
  BY <1>1, <1>4, <1>5, <1>6, <1>7, <1>8, <1>9, <1>10 DEF Neighbor!Next

-----------------------------------------------------------------------------
\* A step of a queue policy, whichever it is.
QueuePolicyStep ==
    \/ SequentialStep \/ CurrentStep \/ OuterStep
    \/ BloomStep \/ NeighborStep \/ GetGraphStep

\* The step is one of those above, and the policy goes on.
LEMMA QueuePolicySteps ==
  ASSUME SetupInv, PolicyInv, QueuePolicyStep
  PROVE  /\ QueueStep
         /\ Running \in QueuePolicies
         /\ UNCHANGED <<order, policy, tileVars>>
<1>1. CASE SequentialStep
  BY <1>1, SequentialQueues DEF SequentialStep, Runs, QueuePolicies, DequePolicies
<1>2. CASE CurrentStep
  BY <1>2, CurrentQueues DEF CurrentStep, Runs, QueuePolicies, SplitPolicies
<1>3. CASE OuterStep
  BY <1>3, OuterQueues DEF OuterStep, Runs, QueuePolicies, DequePolicies
<1>4. CASE BloomStep
  BY <1>4, BloomQueues DEF BloomStep, Runs, QueuePolicies, DequePolicies
<1>5. CASE NeighborStep
  BY <1>5, NeighborPolicyQueues DEF NeighborStep, Runs, QueuePolicies
<1>6. CASE GetGraphStep
  <2>1. UNCHANGED <<neighborVars, tileVars>>
    BY <1>6 DEF GetGraphStep
  <2>2. CASE Runs("get_graph_sequential") /\ GetGraph!SeqNext
             /\ UNCHANGED <<short, long, selected_queue>>
    BY <2>1, <2>2, GetGraphSequentialQueues DEF Runs, QueuePolicies, DequePolicies
  <2>3. CASE Runs("get_graph_current") /\ GetGraph!ShortLongNext /\ UNCHANGED current
    BY <2>1, <2>3, GetGraphCurrentQueues DEF Runs, QueuePolicies, SplitPolicies
  <2>4. CASE Runs("get_graph_outer") /\ GetGraph!OuterNext /\ UNCHANGED selected_queue
    BY <2>1, <2>4, GetGraphOuterQueues DEF Runs, QueuePolicies, DequePolicies
  <2> QED
    BY <1>6, <2>2, <2>3, <2>4 DEF GetGraphStep
<1> QED
  BY <1>1, <1>2, <1>3, <1>4, <1>5, <1>6 DEF QueuePolicyStep

\* The queue policies change neither the graph nor the arguments.
LEMMA QueueStepGraph ==
  ASSUME QueueStep
  PROVE  UNCHANGED <<array, conf>>
  BY DEF QueueStep, ReadStep, AdmitStep, LoopStep, BeginStep, PopStep, KeepStep, TakeStep,
         CloseStep, RaiseStep, SpinStep, windowVars, graphVars

\* What the tile policies leave alone.
LEMMA TileStepLeaves ==
  ASSUME TileStep
  PROVE  /\ Running \in TilePolicies
         /\ UNCHANGED <<order, policy, queueVars, bloomVars, neighborVars,
                        array, conf, working_set>>
<1>1. \/ Running = "sliding" /\ Sliding!Next
      \/ Running = "dense" /\ DenseTile!Next
  BY DEF TileStep, Runs
<1>2. CASE Running = "sliding" /\ Sliding!Next
  <2>1. UNCHANGED <<array, conf, working_set>>
    BY <1>2 DEF Sliding!Next, Sliding!SkipRow, Sliding!NextColumn, Sliding!BeginWindow,
         Sliding!AddRow, Sliding!CloseWindow, Sliding!windowVars, Sliding!graphVars
  <2> QED
    BY <1>2, <2>1 DEF TileStep, Runs, TilePolicies
<1>3. CASE Running = "dense" /\ DenseTile!Next
  <2>1. UNCHANGED <<array, conf, working_set>>
    BY <1>3 DEF DenseTile!Next, DenseTile!SkipRow, DenseTile!NextColumn, DenseTile!BeginWindow,
         DenseTile!AddRow, DenseTile!CloseWindow, DenseTile!windowVars, DenseTile!graphVars
  <2> QED
    BY <1>3, <2>1 DEF TileStep, Runs, TilePolicies
<1> QED
  BY <1>1, <1>2, <1>3

\* The graph and the arguments are those of all policies.
LEMMA SetupStays ==
  ASSUME SetupInv, UNCHANGED <<array, conf, order>>, policy' \in 1 .. Len(order)
  PROVE  SetupInv'
  BY DEF SetupInv, Outputs, NumOutputs

\* A policy begins with all inputs, empty queues and no window.
LEMMA StartHolds ==
  ASSUME SetupInv, Start
  PROVE  /\ PolicyInv
         /\ Running \in QueuePolicies => Builds!BuilderInv /\ Waiting = Outputs
<1> SUFFICES ASSUME Running \in QueuePolicies
             PROVE  PolicyInv /\ Builds!BuilderInv /\ Waiting = Outputs
  BY DEF PolicyInv
<1>1. /\ working_set = array /\ window = EmptyWindow /\ i = 0
      /\ current = <<>> /\ short = <<>> /\ long = <<>>
      /\ current_output_set = {} /\ next_waiting_set = <<>>
      /\ pc = FirstLoop(Running)
  BY DEF Start
<1>2. Members(<<>>) = {} /\ Distinct(<<>>) /\ <<>> \in Seq(Nat) /\ DOMAIN <<>> = {}
  BY DEF Members, Distinct
<1>3. NumOutputs \in Nat \ {0} /\ Outputs = 0 .. NumOutputs - 1
  BY DEF SetupInv
<1>4. pc = IF Running \in SeqPolicies \cup SplitPolicies THEN "fill" ELSE "setup_outer"
  BY <1>1 DEF FirstLoop, QueuePolicies, DequePolicies, SplitPolicies, SeqPolicies
<1>5. WorkingOutputs = {}
  BY <1>1, <1>2 DEF WorkingOutputs
<1>6. Waiting = Outputs
  BY <1>1, <1>2, <1>3 DEF Waiting
<1>7. QueuesInv
  BY <1>1, <1>2, <1>3 DEF QueuesInv, ReadQueue
<1>8. LoopInv
  BY <1>4, <1>5 DEF LoopInv, OuterQueued, OuterPolicies, SeqPolicies, SplitPolicies,
         QueuePolicies, DequePolicies
<1>9. InputsInv
  BY <1>1, <1>4, <1>5 DEF InputsInv, Outputs
<1>10. TouchedInv
  BY <1>1, <1>2, <1>4 DEF TouchedInv
<1>11. QueuePhase = "fill"
  BY <1>4, <1>8, Phases
<1>12. Builds!Init
  BY <1>1, <1>5, <1>6, <1>11 DEF Start, Builds!Init, Builds!EmptyWindow, EmptyWindow,
         Builds!Outputs, Outputs
<1>13. Builds!BuilderInv
  BY <1>12, SetupIsValid, Builds!BuilderInvInit
<1> QED
  BY <1>6, <1>7, <1>8, <1>9, <1>10, <1>13 DEF PolicyInv
=============================================================================
