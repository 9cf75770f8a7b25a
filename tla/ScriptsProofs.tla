--------------------------- MODULE ScriptsProofs ---------------------------
(***************************************************************************)
(* The scripts around the simulator, for every list of graphs and          *)
(* settings, every size of the pool, every number of sessions, failures    *)
(* and interruptions, and every size of the array and of the matrices:     *)
(* whole files stay whole; simulations that run together write to files of *)
(* their own, and the readers find the results of the latest session; the  *)
(* cycles of the systolic array are the sum over the frames.               *)
(***************************************************************************)
EXTENDS Scripts, FiniteSetTheorems, TLAPS

-----------------------------------------------------------------------------
(***************************************************************************)
(* The download of the data files.                                         *)
(***************************************************************************)

\* A file on its way to the data directory is not there as a whole.
DownloadInv ==
    script = "download" =>
        /\ item \in DOMAIN Data
        /\ here \in [Load!Items -> {"missing", "partial", "whole"}]
        /\ data_dir \in [Load!Items -> {"missing", "partial", "whole"}]
        /\ pc \in {"download", "move", "copy"} => data_dir[Load!Item] # "whole"

\* The item is one of the files.
LEMMA ItemsOfData ==
  /\ Len(Data) \in Nat /\ DOMAIN Data = 1 .. Len(Data) /\ 1 \in DOMAIN Data
  /\ \A k \in DOMAIN Data : Data[k] \in Load!Items
  BY DataAssumption DEF Load!Items

\* Whatever the script does next, it goes on with a file of the list.
LEMMA NextItemStays ==
  ASSUME Load!NextItem, item \in DOMAIN Data
  PROVE  item' \in DOMAIN Data /\ pc' \in {"check", "done"}
  BY ItemsOfData DEF Load!NextItem

\* A step keeps the invariant and every whole file.
LEMMA DownloadStepStays ==
  ASSUME DownloadInv, [Next]_vars
  PROVE  /\ DownloadInv'
         /\ script = "download" =>
              \A f \in Load!Items : data_dir[f] = "whole" => data_dir'[f] = "whole"
<1>0. CASE UNCHANGED vars
  BY <1>0 DEF vars, downloadVars, DownloadInv, Load!Item
<1>1. CASE BenchmarkStep
  BY <1>1 DEF BenchmarkStep, DownloadInv
<1>2. CASE CycleStep
  BY <1>2 DEF CycleStep, DownloadInv
<1>3. CASE DownloadStep
  <2>0. /\ script = "download" /\ script' = script
        /\ item \in DOMAIN Data
        /\ here \in [Load!Items -> {"missing", "partial", "whole"}]
        /\ data_dir \in [Load!Items -> {"missing", "partial", "whole"}]
        /\ pc \in {"download", "move", "copy"} => data_dir[Load!Item] # "whole"
        /\ Load!Item \in Load!Items
    BY <1>3, ItemsOfData DEF DownloadStep, DownloadInv, Load!Item
  <2> SUFFICES /\ item' \in DOMAIN Data
               /\ here' \in [Load!Items -> {"missing", "partial", "whole"}]
               /\ data_dir' \in [Load!Items -> {"missing", "partial", "whole"}]
               /\ pc' \in {"download", "move", "copy"} => data_dir'[Load!Item'] # "whole"
               /\ \A f \in Load!Items : data_dir[f] = "whole" => data_dir'[f] = "whole"
    BY <2>0 DEF DownloadInv
  <2>1. CASE Load!Skip
    BY <2>0, <2>1, NextItemStays DEF Load!Skip
  <2>2. CASE Load!Check
    BY <2>0, <2>2 DEF Load!Check, Load!Item
  <2>3. CASE Load!Wget
    BY <2>0, <2>3 DEF Load!Wget, Load!Item
  <2>4. CASE Load!Rename
    BY <2>0, <2>4, NextItemStays DEF Load!Rename
  <2>5. CASE Load!StartCopy
    BY <2>0, <2>5 DEF Load!StartCopy, Load!Item
  <2>6. CASE Load!EndCopy
    BY <2>0, <2>6, NextItemStays DEF Load!EndCopy
  <2>7. CASE Load!MoveRaises
    BY <2>0, <2>7 DEF Load!MoveRaises
  <2>8. CASE Load!Interrupt
    BY <2>0, <2>8 DEF Load!Interrupt
  <2>9. CASE Load!RunAgain
    BY <2>0, <2>9, ItemsOfData DEF Load!RunAgain
  <2> QED
    BY <1>3, <2>1, <2>2, <2>3, <2>4, <2>5, <2>6, <2>7, <2>8, <2>9 DEF DownloadStep, Load!Next
<1> QED
  BY <1>0, <1>1, <1>2, <1>3 DEF Next

\* download_graph.py never replaces a whole data file, wherever it is
\* interrupted, whatever wget leaves and however the move is done.
THEOREM WholeFilesAreKept == Spec => WholeFilesStay
<1>1. Init => DownloadInv
  BY ItemsOfData DEF Init, Load!Init, DownloadInv
<1>2. DownloadInv /\ [Next]_vars => DownloadInv'
  BY DownloadStepStays
<1>3. DownloadInv /\ [Next]_vars
        => [script = "download" =>
              \A f \in Load!Items : data_dir[f] = "whole" => data_dir'[f] = "whole"]_vars
  BY DownloadStepStays
<1> QED
  BY <1>1, <1>2, <1>3, PTL DEF Spec, WholeFilesStay

-----------------------------------------------------------------------------
(***************************************************************************)
(* The commands of the drivers.                                            *)
(***************************************************************************)

\* The elements of a list.
Elements(list) == {list[k] : k \in DOMAIN list}

\* What a list is, in the form the proofs use it.
LEMMA ListFacts ==
  ASSUME NEW list, IsList(list)
  PROVE  /\ Len(list) \in Nat \ {0}
         /\ DOMAIN list = 1 .. Len(list)
         /\ 1 \in DOMAIN list
         /\ \A k \in DOMAIN list : list[k] \in Elements(list)
         /\ \A j, k \in DOMAIN list : list[j] = list[k] => j = k
  BY DEF IsList, Elements

\* A function on 1 .. n that tells its arguments apart is a list.
LEMMA MakesList ==
  ASSUME NEW n \in Nat \ {0}, NEW list, list = [k \in 1 .. n |-> list[k]],
         \A j, k \in 1 .. n : list[j] = list[k] => j = k
  PROVE  IsList(list) /\ Len(list) = n /\ DOMAIN list = 1 .. n
<1>1. DOMAIN list = 1 .. n
  BY Zenon
<1>2. list \in Seq({list[k] : k \in DOMAIN list}) /\ Len(list) = n
  BY <1>1
<1>3. list # <<>>
  BY <1>2
<1> QED
  BY <1>1, <1>2, <1>3 DEF IsList

\* A product grows with its factors.
LEMMA ProductGrows ==
  ASSUME NEW a \in Nat, NEW b \in Nat, NEW n \in Nat, a <= b
  PROVE  a * n <= b * n
<1>1. PICK d \in Nat : b = a + d
  <2>1. b - a \in Nat /\ b = a + (b - a)
    OBVIOUS
  <2> QED
    BY <2>1
<1>2. b * n = a * n + d * n /\ d * n \in Nat /\ a * n \in Nat
  BY <1>1
<1> QED
  BY <1>2

\* A number below a * n is a multiple of n and a rest, in one way only.
LEMMA DivisionFacts ==
  ASSUME NEW n \in Nat \ {0}, NEW a \in Nat \ {0}
  PROVE  /\ \A k \in 1 .. a * n : /\ ((k - 1) \div n) + 1 \in 1 .. a
                                  /\ ((k - 1) % n) + 1 \in 1 .. n
                                  /\ k = ((k - 1) \div n) * n + ((k - 1) % n) + 1
         /\ \A x \in 1 .. a, y \in 1 .. n :
              /\ (x - 1) * n + y \in 1 .. a * n
              /\ (((x - 1) * n + y - 1) \div n) + 1 = x
              /\ (((x - 1) * n + y - 1) % n) + 1 = y
<1>0. a * n \in Nat
  OBVIOUS
<1>1. ASSUME NEW k \in 1 .. a * n
      PROVE  /\ ((k - 1) \div n) + 1 \in 1 .. a
             /\ ((k - 1) % n) + 1 \in 1 .. n
             /\ k = ((k - 1) \div n) * n + ((k - 1) % n) + 1
  <2> DEFINE q == (k - 1) \div n
             r == (k - 1) % n
  <2>1. k - 1 \in Nat /\ k - 1 < a * n
    BY <1>0
  <2>2. q \in Nat /\ r \in 0 .. n - 1 /\ k - 1 = q * n + r
    BY <2>1
  <2> HIDE DEF q, r
  <2>3. q < a
    <3>0. q \in Nat
      BY <2>2
    <3>1. CASE q >= a
      <4>1. a * n <= q * n /\ q * n \in Nat
        BY <3>0, <3>1, ProductGrows
      <4>2. k - 1 >= q * n
        BY <2>2, <4>1
      <4> QED
        BY <1>0, <2>1, <4>1, <4>2
    <3> QED
      BY <2>2, <3>1
  <2> QED
    BY <2>2, <2>3 DEF q, r
<1>2. ASSUME NEW x \in 1 .. a, NEW y \in 1 .. n
      PROVE  /\ (x - 1) * n + y \in 1 .. a * n
             /\ (((x - 1) * n + y - 1) \div n) + 1 = x
             /\ (((x - 1) * n + y - 1) % n) + 1 = y
  <2> DEFINE b == x - 1
             m == b * n + (y - 1)
             q == m \div n
             r == m % n
  <2>1. b \in Nat /\ y - 1 \in 0 .. n - 1 /\ b * n \in Nat
    OBVIOUS
  <2>2. m \in Nat /\ m = (x - 1) * n + y - 1
    BY <2>1
  <2>3. q \in Nat /\ r \in 0 .. n - 1 /\ m = q * n + r
    BY <2>2
  <2>4. (b + 1) * n <= a * n /\ (b + 1) * n = b * n + n
    BY <2>1
  <2>5. (x - 1) * n + y \in 1 .. a * n
    BY <1>0, <2>1, <2>4
  <2>6. q = b
    <3> HIDE DEF q, r, b
    <3>1. CASE q < b
      <4>1. (q + 1) * n <= b * n /\ (q + 1) * n = q * n + n /\ q * n \in Nat
        BY <2>1, <2>3, <3>1
      <4> QED
        BY <2>1, <2>3, <4>1
    <3>2. CASE q > b
      <4>1. (b + 1) * n <= q * n /\ (b + 1) * n = b * n + n /\ q * n \in Nat
        BY <2>1, <2>3, <3>2
      <4> QED
        BY <2>1, <2>3, <4>1
    <3> QED
      BY <2>1, <2>3, <3>1, <3>2
  <2>7. r = y - 1
    BY <2>1, <2>3, <2>6
  <2>8. q + 1 = x /\ r + 1 = y
    BY <2>6, <2>7
  <2>9. q = ((x - 1) * n + y - 1) \div n /\ r = ((x - 1) * n + y - 1) % n
    BY <2>2
  <2> HIDE DEF q, r
  <2> QED
    BY <2>5, <2>8, <2>9
<1> QED
  BY <1>1, <1>2

\* Two nested loops over lists go through all pairs, each once.
LEMMA NestedList ==
  ASSUME NEW outer, NEW inner, IsList(outer), IsList(inner)
  PROVE  /\ IsList(Bench!Nested(outer, inner))
         /\ \A k \in DOMAIN Bench!Nested(outer, inner) :
              \E x \in DOMAIN outer, y \in DOMAIN inner :
                 Bench!Nested(outer, inner)[k] = <<outer[x], inner[y]>>
         /\ \A x \in DOMAIN outer, y \in DOMAIN inner :
              \E k \in DOMAIN Bench!Nested(outer, inner) :
                 Bench!Nested(outer, inner)[k] = <<outer[x], inner[y]>>
<1> DEFINE a == Len(outer)
           n == Len(inner)
           pairs == Bench!Nested(outer, inner)
           x(k) == ((k - 1) \div n) + 1
           y(k) == ((k - 1) % n) + 1
<1>1. a \in Nat \ {0} /\ n \in Nat \ {0} /\ DOMAIN outer = 1 .. a /\ DOMAIN inner = 1 .. n
  BY ListFacts
<1>2. pairs = [k \in 1 .. a * n |-> <<outer[x(k)], inner[y(k)]>>]
  BY DEF Bench!Nested
<1>3. a * n \in Nat \ {0}
  BY <1>1
<1>4. \A k \in 1 .. a * n : x(k) \in 1 .. a /\ y(k) \in 1 .. n /\ k = (x(k) - 1) * n + y(k)
  <2>1. \A k \in 1 .. a * n : /\ x(k) \in 1 .. a
                              /\ y(k) \in 1 .. n
                              /\ k = ((k - 1) \div n) * n + ((k - 1) % n) + 1
    BY <1>1, DivisionFacts
  <2>2. ASSUME NEW k \in 1 .. a * n PROVE k = (x(k) - 1) * n + y(k)
    <3>1. k = ((k - 1) \div n) * n + ((k - 1) % n) + 1
      BY <2>1
    <3>2. (k - 1) \div n \in Int /\ (k - 1) % n \in Int
      BY <1>1, <1>3
    <3>3. x(k) - 1 = (k - 1) \div n
      BY <3>2
    <3> QED
      BY <3>1, <3>2, <3>3, <1>1
  <2> QED
    BY <2>1, <2>2
<1>5. \A s \in 1 .. a, t \in 1 .. n :
        (s - 1) * n + t \in 1 .. a * n /\ x((s - 1) * n + t) = s /\ y((s - 1) * n + t) = t
  BY <1>1, DivisionFacts
<1> HIDE DEF x, y, pairs
<1>6. DOMAIN pairs = 1 .. a * n /\ \A k \in 1 .. a * n : pairs[k] = <<outer[x(k)], inner[y(k)]>>
  BY <1>2
<1>7. ASSUME NEW j \in 1 .. a * n, NEW k \in 1 .. a * n, pairs[j] = pairs[k]
      PROVE  j = k
  <2>1. outer[x(j)] = outer[x(k)] /\ inner[y(j)] = inner[y(k)]
    BY <1>6, <1>7
  <2>2. x(j) = x(k) /\ y(j) = y(k)
    BY <1>1, <1>4, <2>1, ListFacts
  <2> QED
    BY <1>4, <2>2
<1>8. IsList(pairs)
  <2>1. pairs = [k \in 1 .. a * n |-> pairs[k]]
    BY <1>2, <1>6
  <2> QED
    BY <1>3, <1>7, <2>1, MakesList
<1>9. ASSUME NEW k \in DOMAIN pairs
      PROVE  \E s \in DOMAIN outer, t \in DOMAIN inner : pairs[k] = <<outer[s], inner[t]>>
  <2>1. k \in 1 .. a * n
    BY <1>6
  <2>2. x(k) \in DOMAIN outer /\ y(k) \in DOMAIN inner
    BY <1>1, <1>4, <2>1
  <2> QED
    BY <1>6, <2>1, <2>2
<1>10. ASSUME NEW s \in DOMAIN outer, NEW t \in DOMAIN inner
       PROVE  \E k \in DOMAIN pairs : pairs[k] = <<outer[s], inner[t]>>
  <2> DEFINE k == (s - 1) * n + t
  <2>1. k \in 1 .. a * n /\ x(k) = s /\ y(k) = t
    BY <1>1, <1>5
  <2> HIDE DEF k
  <2> QED
    BY <1>6, <2>1
<1> QED
  BY <1>8, <1>9, <1>10 DEF pairs

\* The commands of a driver: each has a file of its own.
GoodCommands(cmds) ==
    /\ IsList(cmds)
    /\ \A j, k \in DOMAIN cmds : cmds[j].out = cmds[k].out => j = k

\* And log files of its own.
LogsApart(cmds) ==
    \A j, k \in DOMAIN cmds : Bench!LogFile(cmds[j].sim) = Bench!LogFile(cmds[k].sim) => j = k

\* A command sends what the simulator prints in the given mode to the file.
Sends(cmds, out, fast) == \E k \in DOMAIN cmds : cmds[k].out = out /\ cmds[k].sim.fast = fast

\* One command for each element of a list, each with a file of its own.
LEMMA MakesCommands ==
  ASSUME NEW list, IsList(list), NEW cmds, cmds = [k \in DOMAIN list |-> cmds[k]],
         \A j, k \in DOMAIN list : cmds[j].out = cmds[k].out => j = k
  PROVE  GoodCommands(cmds) /\ DOMAIN cmds = DOMAIN list
<1>1. Len(list) \in Nat \ {0} /\ DOMAIN list = 1 .. Len(list)
  BY ListFacts
<1>2. cmds = [k \in 1 .. Len(list) |-> cmds[k]]
  BY <1>1
<1>3. \A j, k \in 1 .. Len(list) : cmds[j] = cmds[k] => j = k
  BY <1>1
<1>4. IsList(cmds) /\ DOMAIN cmds = 1 .. Len(list)
  BY <1>1, <1>2, <1>3, MakesList
<1> QED
  BY <1>1, <1>4 DEF GoodCommands

\* The loops over settings and graphs.
LEMMA LoopsOfSettings ==
  ASSUME NEW buffers, NEW dividers, NEW graphs,
         IsList(buffers), IsList(dividers), IsList(graphs)
  PROVE  LET loops == Bench!Nested(Bench!Nested(buffers, dividers), graphs)
         IN  /\ IsList(loops)
             /\ \A k \in DOMAIN loops :
                  \E b \in Elements(buffers), d \in Elements(dividers), g \in Elements(graphs) :
                     loops[k] = <<<<b, d>>, g>>
             /\ \A b \in Elements(buffers), d \in Elements(dividers), g \in Elements(graphs) :
                  \E k \in DOMAIN loops : loops[k] = <<<<b, d>>, g>>
<1> DEFINE pairs == Bench!Nested(buffers, dividers)
           loops == Bench!Nested(pairs, graphs)
<1>1. /\ IsList(pairs)
      /\ \A k \in DOMAIN pairs : \E x \in DOMAIN buffers, y \in DOMAIN dividers :
            pairs[k] = <<buffers[x], dividers[y]>>
      /\ \A x \in DOMAIN buffers, y \in DOMAIN dividers : \E k \in DOMAIN pairs :
            pairs[k] = <<buffers[x], dividers[y]>>
  BY NestedList
<1> HIDE DEF pairs
<1>2. /\ IsList(loops)
      /\ \A k \in DOMAIN loops : \E x \in DOMAIN pairs, y \in DOMAIN graphs :
            loops[k] = <<pairs[x], graphs[y]>>
      /\ \A x \in DOMAIN pairs, y \in DOMAIN graphs : \E k \in DOMAIN loops :
            loops[k] = <<pairs[x], graphs[y]>>
  BY <1>1, NestedList
<1> HIDE DEF loops
<1>3. ASSUME NEW k \in DOMAIN loops
      PROVE  \E b \in Elements(buffers), d \in Elements(dividers), g \in Elements(graphs) :
                loops[k] = <<<<b, d>>, g>>
  <2>1. PICK x \in DOMAIN pairs, y \in DOMAIN graphs : loops[k] = <<pairs[x], graphs[y]>>
    BY <1>2
  <2>2. PICK u \in DOMAIN buffers, v \in DOMAIN dividers : pairs[x] = <<buffers[u], dividers[v]>>
    BY <1>1
  <2> QED
    BY <2>1, <2>2 DEF Elements
<1>4. ASSUME NEW b \in Elements(buffers), NEW d \in Elements(dividers), NEW g \in Elements(graphs)
      PROVE  \E k \in DOMAIN loops : loops[k] = <<<<b, d>>, g>>
  <2>1. PICK u \in DOMAIN buffers, v \in DOMAIN dividers, y \in DOMAIN graphs :
           b = buffers[u] /\ d = dividers[v] /\ g = graphs[y]
    BY DEF Elements
  <2>2. PICK x \in DOMAIN pairs : pairs[x] = <<b, d>>
    BY <1>1, <2>1
  <2> QED
    BY <1>2, <2>1, <2>2
<1> QED
  BY <1>2, <1>3, <1>4 DEF loops, pairs

\* The commands for one selection method.
LEMMA SelectionCommandsGood ==
  ASSUME NEW graphs, NEW buffers, NEW dividers, NEW method, NEW suffix,
         IsList(buffers), IsList(dividers), IsList(graphs)
  PROVE  LET cmds == Bench!SelectionCommands(graphs, buffers, dividers, method, suffix)
         IN  GoodCommands(cmds) /\ LogsApart(cmds)
<1> DEFINE loops == Bench!Nested(Bench!Nested(buffers, dividers), graphs)
           cmds == Bench!SelectionCommands(graphs, buffers, dividers, method, suffix)
<1>1. /\ IsList(loops)
      /\ \A k \in DOMAIN loops :
           \E b \in Elements(buffers), d \in Elements(dividers), g \in Elements(graphs) :
              loops[k] = <<<<b, d>>, g>>
  BY LoopsOfSettings
<1>2. cmds = [k \in DOMAIN loops |-> Bench!SelectionCommand(method, suffix, loops[k])]
  BY DEF Bench!SelectionCommands
<1> HIDE DEF loops, cmds
<1>3. \A k \in DOMAIN loops :
        /\ cmds[k].out = <<loops[k][2], loops[k][1][1], loops[k][1][2], suffix>>
        /\ Bench!LogFile(cmds[k].sim) = <<loops[k][2], loops[k][1][1], loops[k][1][2]>>
  BY <1>2 DEF Bench!SelectionCommand, Bench!Command, Bench!Simulation, Bench!LogFile
<1>4. ASSUME NEW j \in DOMAIN loops, NEW k \in DOMAIN loops,
             loops[j][2] = loops[k][2], loops[j][1][1] = loops[k][1][1],
             loops[j][1][2] = loops[k][1][2]
      PROVE  j = k
  <2>1. loops[j] = loops[k]
    BY <1>1, <1>4
  <2> QED
    BY <1>1, <2>1, ListFacts
<1>5. \A j, k \in DOMAIN loops : cmds[j].out = cmds[k].out => j = k
  BY <1>3, <1>4
<1>6. \A j, k \in DOMAIN loops :
        Bench!LogFile(cmds[j].sim) = Bench!LogFile(cmds[k].sim) => j = k
  BY <1>3, <1>4
<1>7. cmds = [k \in DOMAIN loops |-> cmds[k]]
  BY <1>2
<1>8. GoodCommands(cmds) /\ DOMAIN cmds = DOMAIN loops
  BY <1>1, <1>5, <1>7, MakesCommands
<1> QED
  BY <1>6, <1>8 DEF LogsApart, cmds

\* The commands for one kind of window.
LEMMA WindowCommandsGood ==
  ASSUME NEW graphs, NEW method, NEW suffix, IsList(graphs)
  PROVE  LET cmds == Bench!WindowCommands(graphs, method, suffix)
         IN  /\ GoodCommands(cmds) /\ LogsApart(cmds)
             /\ \A k \in DOMAIN cmds : \E g \in Elements(graphs) : cmds[k].out = <<g, suffix>>
             /\ \A g \in Elements(graphs) : Sends(cmds, <<g, suffix>>, FALSE)
<1> DEFINE cmds == Bench!WindowCommands(graphs, method, suffix)
<1>1. cmds = [k \in DOMAIN graphs |-> cmds[k]]
  BY DEF Bench!WindowCommands
<1>2. \A k \in DOMAIN graphs :
        /\ cmds[k].out = <<graphs[k], suffix>>
        /\ cmds[k].sim.fast = FALSE
        /\ Bench!LogFile(cmds[k].sim)
             = <<graphs[k], Bench!DefaultBuffer, Bench!DefaultDivider>>
  BY DEF Bench!WindowCommands, Bench!Command, Bench!Simulation, Bench!LogFile
<1> HIDE DEF cmds
<1>3. \A j, k \in DOMAIN graphs : graphs[j] = graphs[k] => j = k
  BY ListFacts
<1>4. \A j, k \in DOMAIN graphs : cmds[j].out = cmds[k].out => j = k
  BY <1>2, <1>3
<1>5. \A j, k \in DOMAIN graphs :
        Bench!LogFile(cmds[j].sim) = Bench!LogFile(cmds[k].sim) => j = k
  BY <1>2, <1>3
<1>6. GoodCommands(cmds) /\ DOMAIN cmds = DOMAIN graphs
  BY <1>1, <1>4, MakesCommands
<1>7. \A k \in DOMAIN cmds : \E g \in Elements(graphs) : cmds[k].out = <<g, suffix>>
  BY <1>2, <1>6 DEF Elements
<1>8. \A g \in Elements(graphs) : Sends(cmds, <<g, suffix>>, FALSE)
  BY <1>2, <1>6 DEF Elements, Sends
<1> QED
  BY <1>5, <1>6, <1>7, <1>8 DEF LogsApart, cmds

\* The commands of run-outer-list.py.
LEMMA OuterListCommandsGood ==
  LET cmds == Bench!OuterListCommands
      methods == {"sliding", "dense", "seqoldhash", "seq"}
  IN  /\ GoodCommands(cmds)
      /\ \A k \in DOMAIN cmds : \E g \in Elements(LargeGraphs), m \in methods :
            cmds[k].out = <<g, m, "sched.out">>
      /\ \A g \in Elements(LargeGraphs), m \in methods :
            Sends(cmds, <<g, m, "sched.out">>, m \in {"seqoldhash", "seq"})
<1> DEFINE four == <<"sliding", "dense", "seqoldhash", "seq">>
           methods == {"sliding", "dense", "seqoldhash", "seq"}
           loops == Bench!Nested(LargeGraphs, four)
           cmds == Bench!OuterListCommands
<1>1. IsList(four) /\ Elements(four) = methods
  <2>1. /\ four \in Seq(methods) /\ DOMAIN four = {1, 2, 3, 4} /\ 1 .. 4 = {1, 2, 3, 4}
        /\ four[1] = "sliding" /\ four[2] = "dense" /\ four[3] = "seqoldhash" /\ four[4] = "seq"
    OBVIOUS
  <2>2. \A j, k \in 1 .. 4 : four[j] = four[k] => j = k
    BY <2>1
  <2>3. four = [k \in 1 .. 4 |-> four[k]]
    BY <2>1
  <2>4. IsList(four)
    <3>1. 4 \in Nat \ {0}
      OBVIOUS
    <3> HIDE DEF four
    <3> QED
      BY <2>2, <2>3, <3>1, MakesList, Zenon
  <2>5. Elements(four) = methods
    BY <2>1 DEF Elements
  <2> QED
    BY <2>4, <2>5
<1> HIDE DEF four, methods
<1>2. /\ IsList(loops)
      /\ \A k \in DOMAIN loops : \E x \in DOMAIN LargeGraphs, y \in DOMAIN four :
            loops[k] = <<LargeGraphs[x], four[y]>>
      /\ \A x \in DOMAIN LargeGraphs, y \in DOMAIN four : \E k \in DOMAIN loops :
            loops[k] = <<LargeGraphs[x], four[y]>>
  BY <1>1, ListsAssumption, NestedList
<1>3. cmds = [k \in DOMAIN loops |-> Bench!OuterListCommand(loops[k][1], loops[k][2])]
  BY DEF Bench!OuterListCommands, four
<1> HIDE DEF loops, cmds
<1>4. \A k \in DOMAIN loops :
        /\ cmds[k].out = <<loops[k][1], loops[k][2], "sched.out">>
        /\ cmds[k].sim.fast = (loops[k][2] \in {"seqoldhash", "seq"})
  BY <1>3 DEF Bench!OuterListCommand, Bench!Command, Bench!Simulation
<1>5. ASSUME NEW j \in DOMAIN loops, NEW k \in DOMAIN loops, cmds[j].out = cmds[k].out
      PROVE  j = k
  <2>1. loops[j][1] = loops[k][1] /\ loops[j][2] = loops[k][2]
    BY <1>4, <1>5
  <2>2. PICK x \in DOMAIN LargeGraphs, y \in DOMAIN four : loops[j] = <<LargeGraphs[x], four[y]>>
    BY <1>2, Zenon
  <2>3. PICK u \in DOMAIN LargeGraphs, v \in DOMAIN four : loops[k] = <<LargeGraphs[u], four[v]>>
    BY <1>2, Zenon
  <2>4. loops[j] = loops[k]
    BY <2>1, <2>2, <2>3
  <2>5. IsList(loops)
    BY <1>2
  <2> QED
    BY <2>4, <2>5, ListFacts
<1>6. cmds = [k \in DOMAIN loops |-> cmds[k]]
  BY <1>3
<1>7. GoodCommands(cmds) /\ DOMAIN cmds = DOMAIN loops
  BY <1>2, <1>5, <1>6, MakesCommands
<1>8. ASSUME NEW k \in DOMAIN cmds
      PROVE  \E g \in Elements(LargeGraphs), m \in methods : cmds[k].out = <<g, m, "sched.out">>
  <2>1. PICK x \in DOMAIN LargeGraphs, y \in DOMAIN four : loops[k] = <<LargeGraphs[x], four[y]>>
    BY <1>2, <1>7
  <2>2. LargeGraphs[x] \in Elements(LargeGraphs) /\ four[y] \in methods
    BY <1>1 DEF Elements
  <2>3. cmds[k].out = <<LargeGraphs[x], four[y], "sched.out">>
    BY <1>4, <1>7, <2>1
  <2> QED
    BY <2>2, <2>3
<1>9. ASSUME NEW g \in Elements(LargeGraphs), NEW m \in methods
      PROVE  Sends(cmds, <<g, m, "sched.out">>, m \in {"seqoldhash", "seq"})
  <2>1. PICK x \in DOMAIN LargeGraphs, y \in DOMAIN four : g = LargeGraphs[x] /\ m = four[y]
    BY <1>1 DEF Elements
  <2>2. PICK k \in DOMAIN loops : loops[k] = <<g, m>>
    BY <1>2, <2>1
  <2> QED
    BY <1>4, <1>7, <2>2 DEF Sends
<1> QED
  BY <1>7, <1>8, <1>9 DEF cmds, methods

\* One element of a list is a list.
LEMMA OneOfList ==
  ASSUME NEW list, IsList(list), NEW k \in DOMAIN list
  PROVE  IsList(SubSeq(list, k, k))
<1> DEFINE one == SubSeq(list, k, k)
<1>1. list \in Seq(Elements(list)) /\ k \in 1 .. Len(list) /\ Len(list) \in Nat
  BY ListFacts DEF IsList, Elements
<1>2. k \in Int /\ k - k + 1 = 1
  BY <1>1
<1>3. one \in Seq(Elements(list)) /\ Len(one) = 1
  BY <1>1, <1>2
<1> HIDE DEF one
<1>4. one = [j \in 1 .. 1 |-> one[j]]
  BY <1>3
<1>5. 1 \in Nat \ {0} /\ \A i, j \in 1 .. 1 : one[i] = one[j] => i = j
  OBVIOUS
<1>6. IsList(one)
  BY <1>4, <1>5, MakesList, Zenon
<1> QED
  BY <1>6 DEF one

\* Two lists of commands, one after the other.
LEMMA JoinedCommands ==
  ASSUME NEW first, NEW second, GoodCommands(first), GoodCommands(second),
         \A j \in DOMAIN first, k \in DOMAIN second : first[j].out # second[k].out
  PROVE  /\ GoodCommands(first \o second)
         /\ \A k \in DOMAIN (first \o second) :
              \/ \E j \in DOMAIN first : (first \o second)[k] = first[j]
              \/ \E j \in DOMAIN second : (first \o second)[k] = second[j]
         /\ \A out, fast : Sends(first, out, fast) \/ Sends(second, out, fast)
                             => Sends(first \o second, out, fast)
<1> DEFINE both == first \o second
           m == Len(first)
           n == Len(second)
<1>1. /\ m \in Nat \ {0} /\ n \in Nat \ {0} /\ DOMAIN first = 1 .. m /\ DOMAIN second = 1 .. n
      /\ first \in Seq(Elements(first)) /\ second \in Seq(Elements(second))
      /\ \A j, k \in 1 .. m : first[j].out = first[k].out => j = k
      /\ \A j, k \in 1 .. n : second[j].out = second[k].out => j = k
  BY ListFacts DEF GoodCommands, IsList, Elements
<1>2. both \in Seq(Elements(first) \cup Elements(second)) /\ Len(both) = m + n
  BY <1>1
<1>3. \A k \in 1 .. m + n : both[k] = IF k <= m THEN first[k] ELSE second[k - m]
  BY <1>1
<1> HIDE DEF both, m, n
<1>21. DOMAIN both = 1 .. m + n /\ both = [k \in 1 .. m + n |-> both[k]]
  BY <1>1, <1>2
<1>4. ASSUME NEW j \in 1 .. m + n, NEW k \in 1 .. m + n, both[j].out = both[k].out
      PROVE  j = k
  <2>1. CASE j <= m /\ k <= m
    <3>1. j \in 1 .. m /\ k \in 1 .. m /\ both[j] = first[j] /\ both[k] = first[k]
      BY <1>1, <1>3, <2>1
    <3> QED
      BY <1>1, <1>4, <3>1
  <2>2. CASE j <= m /\ k > m
    <3>1. j \in 1 .. m /\ k - m \in 1 .. n /\ both[j] = first[j] /\ both[k] = second[k - m]
      BY <1>1, <1>3, <2>2
    <3> QED
      BY <1>1, <1>4, <3>1
  <2>3. CASE j > m /\ k <= m
    <3>1. j - m \in 1 .. n /\ k \in 1 .. m /\ both[j] = second[j - m] /\ both[k] = first[k]
      BY <1>1, <1>3, <2>3
    <3> QED
      BY <1>1, <1>4, <3>1
  <2>4. CASE j > m /\ k > m
    <3>1. /\ j - m \in 1 .. n /\ k - m \in 1 .. n
          /\ both[j] = second[j - m] /\ both[k] = second[k - m]
      BY <1>1, <1>3, <2>4
    <3>2. j - m = k - m
      BY <1>1, <1>4, <3>1
    <3> QED
      BY <1>1, <3>2
  <2> QED
    BY <1>1, <2>1, <2>2, <2>3, <2>4
<1>5. GoodCommands(both)
  <2>1. m + n \in Nat \ {0}
    BY <1>1
  <2>2. both = [k \in 1 .. m + n |-> both[k]]
    BY <1>21
  <2>3. \A j, k \in 1 .. m + n : both[j] = both[k] => j = k
    BY <1>4
  <2>4. IsList(both)
    BY <2>1, <2>2, <2>3, MakesList
  <2> QED
    BY <1>21, <1>4, <2>4 DEF GoodCommands
<1>6. \A k \in DOMAIN both : \/ \E j \in DOMAIN first : both[k] = first[j]
                             \/ \E j \in DOMAIN second : both[k] = second[j]
  <2> SUFFICES ASSUME NEW k \in 1 .. m + n
               PROVE  \/ \E j \in DOMAIN first : both[k] = first[j]
                      \/ \E j \in DOMAIN second : both[k] = second[j]
    BY <1>21
  <2>1. CASE k <= m
    BY <1>1, <1>3, <2>1
  <2>2. CASE k > m
    <3>1. k - m \in 1 .. n /\ both[k] = second[k - m]
      BY <1>1, <1>3, <2>2
    <3> QED
      BY <1>1, <3>1
  <2> QED
    BY <1>1, <2>1, <2>2
<1>7. ASSUME NEW out, NEW fast, Sends(first, out, fast) \/ Sends(second, out, fast)
      PROVE  Sends(both, out, fast)
  <2>1. CASE Sends(first, out, fast)
    <3>1. PICK j \in 1 .. m : first[j].out = out /\ first[j].sim.fast = fast
      BY <1>1, <2>1 DEF Sends
    <3>2. j \in 1 .. m + n /\ both[j] = first[j]
      BY <1>1, <1>3
    <3> QED
      BY <1>21, <3>1, <3>2 DEF Sends
  <2>2. CASE Sends(second, out, fast)
    <3>1. PICK j \in 1 .. n : second[j].out = out /\ second[j].sim.fast = fast
      BY <1>1, <2>2 DEF Sends
    <3>2. m + j \in 1 .. m + n /\ both[m + j] = second[j]
      BY <1>1, <1>3
    <3> QED
      BY <1>21, <3>1, <3>2 DEF Sends
  <2> QED
    BY <1>7, <2>1, <2>2
<1> QED
  BY <1>5, <1>6, <1>7 DEF both

\* The dividers tried with a method.
LEMMA SchedDividersList == \A method : IsList(Bench!SchedDividers(method))
<1>1. IsList(Dividers) /\ 1 \in DOMAIN Dividers
  BY ListsAssumption, ListFacts
<1>2. IsList(SubSeq(Dividers, 1, 1))
  BY <1>1, OneOfList
<1> QED
  BY <1>1, <1>2 DEF Bench!SchedDividers

\* The commands of run_sched/run-ramu.py for one method.
LEMMA MethodCommandsGood ==
  ASSUME NEW method
  PROVE  LET cmds == Bench!MethodCommands(method)
         IN  /\ GoodCommands(cmds)
             /\ \A k \in DOMAIN cmds : Len(cmds[k].out) = 5 /\ cmds[k].out[4] = method
             /\ \A g \in Elements(Workloads), b \in Elements(Buffers),
                   d \in Elements(Bench!SchedDividers(method)) :
                   Sends(cmds, <<g, b, d, method, "sched.out">>, TRUE)
<1> DEFINE dividers == Bench!SchedDividers(method)
           loops == Bench!Nested(Bench!Nested(Buffers, dividers), Workloads)
           cmds == Bench!MethodCommands(method)
<1>1. /\ IsList(loops)
      /\ \A k \in DOMAIN loops :
           \E b \in Elements(Buffers), d \in Elements(dividers), g \in Elements(Workloads) :
              loops[k] = <<<<b, d>>, g>>
      /\ \A b \in Elements(Buffers), d \in Elements(dividers), g \in Elements(Workloads) :
           \E k \in DOMAIN loops : loops[k] = <<<<b, d>>, g>>
  <2>1. IsList(dividers) /\ IsList(Buffers) /\ IsList(Workloads)
    BY SchedDividersList, ListsAssumption
  <2> HIDE DEF dividers
  <2> QED
    BY <2>1, LoopsOfSettings
<1>2. cmds = [k \in DOMAIN loops |-> Bench!SchedCommand(method, loops[k])]
  BY DEF Bench!MethodCommands
<1> HIDE DEF loops, cmds, dividers
<1>3. \A k \in DOMAIN loops :
        /\ cmds[k].out = <<loops[k][2], loops[k][1][1], loops[k][1][2], method, "sched.out">>
        /\ cmds[k].sim.fast = TRUE
  BY <1>2 DEF Bench!SchedCommand, Bench!Command, Bench!Simulation, Bench!SchedFile
<1>4. ASSUME NEW j \in DOMAIN loops, NEW k \in DOMAIN loops, cmds[j].out = cmds[k].out
      PROVE  j = k
  <2>1. /\ loops[j][2] = loops[k][2] /\ loops[j][1][1] = loops[k][1][1]
        /\ loops[j][1][2] = loops[k][1][2]
    BY <1>3, <1>4
  <2>2. loops[j] = loops[k]
    BY <1>1, <2>1
  <2> QED
    BY <1>1, <2>2, ListFacts
<1>5. cmds = [k \in DOMAIN loops |-> cmds[k]]
  BY <1>2
<1>6. GoodCommands(cmds) /\ DOMAIN cmds = DOMAIN loops
  BY <1>1, <1>4, <1>5, MakesCommands
<1>7. \A k \in DOMAIN cmds : Len(cmds[k].out) = 5 /\ cmds[k].out[4] = method
  BY <1>3, <1>6
<1>8. ASSUME NEW g \in Elements(Workloads), NEW b \in Elements(Buffers),
             NEW d \in Elements(dividers)
      PROVE  Sends(cmds, <<g, b, d, method, "sched.out">>, TRUE)
  <2>1. PICK k \in DOMAIN loops : loops[k] = <<<<b, d>>, g>>
    BY <1>1
  <2> QED
    BY <1>3, <1>6, <2>1 DEF Sends
<1> QED
  BY <1>6, <1>7, <1>8 DEF cmds, dividers

\* All commands of run_sched/run-ramu.py.
LEMMA SchedCommandsGood ==
  LET cmds == Bench!SchedCommands
      methods == {"-enable-ideal-selection", "enable-sequential-selection", ""}
  IN  /\ GoodCommands(cmds)
      /\ \A k \in DOMAIN cmds : Len(cmds[k].out) = 5
      /\ \A m \in methods :
           \A g \in Elements(Workloads), b \in Elements(Buffers),
              d \in Elements(Bench!SchedDividers(m)) :
              Sends(cmds, <<g, b, d, m, "sched.out">>, TRUE)
<1> DEFINE one == Bench!MethodCommands("-enable-ideal-selection")
           two == Bench!MethodCommands("enable-sequential-selection")
           three == Bench!MethodCommands("")
           cmds == Bench!SchedCommands
<1>1. cmds = one \o two \o three
  BY DEF Bench!SchedCommands, Bench!SchedMethods
<1>2. /\ GoodCommands(one) /\ GoodCommands(two) /\ GoodCommands(three)
      /\ \A k \in DOMAIN one : Len(one[k].out) = 5 /\ one[k].out[4] = "-enable-ideal-selection"
      /\ \A k \in DOMAIN two : Len(two[k].out) = 5 /\ two[k].out[4] = "enable-sequential-selection"
      /\ \A k \in DOMAIN three : Len(three[k].out) = 5 /\ three[k].out[4] = ""
  BY MethodCommandsGood
<1>3. /\ \A g \in Elements(Workloads), b \in Elements(Buffers),
            d \in Elements(Bench!SchedDividers("-enable-ideal-selection")) :
            Sends(one, <<g, b, d, "-enable-ideal-selection", "sched.out">>, TRUE)
      /\ \A g \in Elements(Workloads), b \in Elements(Buffers),
            d \in Elements(Bench!SchedDividers("enable-sequential-selection")) :
            Sends(two, <<g, b, d, "enable-sequential-selection", "sched.out">>, TRUE)
      /\ \A g \in Elements(Workloads), b \in Elements(Buffers),
            d \in Elements(Bench!SchedDividers("")) :
            Sends(three, <<g, b, d, "", "sched.out">>, TRUE)
  BY MethodCommandsGood
<1> HIDE DEF one, two, three, cmds
<1>4. \A j \in DOMAIN one, k \in DOMAIN two : one[j].out # two[k].out
  <2> SUFFICES ASSUME NEW j \in DOMAIN one, NEW k \in DOMAIN two, one[j].out = two[k].out
               PROVE  FALSE
    OBVIOUS
  <2>1. one[j].out[4] = "-enable-ideal-selection" /\ two[k].out[4] = "enable-sequential-selection"
    BY <1>2
  <2> QED
    BY <2>1
<1>5. /\ GoodCommands(one \o two)
      /\ \A k \in DOMAIN (one \o two) : \/ \E j \in DOMAIN one : (one \o two)[k] = one[j]
                                        \/ \E j \in DOMAIN two : (one \o two)[k] = two[j]
      /\ \A out, fast : Sends(one, out, fast) \/ Sends(two, out, fast)
                          => Sends(one \o two, out, fast)
  BY <1>2, <1>4, JoinedCommands
<1>6. \A j \in DOMAIN (one \o two), k \in DOMAIN three : (one \o two)[j].out # three[k].out
  <2> SUFFICES ASSUME NEW j \in DOMAIN (one \o two), NEW k \in DOMAIN three,
                      (one \o two)[j].out = three[k].out
               PROVE  FALSE
    OBVIOUS
  <2>1. (one \o two)[j].out[4] \in {"-enable-ideal-selection", "enable-sequential-selection"}
    <3>1. CASE \E l \in DOMAIN one : (one \o two)[j] = one[l]
      BY <1>2, <3>1
    <3>2. CASE \E l \in DOMAIN two : (one \o two)[j] = two[l]
      BY <1>2, <3>2
    <3> QED
      BY <1>5, <3>1, <3>2
  <2>2. three[k].out[4] = ""
    BY <1>2
  <2> QED
    BY <2>1, <2>2
<1> DEFINE both == one \o two
<1>71. /\ GoodCommands(both)
       /\ \A j \in DOMAIN both, k \in DOMAIN three : both[j].out # three[k].out
       /\ cmds = both \o three
  BY <1>1, <1>5, <1>6
<1>72. \A k \in DOMAIN both :
         \/ \E j \in DOMAIN one : both[k] = one[j]
         \/ \E j \in DOMAIN two : both[k] = two[j]
  BY <1>5
<1>73. \A out, fast : Sends(one, out, fast) \/ Sends(two, out, fast) => Sends(both, out, fast)
  BY <1>5
<1> HIDE DEF both
<1>7. /\ GoodCommands(cmds)
      /\ \A k \in DOMAIN cmds :
           \/ \E j \in DOMAIN both : cmds[k] = both[j]
           \/ \E j \in DOMAIN three : cmds[k] = three[j]
      /\ \A out, fast : Sends(both, out, fast) \/ Sends(three, out, fast)
                          => Sends(cmds, out, fast)
  <2>1. /\ GoodCommands(both \o three)
        /\ \A k \in DOMAIN (both \o three) :
             \/ \E j \in DOMAIN both : (both \o three)[k] = both[j]
             \/ \E j \in DOMAIN three : (both \o three)[k] = three[j]
        /\ \A out, fast : Sends(both, out, fast) \/ Sends(three, out, fast)
                            => Sends(both \o three, out, fast)
    BY <1>2, <1>71, JoinedCommands
  <2>2. cmds = both \o three
    BY <1>71
  <2> QED
    BY <2>1, <2>2, Zenon
<1>81. ASSUME NEW j \in DOMAIN both
       PROVE  Len(both[j].out) = 5
  <2>1. CASE \E l \in DOMAIN one : both[j] = one[l]
    BY <1>2, <2>1
  <2>2. CASE \E l \in DOMAIN two : both[j] = two[l]
    BY <1>2, <2>2
  <2> QED
    BY <1>72, <2>1, <2>2
<1>8. ASSUME NEW k \in DOMAIN cmds
      PROVE  Len(cmds[k].out) = 5
  <2>1. CASE \E l \in DOMAIN both : cmds[k] = both[l]
    BY <1>81, <2>1
  <2>2. CASE \E l \in DOMAIN three : cmds[k] = three[l]
    BY <1>2, <2>2
  <2> QED
    BY <1>7, <2>1, <2>2
<1>9. ASSUME NEW m \in {"-enable-ideal-selection", "enable-sequential-selection", ""},
             NEW g \in Elements(Workloads), NEW b \in Elements(Buffers),
             NEW d \in Elements(Bench!SchedDividers(m))
      PROVE  Sends(cmds, <<g, b, d, m, "sched.out">>, TRUE)
  <2> DEFINE out == <<g, b, d, m, "sched.out">>
  <2>1. Sends(one, out, TRUE) \/ Sends(two, out, TRUE) \/ Sends(three, out, TRUE)
    BY <1>3
  <2> HIDE DEF out
  <2>2. Sends(cmds, out, TRUE)
    BY <1>7, <1>73, <2>1
  <2> QED
    BY <2>2 DEF out
<1> QED
  BY <1>7, <1>8, <1>9 DEF cmds

-----------------------------------------------------------------------------
(***************************************************************************)
(* The drivers.                                                            *)
(***************************************************************************)

\* The tests take a part of the lists.
LEMMA PartsOfLists ==
  /\ IsList(Bench!First(Workloads)) /\ IsList(Bench!First(Dividers))
  /\ IsList(Bench!Second(Buffers)) /\ IsList(Bench!WithSuffix(LargeGraphs))
<1>1. /\ IsList(Workloads) /\ IsList(Dividers) /\ IsList(Buffers) /\ Len(Buffers) >= 2
      /\ IsList(Bench!WithSuffix(LargeGraphs))
  BY ListsAssumption
<1>2. 1 \in DOMAIN Workloads /\ 1 \in DOMAIN Dividers /\ 2 \in DOMAIN Buffers
  BY <1>1, ListFacts
<1> QED
  BY <1>1, <1>2, OneOfList DEF Bench!First, Bench!Second

\* What every driver starts: commands with files of their own, and with log
\* files of their own unless it is run_sched/run-ramu.py or has one worker.
LEMMA DriverFacts ==
  ASSUME NEW d \in Bench!Drivers
  PROVE  /\ GoodCommands(d.cmds)
         /\ d.pool \in Nat
         /\ LogsApart(d.cmds) \/ d.name = SharesLogs \/ d.pool = 1
<1>0. /\ IsList(Workloads) /\ IsList(Dividers) /\ IsList(Buffers) /\ IsList(NewGraphs)
      /\ IsList(Bench!First(Workloads)) /\ IsList(Bench!First(Dividers))
      /\ IsList(Bench!Second(Buffers)) /\ IsList(Bench!WithSuffix(LargeGraphs))
  BY PartsOfLists, ListsAssumption
<1>1. CASE d = Bench!SchedDriver
  BY <1>1, SchedCommandsGood DEF Bench!SchedDriver, SharesLogs
<1>2. CASE d = Bench!IdealDriver
  BY <1>0, <1>2, SelectionCommandsGood DEF Bench!IdealDriver
<1>3. CASE d = Bench!SchedIdealDriver
  BY <1>0, <1>3, SelectionCommandsGood DEF Bench!SchedIdealDriver
<1>4. CASE d = Bench!SchedIdealTest
  BY <1>0, <1>4, SelectionCommandsGood DEF Bench!SchedIdealTest
<1>5. CASE d = Bench!SchedSeqTest
  BY <1>0, <1>5, SelectionCommandsGood DEF Bench!SchedSeqTest
<1>6. CASE d = Bench!OuterIdealDriver
  BY <1>0, <1>6, SelectionCommandsGood DEF Bench!OuterIdealDriver
<1>7. CASE d = Bench!OuterSeqDriver
  BY <1>0, <1>7, SelectionCommandsGood DEF Bench!OuterSeqDriver
<1>8. CASE d = Bench!OuterListDriver
  BY <1>8, OuterListCommandsGood DEF Bench!OuterListDriver, Bench!OuterListPool
<1>9. CASE d = Bench!ContDriver
  BY <1>0, <1>9, WindowCommandsGood DEF Bench!ContDriver
<1>10. CASE d = Bench!DenseDriver
  BY <1>0, <1>10, WindowCommandsGood DEF Bench!DenseDriver
<1>11. CASE d = Bench!BackgroundDriver
  BY <1>0, <1>11, WindowCommandsGood DEF Bench!BackgroundDriver, Bench!Background
<1> QED
  BY <1>1, <1>2, <1>3, <1>4, <1>5, <1>6, <1>7, <1>8, <1>9, <1>10, <1>11 DEF Bench!Drivers

\* Division of a number.
LEMMA Quotient ==
  ASSUME NEW a \in Nat, NEW s \in Nat \ {0}
  PROVE  /\ a \div s \in Nat /\ a % s \in 0 .. s - 1
         /\ a = (a \div s) * s + (a % s)
         /\ a >= s => a \div s # 0
<1> DEFINE q == a \div s
           r == a % s
<1>1. q \in Nat /\ r \in 0 .. s - 1 /\ a = q * s + r
  OBVIOUS
<1> HIDE DEF q, r
<1>2. q = 0 => a < s
  BY <1>1
<1>3. a >= s => q # 0
  BY <1>2
<1> QED
  BY <1>1, <1>3 DEF q, r

\* The block of a number.
LEMMA BlockOf ==
  ASSUME NEW i \in Nat \ {0}, NEW k \in Nat \ {0}, NEW s \in Nat \ {0}
  PROVE  ((i - 1) \div s) + 1 = k <=> (k - 1) * s + 1 <= i /\ i <= k * s
<1> DEFINE q == (i - 1) \div s
           r == (i - 1) % s
<1>1. i - 1 \in Nat /\ k - 1 \in Nat
  OBVIOUS
<1>2. q \in Nat /\ r \in 0 .. s - 1 /\ i - 1 = q * s + r
  BY <1>1, Quotient
<1> HIDE DEF q, r
<1>3. /\ (k - 1) * s \in Nat /\ k * s = (k - 1) * s + s /\ k * s \in Nat
      /\ q * s \in Nat /\ (q + 1) * s = q * s + s
  BY <1>1, <1>2
<1>4. CASE q = k - 1
  BY <1>2, <1>3, <1>4 DEF q
<1>5. CASE q < k - 1
  <2>0. q \in Nat /\ q + 1 \in Nat /\ q + 1 <= k - 1
    BY <1>1, <1>2, <1>5
  <2>1. (q + 1) * s <= (k - 1) * s
    BY <1>1, <2>0, ProductGrows
  <2>2. i - 1 < (k - 1) * s
    BY <1>2, <1>3, <2>1
  <2> QED
    BY <1>2, <1>3, <1>5, <2>2 DEF q
<1>6. CASE q > k - 1
  <2>0. q \in Nat /\ k <= q
    BY <1>1, <1>2, <1>6
  <2>1. k * s <= q * s
    BY <2>0, ProductGrows
  <2>2. i - 1 >= k * s
    BY <1>2, <1>3, <2>1
  <2> QED
    BY <1>2, <1>3, <1>6, <2>2 DEF q
<1> QED
  BY <1>1, <1>2, <1>4, <1>5, <1>6

\* The elements of a part of a list.
LEMMA ElementsOfPart ==
  ASSUME NEW S, NEW s \in Seq(S), NEW from \in Nat \ {0}, NEW to \in 0 .. Len(s)
  PROVE  /\ SubSeq(s, from, to) \in Seq(S)
         /\ Elements(SubSeq(s, from, to)) = {s[i] : i \in from .. to}
<1> DEFINE t == SubSeq(s, from, to)
<1>1. t \in Seq(S)
  OBVIOUS
<1>2. DOMAIN t = 1 .. (to - from + 1) /\ \A a \in DOMAIN t : t[a] = s[from + a - 1]
  OBVIOUS
<1> HIDE DEF t
<1>3. ASSUME NEW a \in DOMAIN t
      PROVE  t[a] \in {s[i] : i \in from .. to}
  <2>1. from + a - 1 \in from .. to /\ t[a] = s[from + a - 1]
    BY <1>2
  <2> QED
    BY <2>1
<1>4. ASSUME NEW i \in from .. to
      PROVE  s[i] \in Elements(t)
  <2>1. i - from + 1 \in DOMAIN t /\ from + (i - from + 1) - 1 = i
    BY <1>2
  <2>2. t[i - from + 1] = s[i]
    BY <1>2, <2>1
  <2> QED
    BY <2>1, <2>2 DEF Elements
<1>5. Elements(t) = {s[i] : i \in from .. to}
  BY <1>3, <1>4 DEF Elements
<1> QED
  BY <1>1, <1>5 DEF t

\* The workers of a pool are numbered.
LEMMA WorkersFacts ==
  ASSUME NEW d \in Bench!Drivers
  PROVE  /\ \E n \in Nat \ {0} : Bench!WorkersOf(d) = 1 .. n
         /\ d.pool = 1 => Bench!WorkersOf(d) = {1}
         /\ Bench!ChunkSize(d) \in Nat \ {0}
<1>1. d.pool \in Nat /\ Len(d.cmds) \in Nat \ {0} /\ PoolLimit \in Nat \ {0}
  BY DriverFacts, ListFacts, PoolAssumption DEF GoodCommands
<1>2. PICK n \in Nat \ {0} : /\ Bench!WorkersOf(d) = 1 .. n
                             /\ d.pool = 1 => n = 1
  BY <1>1 DEF Bench!WorkersOf, Bench!Smaller, Bench!Background
<1>3. Bench!Cardinality(1 .. n) = n
  <2>1. Cardinality(1 .. n) = n
    BY FS_Interval
  <2> QED
    BY <2>1 DEF Bench!Cardinality, Cardinality
<1>4. Bench!ChunkSize(d) \in Nat \ {0}
  <2>1. CASE d.pool = Bench!Background
    BY <2>1 DEF Bench!ChunkSize
  <2>2. CASE d.pool # Bench!Background
    <3> DEFINE len == Len(d.cmds)
               slots == 4 * n
               a == len + slots - 1
    <3>0. n \in Nat \ {0} /\ len \in Nat \ {0}
      BY <1>1
    <3> HIDE DEF len
    <3>1. slots \in Nat \ {0} /\ a \in Nat /\ a >= slots
      BY <3>0
    <3>2. Bench!ChunkSize(d) = a \div slots
      BY <1>2, <1>3, <2>2 DEF Bench!ChunkSize, len
    <3> HIDE DEF slots, a
    <3>3. a \div slots \in Nat \ {0}
      BY <3>1, Quotient
    <3> QED
      BY <3>2, <3>3
  <2> QED
    BY <2>1, <2>2
<1> QED
  BY <1>2, <1>4

\* The chunks of a pool: every command is in one of them, and in no other.
LEMMA ChunksFacts ==
  ASSUME NEW d \in Bench!Drivers
  PROVE  LET chunked == Bench!ChunksOf(d)
         IN  /\ chunked \in Seq(Seq(Elements(d.cmds)))
             /\ \A k, l \in DOMAIN chunked :
                  k # l => Elements(chunked[k]) \cap Elements(chunked[l]) = {}
             /\ \A c \in Elements(d.cmds) : \E k \in DOMAIN chunked : c \in Elements(chunked[k])
<1> DEFINE cmds == d.cmds
           n == Len(d.cmds)
           size == Bench!ChunkSize(d)
           count == (n + size - 1) \div size
           chunked == Bench!ChunksOf(d)
           last(k) == IF k * size < n THEN k * size ELSE n
<1>1. /\ cmds \in Seq(Elements(cmds)) /\ n \in Nat \ {0} /\ DOMAIN cmds = 1 .. n
      /\ \A j, k \in DOMAIN cmds : cmds[j] = cmds[k] => j = k
  BY DriverFacts, ListFacts DEF GoodCommands, IsList, Elements
<1>2. size \in Nat \ {0}
  BY WorkersFacts
<1>3. chunked = [k \in 1 .. count |-> SubSeq(cmds, (k - 1) * size + 1, last(k))]
  BY DEF Bench!ChunksOf, Bench!Smaller
<1> HIDE DEF cmds, n, size, chunked
<1>4. count \in Nat \ {0} /\ n <= count * size
  <2> DEFINE a == n + size - 1
             r == a % size
  <2>1. a \in Nat /\ a >= size
    BY <1>1, <1>2
  <2> HIDE DEF a
  <2>2. count \in Nat \ {0} /\ r \in 0 .. size - 1 /\ a = count * size + r
    BY <1>2, <2>1, Quotient DEF a
  <2> HIDE DEF count, r
  <2> QED
    BY <1>1, <1>2, <2>2 DEF a
<1> HIDE DEF count
<1>5. ASSUME NEW k \in 1 .. count
      PROVE  /\ chunked[k] \in Seq(Elements(cmds))
             /\ Elements(chunked[k]) = {cmds[i] : i \in {j \in 1 .. n : ((j - 1) \div size) + 1 = k}}
  <2> DEFINE from == (k - 1) * size + 1
             to == last(k)
  <2>1. /\ k \in Nat \ {0} /\ from \in Nat \ {0} /\ to \in 0 .. n
        /\ k * size \in Nat
    BY <1>1, <1>2
  <2>2. chunked[k] = SubSeq(cmds, from, to)
    BY <1>3
  <2>3. \A i \in 1 .. n : i \in from .. to <=> ((i - 1) \div size) + 1 = k
    <3> SUFFICES ASSUME NEW i \in 1 .. n
                 PROVE  i \in from .. to <=> ((i - 1) \div size) + 1 = k
      OBVIOUS
    <3>1. i \in Nat \ {0} /\ i \in Int
      BY <1>1
    <3>2. ((i - 1) \div size) + 1 = k <=> from <= i /\ i <= k * size
      BY <1>2, <2>1, <3>1, BlockOf
    <3> HIDE DEF from
    <3>3. i \in from .. to <=> from <= i /\ i <= k * size
      BY <1>1, <2>1, <3>1
    <3> QED
      BY <3>2, <3>3
  <2>4. from .. to \subseteq 1 .. n
    BY <1>1, <2>1
  <2> HIDE DEF from, to
  <2>5. from .. to = {j \in 1 .. n : ((j - 1) \div size) + 1 = k}
    BY <2>3, <2>4
  <2>6. /\ chunked[k] \in Seq(Elements(cmds))
        /\ Elements(chunked[k]) = {cmds[i] : i \in from .. to}
    <3>1. to \in 0 .. Len(cmds)
      BY <2>1 DEF n, cmds
    <3> QED
      BY <1>1, <2>1, <2>2, <3>1, ElementsOfPart
  <2> QED
    BY <2>5, <2>6
<1>7. DOMAIN chunked = 1 .. count /\ chunked = [k \in 1 .. count |-> chunked[k]]
  BY <1>3
<1>8. chunked \in Seq(Seq(Elements(cmds)))
  BY <1>4, <1>5, <1>7
<1>9. ASSUME NEW k \in 1 .. count, NEW l \in 1 .. count, k # l
      PROVE  Elements(chunked[k]) \cap Elements(chunked[l]) = {}
  <2> SUFFICES ASSUME NEW c \in Elements(chunked[k]), c \in Elements(chunked[l])
               PROVE  FALSE
    OBVIOUS
  <2>1. PICK i \in 1 .. n : c = cmds[i] /\ ((i - 1) \div size) + 1 = k
    BY <1>5
  <2>2. PICK j \in 1 .. n : c = cmds[j] /\ ((j - 1) \div size) + 1 = l
    BY <1>5
  <2>3. i = j
    BY <1>1, <2>1, <2>2
  <2> QED
    BY <1>9, <2>1, <2>2, <2>3
<1>10. ASSUME NEW c \in Elements(cmds)
       PROVE  \E k \in 1 .. count : c \in Elements(chunked[k])
  <2>1. PICK i \in 1 .. n : c = cmds[i]
    BY <1>1 DEF Elements
  <2> DEFINE k == ((i - 1) \div size) + 1
  <2>2. i - 1 \in Nat /\ i \in Nat \ {0}
    BY <1>1
  <2>3. (i - 1) \div size \in Nat
    BY <1>2, <2>2, Quotient
  <2>4. k \in Nat \ {0}
    BY <2>3
  <2>5. (k - 1) * size + 1 <= i
    BY <1>2, <2>2, <2>4, BlockOf
  <2> HIDE DEF k
  <2>6. k <= count
    <3>1. CASE k > count
      <4>1. k - 1 \in Nat /\ count <= k - 1
        BY <1>4, <2>4, <3>1
      <4>2. count * size <= (k - 1) * size
        BY <1>2, <1>4, <4>1, ProductGrows
      <4>3. count * size \in Nat /\ (k - 1) * size \in Nat
        BY <1>2, <1>4, <4>1
      <4> QED
        BY <1>1, <1>4, <2>2, <2>5, <4>2, <4>3
    <3> QED
      BY <1>4, <2>4, <3>1
  <2>7. k \in 1 .. count
    BY <1>4, <2>4, <2>6
  <2> QED
    BY <1>5, <2>1, <2>7 DEF k
<1> QED
  BY <1>7, <1>8, <1>9, <1>10 DEF cmds, chunked

-----------------------------------------------------------------------------
(***************************************************************************)
(* A session of a driver.                                                  *)
(***************************************************************************)

Commands == Elements(driver.cmds)

\* A command of the session is done: its results are in its file, as they are
\* now, or its simulation failed.
Finished(c) ==
    /\ disk[c.out].session = session
    /\ \/ c.out \in failed
       \/ disk[c.out].results = "all" /\ disk[c.out].sim = c.sim

\* The commands that wait and those that the workers have are different
\* commands, each with a file of its own, and the others are done.
TypesInv ==
    /\ driver \in Bench!Drivers
    /\ session \in Nat \ {0}
    /\ chunks \in Seq(Seq(Commands))
    /\ assigned \in [Bench!Workers -> Seq(Commands)]
    /\ running \subseteq Bench!Workers
    /\ disk = [out \in Bench!Outputs(driver) |-> disk[out]]
    /\ \A out \in Bench!Outputs(driver) :
         disk[out] = [session |-> disk[out].session, sim |-> disk[out].sim,
                      results |-> disk[out].results]

ChunksApart ==
    /\ \A k, l \in DOMAIN chunks : k # l => Elements(chunks[k]) \cap Elements(chunks[l]) = {}
    /\ \A k \in DOMAIN chunks, w \in Bench!Workers :
         Elements(chunks[k]) \cap Elements(assigned[w]) = {}
    /\ \A v, w \in Bench!Workers :
         v # w => Elements(assigned[v]) \cap Elements(assigned[w]) = {}

RunningInv ==
    \A w \in running :
        /\ assigned[w] # <<>>
        /\ disk[Bench!Current(w).out].session = session
        /\ disk[Bench!Current(w).out].sim = Bench!Current(w).sim

NoneLost ==
    \A c \in Commands :
        \/ \E k \in DOMAIN chunks : c \in Elements(chunks[k])
        \/ \E w \in Bench!Workers : c \in Elements(assigned[w])
        \/ Finished(c)

SessionInv == TypesInv /\ ChunksApart /\ RunningInv /\ NoneLost

BenchInv == script = "benchmark" => SessionInv

\* A command is its file.
LEMMA CommandsAreApart ==
  ASSUME driver \in Bench!Drivers, NEW b \in Commands, NEW c \in Commands, b.out = c.out
  PROVE  b = c
  BY DriverFacts DEF GoodCommands, Commands, Elements

\* Its file is one of those of the driver.
LEMMA CommandsHaveFiles == \A c \in Commands : c.out \in Bench!Outputs(driver)
  BY DEF Commands, Elements, Bench!Outputs

\* The first element of a list and the others.
LEMMA ElementsOfTail ==
  ASSUME NEW S, NEW s \in Seq(S), s # <<>>
  PROVE  /\ Head(s) \in S /\ Tail(s) \in Seq(S)
         /\ Head(s) \in Elements(s)
         /\ Elements(s) = {Head(s)} \cup Elements(Tail(s))
<1>1. /\ Head(s) = s[1] /\ 1 \in DOMAIN s /\ Head(s) \in S /\ Tail(s) \in Seq(S)
      /\ DOMAIN s = 1 .. Len(s) /\ DOMAIN Tail(s) = 1 .. Len(s) - 1 /\ Len(s) \in Nat
      /\ \A k \in 1 .. Len(s) - 1 : Tail(s)[k] = s[k + 1]
  OBVIOUS
<1>2. ASSUME NEW k \in DOMAIN s, k # 1
      PROVE  s[k] \in Elements(Tail(s))
  <2>1. k - 1 \in DOMAIN Tail(s) /\ Tail(s)[k - 1] = s[k]
    BY <1>1, <1>2
  <2> QED
    BY <2>1 DEF Elements
<1>3. ASSUME NEW k \in DOMAIN Tail(s)
      PROVE  Tail(s)[k] \in Elements(s)
  <2>1. k + 1 \in DOMAIN s /\ Tail(s)[k] = s[k + 1]
    BY <1>1
  <2> QED
    BY <2>1 DEF Elements
<1> QED
  BY <1>1, <1>2, <1>3 DEF Elements

\* No list, no element.
LEMMA ElementsOfNone == Elements(<<>>) = {}
  BY DEF Elements

\* A session begins with all commands in the chunks and no worker at work.
LEMMA SessionBegins ==
  ASSUME driver \in Bench!Drivers, chunks = Bench!ChunksOf(driver),
         assigned \in [Bench!Workers -> Seq(Commands)],
         \A w \in Bench!Workers : assigned[w] = <<>>
  PROVE  /\ chunks \in Seq(Seq(Commands))
         /\ ChunksApart
         /\ NoneLost
<1>1. /\ chunks \in Seq(Seq(Commands))
      /\ \A k, l \in DOMAIN chunks : k # l => Elements(chunks[k]) \cap Elements(chunks[l]) = {}
      /\ \A c \in Commands : \E k \in DOMAIN chunks : c \in Elements(chunks[k])
  BY ChunksFacts DEF Commands
<1>2. \A w \in Bench!Workers : Elements(assigned[w]) = {}
  BY ElementsOfNone
<1> QED
  BY <1>1, <1>2 DEF ChunksApart, NoneLost

\* The first session.
LEMMA BenchInvInit == Init => BenchInv
<1> SUFFICES ASSUME Init, script = "benchmark"
             PROVE  SessionInv
  BY DEF BenchInv
<1>1. Bench!Init
  BY DEF Init
<1>2. /\ assigned \in [Bench!Workers -> Seq(Commands)]
      /\ \A w \in Bench!Workers : assigned[w] = <<>>
  BY <1>1 DEF Bench!Init
<1>3. chunks \in Seq(Seq(Commands)) /\ ChunksApart /\ NoneLost
  BY <1>1, <1>2, SessionBegins DEF Bench!Init
<1>4. TypesInv
  BY <1>1, <1>2, <1>3 DEF Bench!Init, TypesInv, Bench!Missing
<1>5. RunningInv
  BY <1>1 DEF Bench!Init, RunningInv
<1> QED
  BY <1>3, <1>4, <1>5 DEF SessionInv

\* What the worker has in hand.
LEMMA CurrentFacts ==
  ASSUME TypesInv, NEW w \in Bench!Workers, assigned[w] # <<>>
  PROVE  /\ Bench!Current(w) \in Commands
         /\ Bench!Current(w).out \in Bench!Outputs(driver)
         /\ Bench!Current(w) \in Elements(assigned[w])
         /\ Tail(assigned[w]) \in Seq(Commands)
         /\ Elements(assigned[w]) = {Bench!Current(w)} \cup Elements(Tail(assigned[w]))
<1>1. assigned[w] \in Seq(Commands)
  BY DEF TypesInv
<1>2. Bench!Current(w) = Head(assigned[w])
  BY DEF Bench!Current
<1>3. /\ Head(assigned[w]) \in Commands /\ Tail(assigned[w]) \in Seq(Commands)
      /\ Head(assigned[w]) \in Elements(assigned[w])
      /\ Elements(assigned[w]) = {Head(assigned[w])} \cup Elements(Tail(assigned[w]))
  BY <1>1, ElementsOfTail
<1> QED
  BY <1>2, <1>3, CommandsHaveFiles

\* No other worker has it, or the same file, in hand.
LEMMA CurrentsApart ==
  ASSUME SessionInv, NEW v \in Bench!Workers, NEW w \in Bench!Workers, v # w,
         assigned[v] # <<>>, assigned[w] # <<>>
  PROVE  Bench!Current(v).out # Bench!Current(w).out
<1>1. /\ Bench!Current(v) \in Elements(assigned[v]) /\ Bench!Current(w) \in Elements(assigned[w])
      /\ Bench!Current(v) \in Commands /\ Bench!Current(w) \in Commands
  BY CurrentFacts DEF SessionInv
<1>2. Bench!Current(v) # Bench!Current(w)
  BY <1>1 DEF SessionInv, ChunksApart
<1> QED
  BY <1>1, <1>2, CommandsAreApart DEF SessionInv, TypesInv

\* A worker takes the next chunk.
LEMMA TakeChunkStays ==
  ASSUME SessionInv, NEW w \in Bench!Workers, Bench!TakeChunk(w)
  PROVE  SessionInv'
<1>1. /\ driver' = driver /\ session' = session /\ running' = running /\ disk' = disk
      /\ failed' = failed /\ assigned[w] = <<>> /\ chunks # <<>>
      /\ assigned' = [assigned EXCEPT ![w] = Head(chunks)]
      /\ chunks' = Tail(chunks)
      /\ Bench!Workers' = Bench!Workers /\ Commands' = Commands
      /\ Bench!Outputs(driver)' = Bench!Outputs(driver)
  BY DEF Bench!TakeChunk, Bench!Workers, Commands
<1>2. TypesInv /\ ChunksApart /\ RunningInv /\ NoneLost
  BY DEF SessionInv
<1>3. /\ chunks \in Seq(Seq(Commands)) /\ assigned \in [Bench!Workers -> Seq(Commands)]
      /\ running \subseteq Bench!Workers
  BY <1>2 DEF TypesInv
<1>4. /\ DOMAIN chunks = 1 .. Len(chunks) /\ Len(chunks) \in Nat \ {0}
      /\ Head(chunks) = chunks[1] /\ Head(chunks) \in Seq(Commands)
      /\ Tail(chunks) \in Seq(Seq(Commands))
      /\ DOMAIN Tail(chunks) = 1 .. Len(chunks) - 1
      /\ \A k \in DOMAIN Tail(chunks) : k + 1 \in DOMAIN chunks /\ Tail(chunks)[k] = chunks[k + 1]
      /\ \A k \in DOMAIN chunks : k # 1 => k - 1 \in DOMAIN Tail(chunks)
                                        /\ chunks[k] = Tail(chunks)[k - 1]
  BY <1>1, <1>3
<1>5. /\ assigned' \in [Bench!Workers -> Seq(Commands)]
      /\ assigned'[w] = chunks[1]
      /\ \A v \in Bench!Workers : v # w => assigned'[v] = assigned[v]
  BY <1>1, <1>3, <1>4
<1>6. TypesInv'
  BY <1>1, <1>2, <1>4, <1>5 DEF TypesInv
<1>7. ChunksApart'
  <2> SUFFICES /\ \A k, l \in DOMAIN Tail(chunks) :
                    k # l => Elements(Tail(chunks)[k]) \cap Elements(Tail(chunks)[l]) = {}
               /\ \A k \in DOMAIN Tail(chunks), v \in Bench!Workers :
                    Elements(Tail(chunks)[k]) \cap Elements(assigned'[v]) = {}
               /\ \A u, v \in Bench!Workers :
                    u # v => Elements(assigned'[u]) \cap Elements(assigned'[v]) = {}
    BY <1>1 DEF ChunksApart
  <2>1. ASSUME NEW k \in DOMAIN Tail(chunks), NEW l \in DOMAIN Tail(chunks), k # l
        PROVE  Elements(Tail(chunks)[k]) \cap Elements(Tail(chunks)[l]) = {}
    <3>1. k + 1 # l + 1
      BY <1>4, <2>1
    <3> QED
      BY <1>2, <1>4, <3>1 DEF ChunksApart
  <2>2. ASSUME NEW k \in DOMAIN Tail(chunks), NEW v \in Bench!Workers
        PROVE  Elements(Tail(chunks)[k]) \cap Elements(assigned'[v]) = {}
    <3>1. k + 1 \in DOMAIN chunks /\ k + 1 # 1 /\ 1 \in DOMAIN chunks
          /\ Tail(chunks)[k] = chunks[k + 1]
      BY <1>4
    <3>2. CASE v = w
      BY <1>2, <1>5, <3>1, <3>2 DEF ChunksApart
    <3>3. CASE v # w
      BY <1>2, <1>5, <3>1, <3>3 DEF ChunksApart
    <3> QED
      BY <3>2, <3>3
  <2>3. ASSUME NEW u \in Bench!Workers, NEW v \in Bench!Workers, u # v
        PROVE  Elements(assigned'[u]) \cap Elements(assigned'[v]) = {}
    <3>0. 1 \in DOMAIN chunks
      BY <1>4
    <3>1. CASE u = w
      BY <1>2, <1>5, <2>3, <3>0, <3>1 DEF ChunksApart
    <3>2. CASE v = w
      BY <1>2, <1>5, <2>3, <3>0, <3>2 DEF ChunksApart
    <3>3. CASE u # w /\ v # w
      BY <1>2, <1>5, <2>3, <3>3 DEF ChunksApart
    <3> QED
      BY <3>1, <3>2, <3>3
  <2> QED
    BY <2>1, <2>2, <2>3
<1>8. RunningInv'
  <2> SUFFICES ASSUME NEW v \in running
               PROVE  /\ assigned'[v] # <<>>
                      /\ disk[Head(assigned'[v]).out].session = session
                      /\ disk[Head(assigned'[v]).out].sim = Head(assigned'[v]).sim
    BY <1>1 DEF RunningInv, Bench!Current
  <2>1. v # w /\ v \in Bench!Workers
    BY <1>1, <1>2, <1>3 DEF RunningInv
  <2> QED
    BY <1>2, <1>5, <2>1 DEF RunningInv, Bench!Current
<1>9. NoneLost'
  <2> SUFFICES ASSUME NEW c \in Commands
               PROVE  \/ \E k \in DOMAIN Tail(chunks) : c \in Elements(Tail(chunks)[k])
                      \/ \E v \in Bench!Workers : c \in Elements(assigned'[v])
                      \/ Finished(c)
    BY <1>1 DEF NoneLost, Finished
  <2>1. CASE \E k \in DOMAIN chunks : c \in Elements(chunks[k])
    <3>1. PICK k \in DOMAIN chunks : c \in Elements(chunks[k])
      BY <2>1
    <3>2. CASE k = 1
      BY <1>5, <3>1, <3>2
    <3>3. CASE k # 1
      BY <1>4, <3>1, <3>3
    <3> QED
      BY <3>2, <3>3
  <2>2. CASE \E v \in Bench!Workers : c \in Elements(assigned[v])
    <3>1. PICK v \in Bench!Workers : c \in Elements(assigned[v])
      BY <2>2
    <3>2. v # w
      BY <1>1, <3>1, ElementsOfNone
    <3> QED
      BY <1>5, <3>1, <3>2
  <2>3. CASE Finished(c)
    BY <2>3
  <2> QED
    BY <1>2, <2>1, <2>2, <2>3 DEF NoneLost
<1> QED
  BY <1>6, <1>7, <1>8, <1>9 DEF SessionInv

\* A worker starts a command, or the command prints: its file changes.
LEMMA FileStepStays ==
  ASSUME SessionInv, NEW w \in Bench!Workers, assigned[w] # <<>>,
         UNCHANGED <<driver, session, chunks, assigned, failed>>,
         running' = running \cup {w},
         NEW results,
         disk' = [disk EXCEPT ![Bench!Current(w).out] =
                    [session |-> session, sim |-> Bench!Current(w).sim, results |-> results]]
  PROVE  SessionInv'
<1> DEFINE cur == Bench!Current(w)
<1>1. /\ TypesInv /\ ChunksApart /\ RunningInv /\ NoneLost
      /\ Bench!Workers' = Bench!Workers /\ Commands' = Commands
      /\ Bench!Outputs(driver)' = Bench!Outputs(driver)
  BY DEF SessionInv, Bench!Workers, Commands
<1>2. /\ cur \in Commands /\ cur.out \in Bench!Outputs(driver) /\ cur \in Elements(assigned[w])
  BY <1>1, CurrentFacts
<1>3. /\ disk = [out \in Bench!Outputs(driver) |-> disk[out]]
      /\ running \subseteq Bench!Workers /\ driver \in Bench!Drivers
      /\ \A out \in Bench!Outputs(driver) :
           disk[out] = [session |-> disk[out].session, sim |-> disk[out].sim,
                        results |-> disk[out].results]
  BY <1>1 DEF TypesInv
<1>4. /\ disk' = [out \in Bench!Outputs(driver) |-> disk'[out]]
      /\ disk'[cur.out] = [session |-> session, sim |-> cur.sim, results |-> results]
      /\ \A out \in Bench!Outputs(driver) : out # cur.out => disk'[out] = disk[out]
  BY <1>2, <1>3
<1> HIDE DEF cur
<1>5. \A out \in Bench!Outputs(driver) :
        disk'[out] = [session |-> disk'[out].session, sim |-> disk'[out].sim,
                      results |-> disk'[out].results]
  <2> SUFFICES ASSUME NEW out \in Bench!Outputs(driver)
               PROVE  disk'[out] = [session |-> disk'[out].session, sim |-> disk'[out].sim,
                                    results |-> disk'[out].results]
    OBVIOUS
  <2>1. CASE out = cur.out
    BY <1>4, <2>1
  <2>2. CASE out # cur.out
    BY <1>3, <1>4, <2>2
  <2> QED
    BY <2>1, <2>2
<1>6. TypesInv'
  BY <1>1, <1>3, <1>4, <1>5 DEF TypesInv
<1>7. ChunksApart'
  BY <1>1 DEF ChunksApart
<1>8. RunningInv'
  <2> SUFFICES ASSUME NEW v \in running \cup {w}
               PROVE  /\ assigned[v] # <<>>
                      /\ disk'[Head(assigned[v]).out].session = session
                      /\ disk'[Head(assigned[v]).out].sim = Head(assigned[v]).sim
    BY DEF RunningInv, Bench!Current
  <2>1. CASE v = w
    BY <1>4, <2>1 DEF cur, Bench!Current
  <2>2. CASE v # w
    <3>1. v \in Bench!Workers /\ v \in running /\ assigned[v] # <<>>
      BY <1>1, <1>3, <2>2 DEF RunningInv
    <3>2. /\ Bench!Current(v).out # cur.out
          /\ Bench!Current(v).out \in Bench!Outputs(driver)
      BY <1>1, <2>2, <3>1, CurrentsApart, CurrentFacts DEF cur
    <3>3. disk'[Bench!Current(v).out] = disk[Bench!Current(v).out]
      BY <1>4, <3>2
    <3>4. /\ disk[Bench!Current(v).out].session = session
          /\ disk[Bench!Current(v).out].sim = Bench!Current(v).sim
      BY <1>1, <3>1 DEF RunningInv
    <3> QED
      BY <3>1, <3>3, <3>4 DEF Bench!Current
  <2> QED
    BY <2>1, <2>2
<1>9. NoneLost'
  <2> SUFFICES ASSUME NEW c \in Commands
               PROVE  \/ \E k \in DOMAIN chunks : c \in Elements(chunks[k])
                      \/ \E v \in Bench!Workers : c \in Elements(assigned[v])
                      \/ Finished(c)'
    BY <1>1 DEF NoneLost
  <2>1. CASE c = cur
    BY <1>2, <2>1
  <2>2. CASE c # cur /\ Finished(c)
    <3>1. c.out # cur.out /\ c.out \in Bench!Outputs(driver)
      BY <1>2, <1>3, <2>2, CommandsAreApart, CommandsHaveFiles
    <3> QED
      BY <1>4, <2>2, <3>1 DEF Finished
  <2> QED
    BY <1>1, <2>1, <2>2 DEF NoneLost
<1> QED
  BY <1>6, <1>7, <1>8, <1>9 DEF SessionInv

\* A command ends: its results are in its file, or it has failed.
LEMMA EndStays ==
  ASSUME SessionInv, NEW w \in running, Bench!Done(w),
         failed \subseteq failed',
         disk' = disk \/ disk' = [disk EXCEPT ![Bench!Current(w).out].results = "all"],
         \/ Bench!Current(w).out \in failed'
         \/ disk' = [disk EXCEPT ![Bench!Current(w).out].results = "all"]
  PROVE  SessionInv'
<1> DEFINE cur == Bench!Current(w)
<1>1. /\ TypesInv /\ ChunksApart /\ RunningInv /\ NoneLost
      /\ driver' = driver /\ session' = session /\ chunks' = chunks
      /\ running' = running \ {w}
      /\ assigned' = [assigned EXCEPT ![w] = Tail(assigned[w])]
      /\ Bench!Workers' = Bench!Workers /\ Commands' = Commands
      /\ Bench!Outputs(driver)' = Bench!Outputs(driver)
  BY DEF SessionInv, Bench!Done, Bench!Workers, Commands
<1>2. /\ disk = [out \in Bench!Outputs(driver) |-> disk[out]]
      /\ running \subseteq Bench!Workers /\ driver \in Bench!Drivers
      /\ assigned \in [Bench!Workers -> Seq(Commands)]
      /\ \A out \in Bench!Outputs(driver) :
           disk[out] = [session |-> disk[out].session, sim |-> disk[out].sim,
                        results |-> disk[out].results]
  BY <1>1 DEF TypesInv
<1>3. /\ w \in Bench!Workers /\ assigned[w] # <<>>
      /\ disk[cur.out].session = session /\ disk[cur.out].sim = cur.sim
  BY <1>1, <1>2 DEF RunningInv
<1>4. /\ cur \in Commands /\ cur.out \in Bench!Outputs(driver)
      /\ Tail(assigned[w]) \in Seq(Commands)
      /\ Elements(assigned[w]) = {cur} \cup Elements(Tail(assigned[w]))
  BY <1>1, <1>3, CurrentFacts
<1>5. /\ disk' = [out \in Bench!Outputs(driver) |-> disk'[out]]
      /\ disk'[cur.out] = [session |-> session, sim |-> cur.sim, results |-> disk'[cur.out].results]
      /\ cur.out \in failed' \/ disk'[cur.out].results = "all"
      /\ \A out \in Bench!Outputs(driver) : out # cur.out => disk'[out] = disk[out]
  <2>1. CASE disk' = disk /\ cur.out \in failed'
    BY <1>2, <1>3, <1>4, <2>1
  <2>2. CASE disk' = [disk EXCEPT ![cur.out].results = "all"]
    <3>1. disk' = [disk EXCEPT ![cur.out] = [disk[cur.out] EXCEPT !.results = "all"]]
      BY <2>2
    <3> DEFINE file == disk[cur.out]
    <3>11. file = [session |-> file.session, sim |-> file.sim, results |-> file.results]
      BY <1>2, <1>4, Zenon
    <3>12. file.session = session /\ file.sim = cur.sim
      BY <1>3
    <3> HIDE DEF file
    <3>13. [file EXCEPT !.results = "all"]
             = [session |-> file.session, sim |-> file.sim, results |-> "all"]
      BY <3>11
    <3>2. [disk[cur.out] EXCEPT !.results = "all"]
            = [session |-> session, sim |-> cur.sim, results |-> "all"]
      BY <3>12, <3>13 DEF file
    <3> HIDE DEF cur
    <3> QED
      BY <1>2, <1>4, <3>1, <3>2
  <2> QED
    BY <2>1, <2>2
<1>6. /\ assigned' \in [Bench!Workers -> Seq(Commands)]
      /\ assigned'[w] = Tail(assigned[w])
      /\ \A v \in Bench!Workers : v # w => assigned'[v] = assigned[v]
  BY <1>1, <1>2, <1>3, <1>4
<1> HIDE DEF cur
<1>7. TypesInv'
  <2>1. \A out \in Bench!Outputs(driver) :
          disk'[out] = [session |-> disk'[out].session, sim |-> disk'[out].sim,
                        results |-> disk'[out].results]
    <3> SUFFICES ASSUME NEW out \in Bench!Outputs(driver)
                 PROVE  disk'[out] = [session |-> disk'[out].session, sim |-> disk'[out].sim,
                                      results |-> disk'[out].results]
      OBVIOUS
    <3>1. CASE out = cur.out
      BY <1>5, <3>1
    <3>2. CASE out # cur.out
      BY <1>2, <1>5, <3>2
    <3> QED
      BY <3>1, <3>2
  <2> QED
    BY <1>1, <1>2, <1>5, <1>6, <2>1 DEF TypesInv
<1>8. \A v \in Bench!Workers : Elements(assigned'[v]) \subseteq Elements(assigned[v])
  BY <1>4, <1>6
<1>9. ChunksApart'
  BY <1>1, <1>8 DEF ChunksApart
<1>10. RunningInv'
  <2> SUFFICES ASSUME NEW v \in running, v # w
               PROVE  /\ assigned'[v] # <<>>
                      /\ disk'[Head(assigned'[v]).out].session = session
                      /\ disk'[Head(assigned'[v]).out].sim = Head(assigned'[v]).sim
    BY <1>1 DEF RunningInv, Bench!Current
  <2>1. v \in Bench!Workers /\ assigned[v] # <<>> /\ assigned'[v] = assigned[v]
    BY <1>1, <1>2, <1>6 DEF RunningInv
  <2>2. /\ Bench!Current(v).out # cur.out
        /\ Bench!Current(v).out \in Bench!Outputs(driver)
    BY <1>1, <1>3, <2>1, CurrentsApart, CurrentFacts DEF cur
  <2>3. disk'[Bench!Current(v).out] = disk[Bench!Current(v).out]
    BY <1>5, <2>2
  <2>4. /\ disk[Bench!Current(v).out].session = session
        /\ disk[Bench!Current(v).out].sim = Bench!Current(v).sim
    BY <1>1 DEF RunningInv
  <2> QED
    BY <2>1, <2>3, <2>4 DEF Bench!Current
<1>11. NoneLost'
  <2> SUFFICES ASSUME NEW c \in Commands
               PROVE  \/ \E k \in DOMAIN chunks : c \in Elements(chunks[k])
                      \/ \E v \in Bench!Workers : c \in Elements(assigned'[v])
                      \/ Finished(c)'
    BY <1>1 DEF NoneLost
  <2>1. CASE c = cur
    BY <1>1, <1>5, <2>1 DEF Finished
  <2>2. CASE c # cur /\ Finished(c)
    <3>1. c.out # cur.out /\ c.out \in Bench!Outputs(driver)
      BY <1>2, <1>4, <2>2, CommandsAreApart, CommandsHaveFiles
    <3> QED
      BY <1>1, <1>5, <2>2, <3>1 DEF Finished
  <2>3. CASE c # cur /\ \E v \in Bench!Workers : c \in Elements(assigned[v])
    <3>1. PICK v \in Bench!Workers : c \in Elements(assigned[v])
      BY <2>3
    <3>2. c \in Elements(assigned'[v])
      <4>1. CASE v = w
        BY <1>4, <1>6, <2>3, <3>1, <4>1
      <4>2. CASE v # w
        BY <1>6, <3>1, <4>2
      <4> QED
        BY <4>1, <4>2
    <3> QED
      BY <3>2
  <2> QED
    BY <1>1, <2>1, <2>2, <2>3 DEF NoneLost
<1> QED
  BY <1>7, <1>9, <1>10, <1>11 DEF SessionInv

\* The driver is run again.
LEMMA RunAgainStays ==
  ASSUME SessionInv, Bench!RunAgain
  PROVE  SessionInv'
<1>1. /\ TypesInv
      /\ driver' = driver /\ session' = session + 1 /\ assigned' = assigned
      /\ running' = running /\ disk' = disk /\ chunks' = Bench!ChunksOf(driver)
      /\ \A w \in Bench!Workers : assigned[w] = <<>>
      /\ Bench!Workers' = Bench!Workers /\ Commands' = Commands
      /\ Bench!Outputs(driver)' = Bench!Outputs(driver)
  BY DEF SessionInv, Bench!RunAgain, Bench!Workers, Commands, Bench!Idle
<1>2. /\ Bench!ChunksOf(driver) \in Seq(Seq(Commands))
      /\ \A k, l \in DOMAIN Bench!ChunksOf(driver) :
           k # l => Elements(Bench!ChunksOf(driver)[k]) \cap Elements(Bench!ChunksOf(driver)[l]) = {}
      /\ \A c \in Commands : \E k \in DOMAIN Bench!ChunksOf(driver) :
           c \in Elements(Bench!ChunksOf(driver)[k])
  BY <1>1, ChunksFacts DEF Commands, TypesInv
<1>21. \A w \in Bench!Workers : Elements(assigned[w]) = {}
  BY <1>1, ElementsOfNone
<1>3. chunks' \in Seq(Seq(Commands)) /\ ChunksApart' /\ NoneLost'
  BY <1>1, <1>2, <1>21 DEF ChunksApart, NoneLost
<1>4. TypesInv'
  BY <1>1, <1>3 DEF TypesInv
<1>5. running = {}
  BY <1>1 DEF SessionInv, TypesInv, RunningInv
<1>6. RunningInv'
  BY <1>1, <1>5 DEF RunningInv
<1> QED
  BY <1>3, <1>4, <1>6 DEF SessionInv

\* Every step of a session keeps the invariant.
LEMMA SessionStays ==
  ASSUME SessionInv, [Bench!Next]_benchmarkVars
  PROVE  SessionInv'
<1>0. TypesInv /\ RunningInv
  BY DEF SessionInv
<1>1. ASSUME NEW w \in Bench!Workers, Bench!WorkerStep(w)
      PROVE  SessionInv'
  <2>1. CASE Bench!TakeChunk(w)
    BY <2>1, TakeChunkStays
  <2>2. CASE Bench!StartCommand(w)
    BY <2>2, FileStepStays DEF Bench!StartCommand
  <2>3. CASE Bench!PrintPart(w)
    <3> DEFINE cur == Bench!Current(w)
               file == disk[cur.out]
    <3>1. w \in running /\ assigned[w] # <<>> /\ running' = running \cup {w}
          /\ UNCHANGED <<driver, session, chunks, assigned, failed>>
      BY <1>0, <2>3 DEF Bench!PrintPart, RunningInv
    <3>2. cur.out \in Bench!Outputs(driver)
      BY <1>0, <3>1, CurrentFacts
    <3>3. /\ file = [session |-> file.session, sim |-> file.sim, results |-> file.results]
          /\ file.session = session /\ file.sim = cur.sim
      BY <1>0, <3>1, <3>2, Zenon DEF TypesInv, RunningInv
    <3>4. disk' = [disk EXCEPT ![cur.out] = [file EXCEPT !.results = "part"]]
      BY <2>3 DEF Bench!PrintPart
    <3> HIDE DEF file
    <3>5. [file EXCEPT !.results = "part"]
            = [session |-> file.session, sim |-> file.sim, results |-> "part"]
      BY <3>3
    <3>6. disk' = [disk EXCEPT ![cur.out] = [session |-> session, sim |-> cur.sim, results |-> "part"]]
      BY <3>3, <3>4, <3>5
    <3> QED
      BY <3>1, <3>6, FileStepStays
  <2>4. CASE Bench!FinishCommand(w)
    <3>1. /\ w \in running /\ Bench!Done(w) /\ failed' = failed
          /\ disk' = [disk EXCEPT ![Bench!Current(w).out].results = "all"]
      BY <2>4 DEF Bench!FinishCommand
    <3>2. failed \subseteq failed'
      BY <3>1
    <3> QED
      BY <3>1, <3>2, EndStays
  <2>5. CASE Bench!FailCommand(w)
    <3>1. /\ w \in running /\ Bench!Done(w) /\ failed' = failed \cup {Bench!Current(w).out}
          /\ disk' = disk
      BY <2>5 DEF Bench!FailCommand
    <3>2. failed \subseteq failed' /\ Bench!Current(w).out \in failed'
      BY <3>1
    <3> QED
      BY <3>1, <3>2, EndStays
  <2> QED
    BY <1>1, <2>1, <2>2, <2>3, <2>4, <2>5 DEF Bench!WorkerStep
<1>2. CASE Bench!RunAgain
  BY <1>2, RunAgainStays
<1>3. CASE Bench!Stop \/ UNCHANGED benchmarkVars
  <2>1. UNCHANGED <<driver, session, chunks, assigned, running, disk, failed>>
    BY <1>3 DEF Bench!Stop, Bench!vars, benchmarkVars
  <2>2. /\ Bench!Workers' = Bench!Workers /\ Commands' = Commands
        /\ Bench!Outputs(driver)' = Bench!Outputs(driver)
    BY <2>1 DEF Bench!Workers, Commands
  <2>3. TypesInv'
    BY <1>0, <2>1, <2>2 DEF TypesInv
  <2>4. ChunksApart'
    BY <2>1, <2>2 DEF SessionInv, ChunksApart
  <2>5. RunningInv'
    BY <1>0, <2>1 DEF RunningInv, Bench!Current
  <2>6. NoneLost'
    BY <2>1, <2>2 DEF SessionInv, NoneLost, Finished
  <2> QED
    BY <2>3, <2>4, <2>5, <2>6 DEF SessionInv
<1> QED
  BY <1>1, <1>2, <1>3 DEF Bench!Next

\* So does every step of the script, whichever of the three it is.
LEMMA BenchInvStays == BenchInv /\ [Next]_vars => BenchInv'
<1> SUFFICES ASSUME BenchInv, [Next]_vars, script' = "benchmark"
             PROVE  SessionInv'
  BY DEF BenchInv
<1>1. script = "benchmark" /\ [Bench!Next]_benchmarkVars
  BY DEF Next, BenchmarkStep, DownloadStep, CycleStep, vars
<1> QED
  BY <1>1, SessionStays DEF BenchInv

\* Simulations that run together write to files of their own.
LEMMA ApartFromInvariant == BenchInv => SimulationsApart
<1> SUFFICES ASSUME SessionInv, NEW v \in running, NEW w \in running, v # w
             PROVE  /\ Bench!Current(v).out # Bench!Current(w).out
                    /\ driver.name # SharesLogs =>
                         Bench!LogFile(Bench!Current(v).sim) # Bench!LogFile(Bench!Current(w).sim)
  BY DEF BenchInv, SimulationsApart
<1>1. /\ v \in Bench!Workers /\ w \in Bench!Workers /\ assigned[v] # <<>> /\ assigned[w] # <<>>
      /\ TypesInv /\ driver \in Bench!Drivers
  BY DEF SessionInv, TypesInv, RunningInv
<1>2. Bench!Current(v).out # Bench!Current(w).out
  BY <1>1, CurrentsApart
<1>3. PICK j \in DOMAIN driver.cmds, k \in DOMAIN driver.cmds :
         Bench!Current(v) = driver.cmds[j] /\ Bench!Current(w) = driver.cmds[k]
  BY <1>1, CurrentFacts DEF Commands, Elements
<1>4. ASSUME driver.name # SharesLogs
      PROVE  Bench!LogFile(Bench!Current(v).sim) # Bench!LogFile(Bench!Current(w).sim)
  <2>1. driver.pool # 1
    <3>1. CASE driver.pool = 1
      BY <1>1, <3>1, WorkersFacts DEF Bench!Workers
    <3> QED
      BY <3>1
  <2>2. LogsApart(driver.cmds)
    BY <1>1, <1>4, <2>1, DriverFacts
  <2> QED
    BY <1>2, <1>3, <2>2 DEF LogsApart
<1> QED
  BY <1>2, <1>4

\* The driver's commands never write to the same file, nor to the same log
\* files, at the same time: SimulationsApart, for every list of graphs and
\* settings, every size of the pool and every number of sessions.
THEOREM SimulationsStayApart == Spec => []SimulationsApart
<1>1. Init => BenchInv
  BY BenchInvInit
<1>2. BenchInv /\ [Next]_vars => BenchInv'
  BY BenchInvStays
<1>3. BenchInv => SimulationsApart
  BY ApartFromInvariant
<1> QED
  BY <1>1, <1>2, <1>3, PTL DEF Spec

-----------------------------------------------------------------------------
(***************************************************************************)
(* The readers.                                                            *)
(***************************************************************************)

\* The elements of a list, as the readers take them.
LEMMA ElementsAsSet == \A list : Bench!ToSet(list) = Elements(list)
  BY DEF Bench!ToSet, Elements

\* A file that a reader opens is the output of a command of the driver beside
\* it that prints what the reader looks for, or that driver does not write it.
Readable(d, entry) ==
    \/ \E c \in Elements(d.cmds) : c.out = entry.out /\ entry.fields \subseteq Bench!Printed(c.sim.fast)
    \/ Unproduced(d.name, entry.out) /\ entry.out \notin Bench!Outputs(d)

\* A command that sends its results to the file.
LEMMA SentIsReadable ==
  ASSUME NEW d, NEW out, NEW fast, NEW fields, Sends(d.cmds, out, fast),
         fields \subseteq Bench!Printed(fast)
  PROVE  Readable(d, Bench!Entry(out, fields))
  BY DEF Sends, Readable, Elements, Bench!Entry

\* A file with another name than all outputs.
LEMMA UnproducedIsReadable ==
  ASSUME NEW d, NEW out, NEW fields, Unproduced(d.name, out),
         \A k \in DOMAIN d.cmds : d.cmds[k].out # out
  PROVE  Readable(d, Bench!Entry(out, fields))
  BY DEF Readable, Bench!Outputs, Bench!Entry

\* get_histo.py, beside a driver whose file names have other lengths.
LEMMA HistoIsReadable ==
  ASSUME NEW d, \A k \in DOMAIN d.cmds : Len(d.cmds[k].out) # 2,
         NEW entry \in Bench!HistoReader.entries
  PROVE  Readable(d, entry)
<1>1. PICK g : entry = Bench!Entry(<<g, "sched.out">>, {"histo for query"})
  BY DEF Bench!HistoReader
<1> DEFINE out == <<g, "sched.out">>
<1>2. Len(out) = 2 /\ out[2] = "sched.out"
  OBVIOUS
<1>3. Unproduced(d.name, out)
  BY <1>2 DEF Unproduced
<1>4. \A k \in DOMAIN d.cmds : d.cmds[k].out # out
  BY <1>2
<1> HIDE DEF out
<1>5. Readable(d, Bench!Entry(out, {"histo for query"}))
  BY <1>3, <1>4, UnproducedIsReadable
<1> QED
  BY <1>1, <1>5 DEF out

\* What the results are called.
LEMMA PrintedFacts ==
  /\ {"cycle", "input_traffic"} \subseteq Bench!Printed(TRUE)
  /\ {"total_rounds_in_agg"} \subseteq Bench!Printed(TRUE)
  /\ {"total_cycles"} \subseteq Bench!Printed(FALSE)
  /\ {"total_cycles", "input_traffic"} \subseteq Bench!Printed(FALSE)
  BY DEF Bench!Printed

\* get.py of run_sched.
LEMMA SchedIsReadable ==
  ASSUME NEW entry \in Bench!SchedReader.entries
  PROVE  Readable(Bench!SchedDriver, entry)
<1> DEFINE d == Bench!SchedDriver
           methods == {"-enable-ideal-selection", "enable-sequential-selection", ""}
<1>1. Bench!ToSet(Bench!SchedMethods) = methods
  <2>1. /\ DOMAIN Bench!SchedMethods = {1, 2, 3}
        /\ Bench!SchedMethods[1] = "-enable-ideal-selection"
        /\ Bench!SchedMethods[2] = "enable-sequential-selection"
        /\ Bench!SchedMethods[3] = ""
    BY DEF Bench!SchedMethods
  <2> QED
    BY <2>1 DEF Bench!ToSet
<1> HIDE DEF methods
<1> DEFINE G == Bench!ToSet(Workloads)
           B == Bench!ToSet(Buffers)
           M == Bench!ToSet(Bench!SchedMethods)
           E(m) == Bench!ToSet(Bench!SchedDividers(m))
           of(g, b, e, m) == Bench!Entry(<<g, b, e, m, "sched.out">>, {"total_rounds_in_agg"})
<1>2. Bench!SchedReader.entries = UNION {{of(g, b, e, m) : g \in G, b \in B, e \in E(m)} : m \in M}
  BY DEF Bench!SchedReader
<1> HIDE DEF G, B, M, E, of
<1>30. PICK m \in M : entry \in {of(g, b, e, m) : g \in G, b \in B, e \in E(m)}
  BY <1>2
<1>31. PICK g \in G, b \in B, e \in E(m) : entry = of(g, b, e, m)
  BY <1>30
<1>3. /\ m \in methods /\ g \in Elements(Workloads) /\ b \in Elements(Buffers)
      /\ e \in Elements(Bench!SchedDividers(m))
  BY <1>1, <1>30, <1>31, ElementsAsSet DEF G, B, M, E
<1>4. Sends(d.cmds, <<g, b, e, m, "sched.out">>, TRUE)
  BY <1>3, SchedCommandsGood DEF methods, Bench!SchedDriver
<1> QED
  BY <1>31, <1>4, SentIsReadable, PrintedFacts DEF of

\* get.py of run_outer_queue: the files of another driver, whose names are longer.
LEMMA OuterIsReadable ==
  ASSUME NEW entry \in Bench!OuterReader.entries
  PROVE  Readable(Bench!OuterListDriver, entry)
<1> DEFINE d == Bench!OuterListDriver
<1>1. \A k \in DOMAIN d.cmds :
        \E g \in Elements(LargeGraphs), m \in {"sliding", "dense", "seqoldhash", "seq"} :
           d.cmds[k].out = <<g, m, "sched.out">>
  BY OuterListCommandsGood DEF Bench!OuterListDriver
<1>2. d.name = "run_outer_queue/run-outer-list.py"
  BY DEF Bench!OuterListDriver
<1> HIDE DEF d
<1> DEFINE G == Bench!ToSet(Workloads)
           B == Bench!ToSet(Buffers)
           M == Bench!ToSet(Bench!SchedMethods)
           E(m) == Bench!ToSet(Bench!SchedDividers(m))
           of(g, b, e, m) == Bench!Entry(<<g, b, e, m, "sched.out">>, {"total_rounds_in_agg"})
<1>3. PICK g, b, e, m :
        entry = Bench!Entry(<<g, b, e, m, "sched.out">>, {"total_rounds_in_agg"})
  <2>1. Bench!OuterReader.entries =
          UNION {{of(g, b, e, m) : g \in G, b \in B, e \in E(m)} : m \in M}
    BY DEF Bench!OuterReader, Bench!SchedReader
  <2> HIDE DEF G, B, M, E, of
  <2>2. PICK m \in M : entry \in {of(g, b, e, m) : g \in G, b \in B, e \in E(m)}
    BY <2>1
  <2>3. PICK g \in G, b \in B, e \in E(m) : entry = of(g, b, e, m)
    BY <2>2
  <2> QED
    BY <2>3 DEF of
<1> DEFINE out == <<g, b, e, m, "sched.out">>
<1>4. Len(out) = 5
  OBVIOUS
<1>5. Unproduced(d.name, out)
  BY <1>2, <1>4 DEF Unproduced
<1>6. ASSUME NEW k \in DOMAIN d.cmds
      PROVE  d.cmds[k].out # out
  <2>1. PICK h \in Elements(LargeGraphs), n \in {"sliding", "dense", "seqoldhash", "seq"} :
           d.cmds[k].out = <<h, n, "sched.out">>
    BY <1>1
  <2>2. Len(<<h, n, "sched.out">>) = 3
    OBVIOUS
  <2> QED
    BY <1>4, <2>1, <2>2
<1> HIDE DEF out
<1>7. Readable(d, Bench!Entry(out, {"total_rounds_in_agg"}))
  BY <1>5, <1>6, UnproducedIsReadable
<1> QED
  BY <1>3, <1>7 DEF d, out

\* get2.py of run_outer_queue: the outputs of bfs are those of no command.
LEMMA OuterListIsReadable ==
  ASSUME NEW entry \in Bench!OuterListReader.entries
  PROVE  Readable(Bench!OuterListDriver, entry)
<1> DEFINE d == Bench!OuterListDriver
<1>1. d.cmds = Bench!OuterListCommands
  BY DEF Bench!OuterListDriver
<1>2. /\ \A k \in DOMAIN d.cmds :
           \E g \in Elements(LargeGraphs), m \in {"sliding", "dense", "seqoldhash", "seq"} :
              d.cmds[k].out = <<g, m, "sched.out">>
      /\ \A g \in Elements(LargeGraphs), m \in {"sliding", "dense", "seqoldhash", "seq"} :
            Sends(d.cmds, <<g, m, "sched.out">>, m \in {"seqoldhash", "seq"})
  BY <1>1, OuterListCommandsGood
<1>3. Bench!ToSet(LargeGraphs) = Elements(LargeGraphs)
  BY ElementsAsSet
<1> HIDE DEF d
<1>4. CASE \E g \in Elements(LargeGraphs), m \in {"sliding", "dense"} :
              entry = Bench!Entry(<<g, m, "sched.out">>, {"total_cycles", "input_traffic"})
  <2>1. PICK g \in Elements(LargeGraphs), m \in {"sliding", "dense"} :
              entry = Bench!Entry(<<g, m, "sched.out">>, {"total_cycles", "input_traffic"})
    BY <1>4
  <2>2. m \in {"sliding", "dense", "seqoldhash", "seq"} /\ (m \in {"seqoldhash", "seq"}) = FALSE
    BY <2>1
  <2>3. Sends(d.cmds, <<g, m, "sched.out">>, FALSE)
    BY <1>2, <2>2
  <2> QED
    BY <2>1, <2>3, SentIsReadable, PrintedFacts DEF d
<1>5. CASE \E g \in Elements(LargeGraphs), m \in {"seqoldhash", "seq"} :
              entry = Bench!Entry(<<g, m, "sched.out">>, {"cycle", "input_traffic"})
  <2>1. PICK g \in Elements(LargeGraphs), m \in {"seqoldhash", "seq"} :
              entry = Bench!Entry(<<g, m, "sched.out">>, {"cycle", "input_traffic"})
    BY <1>5
  <2>2. m \in {"sliding", "dense", "seqoldhash", "seq"} /\ (m \in {"seqoldhash", "seq"}) = TRUE
    BY <2>1
  <2>3. Sends(d.cmds, <<g, m, "sched.out">>, TRUE)
    BY <1>2, <2>2
  <2> QED
    BY <2>1, <2>3, SentIsReadable, PrintedFacts DEF d
<1>6. CASE \E g \in Elements(LargeGraphs) :
              entry = Bench!Entry(<<g, "bfs", "sched.out">>, {"cycle", "input_traffic"})
  <2>1. PICK g \in Elements(LargeGraphs) :
              entry = Bench!Entry(<<g, "bfs", "sched.out">>, {"cycle", "input_traffic"})
    BY <1>6
  <2> DEFINE out == <<g, "bfs", "sched.out">>
  <2>2. Unproduced(d.name, out)
    BY DEF Unproduced
  <2>3. ASSUME NEW k \in DOMAIN d.cmds
        PROVE  d.cmds[k].out # out
    <3>1. PICK h \in Elements(LargeGraphs), m \in {"sliding", "dense", "seqoldhash", "seq"} :
             d.cmds[k].out = <<h, m, "sched.out">>
      BY <1>2
    <3>2. m # "bfs"
      OBVIOUS
    <3> QED
      BY <3>1, <3>2
  <2> HIDE DEF out
  <2>4. Readable(d, Bench!Entry(out, {"cycle", "input_traffic"}))
    BY <2>2, <2>3, UnproducedIsReadable
  <2> QED
    BY <2>1, <2>4 DEF d, out
<1> QED
  <2>1. entry \in {Bench!Entry(<<g, m, "sched.out">>, {"total_cycles", "input_traffic"}) :
                      g \in Elements(LargeGraphs), m \in {"sliding", "dense"}}
                 \cup
                 {Bench!Entry(<<g, m, "sched.out">>, {"cycle", "input_traffic"}) :
                      g \in Elements(LargeGraphs), m \in {"seqoldhash", "seq", "bfs"}}
    BY <1>3 DEF Bench!OuterListReader
  <2>2. CASE \E g \in Elements(LargeGraphs), m \in {"seqoldhash", "seq", "bfs"} :
               entry = Bench!Entry(<<g, m, "sched.out">>, {"cycle", "input_traffic"})
    BY <1>5, <1>6, <2>2
  <2> QED
    BY <1>4, <2>1, <2>2

\* get.py of run_cont, and get.py, whose graph no list has.
LEMMA ContIsReadable ==
  ASSUME NEW entry \in Bench!ContReader.entries \cup Bench!TrafficReader.entries
  PROVE  Readable(Bench!ContDriver, entry)
<1> DEFINE d == Bench!ContDriver
<1>1. /\ \A k \in DOMAIN d.cmds : \E g \in Elements(Workloads) : d.cmds[k].out = <<g, "cont.out">>
      /\ \A g \in Elements(Workloads) : Sends(d.cmds, <<g, "cont.out">>, FALSE)
  <2> DEFINE suffix == "cont.out"
             cmds == Bench!WindowCommands(Workloads, "sliding", suffix)
  <2>0. d.cmds = cmds /\ IsList(Workloads)
    BY ListsAssumption DEF Bench!ContDriver
  <2> HIDE DEF suffix
  <2>1. \A g \in Elements(Workloads) : Sends(cmds, <<g, suffix>>, FALSE)
    BY <2>0, WindowCommandsGood
  <2>2. \A k \in DOMAIN cmds : k \in DOMAIN Workloads /\ cmds[k].out = <<Workloads[k], suffix>>
    BY DEF Bench!WindowCommands, Bench!Command
  <2>3. \A k \in DOMAIN cmds : \E g \in Elements(Workloads) : cmds[k].out = <<g, suffix>>
    BY <2>2 DEF Elements
  <2> HIDE DEF cmds, d
  <2> QED
    BY <2>0, <2>1, <2>3, Zenon DEF suffix
<1> HIDE DEF d
<1>2. CASE entry \in Bench!ContReader.entries
  <2>1. PICK g \in Elements(Workloads) : entry = Bench!Entry(<<g, "cont.out">>, {"total_cycles"})
    BY <1>2, ElementsAsSet DEF Bench!ContReader
  <2> QED
    BY <1>1, <2>1, SentIsReadable, PrintedFacts DEF d
<1>3. CASE entry \in Bench!TrafficReader.entries
  <2> DEFINE out == <<Bench!TrafficGraph, "cont.out">>
  <2>1. entry = Bench!Entry(out, {"total_cycles", "traffic"})
    BY <1>3 DEF Bench!TrafficReader
  <2>2. Unproduced(d.name, out)
    BY DEF Unproduced
  <2>3. ASSUME NEW k \in DOMAIN d.cmds
        PROVE  d.cmds[k].out # out
    <3>1. PICK g \in Elements(Workloads) : d.cmds[k].out = <<g, "cont.out">>
      BY <1>1
    <3>2. g # Bench!TrafficGraph
      BY ListsAssumption DEF Elements
    <3> QED
      BY <3>1, <3>2
  <2> HIDE DEF out
  <2>4. Readable(d, Bench!Entry(out, {"total_cycles", "traffic"}))
    BY <2>2, <2>3, UnproducedIsReadable
  <2> QED
    BY <2>1, <2>4 DEF d
<1> QED
  BY <1>2, <1>3

\* get.py of run_dense.
LEMMA DenseIsReadable ==
  ASSUME NEW entry \in Bench!DenseReader.entries
  PROVE  Readable(Bench!DenseDriver, entry)
<1>1. \A g \in Elements(Workloads) : Sends(Bench!DenseDriver.cmds, <<g, "dense.out">>, FALSE)
  BY WindowCommandsGood, ListsAssumption DEF Bench!DenseDriver
<1>2. PICK g \in Elements(Workloads) : entry = Bench!Entry(<<g, "dense.out">>, {"total_cycles"})
  BY ElementsAsSet DEF Bench!DenseReader
<1> QED
  BY <1>1, <1>2, SentIsReadable, PrintedFacts

\* get.py of run: files that its driver does not write.
LEMMA BackgroundIsReadable ==
  ASSUME NEW entry \in Bench!BackgroundReader.entries
  PROVE  Readable(Bench!BackgroundDriver, entry)
<1> DEFINE d == Bench!BackgroundDriver
<1>1. \A k \in DOMAIN d.cmds : \E g \in Elements(NewGraphs) :
        d.cmds[k].out = <<g, "results/ramuV0.txt">>
  <2> DEFINE suffix == "results/ramuV0.txt"
             cmds == Bench!WindowCommands(NewGraphs, "sliding", suffix)
  <2>0. d.cmds = cmds /\ IsList(NewGraphs)
    BY ListsAssumption DEF Bench!BackgroundDriver
  <2> HIDE DEF suffix
  <2>2. \A k \in DOMAIN cmds : k \in DOMAIN NewGraphs /\ cmds[k].out = <<NewGraphs[k], suffix>>
    BY DEF Bench!WindowCommands, Bench!Command
  <2>3. \A k \in DOMAIN cmds : \E g \in Elements(NewGraphs) : cmds[k].out = <<g, suffix>>
    BY <2>2 DEF Elements
  <2> HIDE DEF cmds, d
  <2> QED
    BY <2>0, <2>3, Zenon DEF suffix
<1> HIDE DEF d
<1>2. PICK g : entry = Bench!Entry(<<g, "result">>, {"total_cycles"})
  BY DEF Bench!BackgroundReader
<1> DEFINE out == <<g, "result">>
<1>3. Unproduced(d.name, out)
  BY DEF Unproduced
<1>4. ASSUME NEW k \in DOMAIN d.cmds
      PROVE  d.cmds[k].out # out
  <2>1. PICK h \in Elements(NewGraphs) : d.cmds[k].out = <<h, "results/ramuV0.txt">>
    BY <1>1
  <2> QED
    BY <2>1
<1> HIDE DEF out
<1>5. Readable(d, Bench!Entry(out, {"total_cycles"}))
  BY <1>3, <1>4, UnproducedIsReadable
<1> QED
  BY <1>2, <1>5 DEF d, out

\* Every file that a reader beside a driver opens.
LEMMA ReadersRead ==
  ASSUME NEW d \in Bench!Drivers, NEW reader \in ReadersOf(d.name), NEW entry \in reader.entries
  PROVE  Readable(d, entry)
<1> DEFINE sched == "run_sched/run-ramu.py"
           outer == "run_outer_queue/run-outer-list.py"
           cont == "run_cont/run-ramu.py"
           dense == "run_dense/run-ramu.py"
           run == "run/run-ramu.py"
<1>0. /\ ReadersOf(sched) = {Bench!SchedReader, Bench!HistoReader}
      /\ ReadersOf(outer) = {Bench!OuterReader, Bench!OuterListReader, Bench!HistoReader}
      /\ ReadersOf(cont) = {Bench!ContReader, Bench!TrafficReader}
      /\ ReadersOf(dense) = {Bench!DenseReader}
      /\ ReadersOf(run) = {Bench!BackgroundReader}
      /\ \A name : name \notin {sched, outer, cont, dense, run} => ReadersOf(name) = {}
  BY DEF ReadersOf
<1>1. CASE d = Bench!SchedDriver
  <2>1. reader \in {Bench!SchedReader, Bench!HistoReader}
    BY <1>0, <1>1 DEF Bench!SchedDriver
  <2>2. \A k \in DOMAIN d.cmds : Len(d.cmds[k].out) # 2
    <3>1. d.cmds = Bench!SchedCommands
      BY <1>1 DEF Bench!SchedDriver
    <3>2. \A k \in DOMAIN Bench!SchedCommands : Len(Bench!SchedCommands[k].out) = 5
      BY SchedCommandsGood
    <3>3. \A k \in DOMAIN d.cmds : Len(d.cmds[k].out) = 5
      BY <3>1, <3>2, Zenon
    <3> QED
      BY <3>3
  <2> QED
    BY <1>1, <2>1, <2>2, SchedIsReadable, HistoIsReadable
<1>2. CASE d = Bench!OuterListDriver
  <2>1. reader \in {Bench!OuterReader, Bench!OuterListReader, Bench!HistoReader}
    BY <1>0, <1>2 DEF Bench!OuterListDriver
  <2>2. ASSUME NEW k \in DOMAIN d.cmds
        PROVE  Len(d.cmds[k].out) # 2
    <3>1. PICK g \in Elements(LargeGraphs), m \in {"sliding", "dense", "seqoldhash", "seq"} :
             d.cmds[k].out = <<g, m, "sched.out">>
      BY <1>2, OuterListCommandsGood DEF Bench!OuterListDriver
    <3> QED
      BY <3>1
  <2> QED
    BY <1>2, <2>1, <2>2, OuterIsReadable, OuterListIsReadable, HistoIsReadable
<1>3. CASE d = Bench!ContDriver
  <2>1. reader \in {Bench!ContReader, Bench!TrafficReader}
    BY <1>0, <1>3 DEF Bench!ContDriver
  <2> QED
    BY <1>3, <2>1, ContIsReadable
<1>4. CASE d = Bench!DenseDriver
  <2>1. reader \in {Bench!DenseReader}
    BY <1>0, <1>4 DEF Bench!DenseDriver
  <2> QED
    BY <1>4, <2>1, DenseIsReadable
<1>5. CASE d = Bench!BackgroundDriver
  <2>1. reader \in {Bench!BackgroundReader}
    BY <1>0, <1>5 DEF Bench!BackgroundDriver
  <2> QED
    BY <1>5, <2>1, BackgroundIsReadable
<1>6. CASE d \in {Bench!IdealDriver, Bench!SchedIdealDriver, Bench!SchedIdealTest,
                  Bench!SchedSeqTest, Bench!OuterIdealDriver, Bench!OuterSeqDriver}
  <2>1. d.name \notin {sched, outer, cont, dense, run}
    BY <1>6 DEF Bench!IdealDriver, Bench!SchedIdealDriver, Bench!SchedIdealTest,
                Bench!SchedSeqTest, Bench!OuterIdealDriver, Bench!OuterSeqDriver
  <2> QED
    BY <1>0, <2>1, Zenon
<1> QED
  BY <1>1, <1>2, <1>3, <1>4, <1>5, <1>6 DEF Bench!Drivers

\* When the driver has returned and its simulations have ended, every command
\* is done.
LEMMA AllFinished ==
  ASSUME SessionInv, Bench!Returned, Bench!Idle
  PROVE  \A c \in Commands : Finished(c)
<1>1. /\ DOMAIN chunks = {}
      /\ \A w \in Bench!Workers : Elements(assigned[w]) = {}
  BY ElementsOfNone DEF Bench!Returned, Bench!Idle
<1> QED
  BY <1>1 DEF SessionInv, NoneLost

\* Then the readers find the results of this session.
LEMMA ResultsFromInvariant == BenchInv => FinalResultsRead
<1> SUFFICES ASSUME SessionInv, Bench!Returned, Bench!Idle,
                    NEW reader \in ReadersOf(driver.name), NEW entry \in reader.entries
             PROVE  \/ entry.out \in failed
                    \/ /\ Unproduced(driver.name, entry.out)
                       /\ Bench!Reads(reader, entry) \in {{"not_ready"}, {"raises"}}
                    \/ /\ Bench!Reads(reader, entry) = {"result"}
                       /\ disk[entry.out].session = session
  BY DEF BenchInv, FinalResultsRead
<1>1. /\ driver \in Bench!Drivers /\ session \in Nat \ {0}
      /\ DOMAIN disk = Bench!Outputs(driver)
  BY DEF SessionInv, TypesInv
<1>2. CASE \E c \in Commands :
              c.out = entry.out /\ entry.fields \subseteq Bench!Printed(c.sim.fast)
  <2>1. PICK c \in Commands :
           c.out = entry.out /\ entry.fields \subseteq Bench!Printed(c.sim.fast)
    BY <1>2
  <2>2. Finished(c) /\ c.out \in DOMAIN disk
    BY <1>1, AllFinished, CommandsHaveFiles
  <2>3. CASE disk[c.out].results = "all" /\ disk[c.out].sim = c.sim
    <3>1. disk[c.out].session = session /\ disk[c.out].session # 0
      BY <1>1, <2>2 DEF Finished
    <3>2. Bench!Reads(reader, entry) = {"result"}
      BY <2>1, <2>2, <2>3, <3>1 DEF Bench!Reads
    <3> QED
      BY <2>1, <3>1, <3>2
  <2> QED
    BY <2>1, <2>2, <2>3 DEF Finished
<1>3. CASE Unproduced(driver.name, entry.out) /\ entry.out \notin Bench!Outputs(driver)
  <2>1. Bench!Reads(reader, entry) \in {{"not_ready"}, {"raises"}}
    BY <1>1, <1>3 DEF Bench!Reads, Bench!NotReady
  <2> QED
    BY <1>3, <2>1
<1>4. Readable(driver, entry)
  BY <1>1, ReadersRead
<1> QED
  BY <1>2, <1>3, <1>4 DEF Readable, Commands

\* What the readers print once a driver has returned and its simulations have
\* ended: FinalResultsRead, whatever the lists, the pool, the failures and the
\* sessions before.
THEOREM ResultsAreRead == Spec => []FinalResultsRead
<1>1. Init => BenchInv
  BY BenchInvInit
<1>2. BenchInv /\ [Next]_vars => BenchInv'
  BY BenchInvStays
<1>3. BenchInv => FinalResultsRead
  BY ResultsFromInvariant
<1> QED
  BY <1>1, <1>2, <1>3, PTL DEF Spec

-----------------------------------------------------------------------------
(***************************************************************************)
(* The cycles of the systolic array.                                       *)
(***************************************************************************)
\* The cycles of a frame that depend neither on its rows nor on its columns.
Overhead == args.input_y - 2 + args.cycle_to_write_back_all_output

\* The cycles of a row of frames, of the given number of rows each.
RowCycle(rows) == Cycle!OutputSteps * (rows + Overhead) + args.weight_y

\* Every row of the matrix is counted once per column of frames, every column
\* once per row of frames, the rest once per frame.
ProductCycle ==
    Cycle!OutputSteps * args.input_x + Cycle!Steps * args.weight_y + Cycle!Steps * Cycle!OutputSteps * Overhead

\* A matrix without rows counts as one full row of frames.
ReturnsProductCycle ==
    pc = "return" => total_cycle = IF args.input_x > 0 THEN ProductCycle
                                                       ELSE RowCycle(args.systolic_x)

FullRows == IF args.input_x > 0 THEN Cycle!Steps - 1 ELSE 0

CycleInv ==
    /\ args \in Cycle!Argument
    /\ pc \in {"rows", "last", "return"}
    /\ est \in Nat /\ est < Cycle!OutputSteps
    /\ st \in Nat
    /\ pc = "rows" =>
         /\ st <= FullRows
         /\ st = FullRows => est = 0
         /\ total_cycle = st * RowCycle(args.systolic_x)
                            + est * Cycle!FrameCycle(args.systolic_x, args.systolic_y)
    /\ pc = "last" =>
         /\ st = FullRows
         /\ total_cycle = st * RowCycle(args.systolic_x)
                            + est * Cycle!FrameCycle(Cycle!RemainingRows, args.systolic_y)
    /\ pc = "return" =>
         total_cycle = FullRows * RowCycle(args.systolic_x) + RowCycle(Cycle!RemainingRows)

-----------------------------------------------------------------------------
\* The frames that cover n leave in the last one at least one place used, and
\* fill all of them but the last.
LEMMA FramesCover ==
  ASSUME NEW n \in Nat, NEW size \in Nat \ {0}
  PROVE  /\ Cycle!Frames(n, size) \in Nat
         /\ n - (Cycle!Frames(n, size) - 1) * size \in 1 .. size
<1> DEFINE q == (n + size - 1) \div size
<1>1. q \in Nat /\ q * size <= n + size - 1 /\ n + size - 1 < (q + 1) * size
  OBVIOUS
<1> HIDE DEF q
<1>2. (q - 1) * size = q * size - size /\ (q + 1) * size = q * size + size
  BY <1>1
<1> QED
  BY <1>1, <1>2 DEF q, Cycle!Frames

\* No row takes no frame, and one row at least one.
LEMMA FramesZero ==
  ASSUME NEW n \in Nat, NEW size \in Nat \ {0}
  PROVE  IF n = 0 THEN Cycle!Frames(n, size) = 0 ELSE Cycle!Frames(n, size) >= 1
<1> DEFINE q == Cycle!Frames(n, size)
<1> SUFFICES IF n = 0 THEN q = 0 ELSE q >= 1
  OBVIOUS
<1>1. q \in Nat /\ n - (q - 1) * size \in 1 .. size
  BY FramesCover
<1> HIDE DEF q
<1>2. CASE q = 0
  BY <1>1, <1>2
<1>3. CASE q >= 1
  <2>1. (q - 1) * size >= 0
    BY <1>1, <1>3
  <2> QED
    BY <1>1, <1>3, <2>1
<1> QED
  BY <1>1, <1>2, <1>3

\* The shape of the frames.
LEMMA Shape ==
  ASSUME args \in Cycle!Argument
  PROVE  /\ Cycle!Steps \in Nat /\ Cycle!OutputSteps \in Nat \ {0}
         /\ IF args.input_x > 0 THEN Cycle!Steps >= 1 ELSE Cycle!Steps = 0
         /\ Cycle!RemainingRows \in 1 .. args.systolic_x
         /\ Cycle!RemainingCols \in 1 .. args.systolic_y
         /\ FullRows \in Nat
         /\ Overhead \in Int
<1>1. /\ args.input_x \in Nat /\ args.weight_y \in Nat \ {0} /\ args.input_y \in Nat \ {0}
      /\ args.systolic_x \in Nat \ {0} /\ args.systolic_y \in Nat \ {0}
      /\ args.cycle_to_write_back_all_output \in Nat
  BY DEF Cycle!Argument
<1>2. /\ Cycle!Steps \in Nat
      /\ Cycle!RemainingRows \in 1 .. args.systolic_x
      /\ IF args.input_x > 0 THEN Cycle!Steps >= 1 ELSE Cycle!Steps = 0
  <2> DEFINE n == args.input_x
             size == args.systolic_x
  <2>1. /\ Cycle!Frames(n, size) \in Nat
        /\ n - (Cycle!Frames(n, size) - 1) * size \in 1 .. size
    BY <1>1, FramesCover
  <2>2. IF n = 0 THEN Cycle!Frames(n, size) = 0 ELSE Cycle!Frames(n, size) >= 1
    BY <1>1, FramesZero
  <2> QED
    BY <1>1, <2>1, <2>2 DEF Cycle!Steps, Cycle!RemainingRows
<1>3. /\ Cycle!OutputSteps \in Nat \ {0}
      /\ Cycle!RemainingCols \in 1 .. args.systolic_y
  <2> DEFINE n == args.weight_y
             size == args.systolic_y
  <2>1. /\ Cycle!Frames(n, size) \in Nat
        /\ n - (Cycle!Frames(n, size) - 1) * size \in 1 .. size
    BY <1>1, FramesCover
  <2>2. IF n = 0 THEN Cycle!Frames(n, size) = 0 ELSE Cycle!Frames(n, size) >= 1
    BY <1>1, FramesZero
  <2> QED
    BY <1>1, <2>1, <2>2 DEF Cycle!OutputSteps, Cycle!RemainingCols
<1> QED
  BY <1>1, <1>2, <1>3 DEF FullRows, Overhead

\* The frames of a row, the last one with the remaining columns, are its cycles.
LEMMA RowOfFrames ==
  ASSUME args \in Cycle!Argument, NEW rows \in Nat
  PROVE  (Cycle!OutputSteps - 1) * Cycle!FrameCycle(rows, args.systolic_y)
            + Cycle!FrameCycle(rows, Cycle!RemainingCols) = RowCycle(rows)
<1> DEFINE b == rows + Overhead
           s == args.systolic_y
           k == Cycle!OutputSteps - 1
<1>1. k \in Nat /\ b \in Int /\ s \in Nat /\ args.weight_y \in Nat
  BY Shape DEF Cycle!Argument
<1>2. Cycle!FrameCycle(rows, s) = b + s /\ Cycle!FrameCycle(rows, Cycle!RemainingCols) = b + Cycle!RemainingCols
  BY Shape DEF Cycle!FrameCycle, Overhead, Cycle!Argument
<1>3. Cycle!RemainingCols = args.weight_y - k * s
  BY DEF Cycle!RemainingCols
<1>4. Cycle!OutputSteps = k + 1
  BY Shape
<1> HIDE DEF b, s, k
<1>5. k * (b + s) = k * b + k * s /\ (k + 1) * b = k * b + b
  BY <1>1
<1>6. k * (b + s) + (b + (args.weight_y - k * s)) = (k + 1) * b + args.weight_y
  BY <1>1, <1>5
<1> QED
  BY <1>2, <1>3, <1>4, <1>6 DEF RowCycle, b, s, k

\* The rows of frames together are the cycles of the product.
LEMMA ProductOfRows ==
  ASSUME args \in Cycle!Argument
  PROVE  FullRows * RowCycle(args.systolic_x) + RowCycle(Cycle!RemainingRows)
            = IF args.input_x > 0 THEN ProductCycle ELSE RowCycle(args.systolic_x)
<1> DEFINE f == Cycle!Steps - 1
           x == args.systolic_x
           os == Cycle!OutputSteps
           h == Overhead
           y == args.weight_y
<1>1. os \in Nat /\ h \in Int /\ x \in Nat /\ y \in Nat /\ f \in Int
      /\ args.input_x \in Nat /\ Cycle!Steps = f + 1 /\ Cycle!RemainingRows = args.input_x - f * x
  BY Shape DEF Cycle!Argument, Cycle!RemainingRows
<1>2. CASE args.input_x > 0
  <2>1. FullRows = f
    BY <1>2 DEF FullRows
  <2> HIDE DEF f, x, os, h, y
  <2>2. PICK fx \in Int : fx = f * x
    BY <1>1
  <2>3. f * (os * (x + h) + y) = f * (os * (x + h)) + f * y
    BY <1>1
  <2>4. f * (os * (x + h)) = os * fx + f * (os * h)
    <3>1. os * (x + h) = os * x + os * h
      BY <1>1
    <3>2. f * (os * x + os * h) = f * (os * x) + f * (os * h)
      BY <1>1
    <3>3. f * (os * x) = os * (f * x)
      BY <1>1
    <3> QED
      BY <2>2, <3>1, <3>2, <3>3
  <2>5. os * (args.input_x - fx + h) = os * args.input_x - os * fx + os * h
    BY <1>1, <2>2
  <2>6. (f + 1) * y = f * y + y /\ (f + 1) * os * h = f * (os * h) + os * h
    BY <1>1
  <2>7. f * (os * (x + h) + y) + (os * ((args.input_x - f * x) + h) + y)
           = os * args.input_x + (f + 1) * y + (f + 1) * os * h
    BY <1>1, <2>2, <2>3, <2>4, <2>5, <2>6
  <2> QED
    BY <1>1, <1>2, <2>1, <2>7 DEF RowCycle, ProductCycle, os, h, y, x
<1>3. CASE args.input_x = 0
  <2>1. Cycle!Steps = 0 /\ FullRows = 0
    BY <1>3, Shape DEF FullRows
  <2>2. Cycle!RemainingRows = args.systolic_x
    BY <1>1, <1>3, <2>1
  <2>3. RowCycle(args.systolic_x) \in Int
    BY <1>1 DEF RowCycle
  <2> QED
    BY <1>3, <2>1, <2>2, <2>3
<1> QED
  BY <1>1, <1>2, <1>3

-----------------------------------------------------------------------------
\* No cycle is counted at the start.
LEMMA CycleInvInit ==
  ASSUME Cycle!Init
  PROVE  CycleInv
<1>1. args \in Cycle!Argument
  BY ArgsAssumption DEF Cycle!Init
<1>2. /\ RowCycle(args.systolic_x) \in Int
      /\ Cycle!FrameCycle(args.systolic_x, args.systolic_y) \in Int
  BY <1>1, Shape DEF RowCycle, Cycle!FrameCycle, Cycle!Argument
<1> QED
  BY <1>1, <1>2, Shape DEF CycleInv, Cycle!Init

\* The numbers of the invariant are integers.
LEMMA CycleTypes ==
  ASSUME args \in Cycle!Argument, NEW rows \in Nat, NEW cols \in Nat
  PROVE  /\ RowCycle(rows) \in Int
         /\ Cycle!FrameCycle(rows, cols) \in Int
  BY Shape DEF RowCycle, Cycle!FrameCycle, Cycle!Argument

\* The rows before the last are counted.
LEMMA StartLastRowKeepsInv ==
  ASSUME CycleInv, Cycle!StartLastRow
  PROVE  CycleInv'
<1>1. args \in Cycle!Argument /\ st \in Nat
  BY DEF CycleInv
<1>2. st = FullRows /\ est = 0 /\ pc' = "last"
  BY <1>1, Shape DEF CycleInv, Cycle!StartLastRow, FullRows
<1>3. UNCHANGED <<args, st, est, total_cycle>>
  BY DEF Cycle!StartLastRow
<1>4. /\ UNCHANGED <<Cycle!OutputSteps, FullRows, Cycle!RemainingRows, RowCycle(args.systolic_x)>>
      /\ Cycle!FrameCycle(Cycle!RemainingRows, args.systolic_y)' = Cycle!FrameCycle(Cycle!RemainingRows, args.systolic_y)
  BY <1>3 DEF Cycle!OutputSteps, FullRows, Cycle!RemainingRows, RowCycle, Cycle!FrameCycle, Cycle!Steps, Overhead
<1>5. /\ RowCycle(args.systolic_x) \in Int
      /\ Cycle!FrameCycle(args.systolic_x, args.systolic_y) \in Int
      /\ Cycle!FrameCycle(Cycle!RemainingRows, args.systolic_y) \in Int
  BY <1>1, Shape, CycleTypes DEF Cycle!Argument
<1>6. total_cycle = st * RowCycle(args.systolic_x)
                      + est * Cycle!FrameCycle(args.systolic_x, args.systolic_y)
  BY DEF CycleInv, Cycle!StartLastRow
<1>7. total_cycle = st * RowCycle(args.systolic_x)
                      + est * Cycle!FrameCycle(Cycle!RemainingRows, args.systolic_y)
  BY <1>1, <1>2, <1>5, <1>6
<1> QED
  BY <1>1, <1>2, <1>3, <1>4, <1>7 DEF CycleInv

\* What a step that leaves the arguments alone does not change.
LEMMA Constants ==
  ASSUME UNCHANGED args
  PROVE  /\ Cycle!OutputSteps' = Cycle!OutputSteps
         /\ FullRows' = FullRows
         /\ Cycle!RemainingRows' = Cycle!RemainingRows
         /\ RowCycle(args.systolic_x)' = RowCycle(args.systolic_x)
         /\ RowCycle(Cycle!RemainingRows)' = RowCycle(Cycle!RemainingRows)
         /\ Cycle!FrameCycle(args.systolic_x, args.systolic_y)'
               = Cycle!FrameCycle(args.systolic_x, args.systolic_y)
         /\ Cycle!FrameCycle(Cycle!RemainingRows, args.systolic_y)'
               = Cycle!FrameCycle(Cycle!RemainingRows, args.systolic_y)
  BY DEF Cycle!OutputSteps, FullRows, Cycle!RemainingRows, RowCycle, Cycle!FrameCycle, Cycle!Steps, Overhead

\* One more full frame of the row.
LEMMA FullFrameKeepsInv ==
  ASSUME CycleInv, Cycle!FullFrame
  PROVE  CycleInv'
<1> DEFINE r == RowCycle(args.systolic_x)
           a == Cycle!FrameCycle(args.systolic_x, args.systolic_y)
           b == Cycle!FrameCycle(Cycle!RemainingRows, args.systolic_y)
<1>1. /\ args \in Cycle!Argument /\ st \in Nat /\ est \in Nat
      /\ Cycle!OutputSteps \in Nat /\ FullRows \in Nat
  BY Shape DEF CycleInv
<1>2. /\ UNCHANGED <<args, st, pc>> /\ est' = est + 1 /\ est < Cycle!OutputSteps - 1
      /\ total_cycle' = total_cycle + Cycle!FrameCycle(Cycle!Rows, args.systolic_y)
  BY DEF Cycle!FullFrame
<1>3. r \in Int /\ a \in Int /\ b \in Int
  BY <1>1, Shape, CycleTypes DEF Cycle!Argument
<1>4. r' = r /\ a' = a /\ b' = b /\ UNCHANGED <<Cycle!OutputSteps, FullRows>>
  BY <1>2, Constants
<1>5. CASE pc = "rows"
  <2>1. /\ st < FullRows /\ total_cycle = st * r + est * a
        /\ total_cycle' = total_cycle + a
    BY <1>1, <1>2, <1>5, Shape DEF CycleInv, Cycle!FullFrame, Cycle!InRow, FullRows, Cycle!Rows
  <2> HIDE DEF r, a, b
  <2>2. (est + 1) * a = est * a + a
    BY <1>1, <1>3
  <2>3. total_cycle' = st * r + (est + 1) * a
    BY <1>1, <1>3, <2>1, <2>2
  <2>4. total_cycle' = (st * r + est * a)'
    BY <1>2, <1>4, <2>3
  <2> QED
    BY <1>1, <1>2, <1>4, <1>5, <2>1, <2>4 DEF CycleInv, r, a
<1>6. CASE pc = "last"
  <2>1. /\ st = FullRows /\ total_cycle = st * r + est * b
        /\ total_cycle' = total_cycle + b
    BY <1>2, <1>6 DEF CycleInv, Cycle!Rows
  <2> HIDE DEF r, a, b
  <2>2. (est + 1) * b = est * b + b
    BY <1>1, <1>3
  <2>3. total_cycle' = st * r + (est + 1) * b
    BY <1>1, <1>3, <2>1, <2>2
  <2>4. total_cycle' = (st * r + est * b)'
    BY <1>2, <1>4, <2>3
  <2> QED
    BY <1>1, <1>2, <1>4, <1>6, <2>1, <2>4 DEF CycleInv, r, b
<1> QED
  BY <1>5, <1>6 DEF Cycle!FullFrame, Cycle!InRow

\* The last frame completes the row.
LEMMA LastFrameKeepsInv ==
  ASSUME CycleInv, Cycle!LastFrame
  PROVE  CycleInv'
<1> DEFINE r == RowCycle(args.systolic_x)
           l == RowCycle(Cycle!RemainingRows)
           a == Cycle!FrameCycle(args.systolic_x, args.systolic_y)
           b == Cycle!FrameCycle(Cycle!RemainingRows, args.systolic_y)
<1>1. /\ args \in Cycle!Argument /\ st \in Nat /\ est \in Nat
      /\ Cycle!OutputSteps \in Nat \ {0} /\ FullRows \in Nat
      /\ args.systolic_x \in Nat /\ Cycle!RemainingRows \in Nat
  BY Shape DEF CycleInv, Cycle!Argument
<1>2. /\ UNCHANGED args /\ est' = 0 /\ est = Cycle!OutputSteps - 1 /\ st' = st + 1
      /\ total_cycle' = total_cycle + Cycle!FrameCycle(Cycle!Rows, Cycle!RemainingCols)
      /\ pc' = IF pc = "last" THEN "return" ELSE "rows"
  BY DEF Cycle!LastFrame
<1>3. r \in Int /\ a \in Int /\ b \in Int /\ l \in Int
  BY <1>1, Shape, CycleTypes DEF Cycle!Argument
<1>4. r' = r /\ a' = a /\ l' = l /\ UNCHANGED <<Cycle!OutputSteps, FullRows>>
  BY <1>2, Constants
<1>5. CASE pc = "rows"
  <2>1. /\ st < FullRows /\ total_cycle = st * r + est * a
        /\ total_cycle' = total_cycle + Cycle!FrameCycle(args.systolic_x, Cycle!RemainingCols)
    BY <1>1, <1>2, <1>5, Shape DEF CycleInv, Cycle!LastFrame, Cycle!InRow, FullRows, Cycle!Rows
  <2>2. est * a + Cycle!FrameCycle(args.systolic_x, Cycle!RemainingCols) = r
    BY <1>1, <1>2, RowOfFrames
  <2>3. Cycle!FrameCycle(args.systolic_x, Cycle!RemainingCols) \in Int
    BY <1>1, Shape, CycleTypes
  <2> HIDE DEF r, l, a, b
  <2>4. (st + 1) * r = st * r + r
    BY <1>1, <1>3
  <2>5. total_cycle' = (st + 1) * r + 0 * a
    BY <1>1, <1>3, <2>1, <2>2, <2>3, <2>4
  <2>6. total_cycle' = (st * r + est * a)'
    BY <1>2, <1>4, <2>5
  <2> QED
    BY <1>1, <1>2, <1>4, <1>5, <2>1, <2>6 DEF CycleInv, r, a
<1>6. CASE pc = "last"
  <2> DEFINE c == Cycle!FrameCycle(Cycle!RemainingRows, Cycle!RemainingCols)
  <2>1. st = FullRows
    BY <1>6 DEF CycleInv
  <2>2. total_cycle = st * r + est * b /\ total_cycle' = total_cycle + c
    BY <1>2, <1>6 DEF CycleInv, Cycle!Rows
  <2>3. est * b + c = l
    BY <1>1, <1>2, RowOfFrames
  <2>4. c \in Int
    BY <1>1, Shape, CycleTypes
  <2> HIDE DEF r, l, a, b, c
  <2>5. total_cycle' = st * r + l
    BY <1>1, <1>3, <2>2, <2>3, <2>4
  <2>6. total_cycle' = (FullRows * r + l)'
    BY <1>4, <2>1, <2>5
  <2> QED
    BY <1>1, <1>2, <1>4, <1>6, <2>6 DEF CycleInv, r, l
<1> QED
  BY <1>5, <1>6 DEF Cycle!LastFrame, Cycle!InRow

\* The loops add up the cycles row by row.
LEMMA CycleInvStep ==
  ASSUME CycleInv, Cycle!Next \/ UNCHANGED <<cycleVars, pc>>
  PROVE  CycleInv'
<1>1. CASE Cycle!StartLastRow
  BY <1>1, StartLastRowKeepsInv
<1>2. CASE Cycle!FullFrame
  BY <1>2, FullFrameKeepsInv
<1>3. CASE Cycle!LastFrame
  BY <1>3, LastFrameKeepsInv
<1>4. CASE UNCHANGED <<args, st, est, total_cycle, pc>>
  BY <1>4 DEF CycleInv, Cycle!OutputSteps, FullRows, Cycle!RemainingRows, RowCycle,
              Cycle!FrameCycle, Cycle!Steps, Overhead
<1> QED
  BY <1>1, <1>2, <1>3, <1>4 DEF Cycle!Next, Cycle!Return, Cycle!vars, cycleVars

-----------------------------------------------------------------------------
(***************************************************************************)
(* The sum over the frames.                                                *)
(***************************************************************************)

\* The lemmas about sums, which are about any set: the graph and the windows
\* of their module are left empty.
Sum == INSTANCE WindowLemmas WITH array <- <<>>, conf <- <<>>, working_set <- <<>>,
                                  window <- <<>>, plan <- <<>>

AllFrames == (0 .. Cycle!Steps - 1) \X (0 .. Cycle!OutputSteps - 1)

\* The cycles of each frame that covers the product.
Weight ==
    [f \in AllFrames |->
        Cycle!FrameCycle(LeastOf(args.systolic_x, args.input_x - f[1] * args.systolic_x),
                         LeastOf(args.systolic_y, args.weight_y - f[2] * args.systolic_y))]

\* The frames that are counted.
Counted == {f \in AllFrames : f[1] < st \/ (f[1] = st /\ f[2] < est)}

\* The cycles so far are those of the frames counted, and at the end all are.
SumInv ==
    args.input_x > 0 =>
        /\ total_cycle = Sum!Total(Counted, Weight)
        /\ pc = "return" => st = Cycle!Steps /\ est = 0

\* Sets are finite in every module.
LEMMA SumFinite == \A S : Sum!IsFiniteSet(S) <=> IsFiniteSet(S)
  BY DEF Sum!IsFiniteSet, IsFiniteSet

\* The places a frame has: all of them but in the last.
LEMMA PlacesOfFrame ==
  ASSUME NEW n \in Nat, NEW size \in Nat \ {0}, NEW k \in 0 .. Cycle!Frames(n, size) - 1
  PROVE  /\ LeastOf(size, n - k * size)
              = IF k < Cycle!Frames(n, size) - 1 THEN size
                ELSE n - (Cycle!Frames(n, size) - 1) * size
         /\ LeastOf(size, n - k * size) \in 1 .. size
<1> DEFINE q == Cycle!Frames(n, size)
           last == n - (q - 1) * size
<1>1. q \in Nat /\ last \in 1 .. size
  BY FramesCover
<1> HIDE DEF q
<1>2. k \in 0 .. q - 1
  BY DEF q
<1>3. CASE k < q - 1
  <2>1. q - 1 - k - 1 \in Nat /\ (q - 1) * size = (k + 1) * size + (q - 1 - k - 1) * size
    BY <1>1, <1>2, <1>3
  <2>2. (q - 1 - k - 1) * size \in Nat /\ (k + 1) * size = k * size + size /\ k * size \in Nat
    BY <1>2, <2>1
  <2>3. n - k * size > size
    BY <1>1, <2>1, <2>2
  <2> QED
    BY <1>1, <1>2, <1>3, <2>2, <2>3 DEF LeastOf, q
<1>4. CASE k = q - 1
  BY <1>1, <1>2, <1>4 DEF LeastOf, q
<1> QED
  BY <1>1, <1>2, <1>3, <1>4

\* What each frame adds.
LEMMA WeightFacts ==
  ASSUME args \in Cycle!Argument
  PROVE  /\ IsFiniteSet(AllFrames)
         /\ \A f \in AllFrames :
              /\ Weight[f] \in Nat
              /\ Weight[f] =
                   Cycle!FrameCycle(IF f[1] < Cycle!Steps - 1 THEN args.systolic_x
                                                              ELSE Cycle!RemainingRows,
                                    IF f[2] < Cycle!OutputSteps - 1 THEN args.systolic_y
                                                                    ELSE Cycle!RemainingCols)
<1>1. /\ args.input_x \in Nat /\ args.weight_y \in Nat \ {0} /\ args.input_y \in Nat \ {0}
      /\ args.systolic_x \in Nat \ {0} /\ args.systolic_y \in Nat \ {0}
      /\ args.cycle_to_write_back_all_output \in Nat
      /\ args.weight_y \in Nat
  BY DEF Cycle!Argument
<1>2. Cycle!Steps \in Nat /\ Cycle!OutputSteps \in Nat
  BY Shape
<1>3. IsFiniteSet(AllFrames)
  <2>1. Cycle!Steps - 1 \in Int /\ Cycle!OutputSteps - 1 \in Int /\ 0 \in Int
    BY <1>2
  <2>2. IsFiniteSet(0 .. Cycle!Steps - 1) /\ IsFiniteSet(0 .. Cycle!OutputSteps - 1)
    BY <2>1, FS_Interval, Zenon
  <2> QED
    BY <2>2, FS_Product DEF AllFrames
<1>4. ASSUME NEW f \in AllFrames
      PROVE  /\ Weight[f] \in Nat
             /\ Weight[f] =
                   Cycle!FrameCycle(IF f[1] < Cycle!Steps - 1 THEN args.systolic_x
                                                              ELSE Cycle!RemainingRows,
                                    IF f[2] < Cycle!OutputSteps - 1 THEN args.systolic_y
                                                                    ELSE Cycle!RemainingCols)
  <2> DEFINE rows == LeastOf(args.systolic_x, args.input_x - f[1] * args.systolic_x)
             cols == LeastOf(args.systolic_y, args.weight_y - f[2] * args.systolic_y)
  <2>1. f[1] \in 0 .. Cycle!Steps - 1 /\ f[2] \in 0 .. Cycle!OutputSteps - 1
    BY DEF AllFrames
  <2>2. /\ rows = IF f[1] < Cycle!Steps - 1 THEN args.systolic_x ELSE Cycle!RemainingRows
        /\ rows \in 1 .. args.systolic_x
    BY <1>1, <2>1, PlacesOfFrame DEF Cycle!Steps, Cycle!RemainingRows
  <2>3. /\ cols = IF f[2] < Cycle!OutputSteps - 1 THEN args.systolic_y ELSE Cycle!RemainingCols
        /\ cols \in 1 .. args.systolic_y
    BY <1>1, <2>1, PlacesOfFrame DEF Cycle!OutputSteps, Cycle!RemainingCols
  <2>4. Weight[f] = Cycle!FrameCycle(rows, cols)
    BY DEF Weight
  <2> HIDE DEF rows, cols
  <2>5. Weight[f] \in Nat
    BY <1>1, <2>2, <2>3, <2>4 DEF Cycle!FrameCycle
  <2> QED
    BY <2>2, <2>3, <2>4, <2>5
<1> QED
  BY <1>3, <1>4

\* One more frame.
LEMMA CountedOneMore ==
  ASSUME CycleInv, SumInv, args.input_x > 0, UNCHANGED args,
         NEW f \in AllFrames, f \notin Counted, Counted' = Counted \cup {f},
         total_cycle' = total_cycle + Weight[f]
  PROVE  total_cycle' = Sum!Total(Counted, Weight)'
<1>1. IsFiniteSet(AllFrames) /\ \A g \in AllFrames : Weight[g] \in Nat
  BY WeightFacts DEF CycleInv
<1>2. IsFiniteSet(Counted) /\ Counted \subseteq AllFrames
  BY <1>1, FS_Subset DEF Counted
<1>3. Sum!Total(Counted \cup {f}, Weight) = Sum!Total(Counted, Weight) + Weight[f]
  <2>1. \A g \in Counted \cup {f} : Weight[g] \in Nat
    BY <1>1, <1>2
  <2> HIDE DEF Counted, Weight
  <2> QED
    BY <1>2, <2>1, SumFinite, Sum!TotalOfOneMore
<1>4. Weight' = Weight
  BY DEF Weight, AllFrames, Cycle!Steps, Cycle!OutputSteps, Cycle!FrameCycle
<1>5. Sum!Total(Counted, Weight)' = Sum!Total(Counted \cup {f}, Weight)
  BY <1>4 DEF Sum!Total, Sum!Weighted
<1> QED
  BY <1>3, <1>5 DEF SumInv

\* Nothing is counted at the start.
LEMMA SumInvInit ==
  ASSUME Cycle!Init
  PROVE  SumInv
<1>1. args \in Cycle!Argument /\ st = 0 /\ est = 0 /\ total_cycle = 0 /\ pc = "rows"
  BY ArgsAssumption DEF Cycle!Init
<1>2. Cycle!Steps \in Nat /\ Cycle!OutputSteps \in Nat
  BY <1>1, Shape
<1>3. Counted = {}
  BY <1>1, <1>2 DEF Counted, AllFrames
<1> QED
  BY <1>1, <1>3, Sum!TotalOfNone DEF SumInv

\* The step of a frame: the one that st and est point at.
LEMMA FrameAdds ==
  ASSUME CycleInv, SumInv, args.input_x > 0, Cycle!FullFrame \/ Cycle!LastFrame
  PROVE  /\ total_cycle' = Sum!Total(Counted, Weight)'
         /\ pc' = "return" => st' = Cycle!Steps /\ est' = 0
<1> DEFINE f == <<st, est>>
<1>1. /\ args \in Cycle!Argument /\ st \in Nat /\ est \in Nat /\ est < Cycle!OutputSteps
      /\ Cycle!Steps \in Nat \ {0} /\ Cycle!OutputSteps \in Nat \ {0}
      /\ FullRows = Cycle!Steps - 1
  BY Shape DEF CycleInv, FullRows
<1>2. /\ st <= Cycle!Steps - 1
      /\ Cycle!Rows = IF st < Cycle!Steps - 1 THEN args.systolic_x ELSE Cycle!RemainingRows
      /\ pc = "last" <=> st = Cycle!Steps - 1
  BY <1>1 DEF CycleInv, Cycle!FullFrame, Cycle!LastFrame, Cycle!InRow, Cycle!Rows
<1>3. UNCHANGED args /\ UNCHANGED <<AllFrames, Cycle!Steps, Cycle!OutputSteps>>
  BY DEF Cycle!FullFrame, Cycle!LastFrame, AllFrames, Cycle!Steps, Cycle!OutputSteps
<1>4. f \in AllFrames /\ f \notin Counted
  BY <1>1, <1>2 DEF AllFrames, Counted
<1>5. Weight[f] = Cycle!FrameCycle(Cycle!Rows, IF est < Cycle!OutputSteps - 1
                                               THEN args.systolic_y ELSE Cycle!RemainingCols)
  BY <1>1, <1>2, <1>4, WeightFacts
<1>6. CASE Cycle!FullFrame
  <2>1. /\ est < Cycle!OutputSteps - 1 /\ est' = est + 1 /\ st' = st
        /\ total_cycle' = total_cycle + Cycle!FrameCycle(Cycle!Rows, args.systolic_y)
        /\ pc' = pc
    BY <1>6 DEF Cycle!FullFrame
  <2>2. Counted' = {g \in AllFrames : g[1] < st \/ (g[1] = st /\ g[2] < est + 1)}
    BY <1>3, <2>1 DEF Counted
  <2>3. ASSUME NEW g \in AllFrames
        PROVE  (g[1] < st \/ (g[1] = st /\ g[2] < est + 1))
                 <=> (g[1] < st \/ (g[1] = st /\ g[2] < est)) \/ g = f
    <3>1. PICK a \in 0 .. Cycle!Steps - 1, b \in 0 .. Cycle!OutputSteps - 1 : g = <<a, b>>
      BY DEF AllFrames
    <3>2. g[1] = a /\ g[2] = b /\ a \in Int /\ b \in Int /\ (g = f <=> a = st /\ b = est)
      BY <1>1, <3>1
    <3> HIDE DEF f
    <3> QED
      BY <1>1, <3>2
  <2>4. Counted' = Counted \cup {f}
    BY <1>4, <2>2, <2>3 DEF Counted
  <2>5. total_cycle' = total_cycle + Weight[f]
    BY <1>5, <2>1
  <2>6. total_cycle' = Sum!Total(Counted, Weight)'
    BY <1>3, <1>4, <2>4, <2>5, CountedOneMore
  <2>7. pc # "return"
    BY <1>6 DEF Cycle!FullFrame, Cycle!InRow
  <2> QED
    BY <2>1, <2>6, <2>7
<1>7. CASE Cycle!LastFrame
  <2>1. /\ est = Cycle!OutputSteps - 1 /\ est' = 0 /\ st' = st + 1
        /\ total_cycle' = total_cycle + Cycle!FrameCycle(Cycle!Rows, Cycle!RemainingCols)
        /\ pc' = IF pc = "last" THEN "return" ELSE "rows"
    BY <1>7 DEF Cycle!LastFrame
  <2>2. Counted' = {g \in AllFrames : g[1] < st + 1 \/ (g[1] = st + 1 /\ g[2] < 0)}
    BY <1>3, <2>1 DEF Counted
  <2>3. ASSUME NEW g \in AllFrames
        PROVE  (g[1] < st + 1 \/ (g[1] = st + 1 /\ g[2] < 0))
                 <=> (g[1] < st \/ (g[1] = st /\ g[2] < est)) \/ g = f
    <3>1. PICK a \in 0 .. Cycle!Steps - 1, b \in 0 .. Cycle!OutputSteps - 1 : g = <<a, b>>
      BY DEF AllFrames
    <3>2. /\ g[1] = a /\ g[2] = b /\ a \in Nat /\ b \in Nat /\ b <= Cycle!OutputSteps - 1
          /\ (g = f <=> a = st /\ b = est)
      BY <1>1, <3>1
    <3> HIDE DEF f
    <3> QED
      BY <1>1, <2>1, <3>2
  <2>4. Counted' = Counted \cup {f}
    BY <1>4, <2>2, <2>3 DEF Counted
  <2>5. total_cycle' = total_cycle + Weight[f]
    BY <1>1, <1>5, <2>1
  <2>6. total_cycle' = Sum!Total(Counted, Weight)'
    BY <1>3, <1>4, <2>4, <2>5, CountedOneMore
  <2> QED
    BY <1>1, <1>2, <2>1, <2>6
<1> QED
  BY <1>6, <1>7

\* Every step keeps the sum.
LEMMA SumInvStep ==
  ASSUME CycleInv, SumInv, Cycle!Next \/ UNCHANGED <<cycleVars, pc>>
  PROVE  SumInv'
<1>1. UNCHANGED args
  BY DEF Cycle!Next, Cycle!StartLastRow, Cycle!FullFrame, Cycle!LastFrame, Cycle!Return,
         Cycle!vars, cycleVars
<1>2. UNCHANGED <<AllFrames, Weight, Cycle!Steps>>
  BY <1>1 DEF AllFrames, Weight, Cycle!Steps, Cycle!OutputSteps, Cycle!FrameCycle
<1> SUFFICES ASSUME args.input_x > 0
             PROVE  /\ total_cycle' = Sum!Total(Counted, Weight)'
                    /\ pc' = "return" => st' = Cycle!Steps /\ est' = 0
  BY <1>1, <1>2 DEF SumInv
<1>3. CASE Cycle!FullFrame \/ Cycle!LastFrame
  BY <1>3, FrameAdds
<1>4. CASE Cycle!StartLastRow \/ Cycle!Return \/ UNCHANGED <<cycleVars, pc>>
  <2>1. /\ UNCHANGED <<st, est, total_cycle>>
        /\ pc' = "return" => pc = "return"
    <3>1. Cycle!RemainingRows # 0
      BY Shape DEF CycleInv
    <3> QED
      BY <1>4, <3>1 DEF Cycle!StartLastRow, Cycle!Return, Cycle!vars, cycleVars
  <2>2. Counted' = Counted
    BY <1>2, <2>1 DEF Counted
  <2>3. Sum!Total(Counted, Weight)' = Sum!Total(Counted, Weight)
    BY <1>2, <2>2 DEF Sum!Total, Sum!Weighted
  <2> QED
    BY <2>1, <2>3 DEF SumInv
<1> QED
  BY <1>3, <1>4 DEF Cycle!Next

\* The sum over the frames of the property, as a total.
LEMMA FrameSumTotal ==
  ASSUME args \in Cycle!Argument
  PROVE  FrameSum = Sum!Total(AllFrames, Weight)
<1> DEFINE S == AllFrames
           of(f) == Cycle!FrameCycle(LeastOf(args.systolic_x, args.input_x - f[1] * args.systolic_x),
                              LeastOf(args.systolic_y, args.weight_y - f[2] * args.systolic_y))
<1>0. Sum!IsFiniteSet(S)
  BY WeightFacts, SumFinite
<1>1. \A f \in S : Weight[f] \in Nat
  BY WeightFacts
<1>2. \A s \in SUBSET S : s # {} => Weight[CHOOSE x \in s : TRUE] = of(CHOOSE x \in s : TRUE)
  BY DEF Weight
<1>3. FrameSum = MapThenSumSet(LAMBDA f : of(f), S)
  BY Zenon DEF FrameSum, AllFrames
<1> HIDE DEF S, of
<1>4. PICK iter : Sum!Sums(iter, S, Weight)
  BY <1>0, <1>1, Sum!TotalsSum
<1>5. iter = [s \in SUBSET S |->
                IF s = {} THEN 0
                ELSE of(CHOOSE x \in s : TRUE) + iter[s \ {CHOOSE x \in s : TRUE}]]
  BY <1>2, <1>4 DEF Sum!Sums
<1>6. \E it :
        /\ it = [s \in SUBSET S |->
                   IF s = {} THEN 0
                   ELSE of(CHOOSE x \in s : TRUE) + it[s \ {CHOOSE x \in s : TRUE}]]
        /\ FrameSum = it[S]
  BY <1>3, <1>5 DEF MapThenSumSet, MapThenFoldSet
<1>7. PICK it : /\ it = [s \in SUBSET S |->
                   IF s = {} THEN 0
                   ELSE of(CHOOSE x \in s : TRUE) + it[s \ {CHOOSE x \in s : TRUE}]]
                /\ FrameSum = it[S]
  BY <1>6
<1>8. Sum!Sums(it, S, Weight)
  BY <1>2, <1>7 DEF Sum!Sums
<1>9. it[S] = Sum!Total(S, Weight)
  BY <1>0, <1>1, <1>8, Sum!SumsAreTotals
<1> QED
  BY <1>7, <1>9 DEF S

\* Of the script of the three that runs.
CycleRuns == script = "cycle" => CycleInv /\ SumInv

\* The invariant of the function.
LEMMA CycleRunsInvariant == Spec => []CycleRuns
<1>1. Init => CycleRuns
  BY CycleInvInit, SumInvInit DEF Init, CycleRuns
<1>2. CycleRuns /\ [Next]_vars => CycleRuns'
  <2> SUFFICES ASSUME CycleRuns, [Next]_vars, script' = "cycle"
               PROVE  CycleInv' /\ SumInv'
    BY DEF CycleRuns
  <2>1. script = "cycle" /\ (Cycle!Next \/ UNCHANGED <<cycleVars, pc>>)
    BY DEF Next, BenchmarkStep, DownloadStep, CycleStep, vars
  <2> QED
    BY <2>1, CycleInvStep, SumInvStep DEF CycleRuns
<1> QED
  BY <1>1, <1>2, PTL DEF Spec

\* The two assertions of calculate_systolic_cycle hold for all its arguments,
\* and it returns the sum of the cycles of the frames that cover the product:
\* CycleSumOfFrames.
THEOREM CycleSumIsOfFrames == Spec => []CycleSumOfFrames
<1>1. CycleRuns => CycleSumOfFrames
  <2> SUFFICES ASSUME CycleInv, SumInv
               PROVE  /\ Cycle!ColsAssert
                      /\ pc = "return" /\ args.input_x > 0 => total_cycle = FrameSum
    BY DEF CycleRuns, CycleSumOfFrames
  <2>1. args \in Cycle!Argument
    BY DEF CycleInv
  <2>2. Cycle!ColsAssert
    BY <2>1, Shape DEF Cycle!ColsAssert
  <2>3. ASSUME pc = "return", args.input_x > 0
        PROVE  total_cycle = FrameSum
    <3>1. /\ total_cycle = Sum!Total(Counted, Weight) /\ st = Cycle!Steps /\ est = 0
          /\ Cycle!Steps \in Nat /\ Cycle!OutputSteps \in Nat
      BY <2>1, <2>3, Shape DEF SumInv
    <3>2. Counted = AllFrames
      <4>1. ASSUME NEW f \in AllFrames PROVE f \in Counted
        <5>1. f[1] \in 0 .. Cycle!Steps - 1
          BY DEF AllFrames
        <5>2. f[1] < st
          BY <3>1, <5>1
        <5> QED
          BY <5>2 DEF Counted
      <4>2. Counted \subseteq AllFrames
        BY DEF Counted
      <4> QED
        BY <4>1, <4>2
    <3> QED
      BY <2>1, <3>1, <3>2, FrameSumTotal
  <2> QED
    BY <2>2, <2>3
<1> QED
  BY <1>1, CycleRunsInvariant, PTL

\* It returns the closed form of that sum.  A matrix without rows costs a full
\* row of frames.
THEOREM CycleReturnsProduct == Spec => [](script = "cycle" => ReturnsProductCycle)
<1>1. CycleRuns => (script = "cycle" => ReturnsProductCycle)
  BY ProductOfRows DEF CycleRuns, CycleInv, ReturnsProductCycle
<1> QED
  BY <1>1, CycleRunsInvariant, PTL
=============================================================================
