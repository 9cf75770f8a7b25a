------------------------------ MODULE Download ------------------------------
(***************************************************************************)
(* download_graph.py: it fetches each data file that is not in the data    *)
(* directory, and moves it there.  wget may fail half-way, and its status  *)
(* is not looked at; the script may be interrupted at any point and run    *)
(* again.  A file is "missing", "partial" or "whole".                      *)
(***************************************************************************)
EXTENDS Integers, Sequences

CONSTANTS Data,         \* data_fullname
          MaxInterrupts \* bound: interrupted runs

VARIABLES here,         \* the files in the working directory
          data_dir,     \* the files in ~/.gcndata
          item,         \* the position in Data
          pc, interrupts

vars == <<here, data_dir, item, pc, interrupts>>

Items == {Data[k] : k \in DOMAIN Data}
Item == Data[item]

Init ==
    /\ here \in [Items -> {"missing", "whole"}]
    /\ data_dir = [f \in Items |-> "missing"]
    /\ item = 1
    /\ pc = "check"
    /\ interrupts = 0

NextItem ==
    IF item = Len(Data) THEN pc' = "done" /\ UNCHANGED item
                        ELSE pc' = "check" /\ item' = item + 1

Skip ==
    /\ pc = "check"
    /\ data_dir[Item] # "missing"
    /\ NextItem
    /\ UNCHANGED <<here, data_dir, interrupts>>

\* A file in the data directory is fetched again.
CheckAlways ==
    /\ pc = "check"
    /\ pc' = IF here[Item] = "missing" THEN "download" ELSE "move"
    /\ UNCHANGED <<here, data_dir, item, interrupts>>

Check ==
    /\ pc = "check"
    /\ data_dir[Item] = "missing"
    /\ pc' = IF here[Item] = "missing" THEN "download" ELSE "move"
    /\ UNCHANGED <<here, data_dir, item, interrupts>>

\* wget -O creates the file first.  Without wget there is none.
Wget ==
    /\ pc = "download"
    /\ here' \in {[here EXCEPT ![Item] = f] : f \in {"missing", "partial", "whole"}}
    /\ pc' = "move"
    /\ UNCHANGED <<data_dir, item, interrupts>>

\* Within a file system a move renames, from one to another it copies.
Rename ==
    /\ pc = "move"
    /\ here[Item] # "missing"
    /\ data_dir' = [data_dir EXCEPT ![Item] = here[Item]]
    /\ here' = [here EXCEPT ![Item] = "missing"]
    /\ NextItem
    /\ UNCHANGED interrupts

StartCopy ==
    /\ pc = "move"
    /\ here[Item] # "missing"
    /\ data_dir' = [data_dir EXCEPT ![Item] = "partial"]
    /\ pc' = "copy"
    /\ UNCHANGED <<here, item, interrupts>>

EndCopy ==
    /\ pc = "copy"
    /\ data_dir' = [data_dir EXCEPT ![Item] = here[Item]]
    /\ here' = [here EXCEPT ![Item] = "missing"]
    /\ NextItem
    /\ UNCHANGED interrupts

\* shutil.move raises when there is no file.
MoveRaises ==
    /\ pc = "move"
    /\ here[Item] = "missing"
    /\ pc' = "raised"
    /\ UNCHANGED <<here, data_dir, item, interrupts>>

Interrupt ==
    /\ interrupts < MaxInterrupts
    /\ interrupts' = interrupts + 1
    /\ pc \in {"check", "download", "move", "copy"}
    /\ here' = IF pc = "download" THEN [here EXCEPT ![Item] = "partial"] ELSE here
    /\ pc' = "interrupted"
    /\ UNCHANGED <<data_dir, item>>

RunAgain ==
    /\ pc \in {"done", "raised", "interrupted"}
    /\ item' = 1
    /\ pc' = "check"
    /\ UNCHANGED <<here, data_dir, interrupts>>

Next ==
    \/ Skip
    \/ Check
    \/ Wget
    \/ Rename
    \/ StartCopy
    \/ EndCopy
    \/ MoveRaises
    \/ Interrupt
    \/ RunAgain

Spec == Init /\ [][Next]_vars
=============================================================================
