---------------------------- MODULE ConsumeOnce ----------------------------
(***************************************************************************)
(* What the automatic consumption of stock promises (the comments of       *)
(* apps/package/views.py and apps/stock/services.py): a bag or a validated *)
(* entry is recorded in one step together with what it draws, and of all   *)
(* the jobs that carry one source, the first to draw on an item is the one *)
(* that is billed for it; the later ones draw nothing.                     *)
(***************************************************************************)
EXTENDS Integers, Sequences

CONSTANTS
  Items,      \* stock items
  Sources,    \* the keys that tell one production event from another
  Jobs        \* [source, lines]: what a bag or an entry asks for

VARIABLES
  recorded,   \* the jobs done
  bill        \* bill[i][s]: what source s took of item i, 0 for nothing yet

vars == <<recorded, bill>>

Init ==
  /\ recorded = {}
  /\ bill = [i \in Items |-> [s \in Sources |-> 0]]

\* What job j draws of item i: its first line on the item, 0 if it has none.
\* Lines are never empty, so 0 is no line's quantity.
Draw(j, i) ==
  IF \E k \in 1..Len(j.lines) : j.lines[k].item = i
  THEN -j.lines[CHOOSE k \in 1..Len(j.lines) :
                  /\ j.lines[k].item = i
                  /\ \A m \in 1..(k - 1) : j.lines[m].item # i].delta
  ELSE 0

\* Job j is recorded and its source billed for the items it has not drawn yet.
Record(j) ==
  /\ recorded' = recorded \cup {j}
  /\ bill' = [i \in Items |-> [s \in Sources |->
                IF s = j.source /\ bill[i][s] = 0 THEN Draw(j, i) ELSE bill[i][s]]]

Next == \E j \in Jobs : Record(j)

Spec == Init /\ [][Next]_vars
============================================================================
