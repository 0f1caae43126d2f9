------------------------- MODULE StockLedgerHistory -------------------------
(***************************************************************************)
(* A small instance of StockLedger for TLC, with two history variables:    *)
(* whether two requests have ever been in progress at the same time, and   *)
(* the items whose newest movement was committed while somebody edited     *)
(* them.                                                                   *)
(***************************************************************************)
EXTENDS StockLedgerMC

CONSTANT MaxRaced         \* bound on the manual movements and edits then

VARIABLES raced, crossed

histvars == <<vars, raced, crossed>>

Busy == {w \in Workers : tx[w].pc # "idle"}

\* Somebody has loaded item i to edit it and has not saved it yet.
Editing(i) == \E w \in Workers : tx[w].pc = "edit" /\ Current(w).item = i

HistoryInit == Init /\ raced = FALSE /\ crossed = {}

HistoryNext ==
  /\ Next
  /\ raced' = (raced \/ Cardinality(Busy') > 1)
  /\ crossed' = {i \in Items : IF ledger'[i] = ledger[i] THEN i \in crossed ELSE Editing(i)}

HistorySpec == HistoryInit /\ [][HistoryNext]_histvars

Manual == {m \in Items \X (1..MaxMovements + Cardinality(Sources)) :
             /\ m[2] <= Len(ledger[m[1]])
             /\ ledger[m[1]][m[2]].source = NoSource}

Moving == {w \in Busy : tx[w].source = NoSource}

\* Bounds, once requests have overlapped: nothing is archived, and what is moved
\* by hand is received.  Items are still edited.
InBounds ==
  raced =>
    /\ \A i \in Items : shelf[i] # "archived"
    /\ Cardinality(Manual) + Cardinality(Moving) <= MaxRaced
    /\ \A m \in Manual : ledger[m[1]][m[2]].delta > 0
    /\ \A w \in Moving : tx[w].pc # "edit" => Head(tx[w].lines).delta > 0

MCNext == HistoryNext /\ InBounds'

MCSpec == HistoryInit /\ [][MCNext]_histvars

\* The bounds stop requests before they begin, never one in progress: what is
\* fair without them is fair within them.
MCFairSpec == MCSpec /\ Fairness

\* The quantity of an item is the quantity_after of its newest movement, whatever
\* races, unless that movement was committed while the item was being edited: the
\* update endpoint writes the quantity it loaded over it.
ExplainedUnlessCrossed == \A i \in Items \ crossed : Explained(i)

\* As long as requests come one at a time, no update of a quantity is lost and
\* every bag is backed by stock that was received.
SerialLedger == raced \/ (ChainUnbroken /\ BagsAreBacked)
============================================================================
