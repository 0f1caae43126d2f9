--------------------------- MODULE StockLedgerMC ---------------------------
(***************************************************************************)
(* Small instances of StockLedger for TLC.                                 *)
(***************************************************************************)
EXTENDS StockLedger, SequencesExt, TLC

CONSTANTS raw, colorant, order1, bag2

Draws(i, kg) == [item |-> i, type |-> "CONSUMPTION", delta |-> -kg]

\* Two bags of one order (the second one larger), and an unlinked bag whose raw
\* material and colorant were chosen the other way round.
TwoBagsAndACross ==
  { [source |-> order1, lines |-> <<Draws(raw, 1), Draws(colorant, 1)>>],
    [source |-> order1, lines |-> <<Draws(raw, 2)>>],
    [source |-> bag2, lines |-> <<Draws(colorant, 1), Draws(raw, 1)>>] }

\* A bag and a validated entry that each draw one unit of the raw material.
TwoDraws ==
  { [source |-> order1, lines |-> <<Draws(raw, 1)>>],
    [source |-> bag2, lines |-> <<Draws(raw, 1)>>] }

\* Two unlinked bags, raw material and colorant chosen in opposite orders.
CrossedBags ==
  { [source |-> order1, lines |-> <<Draws(raw, 1), Draws(colorant, 1)>>],
    [source |-> bag2, lines |-> <<Draws(colorant, 1), Draws(raw, 1)>>] }

ReceiveOne == {1}

ReceiveTwo == {2}

ReceiveTwoTakeOne == {2, -1}

WorkerSymmetry == Permutations(Workers)

\* What was received of an item and not consumed since, by its movements alone.
Balance(i) == FoldSeq(LAMBDA m, sum : m.delta + sum, 0, ledger[i])

\* "so a bag is never recorded without the stock to back it"
\* (apps/package/views.py, perform_create): what was consumed was received.
BagsAreBacked == \A i \in Items : Balance(i) >= 0
============================================================================
