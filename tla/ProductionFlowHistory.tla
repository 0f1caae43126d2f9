------------------------ MODULE ProductionFlowHistory ------------------------
(***************************************************************************)
(* A small instance of ProductionFlow for TLC, with a history variable:    *)
(* what has ever happened that the requests do not defend themselves       *)
(* against.                                                                *)
(***************************************************************************)
EXTENDS ProductionFlowMC

CONSTANT Third            \* the entry that only validations look at

VARIABLE marred           \* "overlap": two requests at a time; "edit": another
                          \* request than a validation

Busy == {w \in Workers : tx[w].kind # "none"}

Empty == {e \in Entries : entry[e].status \in EntryStatus /\ entry[e].bottles = 0}

\* Bounds: three entries of at most one bottle for validations that race; two of at
\* least one for the rest, against one order for two bottles once both are mixed.
InBounds ==
  /\ \A w \in Workers : tx[w].kind # "validate" => tx[w].entry # Third
  /\ entry[Third].status # "absent" \/ Empty # {} =>
       /\ "edit" \notin marred
       /\ \A e \in Entries : entry[e].bottles <= 1
  /\ Cardinality(marred) = 2 =>
       /\ \A o \in Orders : order[o].status \in OrderStatus =>
            order[o].quantity = 2 /\ order[o].recipe
       /\ \A w \in Workers : tx[w].pc = "order" => tx[w].head.quantity = 2 /\ tx[w].head.recipe

MCInit == Init /\ marred = {}

HistoryNext ==
  /\ Next
  /\ marred' = marred
       \union (IF Cardinality(Busy') > 1 THEN {"overlap"} ELSE {})
       \union (IF \E w \in Workers : tx'[w].kind \notin {"none", "validate"}
               THEN {"edit"} ELSE {})

HistorySpec == MCInit /\ [][HistoryNext]_<<vars, marred>>

MCNext == HistoryNext /\ InBounds'

MCSpec == MCInit /\ [][MCNext]_<<vars, marred>>

Symmetry == Permutations(Entries \ {Third}) \union Permutations(Workers)

Mixed == marred = {"overlap", "edit"}

\* What stock was drawn agrees with the entries, in every order of requests; and
\* to the bottle, while requests come one at a time or are validations only.
BooksAgree ==
  /\ ConsumedIsDrawn
  /\ Mixed \/ (ConsumedIsProduced /\ DrawnIsRecorded)

\* What is reserved for an order is what it needs, while requests come one at a
\* time; while they are validations only, it is never less, and no order is DONE
\* before its time.
OrdersAgree ==
  /\ "overlap" \notin marred => ReservedIsNeeded
  /\ "edit" \notin marred => NeverUnderReserved /\ DoneIsProduced

\* ValidatedIsFinal, while requests come one at a time or are validations only, and
\* OrderAdvances, while they come one at a time.
FinalUnlessMixed ==
  [][/\ Mixed' \/ NumbersStay
     /\ "overlap" \notin marred' => OrderAdvances]_<<vars, marred>>
==============================================================================
