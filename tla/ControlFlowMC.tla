---------------------------- MODULE ControlFlowMC ----------------------------
(***************************************************************************)
(* Small instances of ControlFlow for TLC, with a history variable: what   *)
(* has ever happened that the requests do not defend themselves against.   *)
(***************************************************************************)
EXTENDS ControlFlow, TLC

CONSTANTS isbm88, compressor, isbm88Later, i1, i2,
          MaxLog        \* bound on the confirmations

DaySlots == (isbm88 :> 1) @@ (compressor :> 1) @@ (isbm88Later :> 2)

\* A checklist of two items, and two of one item to save states.
Checklists == (isbm88 :> {i1, i2}) @@ (compressor :> {i2}) @@ (isbm88Later :> {i1})

VARIABLE marred         \* "overlap": of two answers to one control, or of two
                        \* confirmations; "removal": of a target or an account

Answering(w) == tx[w].act \in {"submit", "confirm"}

Overlap == \E v, w \in Workers :
             /\ v # w /\ Answering(v) /\ Answering(w)
             /\ tx[v].slot = tx[w].slot \/ {tx[v].act, tx[w].act} = {"confirm"}

\* Bounds: two confirmations; once some overlapped or something was deleted, the
\* third slot is left alone.
InBounds ==
  /\ Len(log) <= MaxLog
  /\ marred # {} => control[isbm88Later].status = "none"
                   /\ \A w \in Workers : tx[w] # Idle => tx[w].slot # isbm88Later

MCInit == Init /\ marred = {}

HistoryNext ==
  /\ Next
  /\ marred' = marred \union (IF Overlap' THEN {"overlap"} ELSE {})
                      \union (IF tx' = tx THEN {"removal"} ELSE {})

HistorySpec == MCInit /\ [][HistoryNext]_<<vars, marred>>

MCNext == HistoryNext /\ InBounds'

MCSpec == MCInit /\ [][MCNext]_<<vars, marred>>

Symmetry == Permutations(Workers) \union Permutations(Controllers)

\* LockedIsFinal and NotStartedOver, as long as answers come one at a time.
FinalUnlessMarred ==
  [][NotStartedOver /\ ("overlap" \notin marred' => LockedIsFinal)]_<<vars, marred>>

\* OneConfirmationADay, as long as answers come one at a time and nothing and
\* nobody is deleted.
OneADayUnlessMarred == marred = {} => OneConfirmationADay

\* ProblemsAreNoted, as long as answers come one at a time.
NotedUnlessMarred == "overlap" \notin marred => ProblemsAreNoted
=============================================================================
