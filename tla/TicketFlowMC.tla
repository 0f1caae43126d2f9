---------------------------- MODULE TicketFlowMC ----------------------------
(***************************************************************************)
(* Small instances of TicketFlow for TLC, with a history variable: whether *)
(* two requests on one ticket have ever overlapped.                        *)
(***************************************************************************)
EXTENDS TicketFlow, TLC

CONSTANT Short

VARIABLE raced

TicketOverlap == \E v, w \in Workers :
                   /\ v # w /\ tx[v].act \notin {"none", "remark"}
                   /\ tx[w].act \notin {"none", "remark"} /\ tx[v].t = tx[w].t

\* Bound: one ticket to its end, or more of them and a short history.
InBounds == LET begun == {t \in Tickets : trail[t] # <<>>} IN
              Cardinality(begun) > 1 =>
                Cardinality({line \in begun \X (1 .. MaxMoves) :
                               line[2] <= Len(trail[line[1]])}) <= Short

HistoryInit == Init /\ raced = FALSE
HistoryNext == Next /\ raced' = (raced \/ TicketOverlap')
HistorySpec == HistoryInit /\ [][HistoryNext]_<<vars, raced>>

MCNext == HistoryNext /\ InBounds'
MCSpec == HistoryInit /\ [][MCNext]_<<vars, raced>>

Symmetry == Permutations(Workers) \union Permutations(Suppliers) \union Permutations(Tickets)

\* As long as no two moves of one ticket overlap, a closed ticket is final and in the
\* report, the history is a chain and every ticket can be brought to its end.
OrderlyUnlessRaced ==
  raced \/ (ClosedIsFinal /\ TrailIsAChain /\ NoDeadEnd /\ ReportIsComplete)
=============================================================================
