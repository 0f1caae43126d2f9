----------------------------- MODULE TraceFlowMC -----------------------------
(***************************************************************************)
(* Small instances of TraceFlow for TLC, with a history variable: what has *)
(* ever happened that the requests do not defend themselves against.       *)
(***************************************************************************)
EXTENDS TraceFlow, TLC

CONSTANTS MaxRequests,  \* bounds on the requests begun: on one bag and one case one
          Short         \* after the other, or else; one beside shifts made by hand

VARIABLES begun,        \* how many requests were begun
          marred        \* "overlap": two requests at a time; "hand": shifts made
                        \* or removed by hand

\* A user without one of the three roles, a shift that ends before it starts and one
\* at no machine.
Staff == {"operator", "manager"}
Operators == {"operator"}
Entered == {[user |-> "operator", machine |-> m, starts |-> 1, ends |-> 0] : m \in Machines}
             \union {[user |-> "manager", machine |-> NoMachine, starts |-> 0, ends |-> Open]}

Busy == {w \in Workers : tx[w] # Idle}

MCInit == Init /\ begun = 0 /\ marred = {}

\* One bag, one case, requests that come one after the other; what is stamped or
\* closed is followed where there are no shifts.
Plain == /\ marred = {} /\ gone = {}
         /\ Cardinality(BagNumbers) <= 1
         /\ Cardinality({c \in Cases : case[c].kind # "none"}) <= 1
         /\ \/ shifts = {}
            \/ /\ \A b \in Bags : ~bag[b].shipped /\ ~bag[b].verified
               /\ \A c \in Cases : ~case[c].closed /\ case[c].kind # "NC"

\* Bounds.
InBounds ==
  begun <= IF "hand" \in marred THEN 1 ELSE IF Plain THEN MaxRequests ELSE Short

HistoryNext ==
  /\ Next
  /\ begun' = begun + Cardinality(Busy' \ Busy)
  /\ marred' = marred \union (IF Cardinality(Busy') > 1 THEN {"overlap"} ELSE {})
                      \union (IF shifts' # shifts /\ tx' = tx /\ gone' = gone THEN {"hand"} ELSE {})

HistorySpec == MCInit /\ [][HistoryNext]_<<vars, begun, marred>>

MCNext == HistoryNext /\ InBounds'

MCSpec == MCInit /\ [][MCNext]_<<vars, begun, marred>>

Symmetry == Permutations(Workers) \union Permutations(Bags) \union Permutations(Cases)
            \union Permutations(Machines)

\* PeopleWereThere and OneShiftAtATime, as long as requests come one at a time
\* and nobody touches the shifts by hand.
PeopleKnown == marred = {} => PeopleWereThere /\ OneShiftAtATime

\* LeavesOnce, as long as requests come one at a time.
LeavesOnceSerially == "overlap" \notin marred => LeavesOnce

\* ClosedStaysClosed, as long as requests come one at a time.
ClosedForGood == [][ "overlap" \notin marred' => ClosedStaysClosed]_<<vars, marred>>
==============================================================================
