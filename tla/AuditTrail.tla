----------------------------- MODULE AuditTrail -----------------------------
(***************************************************************************)
(* What the history of a support ticket promises ("Full audit trail of     *)
(* every status transition and validation decision",                       *)
(* apps/support/models.py): a ticket never changes its status without a    *)
(* line, a line names a status the ticket really had and a status that     *)
(* may follow it, and a ticket is closed once.                             *)
(*                                                                         *)
(* It does not promise that a line starts where the one before it ended:   *)
(* two requests may both have loaded the status that is now past.          *)
(***************************************************************************)
EXTENDS Naturals, Sequences

CONSTANTS Tickets

VARIABLES status,       \* of each ticket
          trail         \* its lines, oldest first

vars == <<status, trail>>

\* Where a ticket may go from a status; the keys are the statuses it may have.
Follows ==
  [NEW |-> {"AWAITING_SUPPLIER"},
   AWAITING_SUPPLIER |-> {"DIAGNOSING", "SOLUTION_PROPOSED"},
   DIAGNOSING |-> {"SOLUTION_PROPOSED"},
   SOLUTION_PROPOSED |-> {"DIAGNOSING", "INTERVENING"},
   INTERVENING |-> {"CLOSED"}]

Init == /\ status = [t \in Tickets |-> "none"]
        /\ trail = [t \in Tickets |-> <<>>]

\* The statuses a ticket has been in so far.
Past(t) == {trail[t][n].to : n \in 1 .. Len(trail[t])}

Write(t, from, to) ==
  /\ status' = [status EXCEPT ![t] = to]
  /\ trail' = [trail EXCEPT ![t] = Append(@, [from |-> from, to |-> to])]

Declare(t) == trail[t] = <<>> /\ Write(t, "NEW", "AWAITING_SUPPLIER")

Move(t) ==
  \E from \in Past(t) \ {"CLOSED"} : \E to \in Follows[from] :
    /\ to = "CLOSED" => "CLOSED" \notin Past(t)
    /\ Write(t, from, to)

Next == \E t \in Tickets : Declare(t) \/ Move(t)

Spec == Init /\ [][Next]_vars
=============================================================================
