----------------------------- MODULE TicketFlow -----------------------------
(***************************************************************************)
(* Support tickets (apps/support): a machine's trouble, declared by the    *)
(* factory, diagnosed and answered by one supplier, validated and closed   *)
(* by the factory.                                                         *)
(*                                                                         *)
(* A request loads the ticket, checks the status it loaded, inserts the    *)
(* row its act adds, saves the status, adds a line to the history, tells   *)
(* the sockets and commits.  What it writes is seen when it commits; what  *)
(* it tells the sockets is heard at once, whether it commits or not.       *)
(***************************************************************************)
EXTENDS Naturals, Sequences, FiniteSets, FiniteSetsExt

CONSTANTS Tickets,      \* the keys the table's sequence hands out
          Suppliers,    \* accounts with the role SUPPLIER
          Factory,      \* stands for every internal user
          NoTicket, NoSupplier,
          Workers,      \* requests served at a time
          MaxMoves      \* bound: lines of history in all

ASSUME NullAssumption == /\ NoTicket \notin Tickets
                         /\ NoSupplier \notin Suppliers
                         /\ Factory \notin Suppliers
ASSUME BoundAssumption == MaxMoves \in Nat

VARIABLES ticket,       \* committed rows of Ticket
          trail,        \* TicketStatusLog rows of each ticket, in commit order
          solutions,    \* how many SupplierSolution rows each ticket has
          closure,      \* whether it has its TicketClosure row
          voices,       \* suppliers who wrote its comments, files and solutions
          suppliers,    \* the supplier accounts that still exist
          issued,       \* keys handed out: a rollback does not return them
          heard,        \* tickets each supplier was told of, by socket or notification
          tx            \* the request of each worker

rows == <<ticket, trail, solutions, closure, voices>>
vars == <<rows, suppliers, issued, heard, tx>>

Life == INSTANCE AuditTrail WITH status <- [t \in Tickets |-> ticket[t].status]

Statuses == DOMAIN Life!Follows \union {"CLOSED", "none"}
Authors == Suppliers \union {Factory}

Blank == [status |-> "none", supplier |-> NoSupplier, number |-> 0]

\* A request: what it does to which ticket and for whom, the ticket object it
\* loaded, the status it is to save, its statements left to run and those run.
Idle == [act |-> "none", t |-> NoTicket, by |-> Factory, row |-> Blank,
         to |-> "none", todo |-> <<>>, done |-> {}]

Init == /\ ticket = [t \in Tickets |-> Blank]
        /\ trail = [t \in Tickets |-> <<>>]
        /\ solutions = [t \in Tickets |-> 0]
        /\ closure = [t \in Tickets |-> FALSE]
        /\ voices = [t \in Tickets |-> {}]
        /\ suppliers = Suppliers
        /\ issued = {}
        /\ heard = [s \in Suppliers |-> {}]
        /\ tx = [w \in Workers |-> Idle]
-----------------------------------------------------------------------------
(* Loading: the queryset, the state-machine helper, the plan.              *)

Exists(t) == ticket[t].status # "none"

\* Bound on the history.
MayMove == Cardinality({line \in Tickets \X (1 .. MaxMoves) :
                          line[2] <= Len(trail[line[1]])}) < MaxMoves

Begin(w, r) == /\ tx[w] = Idle
               /\ tx' = [tx EXCEPT ![w] = r]
               /\ UNCHANGED <<rows, suppliers, heard>>

\* Mutant: the tickets of the machine, whoever is assigned.
VisibleToAnySupplier(t, s) == Exists(t)

\* get_queryset: a supplier sees the tickets assigned to them and no other.
VisibleTo(t, s) == Exists(t) /\ ticket[t].supplier = s

Load(w, act, t, by, to, todo) ==
  /\ MayMove
  /\ Begin(w, [Idle EXCEPT !.act = act, !.t = t, !.by = by, !.row = ticket[t],
                           !.to = to, !.todo = todo])
  /\ UNCHANGED issued

\* Mutant: the highest key handed out, not the rows there are.
NumberFromKeys == Cardinality(issued) + 1

\* Ticket.save(): SAV-<year>-<count + 1>, over one year.
NextNumber == Cardinality({t \in Tickets : Exists(t)}) + 1

\* A ticket is declared for a supplier and goes straight to AWAITING_SUPPLIER.
LoadCreate(w) ==
  /\ MayMove
  /\ \E t \in Tickets \ issued, s \in suppliers :
       /\ Begin(w, [Idle EXCEPT !.act = "create", !.t = t,
                      !.row = [status |-> "NEW", supplier |-> s, number |-> NextNumber],
                      !.to = "AWAITING_SUPPLIER", !.todo = <<"insert", "announce">>])
       /\ issued' = issued \union {t}

LoadDiagnose(w) ==
  \E s \in suppliers, t \in Tickets :
    /\ VisibleTo(t, s)
    /\ ticket[t].status = "AWAITING_SUPPLIER"
    /\ Load(w, "diagnose", t, s, "DIAGNOSING", <<"status", "announce">>)

\* Mutant: a solution may be proposed whatever the status.
LoadProposeAny(w) ==
  \E s \in suppliers, t \in Tickets :
    /\ VisibleTo(t, s)
    /\ Load(w, "propose", t, s, "SOLUTION_PROPOSED", <<"status", "announce">>)

LoadPropose(w) ==
  \E s \in suppliers, t \in Tickets :
    /\ VisibleTo(t, s)
    /\ ticket[t].status \in {"AWAITING_SUPPLIER", "DIAGNOSING"}
    /\ Load(w, "propose", t, s, "SOLUTION_PROPOSED", <<"status", "announce">>)

\* A solution accepted, or to be carried out on site, starts the intervention;
\* the other decisions send it back.
LoadValidate(w) ==
  \E t \in Tickets, to \in {"INTERVENING", "DIAGNOSING"} :
    /\ ticket[t].status = "SOLUTION_PROPOSED"
    /\ Load(w, "validate", t, Factory, to, <<"status", "announce">>)

\* Mutant: the closing figures are saved after the status, in a row of their own.
LoadCloseWithoutRow(w) ==
  \E t \in Tickets :
    /\ ticket[t].status = "INTERVENING"
    /\ Load(w, "close", t, Factory, "CLOSED", <<"status", "announce">>)

\* RESOLVED, which close() also accepts, is a status nothing sets.
LoadClose(w) ==
  \E t \in Tickets :
    /\ ticket[t].status = "INTERVENING"
    /\ Load(w, "close", t, Factory, "CLOSED", <<"closure", "status", "announce">>)

\* add_comment and add_attachment: whoever sees the ticket, in any status.
LoadRemark(w) ==
  \E t \in Tickets, a \in suppliers \union {Factory} :
    /\ IF a = Factory THEN Exists(t) ELSE VisibleTo(t, a)
    /\ Load(w, "remark", t, a, ticket[t].status, <<"announce">>)
-----------------------------------------------------------------------------
(* The statements.                                                         *)

Did(v, t, stmt) == tx[v].t = t /\ stmt \in tx[v].done

Step(w, stmt) ==
  /\ tx[w].todo # <<>> /\ Head(tx[w].todo) = stmt
  /\ tx' = [tx EXCEPT ![w].todo = Tail(@), ![w].done = @ \union {stmt}]

Undo(w) == /\ tx' = [tx EXCEPT ![w] = Idle]
           /\ UNCHANGED <<rows, suppliers, issued, heard>>

\* The INSERT waits while another one with its number is in flight.
NumberInFlight(w) == \E v \in Workers \ {w} :
                       "insert" \in tx[v].done /\ tx[v].row.number = tx[w].row.number

NumberTaken(w) == \E t \in Tickets : ticket[t].number = tx[w].row.number

Insert(w) == /\ ~NumberInFlight(w) /\ ~NumberTaken(w)
             /\ Step(w, "insert")
             /\ UNCHANGED <<rows, suppliers, issued, heard>>

\* ticket_number is unique: an IntegrityError, and the request is rolled back.
InsertRefused(w) == /\ tx[w].todo # <<>> /\ Head(tx[w].todo) = "insert"
                    /\ NumberTaken(w)
                    /\ Undo(w)

\* TicketClosure.ticket is one-to-one.
InsertClosure(w) ==
  /\ \A v \in Workers \ {w} : ~Did(v, tx[w].t, "closure")
  /\ Step(w, "closure")
  /\ ~closure[tx[w].t]
  /\ UNCHANGED <<rows, suppliers, issued, heard>>

ClosureRefused(w) == /\ tx[w].todo # <<>> /\ Head(tx[w].todo) = "closure"
                     /\ closure[tx[w].t]
                     /\ Undo(w)

\* The UPDATE of the status waits for the row.
SaveStatus(w) == /\ \A v \in Workers \ {w} : ~Did(v, tx[w].t, "status")
                 /\ Step(w, "status")
                 /\ UNCHANGED <<rows, suppliers, issued, heard>>

\* The supplier the row names once the transition has reloaded it.
Assigned(w) == IF tx[w].act = "create" THEN tx[w].row.supplier
               ELSE ticket[tx[w].t].supplier

\* _supplier_users: the ticket's supplier, if the account is there.
Recipients(w) == {Assigned(w)} \intersect suppliers

\* Mutant: every account joins the internal group.
GroupOfAll(u) == Factory

\* The group a socket joins when it connects: the staff share one, a supplier has
\* one of their own.
GroupOf(u) == IF u \in Suppliers THEN u ELSE Factory

\* broadcast_ticket_event: the internal group, and that of the ticket's supplier.
Groups(w) == {Factory} \union Recipients(w)

Listeners(w) == {s \in Suppliers : GroupOf(s) \in Groups(w)}

\* The notify_... of each act: what the factory does, and every comment, goes to
\* the supplier; what the supplier does goes to the factory alone.
Notified(w) == IF tx[w].by = Factory \/ tx[w].act = "remark" THEN Recipients(w) ELSE {}

\* The socket and the mailbox.  A broadcast that fails is logged and forgotten.
Announce(w) == /\ Step(w, "announce")
               /\ \E told \in {Notified(w), Listeners(w), {}} :
                    heard' = [s \in Suppliers |-> IF s \in told
                              THEN heard[s] \union {tx[w].t} ELSE heard[s]]
               /\ UNCHANGED <<rows, suppliers, issued>>

\* Mutant: the reload comes first, and what is logged is not what was checked.
LineFromReload(w) == [from |-> ticket[tx[w].t].status, to |-> tx[w].to]

\* _transition(): from the status the object had, which was checked.
Line(w) == [from |-> tx[w].row.status, to |-> tx[w].to]

\* Mutant: a new ticket stays NEW until somebody assigns it.
SavedNew(w) == IF tx[w].act = "create" THEN tx[w].row
               ELSE [ticket[tx[w].t] EXCEPT !.status = tx[w].to]

\* The row of a new ticket, or the committed row with the status saved.
Saved(w) == IF tx[w].act = "create" THEN [tx[w].row EXCEPT !.status = tx[w].to]
            ELSE [ticket[tx[w].t] EXCEPT !.status = tx[w].to]

\* Deferred foreign keys are checked here.
KeysHold(w) == /\ tx[w].act = "create" => tx[w].row.supplier \in suppliers
               /\ tx[w].by # Factory => tx[w].by \in suppliers

CommitMove(w) ==
  LET t == tx[w].t IN
  /\ tx[w].act \notin {"none", "remark"}
  /\ tx[w].todo = <<>> /\ KeysHold(w)
  /\ ticket' = [ticket EXCEPT ![t] = Saved(w)]
  /\ trail' = [trail EXCEPT ![t] = Append(@, Line(w))]
  /\ solutions' = [solutions EXCEPT ![t] = IF tx[w].act = "propose" THEN @ + 1 ELSE @]
  /\ closure' = [closure EXCEPT ![t] = @ \/ "closure" \in tx[w].done]
  /\ voices' = [voices EXCEPT ![t] = IF tx[w].act = "propose"
                                     THEN @ \union {tx[w].by} ELSE @]
  /\ tx' = [tx EXCEPT ![w] = Idle]
  /\ UNCHANGED <<suppliers, issued, heard>>

CommitRemark(w) ==
  /\ tx[w].act = "remark"
  /\ tx[w].todo = <<>> /\ KeysHold(w)
  /\ voices' = [voices EXCEPT ![tx[w].t] = @ \union ({tx[w].by} \ {Factory})]
  /\ tx' = [tx EXCEPT ![w] = Idle]
  /\ UNCHANGED <<ticket, trail, solutions, closure, suppliers, issued, heard>>

\* A crash, a lost connection, a refused key.
Abort(w) == tx[w] # Idle /\ Undo(w)

\* An administrator deletes the account of a supplier: the tickets stay, with
\* no supplier, and what the supplier wrote stays without an author.
RemoveSupplier(s) ==
  /\ s \in suppliers
  /\ \A w \in Workers : "status" \in tx[w].done => ticket[tx[w].t].supplier # s
  /\ suppliers' = suppliers \ {s}
  /\ ticket' = [t \in Tickets |-> IF ticket[t].supplier = s
                  THEN [ticket[t] EXCEPT !.supplier = NoSupplier] ELSE ticket[t]]
  /\ voices' = [t \in Tickets |-> voices[t] \ {s}]
  /\ UNCHANGED <<trail, solutions, closure, issued, heard, tx>>

\* remind_awaiting_supplier: a task, outside of any request.
Remind(t) ==
  /\ ticket[t].status = "AWAITING_SUPPLIER"
  /\ ticket[t].supplier \in suppliers
  /\ heard' = [heard EXCEPT ![ticket[t].supplier] = @ \union {t}]
  /\ UNCHANGED <<rows, suppliers, issued, tx>>

Next ==
  \/ \E w \in Workers :
       \/ LoadCreate(w) \/ LoadDiagnose(w) \/ LoadPropose(w) \/ LoadValidate(w)
       \/ LoadClose(w) \/ LoadRemark(w)
       \/ Insert(w) \/ InsertRefused(w) \/ InsertClosure(w) \/ ClosureRefused(w)
       \/ SaveStatus(w) \/ Announce(w) \/ CommitMove(w) \/ CommitRemark(w) \/ Abort(w)
  \/ \E s \in Suppliers : RemoveSupplier(s)
  \/ \E t \in Tickets : Remind(t)

Spec == Init /\ [][Next]_vars
-----------------------------------------------------------------------------
(* Properties.                                                             *)

Request == [act : {"none", "create", "diagnose", "propose", "validate", "close", "remark"},
            t : Tickets \union {NoTicket}, by : Authors,
            row : [status : Statuses, supplier : Suppliers \union {NoSupplier},
                   number : Nat],
            to : Statuses,
            todo : Seq({"insert", "closure", "status", "announce"}),
            done : SUBSET {"insert", "closure", "status", "announce"}]

\* The types; a committed ticket is never NEW: the request that inserts it
\* moves it on before it commits.
TypeOK ==
  /\ ticket \in [Tickets -> [status : Statuses \ {"NEW"},
                             supplier : Suppliers \union {NoSupplier}, number : Nat]]
  /\ \A t \in Tickets : \A n \in 1 .. Len(trail[t]) :
       trail[t][n] \in [from : Statuses, to : Statuses]
  /\ solutions \in [Tickets -> Nat]
  /\ closure \in [Tickets -> BOOLEAN]
  /\ voices \in [Tickets -> SUBSET Suppliers]
  /\ suppliers \subseteq Suppliers
  /\ issued \subseteq Tickets
  /\ heard \in [Suppliers -> SUBSET Tickets]
  /\ tx \in [Workers -> Request]

\* Whatever overlaps, the history tells what became of the ticket: every
\* change has its line, with a status the ticket really had and one that may
\* follow it, and no ticket is closed twice (_transition, TicketStatusLog).
Audited == Life!Spec

\* SupportKPIsView, with every closure in its window: the closed tickets, those of
\* each supplier, and the answers whose delay is averaged.
ClosedTickets == {t \in Tickets : ticket[t].status = "CLOSED"}
BySupplier(s) == {t \in ClosedTickets : ticket[t].supplier = s}
Answers == MapThenSumSet(LAMBDA t : solutions[t], ClosedTickets)

Moves(t, to) == Cardinality({n \in 1 .. Len(trail[t]) : trail[t][n].to = to})

\* The rows an act adds and the lines it writes come together or not at all:
\* one solution for each line that says proposed, one closure for the line
\* that says closed (propose_solution, close).
TrailTellsRows ==
  \A t \in Tickets : /\ solutions[t] = Moves(t, "SOLUTION_PROPOSED")
                     /\ Moves(t, "CLOSED") = IF closure[t] THEN 1 ELSE 0

\* "a supplier account must never receive another supplier's ticket data"
\* (channels_utils.py): neither on the socket, from requests that commit or
\* not, nor a trace of theirs on a ticket that is not assigned to them.
OwnTicketsOnly ==
  \A s \in Suppliers, t \in Tickets :
    t \in heard[s] \/ s \in voices[t] => ticket[t].supplier \in {s, NoSupplier}

\* Numbers made from a count are unique and without a gap although requests
\* count the same rows at once and keys are lost in rollbacks: a number is
\* never below the next free one and the unique column refuses the others.
NumbersAreDense ==
  LET numbered == {t \in Tickets : Exists(t)} IN
    {ticket[t].number : t \in numbered} = 1 .. Cardinality(numbered)

\* A closed ticket stays closed, as the controls that mirror "Ticket's
\* append-only-after-terminal-state convention" have it (maintenance/models.py).
ClosedIsFinal == \A t \in Tickets : closure[t] => ticket[t].status = "CLOSED"

\* The lines form a chain: each starts where the one before it ended.
TrailIsAChain ==
  \A t \in Tickets : \A n \in 1 .. Len(trail[t]) :
    trail[t][n].from = IF n = 1 THEN "NEW" ELSE trail[t][n - 1].to

\* The report counts every closing once, under its supplier as long as the account
\* is there, and every answer to a ticket that is closed (SupportKPIsView).
ReportIsComplete ==
  LET closings == {t \in Tickets : Moves(t, "CLOSED") > 0} IN
  /\ ClosedTickets = closings
  /\ UNION {BySupplier(s) : s \in suppliers}
       = {t \in closings : ticket[t].supplier # NoSupplier}
  /\ Answers >= Cardinality(closings)

\* What a user may still do with a ticket, by its status, its supplier and its
\* closure row.
CanMove(t) ==
  CASE ticket[t].status \in {"AWAITING_SUPPLIER", "DIAGNOSING"} ->
         ticket[t].supplier \in suppliers
    [] ticket[t].status = "INTERVENING" -> ~closure[t]
    [] OTHER -> TRUE

\* No ticket is left in a status nobody can take it out of, as long as its
\* supplier is there: AWAITING_SUPPLIER and DIAGNOSING wait for the supplier,
\* INTERVENING for a closure that does not exist yet.
NoDeadEnd == \A t \in Tickets : ticket[t].supplier # NoSupplier => CanMove(t)
=============================================================================
