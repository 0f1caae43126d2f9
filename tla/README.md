# A model of the ISBM backend

TLA+ modules, TLC configurations and TLAPS proofs about the Django backend of a
bottle factory (`src/`). They model what its requests do to shared rows when they
overlap, fail or arrive twice, and what the rows promise to each other.
`PROJECT.json` maps each definition to the lines it models.

## How the program runs

* Django REST views over PostgreSQL. `ATOMIC_REQUESTS` is on
  (`config/settings/base.py:104`): one HTTP request is one transaction at READ
  COMMITTED, rolled back as a whole when the view raises.
* No view uses `select_for_update` or an `F()` expression. A request reads rows
  into objects, checks the objects, and later saves them. `Model.save()` writes
  every column as the object has it, unless `update_fields` names some; the row
  lock the UPDATE takes lasts until the commit.
* Several server threads run requests at a time. A Celery worker runs
  `check_escalations` every two minutes in autocommit, one transaction for each
  save. Screens listen on a WebSocket.

Every module whose subject is what overlaps therefore has a variable `tx`: for each
worker the objects its request holds, the statements it has still to run, and the
rows it has locked. A step is one statement (neighbouring statements are merged when
what lies between them cannot be told apart from outside), writes become visible at
the commit, and `Abort` may happen at any point: a crash, a lost connection, an
error.

## Inventory

| Component | State | Operations | What is hard | What makes it correct | Modules |
|---|---|---|---|---|---|
| stock | `StockItem.quantity`, `StockMovement`, `StockReservation` | create, edit, archive, manual move, idempotent consumption, resync of reservations | lost updates, retries, a unique violation caught in mid-request, deadlocks of two items | a source is charged once; the ledger explains the quantity; nothing consumed that was not received | `StockLedger`, `ProductionFlow`, `Forecast` |
| package | `Package`, its people, shipping and verification | create with consumption, edit, ship, verify | two deductions and a row that must go together; stamps and stale saves | a bag exists exactly when its material is charged; it leaves once; it names who was there | `StockLedger`, `TraceFlow` |
| production | `ProductionEntry` status and figures | create, edit, bulk save, validate, delete | check-then-save on the status; bulk `update_or_create` | validated figures are final and equal what stock lost | `ProductionFlow`, `Figures` |
| planning | `PlanningOrder` status, quantity | create, edit, delete, advance after a validation, schedule and simulation (computed) | validations that do not see each other; stale orders | DONE exactly when produced; reservations equal what is left; the schedule is feasible | `ProductionFlow`, `Forecast` |
| alerts | `Alert` status, stamps, level, score | declare, acknowledge, start, resolve, close, escalate, comment, the escalation task | stale full-row saves, a task working through an old list | status only moves forward; an ignored alert is escalated; the machine follows | `AlertFlow` |
| alert sockets | who is in the group | connect, broadcast, disconnect | events before the commit, lost events, an event without a handler | a screen that lost nothing shows what the row says | `AlertFeed` |
| machines | `Machine.status` | status endpoint, edit, synchronisation from alerts | written from three places | BREAKDOWN exactly while a critical alert is active | `AlertFlow` |
| maintenance | `Intervention`, `MaintenanceControl`, preventive tasks | finish, verify, edit; start, submit, confirm | one request writes intervention, alert and machine; checks before locks | a finished intervention leaves no active alert; a confirmed control is final | `AlertFlow`, `ControlFlow` |
| support | `Ticket`, `TicketStatusLog`, solutions, closure | declare, diagnose, propose, validate, close, remark | transitions checked and logged from a loaded status | the log tells what happened; a supplier sees only their own tickets | `TicketFlow`, `AuditTrail` |
| accounts | users, `ShiftAssignment` | login, logout, rows by hand, deletion | two clock-ins | one open row per user; bags know their people | `TraceFlow` |
| quality, reclamation | numbered cases | create, edit, close, delete | numbers made from `count() + 1` | numbers are unique, closed stays closed | `TraceFlow` |
| catalog | recipes, components | recipe edits, `max_producible` | reservations made from an older recipe | capacity agrees with its definition | `Forecast` |
| oee, costs, dashboard | records per machine and day, sums | recalculate, write by hand, read | records older than their entries | records agree with entries, parts with the whole | `Figures`, `Forecast`, `AlertFlow` |
| notifications | notices | told of an event | who is told | only those concerned | `TicketFlow` (who) |
| audit, common | activity log, role checks | write-only | nothing reads them back | - | - |

Interactions: package and production call stock; production calls planning, which
calls stock for reservations; bags and complaints read the shifts that logins write;
alerts and maintenance write each other's rows and the machine's; alerts and support
send events to sockets; oee, costs and dashboard read production's entries.

## Modules

| Module | Models | Notes |
|---|---|---|
| `StockLedger` | items, movements, consumption by bags and validations | the core |
| `ConsumeOnce` | the promise of automatic consumption | abstract; `StockLedger` implements it (`ConsumesOnce`) |
| `ProductionFlow` | entries, orders, reservations | a consumption of `StockLedger` is one step here |
| `AlertFlow` | alerts, interventions, machines, the escalation task | |
| `AlertFeed` | a screen and its socket | composed with `AlertFlow`: extends its steps |
| `TicketFlow` | support tickets, their history, sockets and report | |
| `AuditTrail` | the promise of a ticket's history | abstract; `TicketFlow` implements it (`Audited`) |
| `TraceFlow` | shifts, bags, complaints, non-conformities | |
| `ControlFlow` | preventive controls | |
| `Forecast` | recipes, reservations, schedule, simulation, capacity | algorithms against reference definitions |
| `Figures` | entries' figures, TRS and cost records, totals | algorithms against reference definitions |
| `StockLedgerProofs`, `ProductionFlowProofs`, `AlertFlowProofs`, `TicketFlowProofs`, `TraceFlowProofs`, `ControlFlowProofs`, `ReportsProofs` | the theorems on each, with their proofs | `AlertFlowProofs` is about `AlertFeed` too, `ReportsProofs` about `Forecast` and `Figures` |
| `SumTheorems` | lemmas on sums over finite sets | used by four of the proof modules |

A module `...MC` or `...History` holds the instance TLC checks: values of constants,
bounds (always an operator `InBounds`), symmetry, and a *history variable* (`raced`,
`marred`, `astray`, `touched`, ...) that remembers whether something has happened that
the code does not defend itself against. Much of what this backend promises is kept
only as long as requests come one at a time; such a property is stated as "until the
history variable says so", in a run that has the overlaps too, so that one run shows
both what holds always and what holds in peace.

The module that declares the history variable gives two specifications. `HistorySpec`
(`FeedHistorySpec` for the screen) is the component's `Spec` with the history variable
and nothing else; the theorems are about `Spec`, or about this one where the property
needs the history. `MCSpec` is the same with `InBounds`, for TLC.

### StockLedger

`quantity`, `shelf` (does the row exist, is it active), `ledger` (movements per
item in commit order), `recorded` (bags and validated entries committed), `tx`.
A *job* is an automatic consumption: a source key and one or two lines, raw
material first. A bag of an order uses the order's key, so two bags of one order
are two jobs with one source.

`LoadJob`, `LoadMove`, `LoadEdit` read the items. Then, line by line, the existing
movement is looked up (`SkipExisting`), the result is checked against the quantity
that was *loaded* (`PassCheck`, `Reject`), and the UPDATE and INSERT follow under
the row lock (`WriteLine`). If another request committed the same key meanwhile,
the INSERT fails, the savepoint takes the UPDATE back and the request goes on
(`UniqueViolation`). Waiters in a circle lose one of their number
(`DeadlockVictim`). `SaveEdit` writes the whole row of an item as `LoadEdit` found it,
its quantity included, whatever was moved in between.

### ProductionFlow

Rows `entry`, `order`, `reserved`, and `drawn`, what each entry's source took
from stock. `tx` keeps the in-memory entry (`row`) and order (`head`).
`LoadValidate`, `Consume` or `AlreadyDrawn`, `SaveEntry`, `Advance`, `SaveStatus`,
`Sync`, `Commit` follow `validate()` and `advance_order_after_production()`
statement by statement. `Sees` is READ COMMITTED: the committed entries with the
one this request has written. `SyncWaits` and `SyncBeaten` are what PostgreSQL
does to a DELETE that waits for rows another request deletes and recreates: it
does not see the new ones. A deleted row that is saved again is inserted again, as
`Model.save()` does. Foreign keys are checked at the commit (`KeysHold`).

Abstractions: one material, one unit for a bottle; a recipe is there or not and does
not change while an order holds it except by an edit of the order. No request sets
CANCELLED, so it is left out. A recipe whose requirement is zero grams, for which
`validate()` says STOCK_CONSUMED and draws nothing, is left out too.

`bulk()` is followed for one of its entries. Its serializer carries the model's
unique-together validator, so that `is_valid` refuses an hour that has an entry
(`LoadBulk` wants it absent). From there `create()` looks for one again
(`BulkLookUp`) and leaves a validated one alone; if there is none it makes one
(`CreateEntry`), and a draft that was made since `is_valid` is rewritten by
`update_or_create` under its lock (`BulkWrite`, `BulkGone`).

### AlertFlow and AlertFeed

Rows `alert`, `job` (the intervention of an alert), `machine`; `age` in two steps
(5 and 15 minutes); `sweep`, the list `check_escalations` read and has not worked
off. A request is loaded with the list of its statements (`todo`): `resolve` is
save the alert, synchronise, save the machine; `finish` saves the intervention
first; `create` saves it last. `Sync` reads the committed alerts with its own, and
compares with the status its machine *object* has. `finish` reads the machine only
after the alert is saved, the others with the alert. `escalate` saves the level
alone, so `AlertAfter` leaves the score as it was. `Andon`, `Queue` and the counts
are what the board, maintenance and the dashboard show.

Abstractions: a severity is critical or not; who may call what is left out;
clients' inputs are bounded by `ClientLevels` and `ByHand`; an alert has at most
one intervention in its life and a PATCH does not move it to another alert.

`AlertFeed` adds one screen: `live`, `told` (the status in the last event on each
alert), `missed` and the comments under way. `SaveAndTell` replaces `SaveAlert`: the
event goes out with the save, long before the commit, with the status of the object.
It is delivered, lost with a logged exception, or, for `alert_started`, closes the
socket because `AlertConsumer` has no method for it (`Unhandled`).

### TicketFlow and AuditTrail

Rows `ticket`, `trail`, `solutions`, `closure`, `voices`; `heard` is what each
supplier's group or notifications said. A request loads the ticket, checks the status
it loaded, inserts the row its act adds (`Insert`, `InsertClosure`), saves the status
and its line (`SaveStatus`), tells the groups (`Announce`, heard whether or not the
request commits) and commits. `NextNumber` is `count() + 1`; the unique column makes a
second request wait and then fail (`NumberInFlight`, `InsertRefused`). `Recipients`,
`GroupOf` and `Groups` are `services.py` and the consumer's groups; `Remind` is the
reminder task. `AuditTrail` says what the history promises and, in its comment, what
it does not: that a line starts where the one before it ended.

### TraceFlow

`now`, `at` and `was` say where people really were; `shifts` is the table that is
supposed to know. `LoadClock`, `CloseShifts` and `CommitClock` are login and logout
with `ShiftAssignment.clock_in`/`clock_out`: the UPDATE finds the open rows, waits for
those another request holds, and closes the ones that are still there; a row made
while it waited it has not found. A bag (`LoadCreateBag`, `LoadEditBag`, `CompareBag`,
`CommitBag`) copies the people `Personnel` finds; an edit sends any of its machine and
its two dates, and `CompareBag` is the second `get_object()` of `perform_update`.
`LoadStamp`/`CommitStamp` ship and verify.

Complaints and non-conformities are *cases* (`LoadCreateCase`, `LoadEditCase`,
`CompareCase`, `LoadClose`, `CommitCase`, `DeleteCase`). A complaint names those of
the people on shift who have one of three roles (`Named`, `AboutBag`).

`EditShifts` are the rows made by hand, which nothing checks: they may end before
they start, or overlap (`ByHand`). `RemoveUser` is the deletion of an account, which
takes its shifts along; `RemoveMachine` that of a machine, which `gone` remembers: it
is refused while there are bags of it, and empties the machine of shifts and
complaints.

### ControlFlow

A *slot* is a date, a shift and a target. `LoadStart`, `Insert`, `CommitStart` are
`get_or_create` and the population of the checklist; `LoadSubmit`/`CommitSubmit` and
`LoadConfirm`/`CommitConfirm` check what they load and write later. Deleting a target
or an account takes or empties controls (`RemoveTarget`, `RemoveController`).

### Forecast and Figures

A request is one step in these two: their subject is what is computed from the rows,
and the races of the same requests are `ProductionFlow`'s. `Timeline` and `Simulate`
are `calculate_schedule` and `simulate_stock_sequence` as folds over the queue,
`Capacity` is `max_producible`; the properties say what the results have to satisfy,
in terms of the orders and the stock alone. `Sorted` is a queryset's `order_by` and
Python's stable `sort`; `Check` is the body of the simulation's loop. An order's
`Row` is created, edited and deleted with its reservations (`Write`), a recipe by its
view (`EditBottle`) or by the admin site, which leaves its components behind
(`AdminEditBottle`). `Figures` follows `save()`, the bulk save, `OEERecord.compute`,
`CostRecord.compute_totals`, both recalculations (of one machine or of all that are
active: any subset), and the sums by shift, machine and day. Percentages are whole
points; a bottle takes one unit of time and a change of molds `MoldChange` of them,
whatever the order.

Some of what these screens promise depends on what people type in, which nothing
checks; the properties name it. `Weighed`: no recipe has a negative weight (without it
a reservation can be negative, and more reserved means more available). A client may
send the shift of an entry and its reject percentage, which `save()` keeps unless it
is empty or zero, and a bulk request may send an hour twice, the second form not
changing what `save()` worked out for the first (`Overwritten`): `touched` remembers
the entries that were sent more than once or with one of the two, of which neither
figure is known to tell anything. A TRS is the product of three rounded
percentages, and a performance has no upper limit, so how far it may be from that of
its inputs is stated in terms of the percentages (`Slack`): some two points at 100
percent each.

## Runs

Sizes are TLC's, with two workers; none takes more than two and a half minutes.

| Run | Question | Bounds, and why they are enough |
|---|---|---|
| `StockLedger` | Do racing, retried and failing consumptions charge a source once, and exactly what is recorded (`ChargedExactly`, `ConsumesOnce`)? Does the newest movement explain the quantity of an item, unless it was committed while somebody edited the item (`ExplainedUnlessCrossed`)? Is nothing lost and every bag backed while requests come one at a time (`SerialLedger`)? | 2 workers, 2 items, 3 jobs of 2 sources (one source shared, one with the items crossed): the smallest with a shared key, a second line that fails and a circle of waiters. Archiving until requests have overlapped; edits and manual receipts before and after. |
| `StockLedgerLive` | Does every request end (`RequestEnds`)? | 2 workers whose bags lock the items in opposite orders; edits and archiving until requests have overlapped. The bounds stop requests before they begin, never one in progress, so that they take nothing from the fairness. |
| `ProductionFlow` | Is an entry drawn once (`DrawnOnce`) and is what is drawn what was produced (`BooksAgree`)? Are reservations and order statuses right (`OrdersAgree`) and validated figures final (`FinalUnlessMixed`)? | 2 workers, every request, one order of 1 or 2 bottles (under-, exactly and over-produced). 3 entries for validations that race, so that a third validates after the race; 2 when other requests overlap. |
| `AlertFlow` | Do machine, interventions and screens follow the alerts in peace (`SerialAlerts`)? Is no save half done (`NothingHalfDone`), do locks go in one order (`NoCycle`), does a status only move forward (`ForwardUnlessMarred`)? | 2 workers, 2 alerts on one machine in peace (one may stay critical while the other is resolved), 1 alert once something overlapped. |
| `AlertFeed` | Is an ignored alert escalated (`Escalated`)? Does a screen follow the rows (`FollowsUnlessAstray`)? | 2 workers, one alert; the task with crashes and no screen, or a screen and no task (the task broadcasts nothing) |
| `TicketFlow` | Does the history tell what became of a ticket (`Audited`, `TrailTellsRows`), is it a chain and a closed ticket final until two moves overlap (`OrderlyUnlessRaced`)? Do suppliers hear of their tickets alone (`OwnTicketsOnly`)? Are numbers dense (`NumbersAreDense`)? | 2 workers, 2 suppliers, one ticket through 6 lines (a refused solution, an accepted one and the closing), or two with short histories (for numbers and for the wrong supplier) |
| `TraceFlow` | Does a bag name the people who were there (`PeopleKnown`)? Does it leave once (`LeavesOnceSerially`)? Are numbers right (`NumbersAreDense`), is a closed case final (`ClosedForGood`)? | 2 workers; 2 users, one without a role complaints name, who move between 2 machines in 3 instants; 2 bags, 2 cases. On one bag and one case with all machines there, 4 requests in sequence (a login, a bag, a complaint about it and a correction of either), and as many where there are no shifts to follow what is stamped and closed; 3 otherwise, and 1 beside a row made by hand |
| `ControlFlow` | Is a confirmed control final (`FinalUnlessMarred`), with its problems noted (`NotedUnlessMarred`), one a day for each controller (`OneADayUnlessMarred`)? | 2 workers, 2 controllers, 2 slots of one day and one of the next |
| `Reports` | Are schedule, simulation and capacity right (`NeverDoubleBooked`, `SimulationIsGreedy`, `CapacityIsExact`)? Do reservations follow the recipe (`ReservedUnlessUnsynced`)? Do records follow entries and parts add up (`FiguresUnlessTouched`, `TotalsAddUp`)? | `Forecast` and `Figures` side by side (they share no row, so a behaviour moves one of them): 3 orders on 2 machines with 2 molds, so that two wait for one machine and three for one material; 2 recipes, one without colorant, that share a material; 2 entries of 2 machines, recalculated and written by hand |

`StockLedger`, `StockLedgerLive`, `StockLedgerLostUpdate`, `AlertFlow` and
`AlertFeed` check for deadlock. The others do not, because their finitely many rows,
lines or instants are used up. Symmetry is used only in runs without liveness, over
workers, and over entries, alerts, bags and so on where the instance treats them
alike.

Runs that end in a counterexample, each a disagreement of the code with a comment
in it (see `findings`):

* `StockLedgerLostUpdate`: two consumptions of one item, one deduction lost.
  `BagsAreBacked` holds one request at a time (`SerialLedger`).
* `ProductionFlowBulk`: a bulk save writes over a validated entry. It takes an entry
  that is created after the request's `is_valid` and validated after its look-up, for
  either would stop it before. `ValidatedIsFinal` holds one request at a time, and among validations
  (`FinalUnlessMixed`).
* `AlertFlowMachine`: one critical alert is resolved while another is declared,
  and the machine runs. `MachineMatchesAlerts` holds one request at a time
  (`SerialAlerts`).

The same modules show more to whoever drops the history variable from a property:
an edit of an item that puts back the quantity it loaded, undoing a movement
committed since, which no movement says (`QuantityIsLastAfter`: `serializer.save()`
of `stock/views.py:40` writes the whole row, against the "Single chokepoint for every
stock quantity change" of `stock/services.py:16`), a deletion over a validation
(`DrawnIsRecorded`), an order produced by two validations at once and not DONE
(`OrderAdvances`), a resync from a stale order (`ReservedIsNeeded`), a resolved alert
acknowledged (`StatusForward`), a finished intervention with its alert active after a
PATCH (`FinishedIsResolved`), a screen told of a status that was rolled back
(`Follows`), a closed ticket reopened by a validation that loaded it before, and then
impossible to close (`ClosedIsFinal`, `NoDeadEnd`), a bag shipped, unshipped by a
stale edit and shipped again (`LeavesOnce`), two open shifts (`OneShiftAtATime`), two
confirmations a day (`OneConfirmationADay`), an answer in a locked control
(`LockedIsFinal`), reservations of an old recipe (`ReservedFollowsRecipe`), a reject
percentage of the first count or of the client's making (`PctTellsRejects`).

### Fairness

`StockLedgerLive`: a thread keeps running its request (WF of `Step`) and PostgreSQL
serves the queue of a row lock (SF of the steps that wait). Nothing is assumed of
clients, nor that the system never crashes. `AlertFeed`: requests that began go on,
the beat fires (WF of `SweepStart`), the task's UPDATE is served by the lock queue
(SF of `SweepStep`), and the task is not lost for ever: one that is killed every
time never reaches an alert. Nothing is assumed of clients, nor that an alert grows
old. The other runs check safety only; the repository schedules
no other task, so there is nothing that has to happen without a client.

## Proofs

The theorems hold for all values of the constants: any sets of items, alerts, tickets,
bags, workers and so on, infinite ones included, and any inputs. They assume what the
modules declare of their constants (`SourceAssumption`, `DeltaAssumption`,
`BoundAssumption`, `JobAssumption`, `NullAssumption`, `NamedAssumption`,
`ByHandAssumption` (a row made by hand has the fields of a row), `InputsAssumption`,
`SlotsAssumption`, `NumbersAssumption`, `RecipesAssumption`, `KeysAssumption`,
`FormsAssumption`, `AmountsAssumption`, `SentAssumption`, `FiguresAssumption`), which
TLC evaluates in the runs, and nothing else. Each component whose requests overlap is
proved in the same three steps: an invariant `IInv` that holds whatever interleaves; a
second one, kept until the history variable says that its premise is gone; and the
properties, which follow. Every safety property of a passing run is the subject of a
theorem.

| Module | Theorem | Establishes |
|---|---|---|
| `StockLedgerProofs` | `TypeCorrect`, `ChargesExact` | `TypeOK` (no quantity is negative), `ChargedExactly` |
| | `LedgerExplainsQuantity` | `ExplainedUnlessCrossed`, edits included |
| | `LedgerRefinesPromise` | `ConsumesOnce`: `StockLedger` implements `ConsumeOnce` |
| | `SeriallyExact` | `SerialLedger` |
| `ProductionFlowProofs` | `TypeCorrect`, `DrawsOnce` | `TypeOK`, `DrawnOnce` |
| | `BooksAlwaysAgree`, `OrdersAlwaysAgree` | `BooksAgree`, `OrdersAgree` |
| | `ValidatedStaysFinal` | `FinalUnlessMixed` |
| `AlertFlowProofs` | `TypeCorrect`, `NeverHalfDone` | types, `NothingHalfDone` |
| | `NobodyWaitsInACircle` | `NoCycle` |
| | `AlertsFollowSerially`, `AlertsMoveForward` | `SerialAlerts`, `ForwardUnlessMarred` |
| | `FeedTypeCorrect`, `ScreenFollows` | `FeedTypeOK`, `FollowsUnlessAstray` |
| `TicketFlowProofs` | `TypeCorrect`, `HistoryTellsRows` | `TypeOK`, `TrailTellsRows` |
| | `NobodyElsesTickets`, `NumbersHaveNoGap` | `OwnTicketsOnly`, `NumbersAreDense` |
| | `TicketsAreAudited` | `Audited`: `TicketFlow` implements `AuditTrail` |
| | `OrderlyUntilRaced` | `OrderlyUnlessRaced` |
| `TraceFlowProofs` | `TypeCorrect`, `NumbersHaveNoGap` | `TypeOK`, `NumbersAreDense` |
| | `LeavesOnceOnly`, `ClosedIsFinal` | `LeavesOnceSerially`, `ClosedForGood` |
| | `PeopleAreKnown` | `PeopleKnown` |
| `ControlFlowProofs` | `TypeCorrect`, `ConfirmedIsFinal` | `TypeOK`, `FinalUnlessMarred` |
| | `OneADay`, `ProblemsStayNoted` | `OneADayUnlessMarred`, `NotedUnlessMarred` |
| `ReportsProofs` | `TypesHold`, `ReservationsHold` | `TypeOK`, `ReservedUnlessUnsynced` |
| | `ScheduleHolds`, `SimulationHolds` | `NeverDoubleBooked`, `SimulationIsGreedy` |
| | `CapacityHolds` | `CapacityIsExact` |
| | `FiguresHold`, `TotalsHold` | `FiguresUnlessTouched`, `TotalsAddUp` |

None of the properties is inductive alone. A commit makes visible what a request
decided statements earlier, so each `IInv` says of every request under way how far it
is (its *shape*: which statements it has left and which rows it has locked), what its
objects have kept of the rows they were loaded from (it *fits*), and what two requests
cannot do at the same time.

### What holds whatever interleaves

* Stock. A commit may append a movement without looking again because its key is
  still unused (`Fresh`): the item's row has been locked (`LocksExclusive`) since the
  key was checked. A recorded job is charged because each line passed is charged or
  about to be by this request (`Covered`); a request writes an item once
  (`WritesOnce`) because its look-up sees its own rows. `LedgerExplainsQuantity` needs
  besides that an edit which is under way has kept the quantity of its item, unless a
  movement was committed since it was loaded (`Tells`), which is when `crossed` has the
  item.
* Refinement of `ConsumeOnce`. `IInv` says that a source charges an item once; the
  promise also says for which of its lines. `RInv` adds that automatic movements are
  all consumptions, so that the look-up by type finds them (`AutoConsumes`), and that
  a line passed was charged before or its item was written by this or an earlier line
  (`PassedInOrder`). A commit is the one step that is not a stutter.
* Production. Locks are disjoint; whoever consumes or saves a STOCK_CONSUMED entry
  found `drawn` empty under the stock lock, or it is drawn already. `RowsOK` is that
  foreign keys point to rows that are there.
* Alerts. `InOrder` lists, for each act, the statements left and the locks held. All
  lists go intervention, alert, machine, and that order is what excludes a circle. The
  object a request saves is `Sound` (status and stamps fit together) although it may
  be old, and two declarations are never of one alert.
* Screens. An event goes out with the save, the row stays locked until the commit: so
  the events on an alert come in the order of its commits, and while a request holds
  the row, the screen was told what that request will leave in it (`Latest`, `LeftBy`).
* Tickets. `Progress` is the shapes. `Declares`, `Acts`, `MovesOn`, `ClosesOnce` say
  whose ticket it is, from which status of its past it is moved, and that the numbers
  and closure rows not committed yet keep the others from theirs (`Apart`). For
  `Audited`, a status a request loaded is one the ticket *has had*, which no later
  move takes back; that it still has it is not needed, and not true.
* Trace. Numbers are `1 .. n`: at most one request holds an inserted row that is not
  committed, because the unique column makes the others wait. A case that is saved
  again after its deletion has kept its number. `BagOK` and `CaseOK` say what an edit
  may not undo. A request whose machine is deleted under it may go on, but does not
  commit, which keeps the machines of recorded bags there.
* Controls. A slot has no control while one is being inserted for it, and only a
  confirmed one has a controller.

### What holds in peace

The second invariant says that what a request has loaded is still what there is.

| Module | Invariant | As long as |
|---|---|---|
| `StockLedgerProofs` | `Serial`: a request knows its items' quantities, the ledger is a chain, its sum is the quantity | one request at a time |
| `ProductionFlowProofs` | `Peaceful`: in an entry only what its validation writes may differ from the object; an order's object sees at least the bottles that are committed, reserves at least what is wanted | validations only |
| | `Serial`: objects are fresh, reservations exact | one request at a time |
| `AlertFlowProofs` | `Calm`: objects are fresh, the machine has its target or is about to get it | one request at a time, nothing by hand |
| `TicketFlowProofs` | `Orderly`: closure, history and solutions agree with the status | no two moves of one ticket overlap |
| `TraceFlowProofs` | `Serial`: a bag that is being stamped or edited has the stamps of its row | one request at a time |
| | `Watched`: the shifts are the sessions people had at the machines that are still there, people of bags and cases are those of the sessions | besides, shifts are not touched by hand |
| `ControlFlowProofs` | `Serial`: who answers does so in an open control, problems are noted | answers do not overlap |
| | `Untouched`: the confirmations logged are those in the rows | besides, nothing is deleted |

### What is computed

In `Forecast` and `Figures` the invariants are about the rows, and what is computed
from them is a matter of lemmas on the operators.

* `ForecastInv`. `InStep`: what an order has reserved is what `sync_reservations` would
  give it by the *components*, except for orders whose recipe changed since
  (`unsynced`); that this is what the *recipe* says follows where the two agree.
  `Unbegun`: nothing was produced of an order that is queued, which makes what the
  simulation needs of an order its whole quantity; and only live orders reserve, which
  makes the sum of reservations one over a finite set. `ForecastTyped` has the shape
  of the reserved rows, without which nothing is known of their items and signs.
* `FiguresInv` is the property with its types: `staleTrs`, `staleCost` and `touched` are
  what makes it inductive. That a TRS is near its inputs is arithmetic
  (`RoundedProduct`, `TrsIsNear`): `round` is off by half a point at most
  (`RoundIsNear`), and the errors of the three factors and of the product are added up
  for whatever size they have.
* Capacity. `//` truncates towards zero, also for what is overdrawn, so one bottle more
  than the limiting quotient is more than there is (`QuotientIs`); every other
  component allows at least as many (`CapacityIs`, `QuotientGrows`).
* Schedule. `Sorted` is a CHOOSE and `FoldLeft` a function on sets of positions, and
  both have to be shown to exist: the sort by taking the last of a finite linear order
  away (`LastExists`, `SortExists`), the fold by the size of the set (`FoldsExist`).
  `ComesBefore` is linear because keys are numbers (`BeforeIsLinear`). Then
  `Scheduled` says what the first k jobs are, and `BookedNext` that one more keeps it.
* Simulation. `Greedy` says of the checks so far that each is refused just when it is
  too much, that the pool is the stock less what was accepted, and that nothing in the
  pool is negative. The last is what the property does not say and its proof needs: an
  order that takes nothing of an item is not refused for it. `SimulatedAll` also counts
  the checks, for the overview (`StatusesAddUp`).
* Totals. Shifts and machines are partitions of the entries (`TotalParts`, by
  `SumParts`); that every entry has one of the three shifts is the type.

### Sums

The sums of an item's movements, of an order's bottles, of a recipe's grams, of the
entries' counts and of the answers to closed tickets are the library's
`SumFunctionOnSet` or folds that unfold to it, which are
defined by a recursive function on the subsets of a set. `SumTheorems` shows that this
function exists, by induction on the size of the subset (an induction on a *set* of
numbers, from the well-foundedness of `<`, since the induction theorems with an
operator as parameter are out of the provers' reach), and then what it does: its type,
that one element adds its value and takes it away, that it grows with the set and with
the values, that it counts, that a factor can be taken out (`SumTimes`), and that the
sums of the parts add up to the whole (`SumParts`). Each proof module first shows its
own sum to be one of these (`AddedUpIs`, `SumOfIs`, `AnswersAre`).

### Model-checked only

* Liveness: `RequestEnds` and `Escalated`. The provers reach neither fairness nor
  `ENABLED`.
* That a counterexample exists is what the three runs that end in one show. That a
  property is lost as soon as a history variable says so is shown by those runs and
  by dropping the variable, not proved.

## Not modelled

* Roles, permissions, request parsing and pagination: they refuse requests before
  anything the modules look at. The audit log and notification rows are written and
  never read back by another part; mail and SMS are external.
* Plain CRUD of one row without a second writer: equipment, molds, machine components
  and parameters, preventive tasks, alert categories, quality documents, attachments,
  the fields of an account, cost parameters other than the hourly labour.
* `assign_supplier`: it wants a ticket that is NEW, which no committed ticket is.
  `cleanup_stale_in_progress_alerts`: nothing schedules it.
* Pareto, MTTR, alert statistics, the day's mean TRS, the export of tickets, a bag's
  `order_progress` and `summary`: sums over rows that are not compared with anything.
* A notification whose INSERT fails inside the request's transaction is caught, and
  Django rolls the request back all the same: a rollback (`Abort`) here, though the
  client is told otherwise. `downtime_end`, set by `close` and lost in
  `refresh_from_db`, is a field no other part reads.
* Decimals are integers of the smallest unit; the rounding of a requirement to it is
  left out. More than 9.99 rejects a bottle would overflow `reject_pct` and fail the
  save; percentages are unbounded here.
* The Django admin writes rows past the views. Only its saving of a bottle is
  modelled (`AdminEditBottle`).
* A bag of an order and the validated entries of that order draw under different keys
  (`apps/package/views.py:76-81` says they never double): that they are one
  production event is nowhere in the rows, so no property can tell.

## What could follow

* `BagsAreBacked` while requests come one at a time is in `SerialLedger`. Whether it
  is enough that the requests on one item come one at a time is not stated.
* The reservations of `Forecast` and of `ProductionFlow` are modelled apart: one with
  recipes and no overlaps, the other with overlaps and one material. Neither says what
  an edit of a recipe does to a resync under way.
* A fix of the races (`select_for_update` in `apply_movement`, in the alert transitions
  and in the moves of a ticket) would be modelled by taking the lock in the `Load...`
  actions; the history variables could then go, one by one.
