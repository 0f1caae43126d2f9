--------------------------- MODULE ProductionFlow ---------------------------
(***************************************************************************)
(* Hourly production entries (apps/production), the planning orders they   *)
(* count against (apps/planning) and the stock reserved for those orders   *)
(* (StockReservation).                                                     *)
(*                                                                         *)
(* As in StockLedger every request is a READ COMMITTED transaction that    *)
(* loads rows without locking them; model.save() later writes the whole    *)
(* row as it was loaded, or inserts it again when it is gone, and the row  *)
(* lock is kept until the commit.  tx[w] holds the instances a request has *)
(* in memory and the rows it has written.                                  *)
(*                                                                         *)
(* A recipe takes one unit of one material for each bottle.  How a         *)
(* consumption changes the stock item is the subject of StockLedger; here  *)
(* drawn[e] is the movement with source PRODUCTION_ENTRY e.                *)
(***************************************************************************)
EXTENDS Integers, FiniteSets, FiniteSetsExt

CONSTANTS
  Entries,      \* primary keys of ProductionEntry
  Orders,       \* primary keys of PlanningOrder
  Workers,      \* server threads
  NoEntry, NoOrder,
  Bottles,      \* what bottles_produced of an entry may be
  Quantities,   \* what quantity of an order may be
  Recipes,      \* whether an order's bottle has a recipe: a subset of BOOLEAN
  Requests      \* which requests the clients issue

VARIABLES
  entry,        \* ProductionEntry rows
  order,        \* PlanningOrder rows
  reserved,     \* StockReservation of each order, 0 when it has none
  drawn,        \* what the source of each entry took from stock, 0 for nothing yet
  tx            \* the request each worker is running

vars == <<entry, order, reserved, drawn, tx>>

ASSUME NumbersAssumption == Bottles \subseteq Nat /\ Quantities \subseteq Nat \ {0}
ASSUME NullAssumption == NoEntry \notin Entries /\ NoOrder \notin Orders
ASSUME RecipesAssumption == Recipes \subseteq BOOLEAN
----------------------------------------------------------------------------
\* The statuses of rows that exist; "absent" has not been created, "deleted" was.
Validated == {"VALIDATED", "STOCK_CONSUMED"}
EntryStatus == {"DRAFT"} \cup Validated
Open == {"QUEUED", "IN_PROGRESS"}
OrderStatus == Open \cup {"DONE"}
Gone == {"absent", "deleted"}

EntryRow == [status : EntryStatus \cup Gone, bottles : Nat,
             order : Orders \cup {NoOrder}, consumed : Nat]

OrderRow == [status : OrderStatus \cup Gone, quantity : Nat, recipe : BOOLEAN]

NoRow == [status |-> "absent", bottles |-> 0, order |-> NoOrder, consumed |-> 0]
NoHead == [status |-> "absent", quantity |-> 0, recipe |-> FALSE]

\* The locks of rows written: of entries, orders, an order's reservations, and of
\* the one stock item.
Lock == ({"entry"} \X Entries) \cup ({"order", "reservation"} \X Orders)
          \cup {<<"stock", NoOrder>>}
StockLock == <<"stock", NoOrder>>

Kinds == {"none", "validate", "edit entry", "bulk", "delete entry",
          "edit order", "delete order"}

\* row and head: the entry and the order the request has in memory.
\* keep: the reservation it has written.
Request == [kind : Kinds,
            pc : {"idle", "consume", "save", "lookup", "bulk", "advance", "status",
                  "order", "cascade", "sync", "syncing", "beaten", "commit"},
            entry : Entries \cup {NoEntry}, order : Orders \cup {NoOrder},
            row : EntryRow, head : OrderRow, keep : Nat, locks : SUBSET Lock]

Idle == [kind |-> "none", pc |-> "idle", entry |-> NoEntry, order |-> NoOrder,
         row |-> NoRow, head |-> NoHead, keep |-> 0, locks |-> {}]

Init ==
  /\ entry = [e \in Entries |-> NoRow]
  /\ order = [o \in Orders |-> NoHead]
  /\ reserved = [o \in Orders |-> 0]
  /\ drawn = [e \in Entries |-> 0]
  /\ tx = [w \in Workers |-> Idle]
----------------------------------------------------------------------------
Free(w, lock) == \A v \in Workers \ {w} : lock \notin tx[v].locks

\* Bottles validated against order o, by the given entry rows.
Produced(o, rows) ==
  MapThenSumSet(LAMBDA e : rows[e].bottles,
                {e \in Entries : rows[e].order = o /\ rows[e].status \in Validated})

\* Mutant: no max(..., 0).
RestUnclamped(quantity, produced) == quantity - produced

\* What is left to produce of a quantity, never below zero.
Rest(quantity, produced) == IF quantity > produced THEN quantity - produced ELSE 0

\* Mutant: the order is advanced before the entry is saved.
SeesCommitted(w) == entry

\* The entries a request sees: those committed and the one it has written.
Sees(w) ==
  [e \in Entries |-> IF <<"entry", e>> \in tx[w].locks THEN tx[w].row ELSE entry[e]]

\* remaining_quantity_for_order(), of the order the request has in memory.
Remaining(w) == Rest(tx[w].head.quantity, Produced(tx[w].order, Sees(w)))

\* Mutant: the full original quantity is reserved.
ToReserveFull(w) ==
  IF tx[w].head.recipe /\ tx[w].head.status \in Open THEN tx[w].head.quantity ELSE 0

\* Mutant: only QUEUED orders keep a reservation.
ToReserveQueued(w) ==
  IF tx[w].head.recipe /\ tx[w].head.status = "QUEUED" THEN Remaining(w) ELSE 0

\* What sync_reservations_for_order() creates for the order in memory.
ToReserve(w) ==
  IF tx[w].head.recipe /\ tx[w].head.status \in Open THEN Remaining(w) ELSE 0

Finish(w) == tx' = [tx EXCEPT ![w] = Idle]

Rollback(w) == Finish(w) /\ UNCHANGED <<entry, order, reserved, drawn>>

\* The request goes on in memory; nothing is committed.
Continue(w, request) ==
  /\ tx' = [tx EXCEPT ![w] = request]
  /\ UNCHANGED <<entry, order, reserved, drawn>>
----------------------------------------------------------------------------
\* PlanningOrderViewSet.perform_create: the order and its reservation.
CreateOrder(o) ==
  /\ order[o].status = "absent"
  /\ \E quantity \in Quantities, recipe \in Recipes :
       /\ order' = [order EXCEPT ![o] = [status |-> "QUEUED", quantity |-> quantity,
                                         recipe |-> recipe]]
       /\ reserved' = [reserved EXCEPT ![o] = IF recipe THEN quantity ELSE 0]
  /\ UNCHANGED <<entry, drawn, tx>>

\* The orders an entry may be linked to.
Linkable == {NoOrder} \cup {o \in Orders : order[o].status \notin Gone}

Draft(bottles, o) ==
  [status |-> "DRAFT", bottles |-> bottles, order |-> o, consumed |-> 0]

\* A new entry: ProductionEntryViewSet.perform_create, or a bulk request that finds
\* none of its hour.
CreateEntry(e) ==
  /\ entry[e].status = "absent"
  /\ \E bottles \in Bottles, o \in Linkable :
       entry' = [entry EXCEPT ![e] = Draft(bottles, o)]
  /\ UNCHANGED <<order, reserved, drawn, tx>>

\* A worker takes up a request.
Take(w, kind, pc, e, o, row, head) ==
  /\ kind \in Requests
  /\ tx[w].pc = "idle"
  /\ Continue(w, [kind |-> kind, pc |-> pc, entry |-> e, order |-> o, row |-> row,
                  head |-> head, keep |-> 0, locks |-> {}])

\* Mutant: the whole order's requirement is drawn, as a bag does.
LoadValidateWhole(w, e) ==
  /\ entry[e].status = "DRAFT"
  /\ LET o == entry[e].order
         head == IF o = NoOrder THEN NoHead ELSE order[o]
         draws == head.recipe /\ entry[e].bottles > 0
     IN Take(w, "validate", IF draws THEN "consume" ELSE "save", e, o,
             [entry[e] EXCEPT !.status = IF draws THEN "STOCK_CONSUMED" ELSE "VALIDATED",
                              !.consumed = IF draws THEN head.quantity ELSE @],
             head)

\* Mutant: the status does not tell whether stock was drawn.
LoadValidatePlain(w, e) ==
  /\ entry[e].status = "DRAFT"
  /\ LET o == entry[e].order
         head == IF o = NoOrder THEN NoHead ELSE order[o]
         draws == head.recipe /\ entry[e].bottles > 0
     IN Take(w, "validate", IF draws THEN "consume" ELSE "save", e, o,
             [entry[e] EXCEPT !.status = "VALIDATED",
                              !.consumed = IF draws THEN entry[e].bottles ELSE @],
             head)

\* validate(): the entry must be a draft; its order and the recipe are loaded.
LoadValidate(w, e) ==
  /\ entry[e].status = "DRAFT"
  /\ LET o == entry[e].order
         head == IF o = NoOrder THEN NoHead ELSE order[o]
         draws == head.recipe /\ entry[e].bottles > 0
     IN Take(w, "validate", IF draws THEN "consume" ELSE "save", e, o,
             [entry[e] EXCEPT !.status = IF draws THEN "STOCK_CONSUMED" ELSE "VALIDATED",
                              !.consumed = IF draws THEN entry[e].bottles
                                           ELSE entry[e].consumed],
             head)

\* Mutant: a validated entry may be edited.
LoadEditAny(w, e) ==
  /\ entry[e].status \notin Gone
  /\ \E bottles \in Bottles, o \in Linkable :
       Take(w, "edit entry", "save", e, NoOrder,
            [entry[e] EXCEPT !.bottles = bottles, !.order = o], NoHead)

\* perform_update of an entry: a draft is loaded and the client's values put in.
LoadEditEntry(w, e) ==
  /\ entry[e].status = "DRAFT"
  /\ \E bottles \in Bottles, o \in Linkable :
       Take(w, "edit entry", "save", e, NoOrder,
            [entry[e] EXCEPT !.bottles = bottles, !.order = o], NoHead)

\* bulk(): is_valid() refuses an hour that has an entry (the validator of the
\* serializer's unique_together), so the entry is one that does not exist yet.
LoadBulk(w, e) ==
  /\ entry[e].status = "absent"
  /\ \E bottles \in Bottles, o \in Linkable :
       Take(w, "bulk", "lookup", e, NoOrder, [NoRow EXCEPT !.bottles = bottles, !.order = o],
            NoHead)

\* Mutant: a validated entry may be deleted.
LoadDeleteAny(w, e) ==
  /\ entry[e].status \notin Gone
  /\ Take(w, "delete entry", "save", e, NoOrder, [NoRow EXCEPT !.status = "deleted"], NoHead)

\* perform_destroy of an entry: only a draft.
LoadDeleteEntry(w, e) ==
  /\ entry[e].status = "DRAFT"
  /\ Take(w, "delete entry", "save", e, NoOrder, [NoRow EXCEPT !.status = "deleted"], NoHead)

\* perform_update of an order: status is read-only, quantity and bottle are not.
LoadEditOrder(w, o) ==
  /\ order[o].status \notin Gone
  /\ \E quantity \in Quantities, recipe \in Recipes :
       Take(w, "edit order", "order", NoEntry, o, NoRow,
            [order[o] EXCEPT !.quantity = quantity, !.recipe = recipe])

\* perform_destroy of an order: not once it is DONE.
LoadDeleteOrder(w, o) ==
  /\ order[o].status \in Open
  /\ Take(w, "delete order", "cascade", NoEntry, o, NoRow,
          [NoHead EXCEPT !.status = "deleted"])
----------------------------------------------------------------------------
\* Mutant: no idempotency, the movement is recorded again.
ConsumeAgain(w) ==
  /\ tx[w].pc = "consume"
  /\ Free(w, StockLock)
  /\ Continue(w, [tx[w] EXCEPT !.pc = "save", !.locks = @ \cup {StockLock}])

\* The consumption of an entry: its movement is inserted and the stock item
\* updated, under the item's row lock.
Consume(w) ==
  /\ tx[w].pc = "consume"
  /\ drawn[tx[w].entry] = 0
  /\ Free(w, StockLock)
  /\ Continue(w, [tx[w] EXCEPT !.pc = "save", !.locks = @ \cup {StockLock}])

\* Mutant: raw_material_consumed_kg is set only when the movement was created.
AlreadyDrawnUncounted(w) ==
  /\ tx[w].pc = "consume"
  /\ drawn[tx[w].entry] # 0
  /\ Continue(w, [tx[w] EXCEPT !.pc = "save", !.row.consumed = 0])

\* Mutant: the error of a stock that does not suffice is swallowed.
ShortIgnored(w) ==
  /\ tx[w].pc = "consume"
  /\ Continue(w, [tx[w] EXCEPT !.pc = "save"])

\* The movement is there already: created = False, and no lock is kept.
AlreadyDrawn(w) ==
  /\ tx[w].pc = "consume"
  /\ drawn[tx[w].entry] # 0
  /\ Continue(w, [tx[w] EXCEPT !.pc = "save"])

\* entry.save() or delete(): the whole row, whatever it has become since.  After
\* a validation the order, if there is one, is advanced unless in memory it is
\* DONE.
SaveEntry(w) ==
  /\ tx[w].pc = "save"
  /\ Free(w, <<"entry", tx[w].entry>>)
  /\ Continue(w, [tx[w] EXCEPT
       !.pc = IF tx[w].kind = "validate" /\ tx[w].order # NoOrder
                 /\ tx[w].head.status # "DONE" THEN "advance" ELSE "commit",
       !.locks = @ \cup {<<"entry", tx[w].entry>>}])

\* ProductionBulkSerializer.create looks for the entry: one that somebody else has
\* created and validated meanwhile is left as it is.
BulkLookUp(w) ==
  /\ tx[w].pc = "lookup"
  /\ IF entry[tx[w].entry].status \in Validated THEN Rollback(w)
     ELSE Continue(w, [tx[w] EXCEPT !.pc = "bulk"])

\* update_or_create() finds one: the row is locked, read again, and only the client's
\* fields are written; its status is not looked at again.
BulkWrite(w) ==
  /\ tx[w].pc = "bulk"
  /\ entry[tx[w].entry].status \notin Gone
  /\ Free(w, <<"entry", tx[w].entry>>)
  /\ Continue(w, [tx[w] EXCEPT
       !.pc = "commit",
       !.row = [entry[tx[w].entry] EXCEPT !.bottles = tx[w].row.bottles,
                                          !.order = tx[w].row.order],
       !.locks = @ \cup {<<"entry", tx[w].entry>>}])

\* It finds none and inserts it.  The request has read and written nothing else, so
\* the insertion is a CreateEntry, at any moment; what is left is the request's end.
BulkGone(w) ==
  /\ tx[w].pc = "bulk"
  /\ entry[tx[w].entry].status \in Gone
  /\ Rollback(w)

\* Mutant: an order with one bottle left is closed.
AdvanceEarly(w) ==
  /\ tx[w].pc = "advance"
  /\ LET status == IF Remaining(w) <= 1 THEN "DONE" ELSE "IN_PROGRESS"
     IN Continue(w, [tx[w] EXCEPT
          !.pc = IF status = tx[w].head.status THEN "sync" ELSE "status",
          !.head.status = status])

\* advance_order_after_production(): the status the order will get.
Advance(w) ==
  /\ tx[w].pc = "advance"
  /\ LET status == IF Remaining(w) = 0 THEN "DONE" ELSE "IN_PROGRESS"
     IN Continue(w, [tx[w] EXCEPT
          !.pc = IF status = tx[w].head.status THEN "sync" ELSE "status",
          !.head.status = status])

\* order.save(update_fields = [status]); a row that is gone is an error.
SaveStatus(w) ==
  /\ tx[w].pc = "status"
  /\ Free(w, <<"order", tx[w].order>>)
  /\ IF order[tx[w].order].status \in Gone THEN Rollback(w)
     ELSE Continue(w, [tx[w] EXCEPT !.pc = "sync",
                                    !.locks = @ \cup {<<"order", tx[w].order>>}])

\* serializer.save() of an order writes its whole row, the status as loaded.
SaveOrder(w) ==
  /\ tx[w].pc = "order"
  /\ Free(w, <<"order", tx[w].order>>)
  /\ Continue(w, [tx[w] EXCEPT !.pc = "sync",
                               !.locks = @ \cup {<<"order", tx[w].order>>}])

\* instance.delete(): the reservations cascade and the entries' links are cleared.
Cascade(w) ==
  LET o == tx[w].order
      rows == {<<"reservation", o>>, <<"order", o>>}
                \cup {<<"entry", e>> : e \in {x \in Entries : entry[x].order = o}}
  IN /\ tx[w].pc = "cascade"
     /\ \A lock \in rows : Free(w, lock)
     /\ Continue(w, [tx[w] EXCEPT !.pc = "commit", !.locks = rows])

\* sync_reservations_for_order(): the rows there are deleted and new ones made.
Sync(w) ==
  /\ tx[w].pc \in {"sync", "syncing"}
  /\ Free(w, <<"reservation", tx[w].order>>)
  /\ Continue(w, [tx[w] EXCEPT !.pc = "commit", !.keep = ToReserve(w),
                               !.locks = @ \cup {<<"reservation", tx[w].order>>}])

\* Another request has deleted them and not committed: the DELETE waits.
SyncWaits(w) ==
  /\ tx[w].pc = "sync"
  /\ ~Free(w, <<"reservation", tx[w].order>>)
  /\ Continue(w, [tx[w] EXCEPT !.pc = "syncing"])

\* There are none to delete and none to make: nothing to wait for.
SyncNothing(w) ==
  /\ tx[w].pc = "sync"
  /\ reserved[tx[w].order] = 0
  /\ ToReserve(w) = 0
  /\ Continue(w, [tx[w] EXCEPT !.pc = "commit"])

\* The other one committed.  The waiting DELETE does not see the rows it made: if
\* this one makes rows too, the unique constraint refuses them and the request
\* fails; if it makes none, the other's stay.
SyncBeaten(w) ==
  /\ tx[w].pc = "beaten"
  /\ IF ToReserve(w) = 0 THEN Continue(w, [tx[w] EXCEPT !.pc = "commit"])
     ELSE IF reserved[tx[w].order] # 0 THEN Rollback(w)
     ELSE /\ Free(w, <<"reservation", tx[w].order>>)
          /\ Continue(w, [tx[w] EXCEPT !.pc = "commit", !.keep = ToReserve(w),
                                       !.locks = @ \cup {<<"reservation", tx[w].order>>}])

\* The rows as the commit leaves them: a validation has written no more of the
\* order than its status, a deleted order takes no entry with it.
EntryAfter(w, e) ==
  IF <<"entry", e>> \notin tx[w].locks THEN entry[e]
  ELSE IF tx[w].kind = "delete order" THEN [entry[e] EXCEPT !.order = NoOrder]
  ELSE tx[w].row

OrderAfter(w, o) ==
  IF <<"order", o>> \notin tx[w].locks THEN order[o]
  ELSE IF tx[w].kind = "validate" THEN [order[o] EXCEPT !.status = tx[w].head.status]
  ELSE tx[w].head

ReservedAfter(w, o) ==
  IF <<"reservation", o>> \in tx[w].locks THEN tx[w].keep ELSE reserved[o]

\* The foreign keys are checked when the transaction commits.
KeysHold(w) ==
  /\ \A e \in Entries :
       LET row == EntryAfter(w, e) IN
         row.status \notin Gone /\ row.order # NoOrder
           => OrderAfter(w, row.order).status \notin Gone
  /\ \A o \in Orders : ReservedAfter(w, o) > 0 => OrderAfter(w, o).status \notin Gone

Commit(w) ==
  /\ tx[w].pc = "commit"
  /\ KeysHold(w)
  /\ entry' = [e \in Entries |-> EntryAfter(w, e)]
  /\ order' = [o \in Orders |-> OrderAfter(w, o)]
  /\ reserved' = [o \in Orders |-> ReservedAfter(w, o)]
  /\ drawn' = IF StockLock \in tx[w].locks
              THEN [drawn EXCEPT ![tx[w].entry] = tx[w].row.consumed] ELSE drawn
  /\ tx' = [v \in Workers |->
              IF v = w THEN Idle
              ELSE IF /\ tx[v].pc = "syncing"
                      /\ <<"reservation", tx[v].order>> \in tx[w].locks
              THEN [tx[v] EXCEPT !.pc = "beaten"]
              ELSE tx[v]]

CommitRefused(w) ==
  /\ tx[w].pc = "commit"
  /\ ~KeysHold(w)
  /\ Rollback(w)

\* The stock does not suffice, PostgreSQL picks the request as the victim of a
\* deadlock, the process dies: the transaction is rolled back.
Abort(w) ==
  /\ tx[w].pc # "idle"
  /\ Rollback(w)
----------------------------------------------------------------------------
Load(w) ==
  \/ \E e \in Entries : \/ LoadValidate(w, e) \/ LoadEditEntry(w, e)
                        \/ LoadBulk(w, e) \/ LoadDeleteEntry(w, e)
  \/ \E o \in Orders : LoadEditOrder(w, o) \/ LoadDeleteOrder(w, o)

Step(w) ==
  \/ Consume(w) \/ AlreadyDrawn(w) \/ SaveEntry(w)
  \/ BulkLookUp(w) \/ BulkWrite(w) \/ BulkGone(w)
  \/ Advance(w) \/ SaveStatus(w) \/ SaveOrder(w) \/ Cascade(w)
  \/ Sync(w) \/ SyncWaits(w) \/ SyncNothing(w) \/ SyncBeaten(w)
  \/ Commit(w) \/ CommitRefused(w)

Next ==
  \/ \E o \in Orders : CreateOrder(o)
  \/ \E e \in Entries : CreateEntry(e)
  \/ \E w \in Workers : Load(w) \/ Step(w) \/ Abort(w)

Spec == Init /\ [][Next]_vars
----------------------------------------------------------------------------
\* Types; among them that what remains, is reserved or is drawn is never negative,
\* also when more is produced than was ordered (remaining_quantity_for_order()).
TypeOK ==
  /\ entry \in [Entries -> EntryRow]
  /\ order \in [Orders -> OrderRow]
  /\ reserved \in [Orders -> Nat]
  /\ drawn \in [Entries -> Nat]
  /\ tx \in [Workers -> Request]

\* An entry takes from stock once, whatever is validated twice, edited, deleted
\* or brought back meanwhile (validate(), through apply_movement_idempotent()).
DrawnOnce == [][\A e \in Entries : drawn[e] # 0 => drawn'[e] = drawn[e]]_vars

\* "Locked in AND its recipe requirement was deducted from stock"
\* (ProductionEntryStatus.STOCK_CONSUMED), whoever did the deducting.
ConsumedIsDrawn ==
  \A e \in Entries : entry[e].status = "STOCK_CONSUMED" => drawn[e] > 0

\* What a validated entry says it consumed is what was taken and what it produced
\* (ProductionEntry.raw_material_consumed_kg, "immutable").
ConsumedIsProduced ==
  \A e \in Entries : entry[e].status = "STOCK_CONSUMED" =>
    entry[e].consumed = entry[e].bottles /\ drawn[e] = entry[e].bottles

\* Stock is taken for an entry that is there and validated.
DrawnIsRecorded ==
  \A e \in Entries : drawn[e] > 0 => entry[e].status = "STOCK_CONSUMED"

\* The "validated numbers are final" guarantee (ProductionBulkSerializer): the
\* numbers and the status of a validated entry do not change.  Its link to an
\* order is cleared when the order is deleted.
NumbersStay ==
  \A e \in Entries : entry[e].status \in Validated =>
    entry'[e] = [entry[e] EXCEPT !.order = entry'[e].order]

\* The same of every step.
ValidatedIsFinal == [][NumbersStay]_vars

\* A DONE order was produced (advance_order_after_production): no order is closed
\* on numbers that are not validated.
DoneIsProduced ==
  \A o \in Orders : order[o].status = "DONE" => Produced(o, entry) >= order[o].quantity

\* Which status an order gets when an entry against it is validated
\* (advance_order_after_production()).
OrderAdvances ==
  \A e \in Entries : entry[e].status = "DRAFT" /\ entry'[e].status \in Validated =>
    \A o \in Orders : o = entry[e].order /\ order[o].status \in Open =>
      order'[o].status = IF Produced(o, entry') >= order[o].quantity
                         THEN "DONE" ELSE "IN_PROGRESS"

\* The stock an order needs for what is left of it.
Needs(o) ==
  IF order[o].recipe /\ order[o].status \in Open
  THEN Rest(order[o].quantity, Produced(o, entry)) ELSE 0

\* An order's reservation is what it still needs, never the original quantity and
\* never more than nothing for a finished one (sync_reservations_for_order()).
ReservedIsNeeded == \A o \in Orders : reserved[o] = Needs(o)

\* An order never has less reserved than it needs.
NeverUnderReserved == \A o \in Orders : reserved[o] >= Needs(o)
============================================================================
