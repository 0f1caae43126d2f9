------------------------ MODULE ProductionFlowProofs ------------------------
(***************************************************************************)
(* Theorems of ProductionFlow, for any entries, orders and workers, any    *)
(* quantities, and any requests.                                           *)
(*                                                                         *)
(* What always holds (IInv), what holds besides as long as there are       *)
(* validations only (Peaceful), and as long as requests come one at a time *)
(* (Serial).                                                               *)
(***************************************************************************)
EXTENDS ProductionFlowHistory, SumTheorems

Own(r) == <<"entry", r.entry>>
OrderLock(r) == <<"order", r.order>>
ReservationLock(r) == <<"reservation", r.order>>

ByEntry == {"validate", "edit entry", "bulk", "delete entry"}
Syncing == {"sync", "syncing", "beaten"}

\* What a request may hold, as far as it has got: a validation,
ValidationShape(r) ==
  /\ r.entry \in Entries
  /\ r.pc \in {"consume", "save", "advance", "status", "commit"} \union Syncing
  /\ r.row.status \in Validated
  /\ r.row.status = "STOCK_CONSUMED" => r.row.consumed > 0
  /\ r.pc = "consume" => r.row.status = "STOCK_CONSUMED" /\ r.locks = {}
  /\ r.pc = "save" => r.locks \subseteq {StockLock}
  /\ r.pc \notin {"consume", "save"} => Own(r) \in r.locks
  /\ r.pc = "advance" => r.locks \subseteq {StockLock, Own(r)}
  /\ r.pc \in {"advance", "status"} \union Syncing =>
       r.order \in Orders /\ ReservationLock(r) \notin r.locks
  /\ r.locks \subseteq {StockLock, Own(r), OrderLock(r), ReservationLock(r)}
  /\ r.order = NoOrder => r.locks \subseteq {StockLock, Own(r)}

\* another request about an entry,
EntryShape(r) ==
  /\ r.entry \in Entries
  /\ r.pc \in {"commit"} \union (IF r.kind = "bulk" THEN {"lookup", "bulk"} ELSE {"save"})
  /\ r.locks = IF r.pc = "commit" THEN {Own(r)} ELSE {}
  /\ r.kind = "edit entry" => r.row.status = "DRAFT"
  /\ r.kind = "delete entry" => r.row.status = "deleted" /\ r.row.order = NoOrder

\* an order's edit
OrderShape(r) ==
  /\ r.order \in Orders
  /\ r.pc \in {"order", "commit"} \union Syncing
  /\ r.head.status \in OrderStatus
  /\ IF r.pc = "order" THEN r.locks = {} ELSE OrderLock(r) \in r.locks
  /\ r.locks \subseteq {OrderLock(r), ReservationLock(r)}
  /\ r.pc \in Syncing => ReservationLock(r) \notin r.locks

\* and its deletion.
DeletionShape(r) ==
  /\ r.order \in Orders
  /\ r.pc \in {"cascade", "commit"}
  /\ r.head.status = "deleted" /\ r.keep = 0
  /\ IF r.pc = "cascade" THEN r.locks = {}
     ELSE {OrderLock(r), ReservationLock(r)} \subseteq r.locks
  /\ r.locks \subseteq {OrderLock(r), ReservationLock(r)} \union ({"entry"} \X Entries)

Shape(r) ==
  /\ r \in Request
  /\ r.kind = "none" => r = Idle
  /\ r.kind # "none" => r.pc # "idle"
  /\ r.kind = "validate" => ValidationShape(r)
  /\ r.kind \in {"edit entry", "bulk", "delete entry"} => EntryShape(r)
  /\ r.kind = "edit order" => OrderShape(r)
  /\ r.kind = "delete order" => DeletionShape(r)

\* What it relies on in the rows, however stale its objects are.
Fits(r) ==
  /\ StockLock \in r.locks => /\ r.kind = "validate" /\ r.row.status = "STOCK_CONSUMED"
                              /\ drawn[r.entry] = 0
  /\ /\ (r.kind = "validate" /\ r.pc # "consume") \/ (r.kind = "bulk" /\ r.pc = "commit")
     /\ r.row.status = "STOCK_CONSUMED"
     => drawn[r.entry] > 0 \/ StockLock \in r.locks
  /\ r.kind \in ByEntry \ {"bulk"} => entry[r.entry].status # "absent"
  /\ \A e \in Entries : <<"entry", e>> \in r.locks =>
       /\ entry[e].status # "absent"
       /\ r.kind # "delete order" => (e = r.entry /\ r.row.status # "absent")

Recorded == {e \in Entries : entry[e].status # "absent"}

RequestsOK ==
  /\ \A w \in Workers : Shape(tx[w]) /\ Fits(tx[w])
  /\ \A v, w \in Workers : v # w => tx[v].locks \intersect tx[w].locks = {}
  /\ IsFiniteSet(Busy)

\* The rows there are, and what their foreign keys point to.
RowsOK ==
  /\ IsFiniteSet(Recorded)
  /\ \A e \in Entries : entry[e].status = "absent" => entry[e] = NoRow
  /\ \A e \in Entries : entry[e].status \notin Gone /\ entry[e].order # NoOrder =>
       order[entry[e].order].status \notin Gone

IInv == TypeOK /\ RequestsOK /\ RowsOK /\ ConsumedIsDrawn

\* The entries as the request sees them.
Seen(r) == [e \in Entries |-> IF <<"entry", e>> \in r.locks THEN r.row ELSE entry[e]]

\* What a validation makes of an entry.
Outcome(e) ==
  IF entry[e].bottles > 0 /\ entry[e].order # NoOrder /\ order[entry[e].order].recipe
  THEN "STOCK_CONSUMED" ELSE "VALIDATED"

Consumption(row) == IF row.status = "STOCK_CONSUMED" THEN row.bottles ELSE 0

Books == ConsumedIsProduced /\ DrawnIsRecorded

\* What an order may still need, whatever its status.
Wants(o, rows) == IF order[o].recipe THEN Rest(order[o].quantity, Produced(o, rows)) ELSE 0

\* The validation's object of its order, when all the others are validations too.
OrderUndisturbed(r) ==
  /\ r.head.quantity = order[r.order].quantity
  /\ r.head.recipe = order[r.order].recipe
  /\ r.head.status \in OrderStatus
  /\ r.head.status = "DONE" => Produced(r.order, Seen(r)) >= order[r.order].quantity
  /\ ReservationLock(r) \in r.locks => r.keep >= Wants(r.order, Seen(r))

Undisturbed(r) ==
  /\ r.kind \in {"none", "validate"}
  /\ r.kind = "validate" =>
       /\ r.row.bottles = entry[r.entry].bottles
       /\ r.row.order = entry[r.entry].order /\ r.order = entry[r.entry].order
       /\ r.row.status = Outcome(r.entry)
       /\ r.row.consumed = Consumption(r.row)
       /\ r.order # NoOrder => OrderUndisturbed(r)

\* While there are validations alone.
Peaceful ==
  /\ Books
  /\ \A e \in Entries : /\ entry[e].status \in {"absent", "DRAFT", Outcome(e)}
                        /\ entry[e].consumed = Consumption(entry[e])
  /\ \A w \in Workers : Undisturbed(tx[w])
  /\ DoneIsProduced
  /\ \A o \in Orders : order[o].status # "absent" => reserved[o] >= Wants(o, entry)

\* What the request reserves, or leaves reserved, is what the order in memory needs.
Reserving(r) ==
  LET need == IF r.head.recipe /\ r.head.status \in Open
              THEN Rest(r.head.quantity, Produced(r.order, Seen(r))) ELSE 0
  IN need = IF ReservationLock(r) \in r.locks THEN r.keep ELSE reserved[r.order]

\* The validation's object of its order, when there is no other request.
OrderFresh(r) ==
  /\ order[r.order].status \notin Gone
  /\ r.head.quantity = order[r.order].quantity
  /\ r.head.recipe = order[r.order].recipe
  /\ r.pc \in {"consume", "save", "advance"} => r.head.status = order[r.order].status
  /\ r.pc = "advance" => order[r.order].status # "DONE"
  /\ order[r.order].status = "DONE" =>
       r.pc \in {"consume", "save", "commit"} /\ r.locks \subseteq {StockLock, Own(r)}
  /\ order[r.order].status # "DONE" /\ r.pc \in {"status", "sync", "commit"} =>
       /\ r.head.status = IF Rest(r.head.quantity, Produced(r.order, Seen(r))) = 0
                          THEN "DONE" ELSE "IN_PROGRESS"
       /\ (r.pc # "status" /\ OrderLock(r) \notin r.locks)
            => r.head.status = order[r.order].status
       /\ r.pc = "commit" => Reserving(r)

Fresh(r) ==
  /\ r.pc \notin {"syncing", "beaten"}
  /\ r.kind \in ByEntry =>
       \/ entry[r.entry].status = "DRAFT"
       \/ r.kind = "bulk" /\ r.pc # "commit" /\ entry[r.entry].status = "absent"
  /\ r.kind = "bulk" /\ r.pc = "commit" => r.row.status = "DRAFT"
  /\ r.kind = "validate" =>
       /\ r.row.bottles = entry[r.entry].bottles
       /\ r.row.order = entry[r.entry].order /\ r.order = entry[r.entry].order
       /\ r.row.status = "STOCK_CONSUMED" => r.row.consumed = r.row.bottles
       /\ r.order # NoOrder => OrderFresh(r)
  /\ r.kind = "edit order" => /\ order[r.order].status = r.head.status
                              /\ r.pc = "commit" => Reserving(r)
  /\ r.kind = "delete order" =>
       \A e \in Entries : <<"entry", e>> \in r.locks => entry[e].order = r.order

Alone == \A v, w \in Workers : tx[v].kind # "none" /\ tx[w].kind # "none" => v = w

\* While requests come one at a time.
Serial ==
  /\ Alone
  /\ Books
  /\ \A w \in Workers : Fresh(tx[w])
  /\ ReservedIsNeeded

History == /\ marred \subseteq {"overlap", "edit"}
           /\ "edit" \notin marred => Peaceful
           /\ "overlap" \notin marred => Serial
-----------------------------------------------------------------------------
(* Sums of the bottles of some rows, by the theorems on sums.              *)

\* The sum of the bottles of the rows of S.
SumOf(rows, S) == MapThenSumSet(LAMBDA e : rows[e].bottles, S)

BottlesOf(rows, S) == [e \in S |-> rows[e].bottles]

\* The recursive function the operator of the library defines.
SumsRows(g, rows, S) ==
  g = [s \in SUBSET S |-> IF s = {} THEN 0 ELSE rows[Picked(s)].bottles + g[s \ {Picked(s)}]]

LEMMA SumOfIs ==
  ASSUME NEW rows, NEW S, IsFiniteSet(S)
  PROVE  SumOf(rows, S) = SumFunctionOnSet(BottlesOf(rows, S), S)
<1>1. PICK f : f = BottlesOf(rows, S)
  OBVIOUS
<1>2. \A s \in SUBSET S : s # {} => f[Picked(s)] = rows[Picked(s)].bottles
  BY <1>1, PickOne DEF BottlesOf
<1>3. PICK g : Sums(g, f, S)
  BY SumsExist
<1>4. SumsRows(g, rows, S)
  BY <1>2, <1>3 DEF Sums, SumsRows
<1>5. PICK h : h = (CHOOSE g2 : SumsRows(g2, rows, S))
  OBVIOUS
<1>6. SumOf(rows, S) = h[S]
  BY <1>5 DEF SumOf, MapThenSumSet, MapThenFoldSet, SumsRows, Picked
<1>7. SumsRows(h, rows, S)
  BY <1>4, <1>5
<1>8. Summing(h, f, S)
  BY <1>2, <1>7 DEF SumsRows, Summing, Adds
<1> QED
  BY <1>1, <1>6, <1>8, SumIs

\* The rows of S have numbers; the same numbers as others.
HaveNumbers(rows, S) == \A e \in S : rows[e].bottles \in Nat
SameFigures(rows, more, S) == \A e \in S : rows[e].bottles = more[e].bottles

LEMMA RowsSumType ==
  ASSUME NEW rows, NEW S, IsFiniteSet(S), HaveNumbers(rows, S)
  PROVE  SumOf(rows, S) \in Nat
<1>1. \A e \in S : BottlesOf(rows, S)[e] \in Nat
  BY DEF BottlesOf, HaveNumbers
<1> QED
  BY <1>1, SumOfIs, SumIsNatural

LEMMA RowsSumSame ==
  ASSUME NEW rows, NEW more, NEW S, IsFiniteSet(S), SameFigures(rows, more, S)
  PROVE  SumOf(rows, S) = SumOf(more, S)
<1>1. Same(BottlesOf(rows, S), BottlesOf(more, S), S)
  BY DEF BottlesOf, Same, SameFigures
<1> QED
  BY <1>1, SumOfIs, SumSame

LEMMA RowsSumGrows ==
  ASSUME NEW rows, NEW T, IsFiniteSet(T), NEW S \in SUBSET T, HaveNumbers(rows, T)
  PROVE  SumOf(rows, S) <= SumOf(rows, T)
<1>1. IsFiniteSet(S)
  BY FS_Subset
<1>2. PICK f, h : f = BottlesOf(rows, T) /\ h = BottlesOf(rows, S)
  OBVIOUS
<1>3. \A e \in T : f[e] \in Nat
  BY <1>2 DEF BottlesOf, HaveNumbers
<1>4. Same(h, f, S)
  BY <1>2 DEF BottlesOf, Same
<1>5. SumFunctionOnSet(h, S) = SumFunctionOnSet(f, S)
  BY <1>1, <1>4, SumSame
<1>6. SumFunctionOnSet(f, S) <= SumFunctionOnSet(f, T)
  BY <1>3, SumGrows
<1> QED
  BY <1>1, <1>2, <1>5, <1>6, SumOfIs
-----------------------------------------------------------------------------
(* Locks, rows and requests.                                               *)

\* Locks of different rows are different.
LEMMA LocksDiffer ==
  ASSUME NEW e, NEW f, NEW o, NEW p
  PROVE  /\ <<"entry", e>> = <<"entry", f>> => e = f
         /\ <<"order", o>> = <<"order", p>> => o = p
         /\ <<"reservation", o>> = <<"reservation", p>> => o = p
         /\ <<"entry", e>> # <<"order", o>> /\ <<"entry", e>> # <<"reservation", o>>
         /\ <<"order", o>> # <<"reservation", p>>
         /\ StockLock # <<"entry", e>> /\ StockLock # <<"order", o>>
         /\ StockLock # <<"reservation", o>>
BY DEF StockLock

LEMMA LockTypes ==
  /\ StockLock \in Lock
  /\ \A e \in Entries : <<"entry", e>> \in Lock
  /\ \A o \in Orders : <<"order", o>> \in Lock /\ <<"reservation", o>> \in Lock
BY DEF StockLock, Lock

LEMMA RowFields ==
  ASSUME NEW status \in EntryStatus \union Gone, NEW bottles \in Nat,
         NEW o \in Orders \union {NoOrder}, NEW consumed \in Nat, NEW row,
         row = [status |-> status, bottles |-> bottles, order |-> o, consumed |-> consumed]
  PROVE  /\ row \in EntryRow
         /\ row.status = status /\ row.bottles = bottles /\ row.order = o
         /\ row.consumed = consumed
<1>1. row \in EntryRow
  BY DEF EntryRow
<1>2. /\ row.status = status /\ row.bottles = bottles /\ row.order = o
      /\ row.consumed = consumed
  OBVIOUS
<1> QED
  BY <1>1, <1>2

LEMMA RowTypes ==
  ASSUME NEW row \in EntryRow
  PROVE  /\ row.status \in EntryStatus \union Gone /\ row.bottles \in Nat
         /\ row.order \in Orders \union {NoOrder} /\ row.consumed \in Nat
         /\ row = [status |-> row.status, bottles |-> row.bottles, order |-> row.order,
                   consumed |-> row.consumed]
BY DEF EntryRow

LEMMA HeadFields ==
  ASSUME NEW status \in OrderStatus \union Gone, NEW quantity \in Nat, NEW recipe \in BOOLEAN,
         NEW head, head = [status |-> status, quantity |-> quantity, recipe |-> recipe]
  PROVE  /\ head \in OrderRow
         /\ head.status = status /\ head.quantity = quantity /\ head.recipe = recipe
<1>1. head \in OrderRow
  BY DEF OrderRow
<1>2. head.status = status /\ head.quantity = quantity /\ head.recipe = recipe
  OBVIOUS
<1> QED
  BY <1>1, <1>2

LEMMA HeadTypes ==
  ASSUME NEW head \in OrderRow
  PROVE  /\ head.status \in OrderStatus \union Gone /\ head.quantity \in Nat
         /\ head.recipe \in BOOLEAN
         /\ head = [status |-> head.status, quantity |-> head.quantity, recipe |-> head.recipe]
BY DEF OrderRow

LEMMA NoRows ==
  /\ NoRow \in EntryRow /\ NoRow.status = "absent" /\ NoRow.order = NoOrder
  /\ NoRow.bottles = 0 /\ NoRow.consumed = 0
  /\ NoHead \in OrderRow /\ NoHead.status = "absent" /\ NoHead.quantity = 0
  /\ ~NoHead.recipe
<1>1. 0 \in Nat
  OBVIOUS
<1>2. "absent" \in EntryStatus \union Gone /\ "absent" \in OrderStatus \union Gone
  BY DEF Gone
<1>3. /\ NoRow \in EntryRow /\ NoRow.status = "absent" /\ NoRow.order = NoOrder
      /\ NoRow.bottles = 0 /\ NoRow.consumed = 0
  BY <1>1, <1>2, RowFields DEF NoRow
<1>4. NoHead \in OrderRow /\ NoHead.status = "absent" /\ NoHead.quantity = 0
  BY <1>1, <1>2, HeadFields DEF NoHead
<1>5. ~NoHead.recipe
  BY DEF NoHead
<1> QED
  BY <1>3, <1>4, <1>5

PCs == {"idle", "consume", "save", "lookup", "bulk", "advance", "status",
        "order", "cascade", "sync", "syncing", "beaten", "commit"}

LEMMA RequestFields ==
  ASSUME NEW kind \in Kinds, NEW pc \in PCs, NEW e \in Entries \union {NoEntry},
         NEW o \in Orders \union {NoOrder}, NEW row \in EntryRow, NEW head \in OrderRow,
         NEW keep \in Nat, NEW locks \in SUBSET Lock, NEW q,
         q = [kind |-> kind, pc |-> pc, entry |-> e, order |-> o, row |-> row, head |-> head,
              keep |-> keep, locks |-> locks]
  PROVE  /\ q \in Request
         /\ q.kind = kind /\ q.pc = pc /\ q.entry = e /\ q.order = o
         /\ q.row = row /\ q.head = head /\ q.keep = keep /\ q.locks = locks
<1>1. q \in Request
  BY DEF Request, PCs
<1>2. q.kind = kind /\ q.pc = pc /\ q.entry = e /\ q.order = o
  OBVIOUS
<1>3. q.row = row /\ q.head = head /\ q.keep = keep /\ q.locks = locks
  OBVIOUS
<1> QED
  BY <1>1, <1>2, <1>3

LEMMA RequestTypes ==
  ASSUME NEW r \in Request
  PROVE  /\ r.kind \in Kinds /\ r.pc \in PCs /\ r.entry \in Entries \union {NoEntry}
         /\ r.order \in Orders \union {NoOrder} /\ r.row \in EntryRow /\ r.head \in OrderRow
         /\ r.keep \in Nat /\ r.locks \in SUBSET Lock
         /\ r = [kind |-> r.kind, pc |-> r.pc, entry |-> r.entry, order |-> r.order,
                 row |-> r.row, head |-> r.head, keep |-> r.keep, locks |-> r.locks]
BY DEF Request, PCs

LEMMA IdleFields ==
  /\ Idle \in Request /\ Idle.kind = "none" /\ Idle.pc = "idle"
  /\ Idle.locks = {} /\ Idle.entry = NoEntry /\ Idle.order = NoOrder
<1>1. "none" \in Kinds /\ "idle" \in PCs /\ {} \in SUBSET Lock /\ 0 \in Nat
  BY DEF Kinds, PCs
<1> QED
  BY <1>1, RequestFields, NoRows DEF Idle

\* The same request, further on and with other locks.
Further(r, q) ==
  /\ q \in Request
  /\ q.kind = r.kind /\ q.entry = r.entry /\ q.order = r.order

Kept(r, q) == Further(r, q) /\ q.row = r.row /\ q.head = r.head /\ q.keep = r.keep

OnTo(r, pc) == [r EXCEPT !.pc = pc]

LEMMA Goes ==
  ASSUME NEW r \in Request, NEW pc \in PCs, NEW q,
         q = OnTo(r, pc)
  PROVE  /\ Kept(r, q) /\ q.pc = pc /\ q.locks = r.locks
<1>1. q = [kind |-> r.kind, pc |-> pc, entry |-> r.entry, order |-> r.order,
           row |-> r.row, head |-> r.head, keep |-> r.keep, locks |-> r.locks]
  BY DEF OnTo, Request
<1>2. /\ r.kind \in Kinds /\ r.entry \in Entries \union {NoEntry}
      /\ r.order \in Orders \union {NoOrder} /\ r.row \in EntryRow /\ r.head \in OrderRow
      /\ r.keep \in Nat /\ r.locks \in SUBSET Lock
  BY RequestTypes
<1>3. q \in Request
  BY <1>1, <1>2 DEF Request, PCs
<1>4. q.kind = r.kind /\ q.pc = pc /\ q.entry = r.entry /\ q.order = r.order
  BY <1>1
<1>5. q.row = r.row /\ q.head = r.head /\ q.keep = r.keep /\ q.locks = r.locks
  BY <1>1
<1> QED
  BY <1>3, <1>4, <1>5 DEF Kept, Further

Locking(r, pc, locks) == [r EXCEPT !.pc = pc, !.locks = locks]

LEMMA GoesLocking ==
  ASSUME NEW r \in Request, NEW pc \in PCs, NEW locks \in SUBSET Lock, NEW q,
         q = Locking(r, pc, locks)
  PROVE  /\ Kept(r, q) /\ q.pc = pc /\ q.locks = locks
<1>1. q = [kind |-> r.kind, pc |-> pc, entry |-> r.entry, order |-> r.order,
           row |-> r.row, head |-> r.head, keep |-> r.keep, locks |-> locks]
  BY DEF Locking, Request
<1>2. /\ r.kind \in Kinds /\ r.entry \in Entries \union {NoEntry}
      /\ r.order \in Orders \union {NoOrder} /\ r.row \in EntryRow /\ r.head \in OrderRow
      /\ r.keep \in Nat /\ r.locks \in SUBSET Lock
  BY RequestTypes
<1>3. q \in Request
  BY <1>1, <1>2 DEF Request, PCs
<1>4. q.kind = r.kind /\ q.pc = pc /\ q.entry = r.entry /\ q.order = r.order
  BY <1>1
<1>5. q.row = r.row /\ q.head = r.head /\ q.keep = r.keep /\ q.locks = locks
  BY <1>1
<1> QED
  BY <1>3, <1>4, <1>5 DEF Kept, Further

LockingOne(r, pc, lock) == [r EXCEPT !.pc = pc, !.locks = @ \union {lock}]

LEMMA GoesLockingOne ==
  ASSUME NEW r \in Request, NEW pc \in PCs, NEW lock \in Lock, NEW q,
         q = LockingOne(r, pc, lock)
  PROVE  /\ Kept(r, q) /\ q.pc = pc /\ q.locks = r.locks \union {lock}
<1>1. PICK locks : locks = r.locks \union {lock}
  OBVIOUS
<1>2. q = [kind |-> r.kind, pc |-> pc, entry |-> r.entry, order |-> r.order,
           row |-> r.row, head |-> r.head, keep |-> r.keep, locks |-> locks]
  BY <1>1 DEF LockingOne, Request
<1>3. /\ r.kind \in Kinds /\ r.entry \in Entries \union {NoEntry}
      /\ r.order \in Orders \union {NoOrder} /\ r.row \in EntryRow /\ r.head \in OrderRow
      /\ r.keep \in Nat /\ locks \in SUBSET Lock
  BY <1>1, RequestTypes
<1>4. q \in Request
  BY <1>2, <1>3 DEF Request, PCs
<1>5. q.kind = r.kind /\ q.pc = pc /\ q.entry = r.entry /\ q.order = r.order
  BY <1>2
<1>6. q.row = r.row /\ q.head = r.head /\ q.keep = r.keep /\ q.locks = locks
  BY <1>2
<1> QED
  BY <1>1, <1>4, <1>5, <1>6 DEF Kept, Further

Keeping(r, keep, lock) == [r EXCEPT !.pc = "commit", !.keep = keep, !.locks = @ \union {lock}]

LEMMA GoesKeeping ==
  ASSUME NEW r \in Request, NEW keep \in Nat, NEW lock \in Lock, NEW q,
         q = Keeping(r, keep, lock)
  PROVE  /\ Further(r, q) /\ q.row = r.row /\ q.head = r.head /\ q.keep = keep
         /\ q.pc = "commit" /\ q.locks = r.locks \union {lock}
<1>1. PICK locks : locks = r.locks \union {lock}
  OBVIOUS
<1>2. q = [kind |-> r.kind, pc |-> "commit", entry |-> r.entry, order |-> r.order,
           row |-> r.row, head |-> r.head, keep |-> keep, locks |-> locks]
  BY <1>1 DEF Keeping, Request
<1>3. locks \in SUBSET Lock /\ "commit" \in PCs
  BY <1>1, RequestTypes DEF PCs
<1>4. /\ r.kind \in Kinds /\ r.entry \in Entries \union {NoEntry}
      /\ r.order \in Orders \union {NoOrder} /\ r.row \in EntryRow /\ r.head \in OrderRow
      /\ r.keep \in Nat /\ r.locks \in SUBSET Lock
  BY RequestTypes
<1>5. q \in Request
  BY <1>2, <1>3, <1>4 DEF Request, PCs
<1>6. q.kind = r.kind /\ q.pc = "commit" /\ q.entry = r.entry /\ q.order = r.order
  BY <1>2
<1>7. q.row = r.row /\ q.head = r.head /\ q.keep = keep /\ q.locks = locks
  BY <1>2
<1> QED
  BY <1>1, <1>5, <1>6, <1>7 DEF Further

Writing(r, row, lock) == [r EXCEPT !.pc = "commit", !.row = row, !.locks = @ \union {lock}]

LEMMA GoesWriting ==
  ASSUME NEW r \in Request, NEW row \in EntryRow, NEW lock \in Lock, NEW q,
         q = Writing(r, row, lock)
  PROVE  /\ Further(r, q) /\ q.row = row /\ q.head = r.head /\ q.keep = r.keep
         /\ q.pc = "commit" /\ q.locks = r.locks \union {lock}
<1>1. PICK locks : locks = r.locks \union {lock}
  OBVIOUS
<1>2. q = [kind |-> r.kind, pc |-> "commit", entry |-> r.entry, order |-> r.order,
           row |-> row, head |-> r.head, keep |-> r.keep, locks |-> locks]
  BY <1>1 DEF Writing, Request
<1>3. locks \in SUBSET Lock /\ "commit" \in PCs
  BY <1>1, RequestTypes DEF PCs
<1>4. /\ r.kind \in Kinds /\ r.entry \in Entries \union {NoEntry}
      /\ r.order \in Orders \union {NoOrder} /\ r.row \in EntryRow /\ r.head \in OrderRow
      /\ r.keep \in Nat /\ r.locks \in SUBSET Lock
  BY RequestTypes
<1>5. q \in Request
  BY <1>2, <1>3, <1>4 DEF Request, PCs
<1>6. q.kind = r.kind /\ q.pc = "commit" /\ q.entry = r.entry /\ q.order = r.order
  BY <1>2
<1>7. q.row = row /\ q.head = r.head /\ q.keep = r.keep /\ q.locks = locks
  BY <1>2
<1> QED
  BY <1>1, <1>5, <1>6, <1>7 DEF Further

Advancing(r, pc, status) == [r EXCEPT !.pc = pc, !.head.status = status]

LEMMA GoesAdvancing ==
  ASSUME NEW r \in Request, NEW pc \in PCs, NEW status \in OrderStatus, NEW q,
         q = Advancing(r, pc, status)
  PROVE  /\ Further(r, q) /\ q.row = r.row /\ q.keep = r.keep
         /\ q.pc = pc /\ q.locks = r.locks
         /\ q.head.status = status /\ q.head.quantity = r.head.quantity
         /\ q.head.recipe = r.head.recipe
<1>1. PICK head : head = [r.head EXCEPT !.status = status]
  OBVIOUS
<1>2. q = [kind |-> r.kind, pc |-> pc, entry |-> r.entry, order |-> r.order,
           row |-> r.row, head |-> head, keep |-> r.keep, locks |-> r.locks]
  BY <1>1 DEF Advancing, Request
<1>3. head = [status |-> status, quantity |-> r.head.quantity, recipe |-> r.head.recipe]
  BY <1>1 DEF Request, OrderRow
<1>4. r.head.quantity \in Nat /\ r.head.recipe \in BOOLEAN
  BY RequestTypes, HeadTypes
<1>5. /\ head \in OrderRow
      /\ head.status = status /\ head.quantity = r.head.quantity /\ head.recipe = r.head.recipe
  BY <1>3, <1>4, HeadFields
<1>6. /\ r.kind \in Kinds /\ r.entry \in Entries \union {NoEntry}
      /\ r.order \in Orders \union {NoOrder} /\ r.row \in EntryRow /\ r.head \in OrderRow
      /\ r.keep \in Nat /\ r.locks \in SUBSET Lock
  BY RequestTypes
<1>7. q \in Request
  BY <1>2, <1>5, <1>6 DEF Request, PCs
<1>8. q.kind = r.kind /\ q.pc = pc /\ q.entry = r.entry /\ q.order = r.order
  BY <1>2
<1>9. q.row = r.row /\ q.head = head /\ q.keep = r.keep /\ q.locks = r.locks
  BY <1>2
<1> QED
  BY <1>5, <1>7, <1>8, <1>9 DEF Further
-----------------------------------------------------------------------------
(* What was produced for an order.                                         *)

Counts(o, rows) == {e \in Entries : rows[e].order = o /\ rows[e].status \in Validated}

\* Only entries of S are validated.
Within(rows, S) ==
  \A e \in Entries : rows[e].bottles \in Nat /\ (rows[e].status \in Validated => e \in S)

\* What is validated in rows is validated in more, and the same.
Grows(rows, more) ==
  \A e \in Entries : rows[e].status \in Validated =>
    /\ more[e].status \in Validated
    /\ more[e].bottles = rows[e].bottles /\ more[e].order = rows[e].order

\* The same is validated for o.
Alike(o, rows, more) ==
  \A e \in Entries :
    /\ rows[e].order = o /\ rows[e].status \in Validated
         <=> more[e].order = o /\ more[e].status \in Validated
    /\ rows[e].order = o /\ rows[e].status \in Validated => rows[e].bottles = more[e].bottles

LEMMA ProducedIsSum ==
  ASSUME NEW o, NEW rows
  PROVE  Produced(o, rows) = SumOf(rows, Counts(o, rows))
BY DEF Produced, SumOf, Counts

LEMMA CountsWithin ==
  ASSUME NEW o, NEW rows, NEW S, IsFiniteSet(S), Within(rows, S)
  PROVE  IsFiniteSet(Counts(o, rows)) /\ HaveNumbers(rows, Counts(o, rows))
<1>1. Counts(o, rows) \in SUBSET S
  BY DEF Counts, Within
<1>2. IsFiniteSet(Counts(o, rows))
  BY <1>1, FS_Subset
<1>3. HaveNumbers(rows, Counts(o, rows))
  BY DEF HaveNumbers, Counts, Within
<1> QED
  BY <1>2, <1>3

LEMMA ProducedType ==
  ASSUME NEW o, NEW rows, NEW S, IsFiniteSet(S), Within(rows, S)
  PROVE  Produced(o, rows) \in Nat
BY ProducedIsSum, CountsWithin, RowsSumType

\* A validation more takes nothing away.
LEMMA ProducedGrows ==
  ASSUME NEW o, NEW rows, NEW more, NEW S, IsFiniteSet(S), Within(more, S),
         Grows(rows, more)
  PROVE  Produced(o, rows) <= Produced(o, more)
<1>1. PICK C, D : C = Counts(o, rows) /\ D = Counts(o, more)
  OBVIOUS
<1>2. IsFiniteSet(D) /\ HaveNumbers(more, D)
  BY <1>1, CountsWithin
<1>3. C \in SUBSET D
  BY <1>1 DEF Counts, Grows
<1>4. IsFiniteSet(C)
  BY <1>2, <1>3, FS_Subset
<1>5. SameFigures(rows, more, C)
  BY <1>1 DEF SameFigures, Counts, Grows
<1>6. SumOf(rows, C) = SumOf(more, C)
  BY <1>4, <1>5, RowsSumSame
<1>7. SumOf(more, C) <= SumOf(more, D)
  BY <1>2, <1>3, RowsSumGrows
<1> QED
  BY <1>1, <1>6, <1>7, ProducedIsSum

LEMMA ProducedAlike ==
  ASSUME NEW o, NEW rows, NEW more, NEW S, IsFiniteSet(S), Within(rows, S),
         Alike(o, rows, more)
  PROVE  Produced(o, rows) = Produced(o, more)
<1>1. PICK C : C = Counts(o, rows)
  OBVIOUS
<1>2. IsFiniteSet(C)
  BY <1>1, CountsWithin
<1>3. C = Counts(o, more)
  BY <1>1 DEF Counts, Alike
<1>4. SameFigures(rows, more, C)
  BY <1>1 DEF SameFigures, Counts, Alike
<1>5. SumOf(rows, C) = SumOf(more, C)
  BY <1>2, <1>4, RowsSumSame
<1> QED
  BY <1>1, <1>3, <1>5, ProducedIsSum

\* What is left of a quantity.
LEMMA RestIs ==
  ASSUME NEW quantity \in Nat, NEW m \in Nat
  PROVE  /\ Rest(quantity, m) \in Nat /\ Rest(quantity, m) <= quantity
         /\ Rest(quantity, m) = 0 <=> m >= quantity
BY DEF Rest

LEMMA RestShrinks ==
  ASSUME NEW quantity \in Nat, NEW m \in Nat, NEW n \in Nat, m <= n
  PROVE  Rest(quantity, n) <= Rest(quantity, m)
BY DEF Rest
-----------------------------------------------------------------------------
(* What each step does to its request.                                     *)

LEMMA Reads ==
  ASSUME TypeOK, NEW w \in Workers
  PROVE  tx[w] \in Request
BY DEF TypeOK

LEMMA SeesSeen ==
  ASSUME NEW w \in Workers
  PROVE  Sees(w) = Seen(tx[w])
BY DEF Sees, Seen

LEMMA SeenWithin ==
  ASSUME TypeOK, RowsOK, NEW r \in Request, Fits(r)
  PROVE  Within(Seen(r), Recorded)
<1> SUFFICES ASSUME NEW e \in Entries
             PROVE  /\ Seen(r)[e].bottles \in Nat
                    /\ Seen(r)[e].status \in Validated => e \in Recorded
  BY DEF Within
<1>1. entry[e] \in EntryRow /\ r.row \in EntryRow
  BY RequestTypes DEF TypeOK
<1>2. Seen(r)[e] = IF <<"entry", e>> \in r.locks THEN r.row ELSE entry[e]
  BY DEF Seen
<1>3. <<"entry", e>> \in r.locks => e \in Recorded
  BY DEF Fits, Recorded
<1>4. entry[e].status \in Validated => e \in Recorded
  BY DEF Recorded, Validated
<1> QED
  BY <1>1, <1>2, <1>3, <1>4, RowTypes

LEMMA EntryWithin ==
  ASSUME TypeOK
  PROVE  Within(entry, Recorded)
<1> SUFFICES ASSUME NEW e \in Entries
             PROVE  /\ entry[e].bottles \in Nat
                    /\ entry[e].status \in Validated => e \in Recorded
  BY DEF Within
<1>1. entry[e] \in EntryRow
  BY DEF TypeOK
<1> QED
  BY <1>1, RowTypes DEF Recorded, Validated

LEMMA SeenProduced ==
  ASSUME TypeOK, RowsOK, NEW r \in Request, Fits(r), NEW o
  PROVE  Produced(o, Seen(r)) \in Nat
BY SeenWithin, ProducedType DEF RowsOK

LEMMA EntryProduced ==
  ASSUME TypeOK, RowsOK, NEW o
  PROVE  Produced(o, entry) \in Nat
BY EntryWithin, ProducedType DEF RowsOK

\* What the order in memory needs.
Need(r) == IF r.head.recipe /\ r.head.status \in Open
           THEN Rest(r.head.quantity, Produced(r.order, Seen(r))) ELSE 0

LEMMA ToReserveIsNeed ==
  ASSUME TypeOK, RowsOK, NEW w \in Workers, Fits(tx[w])
  PROVE  /\ ToReserve(w) = Need(tx[w]) /\ Need(tx[w]) \in Nat
         /\ Remaining(w) = Rest(tx[w].head.quantity, Produced(tx[w].order, Seen(tx[w])))
<1>1. PICK r \in Request : r = tx[w]
  BY Reads
<1>2. Remaining(w) = Rest(r.head.quantity, Produced(r.order, Seen(r)))
  BY <1>1, SeesSeen DEF Remaining
<1>3. r.head.quantity \in Nat /\ Produced(r.order, Seen(r)) \in Nat
  BY <1>1, SeenProduced, RequestTypes, HeadTypes
<1>4. Rest(r.head.quantity, Produced(r.order, Seen(r))) \in Nat
  BY <1>3, RestIs
<1>5. ToReserve(w) = Need(r)
  BY <1>1, <1>2 DEF ToReserve, Need
<1> QED
  BY <1>1, <1>2, <1>4, <1>5 DEF Need

LEMMA Consumes ==
  ASSUME TypeOK, NEW w \in Workers, Consume(w)
  PROVE  \E q : /\ Continue(w, q) /\ Kept(tx[w], q)
                /\ q.pc = "save" /\ q.locks = tx[w].locks \union {StockLock}
<1>1. tx[w] \in Request /\ "save" \in PCs
  BY Reads DEF PCs
<1>2. PICK q : q = LockingOne(tx[w], "save", StockLock)
  OBVIOUS
<1>3. /\ Kept(tx[w], q) /\ q.pc = "save" /\ q.locks = tx[w].locks \union {StockLock}
  BY <1>2, <1>1, GoesLockingOne, LockTypes
<1> QED
  BY <1>2, <1>3 DEF Consume, LockingOne

LEMMA AlreadyDraws ==
  ASSUME TypeOK, NEW w \in Workers, AlreadyDrawn(w)
  PROVE  \E q : /\ Continue(w, q) /\ Kept(tx[w], q)
                /\ q.pc = "save" /\ q.locks = tx[w].locks
<1>1. tx[w] \in Request /\ "save" \in PCs
  BY Reads DEF PCs
<1>2. PICK q : q = OnTo(tx[w], "save")
  OBVIOUS
<1>3. /\ Kept(tx[w], q) /\ q.pc = "save" /\ q.locks = tx[w].locks
  BY <1>2, <1>1, Goes
<1> QED
  BY <1>2, <1>3 DEF AlreadyDrawn, OnTo

LEMMA LooksUp ==
  ASSUME TypeOK, NEW w \in Workers, BulkLookUp(w), ~Rollback(w)
  PROVE  \E q : /\ Continue(w, q) /\ Kept(tx[w], q)
                /\ q.pc = "bulk" /\ q.locks = tx[w].locks
<1>1. tx[w] \in Request /\ "bulk" \in PCs
  BY Reads DEF PCs
<1>2. PICK q : q = OnTo(tx[w], "bulk")
  OBVIOUS
<1>3. /\ Kept(tx[w], q) /\ q.pc = "bulk" /\ q.locks = tx[w].locks
  BY <1>2, <1>1, Goes
<1> QED
  BY <1>2, <1>3 DEF BulkLookUp, OnTo

SavedPC(r) == IF r.kind = "validate" /\ r.order # NoOrder /\ r.head.status # "DONE"
              THEN "advance" ELSE "commit"

LEMMA SavesEntry ==
  ASSUME TypeOK, NEW w \in Workers, SaveEntry(w), tx[w].entry \in Entries
  PROVE  \E q : /\ Continue(w, q) /\ Kept(tx[w], q)
                /\ q.pc = SavedPC(tx[w]) /\ q.locks = tx[w].locks \union {Own(tx[w])}
<1>1. PICK pc \in PCs : pc = SavedPC(tx[w])
  BY DEF PCs, SavedPC
<1>2. tx[w] \in Request /\ Own(tx[w]) \in Lock
  BY Reads, LockTypes DEF Own
<1>3. PICK q : q = LockingOne(tx[w], pc, Own(tx[w]))
  OBVIOUS
<1>4. /\ Kept(tx[w], q) /\ q.pc = pc /\ q.locks = tx[w].locks \union {Own(tx[w])}
  BY <1>3, <1>2, GoesLockingOne
<1> QED
  BY <1>1, <1>3, <1>4 DEF SaveEntry, LockingOne, SavedPC, Own

LEMMA WritesBulk ==
  ASSUME TypeOK, NEW w \in Workers, BulkWrite(w), tx[w].entry \in Entries
  PROVE  \E q : /\ Continue(w, q) /\ Further(tx[w], q)
                /\ q.head = tx[w].head /\ q.keep = tx[w].keep
                /\ q.pc = "commit" /\ q.locks = tx[w].locks \union {Own(tx[w])}
                /\ q.row.status = entry[tx[w].entry].status
<1>1. PICK r \in Request : r = tx[w]
  BY Reads
<1>2. PICK old \in EntryRow : old = entry[r.entry]
  BY <1>1 DEF TypeOK
<1>3. PICK row : row = [old EXCEPT !.bottles = r.row.bottles, !.order = r.row.order]
  OBVIOUS
<1>4. row = [status |-> old.status, bottles |-> r.row.bottles, order |-> r.row.order,
             consumed |-> old.consumed]
  BY <1>3 DEF EntryRow
<1>5. row \in EntryRow
  BY <1>4, RequestTypes, RowTypes DEF EntryRow
<1>6. Own(r) \in Lock
  BY <1>1, LockTypes DEF Own
<1>7. PICK q : q = Writing(r, row, Own(r))
  OBVIOUS
<1>8. /\ Further(r, q) /\ q.row = row /\ q.head = r.head /\ q.keep = r.keep
      /\ q.pc = "commit" /\ q.locks = r.locks \union {Own(r)}
  BY <1>7, <1>5, <1>6, GoesWriting
<1>9. Continue(w, q)
  BY <1>1, <1>2, <1>3, <1>7, <1>8 DEF BulkWrite, Writing, Own
<1>10. row.status = entry[r.entry].status
  BY <1>2, <1>4
<1> QED
  BY <1>1, <1>8, <1>9, <1>10

\* The status an order gets.
Reached(w) == IF Remaining(w) = 0 THEN "DONE" ELSE "IN_PROGRESS"

LEMMA Advances ==
  ASSUME TypeOK, NEW w \in Workers, Advance(w)
  PROVE  \E q : /\ Continue(w, q) /\ Further(tx[w], q)
                /\ q.row = tx[w].row /\ q.keep = tx[w].keep /\ q.locks = tx[w].locks
                /\ q.pc = IF Reached(w) = tx[w].head.status THEN "sync" ELSE "status"
                /\ q.head.status = Reached(w)
                /\ q.head.quantity = tx[w].head.quantity /\ q.head.recipe = tx[w].head.recipe
<1>1. PICK status \in OrderStatus : status = Reached(w)
  BY DEF Reached, OrderStatus, Open
<1>2. PICK pc \in PCs : pc = IF status = tx[w].head.status THEN "sync" ELSE "status"
  BY DEF PCs
<1>3. tx[w] \in Request
  BY Reads
<1>4. PICK q : q = Advancing(tx[w], pc, status)
  OBVIOUS
<1>5. /\ Further(tx[w], q) /\ q.row = tx[w].row /\ q.keep = tx[w].keep
      /\ q.pc = pc /\ q.locks = tx[w].locks
      /\ q.head.status = status /\ q.head.quantity = tx[w].head.quantity
      /\ q.head.recipe = tx[w].head.recipe
  BY <1>4, <1>3, GoesAdvancing
<1>6. Continue(w, q)
  BY <1>1, <1>2, <1>4, <1>5 DEF Advance, Advancing, Reached
<1> QED
  BY <1>1, <1>2, <1>4, <1>5, <1>6

LEMMA SavesStatus ==
  ASSUME TypeOK, NEW w \in Workers, SaveStatus(w), tx[w].order \in Orders
  PROVE  \/ Continue(w, Idle)
         \/ \E q : /\ Continue(w, q) /\ Kept(tx[w], q)
                   /\ q.pc = "sync" /\ q.locks = tx[w].locks \union {OrderLock(tx[w])}
<1>1. CASE order[tx[w].order].status \in Gone
  BY <1>1 DEF SaveStatus, Rollback, Finish, Continue
<1>2. CASE order[tx[w].order].status \notin Gone
  <2>1. tx[w] \in Request /\ OrderLock(tx[w]) \in Lock /\ "sync" \in PCs
    BY Reads, LockTypes DEF OrderLock, PCs
  <2>2. PICK q : q = LockingOne(tx[w], "sync", OrderLock(tx[w]))
    OBVIOUS
  <2>3. /\ Kept(tx[w], q) /\ q.pc = "sync"
      /\ q.locks = tx[w].locks \union {OrderLock(tx[w])}
    BY <2>2, <2>1, GoesLockingOne
  <2> QED
    BY <1>2, <2>2, <2>3 DEF SaveStatus, LockingOne, OrderLock
<1> QED
  BY <1>1, <1>2

LEMMA SavesOrder ==
  ASSUME TypeOK, NEW w \in Workers, SaveOrder(w), tx[w].order \in Orders
  PROVE  \E q : /\ Continue(w, q) /\ Kept(tx[w], q)
                /\ q.pc = "sync" /\ q.locks = tx[w].locks \union {OrderLock(tx[w])}
<1>1. tx[w] \in Request /\ OrderLock(tx[w]) \in Lock /\ "sync" \in PCs
  BY Reads, LockTypes DEF OrderLock, PCs
<1>2. PICK q : q = LockingOne(tx[w], "sync", OrderLock(tx[w]))
  OBVIOUS
<1>3. /\ Kept(tx[w], q) /\ q.pc = "sync"
      /\ q.locks = tx[w].locks \union {OrderLock(tx[w])}
  BY <1>2, <1>1, GoesLockingOne
<1> QED
  BY <1>2, <1>3 DEF SaveOrder, LockingOne, OrderLock

\* The rows a deleted order takes with it or unlinks.
Taken(r) == {OrderLock(r), ReservationLock(r)}
              \union {<<"entry", e>> : e \in {x \in Entries : entry[x].order = r.order}}

LEMMA Cascades ==
  ASSUME TypeOK, NEW w \in Workers, Cascade(w), tx[w].order \in Orders
  PROVE  \E q : /\ Continue(w, q) /\ Kept(tx[w], q)
                /\ q.pc = "commit" /\ q.locks = Taken(tx[w])
                /\ \A lock \in Taken(tx[w]) : Free(w, lock)
<1>1. PICK locks : locks = Taken(tx[w])
  OBVIOUS
<1>2. locks = {<<"reservation", tx[w].order>>, <<"order", tx[w].order>>}
                \union {<<"entry", e>> : e \in {x \in Entries : entry[x].order = tx[w].order}}
  BY <1>1 DEF Taken, OrderLock, ReservationLock
<1>3. locks \in SUBSET Lock
  BY <1>2, LockTypes
<1>4. tx[w] \in Request /\ "commit" \in PCs
  BY Reads DEF PCs
<1>5. PICK q : q = Locking(tx[w], "commit", locks)
  OBVIOUS
<1>6. /\ Kept(tx[w], q) /\ q.pc = "commit" /\ q.locks = locks
  BY <1>5, <1>3, <1>4, GoesLocking
<1>7. Continue(w, q) /\ \A lock \in locks : Free(w, lock)
  BY <1>2, <1>5, <1>6 DEF Cascade, Locking
<1> QED
  BY <1>1, <1>5, <1>6, <1>7

LEMMA SyncKeeps ==
  ASSUME TypeOK, RowsOK, NEW w \in Workers, Fits(tx[w]), tx[w].order \in Orders,
         Continue(w, Keeping(tx[w], ToReserve(w), ReservationLock(tx[w])))
  PROVE  \E q : /\ Continue(w, q) /\ Further(tx[w], q)
                /\ q.row = tx[w].row /\ q.head = tx[w].head /\ q.keep = Need(tx[w])
                /\ q.pc = "commit" /\ q.locks = tx[w].locks \union {ReservationLock(tx[w])}
<1>1. PICK keep \in Nat : keep = ToReserve(w) /\ keep = Need(tx[w])
  BY ToReserveIsNeed
<1>2. tx[w] \in Request /\ ReservationLock(tx[w]) \in Lock
  BY Reads, LockTypes DEF ReservationLock
<1>3. PICK q : q = Keeping(tx[w], keep, ReservationLock(tx[w]))
  OBVIOUS
<1>4. /\ Further(tx[w], q) /\ q.row = tx[w].row /\ q.head = tx[w].head
      /\ q.keep = keep
      /\ q.pc = "commit" /\ q.locks = tx[w].locks \union {ReservationLock(tx[w])}
  BY <1>3, <1>2, GoesKeeping
<1>5. Continue(w, q)
  BY <1>1, <1>3
<1> QED
  BY <1>1, <1>3, <1>4, <1>5

LEMMA Syncs ==
  ASSUME TypeOK, RowsOK, NEW w \in Workers, Fits(tx[w]), tx[w].order \in Orders, Sync(w)
  PROVE  \E q : /\ Continue(w, q) /\ Further(tx[w], q)
                /\ q.row = tx[w].row /\ q.head = tx[w].head /\ q.keep = Need(tx[w])
                /\ q.pc = "commit" /\ q.locks = tx[w].locks \union {ReservationLock(tx[w])}
<1>1. Continue(w, Keeping(tx[w], ToReserve(w), ReservationLock(tx[w])))
  BY DEF Sync, Keeping, ReservationLock
<1> QED
  BY <1>1, SyncKeeps

LEMMA Waits ==
  ASSUME TypeOK, NEW w \in Workers, SyncWaits(w)
  PROVE  \E q : /\ Continue(w, q) /\ Kept(tx[w], q)
                /\ q.pc = "syncing" /\ q.locks = tx[w].locks
<1>1. tx[w] \in Request /\ "syncing" \in PCs
  BY Reads DEF PCs
<1>2. PICK q : q = OnTo(tx[w], "syncing")
  OBVIOUS
<1>3. /\ Kept(tx[w], q) /\ q.pc = "syncing" /\ q.locks = tx[w].locks
  BY <1>2, <1>1, Goes
<1> QED
  BY <1>2, <1>3 DEF SyncWaits, OnTo

LEMMA GoesCommitting ==
  ASSUME TypeOK, NEW w \in Workers, Continue(w, OnTo(tx[w], "commit"))
  PROVE  \E q : /\ Continue(w, q) /\ Kept(tx[w], q)
                /\ q.pc = "commit" /\ q.locks = tx[w].locks
<1>1. tx[w] \in Request /\ "commit" \in PCs
  BY Reads DEF PCs
<1>2. PICK q : q = OnTo(tx[w], "commit")
  OBVIOUS
<1>3. /\ Kept(tx[w], q) /\ q.pc = "commit" /\ q.locks = tx[w].locks
  BY <1>2, <1>1, Goes
<1> QED
  BY <1>2, <1>3

LEMMA SyncsNothing ==
  ASSUME TypeOK, NEW w \in Workers, SyncNothing(w)
  PROVE  \E q : /\ Continue(w, q) /\ Kept(tx[w], q)
                /\ q.pc = "commit" /\ q.locks = tx[w].locks
<1>1. Continue(w, OnTo(tx[w], "commit"))
  BY DEF SyncNothing, OnTo
<1> QED
  BY <1>1, GoesCommitting

LEMMA IsBeaten ==
  ASSUME TypeOK, RowsOK, NEW w \in Workers, Fits(tx[w]), tx[w].order \in Orders, SyncBeaten(w)
  PROVE  \/ Continue(w, Idle)
         \/ \E q : /\ Continue(w, q) /\ Kept(tx[w], q)
                   /\ q.pc = "commit" /\ q.locks = tx[w].locks
         \/ /\ Free(w, ReservationLock(tx[w]))
            /\ \E q : /\ Continue(w, q) /\ Further(tx[w], q)
                      /\ q.row = tx[w].row /\ q.head = tx[w].head /\ q.keep = Need(tx[w])
                      /\ q.pc = "commit"
                      /\ q.locks = tx[w].locks \union {ReservationLock(tx[w])}
<1>1. CASE ToReserve(w) = 0
  <2>1. Continue(w, OnTo(tx[w], "commit"))
    BY <1>1 DEF SyncBeaten, OnTo
  <2> QED
    BY <2>1, GoesCommitting
<1>2. CASE ToReserve(w) # 0 /\ reserved[tx[w].order] # 0
  BY <1>2 DEF SyncBeaten, Rollback, Finish, Continue
<1>3. CASE ToReserve(w) # 0 /\ reserved[tx[w].order] = 0
  <2>1. /\ Free(w, ReservationLock(tx[w]))
        /\ Continue(w, Keeping(tx[w], ToReserve(w), ReservationLock(tx[w])))
    BY <1>3 DEF SyncBeaten, Keeping, ReservationLock
  <2> QED
    BY <2>1, SyncKeeps
<1> QED
  BY <1>1, <1>2, <1>3
-----------------------------------------------------------------------------
(* Every step keeps the requests in shape.                                 *)

LEMMA InState ==
  ASSUME IInv, NEW w \in Workers
  PROVE  /\ TypeOK /\ RowsOK /\ tx[w] \in Request
         /\ Shape(tx[w]) /\ Fits(tx[w])
BY Reads DEF IInv, RequestsOK

\* Which request is where.
LEMMA KindOf ==
  ASSUME NEW r, Shape(r)
  PROVE  /\ r.kind \in Kinds
         /\ r.pc = "idle" <=> r.kind = "none"
         /\ r.pc = "consume" => r.kind = "validate"
         /\ r.pc = "save" => r.kind \in {"validate", "edit entry", "delete entry"}
         /\ r.pc \in {"lookup", "bulk"} => r.kind = "bulk"
         /\ r.pc \in {"advance", "status"} => r.kind = "validate"
         /\ r.pc \in Syncing => r.kind \in {"validate", "edit order"}
         /\ r.pc = "order" => r.kind = "edit order"
         /\ r.pc = "cascade" => r.kind = "delete order"
<1>1. r.kind \in Kinds
  BY RequestTypes DEF Shape
<1>2. CASE r.kind = "none"
  <2>1. r.pc \in {"idle"}
    BY <1>2, IdleFields DEF Shape
  <2> QED
    BY <1>1, <1>2, <2>1 DEF Syncing
<1>3. CASE r.kind = "validate"
  <2>1. r.pc \in {"consume", "save", "advance", "status", "commit"} \union Syncing
    BY <1>3 DEF Shape, ValidationShape
  <2> QED
    BY <1>1, <1>3, <2>1 DEF Syncing
<1>4. CASE r.kind \in {"edit entry", "delete entry"}
  <2>1. r.pc \in {"save", "commit"}
    BY <1>4 DEF Shape, EntryShape
  <2> QED
    BY <1>1, <1>4, <2>1 DEF Syncing
<1>5. CASE r.kind = "bulk"
  <2>1. r.pc \in {"lookup", "bulk", "commit"}
    BY <1>5 DEF Shape, EntryShape
  <2> QED
    BY <1>1, <1>5, <2>1 DEF Syncing
<1>6. CASE r.kind = "edit order"
  <2>1. r.pc \in {"order", "commit"} \union Syncing
    BY <1>6 DEF Shape, OrderShape
  <2> QED
    BY <1>1, <1>6, <2>1 DEF Syncing
<1>7. CASE r.kind = "delete order"
  <2>1. r.pc \in {"cascade", "commit"}
    BY <1>7 DEF Shape, DeletionShape
  <2> QED
    BY <1>1, <1>7, <2>1 DEF Syncing
<1> QED
  BY <1>1, <1>2, <1>3, <1>4, <1>5, <1>6, <1>7 DEF Kinds

LEMMA Freely ==
  ASSUME IInv, NEW w \in Workers, NEW lock, Free(w, lock), NEW v \in Workers, v # w,
         NEW locks, locks = tx[w].locks \union {lock}
  PROVE  tx[v].locks \intersect locks = {}
BY DEF Free, IInv, RequestsOK

\* A request goes on, and keeps to its locks and its shape.
Moves(w, q) ==
  /\ Continue(w, q)
  /\ Shape(q) /\ Fits(q)
  /\ \A v \in Workers : v # w => tx[v].locks \intersect q.locks = {}

LEMMA FitsStay ==
  ASSUME NEW r, Fits(r), UNCHANGED <<entry, drawn>>
  PROVE  Fits(r)'
BY DEF Fits

LEMMA FitsIdle == Fits(Idle) /\ Shape(Idle)
<1>1. Shape(Idle)
  BY IdleFields DEF Shape
<1>2. Fits(Idle)
  BY IdleFields DEF Fits, ByEntry
<1> QED
  BY <1>1, <1>2

LEMMA Others ==
  ASSUME TypeOK, NEW w \in Workers, NEW q, tx' = [tx EXCEPT ![w] = q]
  PROVE  /\ tx'[w] = q /\ \A v \in Workers : v # w => tx'[v] = tx[v]
         /\ q \in Request => tx' \in [Workers -> Request]
BY DEF TypeOK

LEMMA BusyStep ==
  ASSUME TypeOK, NEW w \in Workers, NEW q, tx' = [tx EXCEPT ![w] = q], IsFiniteSet(Busy)
  PROVE  IsFiniteSet(Busy')
<1>1. IsFiniteSet(Busy \union {w})
  BY FS_AddElement
<1>2. Busy' \in SUBSET (Busy \union {w})
  BY Others DEF Busy
<1> QED
  BY <1>1, <1>2, FS_Subset

LEMMA RowsStay ==
  ASSUME RowsOK, ConsumedIsDrawn, UNCHANGED <<entry, order, drawn>>
  PROVE  RowsOK' /\ ConsumedIsDrawn'
<1>1. Recorded' = Recorded
  BY DEF Recorded
<1> QED
  BY <1>1 DEF RowsOK, ConsumedIsDrawn

LEMMA MovesInvariant ==
  ASSUME IInv, NEW w \in Workers, NEW q, Moves(w, q)
  PROVE  IInv'
<1>1. UNCHANGED <<entry, order, reserved, drawn>> /\ tx' = [tx EXCEPT ![w] = q]
  BY DEF Moves, Continue
<1>2. tx'[w] = q /\ \A v \in Workers : v # w => tx'[v] = tx[v]
  BY <1>1, Others DEF IInv
<1>3. TypeOK'
  <2>1. q \in Request
    BY DEF Moves, Shape
  <2> QED
    BY <1>1, <2>1, Others DEF IInv, TypeOK
<1>4. ASSUME NEW v \in Workers PROVE Shape(tx[v])' /\ Fits(tx[v])'
  <2>1. PICK r : r = tx'[v]
    OBVIOUS
  <2>2. Shape(r) /\ Fits(r)
    BY <1>2, <2>1 DEF Moves, IInv, RequestsOK
  <2>3. Shape(r)' /\ Fits(r)'
    BY <1>1, <2>2, FitsStay
  <2> QED
    BY <2>1, <2>3
<1>5. ASSUME NEW u \in Workers, NEW v \in Workers, u # v
      PROVE  tx'[u].locks \intersect tx'[v].locks = {}
  <2>1. CASE u # w /\ v # w
    BY <1>2, <1>5, <2>1 DEF IInv, RequestsOK
  <2>2. CASE u = w
    BY <1>2, <1>5, <2>2 DEF Moves
  <2>3. CASE v = w
    BY <1>2, <1>5, <2>3 DEF Moves
  <2> QED
    BY <2>1, <2>2, <2>3
<1>6. IsFiniteSet(Busy')
  BY <1>1, BusyStep DEF IInv, RequestsOK
<1>7. RowsOK' /\ ConsumedIsDrawn'
  BY <1>1, RowsStay DEF IInv
<1> QED
  BY <1>3, <1>4, <1>5, <1>6, <1>7 DEF IInv, RequestsOK

\* A request that ends without a commit.
LEMMA EndMoves ==
  ASSUME NEW w \in Workers, Continue(w, Idle)
  PROVE  Moves(w, Idle)
<1>1. \A v \in Workers : tx[v].locks \intersect Idle.locks = {}
  BY IdleFields
<1> QED
  BY <1>1, FitsIdle DEF Moves

LEMMA RollbackMoves ==
  ASSUME NEW w \in Workers, Rollback(w)
  PROVE  Moves(w, Idle)
BY EndMoves DEF Rollback, Finish, Continue
-----------------------------------------------------------------------------
(* Each step of a request.                                                 *)

LEMMA ConsumeMoves ==
  ASSUME IInv, NEW w \in Workers, Consume(w)
  PROVE  \E q : /\ Moves(w, q) /\ Kept(tx[w], q)
                /\ q.pc = "save" /\ q.locks = tx[w].locks \union {StockLock}
<1>1. PICK q : /\ Continue(w, q) /\ Kept(tx[w], q)
               /\ q.pc = "save" /\ q.locks = tx[w].locks \union {StockLock}
  BY Consumes, InState
<1>2. PICK r : r = tx[w]
  OBVIOUS
<1>3. /\ Shape(r) /\ Fits(r) /\ r.pc = "consume" /\ r.kind = "validate"
      /\ drawn[r.entry] = 0 /\ Free(w, StockLock)
  BY <1>2, InState, KindOf DEF Consume
<1>4. Kept(r, q) /\ q.locks = {StockLock} /\ ValidationShape(r)
  BY <1>1, <1>2, <1>3 DEF Shape, ValidationShape
<1>5. Shape(q)
  <2>1. ValidationShape(q)
    BY <1>1, <1>3, <1>4, LocksDiffer DEF ValidationShape, Kept, Further, Syncing, ReservationLock
  <2> QED
    BY <1>1, <1>3, <1>4, <2>1 DEF Shape, Kept, Further
<1>6. Fits(q)
  BY <1>1, <1>3, <1>4, LocksDiffer DEF Fits, Kept, Further, ValidationShape
<1>7. \A v \in Workers : v # w => tx[v].locks \intersect q.locks = {}
  BY <1>1, <1>3, Freely
<1> QED
  BY <1>1, <1>5, <1>6, <1>7 DEF Moves

LEMMA AlreadyMoves ==
  ASSUME IInv, NEW w \in Workers, AlreadyDrawn(w)
  PROVE  \E q : /\ Moves(w, q) /\ Kept(tx[w], q)
                /\ q.pc = "save" /\ q.locks = tx[w].locks
<1>1. PICK q : /\ Continue(w, q) /\ Kept(tx[w], q)
               /\ q.pc = "save" /\ q.locks = tx[w].locks
  BY AlreadyDraws, InState
<1>2. PICK r : r = tx[w]
  OBVIOUS
<1>3. /\ Shape(r) /\ Fits(r) /\ r.pc = "consume" /\ r.kind = "validate"
      /\ drawn[r.entry] # 0
  BY <1>2, InState, KindOf DEF AlreadyDrawn
<1>4. Kept(r, q) /\ q.locks = {} /\ ValidationShape(r)
  BY <1>1, <1>2, <1>3 DEF Shape, ValidationShape
<1>5. Shape(q)
  <2>1. ValidationShape(q)
    BY <1>1, <1>3, <1>4 DEF ValidationShape, Kept, Further, Syncing
  <2> QED
    BY <1>1, <1>3, <1>4, <2>1 DEF Shape, Kept, Further
<1>6. Fits(q)
  <2>1. drawn[r.entry] \in Nat
    BY <1>4 DEF ValidationShape, IInv, TypeOK
  <2> QED
    BY <1>1, <1>3, <1>4, <2>1 DEF Fits, Kept, Further
<1>7. \A v \in Workers : v # w => tx[v].locks \intersect q.locks = {}
  BY <1>4
<1> QED
  BY <1>1, <1>5, <1>6, <1>7 DEF Moves

LEMMA SaveMoves ==
  ASSUME IInv, NEW w \in Workers, SaveEntry(w)
  PROVE  \E q : /\ Moves(w, q) /\ Kept(tx[w], q)
                /\ q.pc = SavedPC(tx[w]) /\ q.locks = tx[w].locks \union {Own(tx[w])}
<1>1. PICK r : r = tx[w]
  OBVIOUS
<1>2. /\ r \in Request /\ Shape(r) /\ Fits(r) /\ r.pc = "save"
      /\ r.kind \in {"validate", "edit entry", "delete entry"} /\ Free(w, Own(r))
  BY <1>1, InState, KindOf DEF SaveEntry, Own
<1>3. r.entry \in Entries
  BY <1>2 DEF Shape, ValidationShape, EntryShape
<1>4. PICK q : /\ Continue(w, q) /\ Kept(r, q)
               /\ q.pc = SavedPC(r) /\ q.locks = r.locks \union {Own(r)}
  BY <1>1, <1>3, SavesEntry, InState
<1>5. \A v \in Workers : v # w => tx[v].locks \intersect q.locks = {}
  BY <1>1, <1>2, <1>4, Freely
<1>6. CASE r.kind = "validate"
  <2>1. ValidationShape(r) /\ r.locks \subseteq {StockLock}
    BY <1>2, <1>6 DEF Shape, ValidationShape
  <2>2. r.order \in Orders \union {NoOrder}
    BY <1>2, RequestTypes
  <2>3. q.pc \in {"advance", "commit"} /\ (q.pc = "advance" => r.order \in Orders)
    BY <1>4, <2>2 DEF SavedPC
  <2>4. Own(q) = Own(r) /\ ReservationLock(q) = ReservationLock(r) /\ OrderLock(q) = OrderLock(r)
    BY <1>4 DEF Kept, Further, Own, ReservationLock, OrderLock
  <2>5. q.locks \subseteq {StockLock, Own(r)} /\ Own(r) \in q.locks
    BY <1>4, <2>1
  <2>6. ReservationLock(q) \notin q.locks
    BY <2>5, <2>4, LocksDiffer DEF Own, ReservationLock
  <2>7. ValidationShape(q)
    BY <1>4, <2>1, <2>3, <2>4, <2>5, <2>6 DEF ValidationShape, Kept, Further, Syncing
  <2>8. Shape(q)
    BY <1>4, <1>6, <2>3, <2>7 DEF Shape, Kept, Further
  <2>9. Fits(q)
    <3>1. StockLock \in q.locks <=> StockLock \in r.locks
      BY <1>4, LocksDiffer DEF Own
    <3>2. \A e \in Entries : <<"entry", e>> \in q.locks => e = r.entry
      BY <2>5, LocksDiffer DEF Own
    <3> QED
      BY <1>2, <1>4, <1>6, <2>1, <2>3, <3>1, <3>2
      DEF Fits, Kept, Further, ByEntry, ValidationShape, Validated
  <2> QED
    BY <1>1, <1>4, <1>5, <2>8, <2>9 DEF Moves
<1>7. CASE r.kind \in {"edit entry", "delete entry"}
  <2>1. EntryShape(r) /\ r.locks = {}
    BY <1>2, <1>7 DEF Shape, EntryShape
  <2>2. q.pc = "commit" /\ q.locks = {Own(q)} /\ Own(q) = Own(r)
    BY <1>4, <1>7, <2>1 DEF SavedPC, Kept, Further, Own
  <2>3. Shape(q)
    <3>1. EntryShape(q)
      BY <1>4, <1>7, <2>1, <2>2 DEF EntryShape, Kept, Further
    <3> QED
      BY <1>4, <1>7, <2>2, <3>1 DEF Shape, Kept, Further
  <2>4. Fits(q)
    <3>1. StockLock \notin q.locks
      BY <2>2, LocksDiffer DEF Own
    <3>2. \A e \in Entries : <<"entry", e>> \in q.locks => e = r.entry
      BY <2>2, LocksDiffer DEF Own
    <3>3. r.row.status # "absent"
      BY <1>7, <2>1 DEF EntryShape
    <3> QED
      BY <1>2, <1>4, <1>7, <3>1, <3>2, <3>3 DEF Fits, Kept, Further, ByEntry
  <2> QED
    BY <1>1, <1>4, <1>5, <2>3, <2>4 DEF Moves
<1> QED
  BY <1>2, <1>6, <1>7

LEMMA LookUpMoves ==
  ASSUME IInv, NEW w \in Workers, BulkLookUp(w), ~Rollback(w)
  PROVE  \E q : /\ Moves(w, q) /\ Kept(tx[w], q)
                /\ q.pc = "bulk" /\ q.locks = tx[w].locks
<1>1. PICK q : /\ Continue(w, q) /\ Kept(tx[w], q)
               /\ q.pc = "bulk" /\ q.locks = tx[w].locks
  BY LooksUp, InState
<1>2. PICK r : r = tx[w]
  OBVIOUS
<1>3. Shape(r) /\ Fits(r) /\ r.pc = "lookup" /\ r.kind = "bulk"
  BY <1>2, InState, KindOf DEF BulkLookUp
<1>4. Kept(r, q) /\ q.locks = {} /\ EntryShape(r)
  BY <1>1, <1>2, <1>3 DEF Shape, EntryShape
<1>5. Shape(q)
  <2>1. EntryShape(q)
    BY <1>1, <1>3, <1>4 DEF EntryShape, Kept, Further
  <2> QED
    BY <1>1, <1>3, <1>4, <2>1 DEF Shape, Kept, Further
<1>6. Fits(q)
  BY <1>1, <1>3, <1>4 DEF Fits, Kept, Further
<1>7. \A v \in Workers : v # w => tx[v].locks \intersect q.locks = {}
  BY <1>4
<1> QED
  BY <1>1, <1>5, <1>6, <1>7 DEF Moves

LEMMA BulkMoves ==
  ASSUME IInv, NEW w \in Workers, BulkWrite(w)
  PROVE  \E q : /\ Moves(w, q) /\ Further(tx[w], q)
                /\ q.kind = "bulk" /\ q.pc = "commit" /\ q.locks = {Own(tx[w])}
                /\ q.row.status = entry[tx[w].entry].status
<1>1. PICK r : r = tx[w]
  OBVIOUS
<1>2. /\ r \in Request /\ Shape(r) /\ Fits(r) /\ r.pc = "bulk" /\ r.kind = "bulk"
      /\ Free(w, Own(r))
  BY <1>1, InState, KindOf DEF BulkWrite, Own
<1>3. EntryShape(r) /\ r.entry \in Entries /\ r.locks = {}
  BY <1>2 DEF Shape, EntryShape
<1>4. PICK q : /\ Continue(w, q) /\ Further(r, q)
               /\ q.pc = "commit" /\ q.locks = r.locks \union {Own(r)}
               /\ q.row.status = entry[r.entry].status
  BY <1>1, <1>3, WritesBulk, InState
<1>5. q.kind = "bulk" /\ q.locks = {Own(q)} /\ Own(q) = Own(r) /\ q.entry = r.entry
  BY <1>2, <1>3, <1>4 DEF Further, Own
<1>6. Shape(q)
  <2>1. EntryShape(q)
    BY <1>3, <1>4, <1>5 DEF EntryShape, Further
  <2> QED
    BY <1>4, <1>5, <2>1 DEF Shape, Further
<1>7. Fits(q)
  <2>1. StockLock \notin q.locks
    BY <1>5, LocksDiffer DEF Own
  <2>2. \A e \in Entries : <<"entry", e>> \in q.locks => e = r.entry
    BY <1>5, LocksDiffer DEF Own
  <2>3. entry[r.entry].status # "absent"
    BY <1>1 DEF BulkWrite, Gone
  <2>4. q.row.status = "STOCK_CONSUMED" => drawn[r.entry] > 0
    BY <1>3, <1>4 DEF IInv, ConsumedIsDrawn
  <2> QED
    BY <1>4, <1>5, <2>1, <2>2, <2>3, <2>4 DEF Fits
<1> QED
  BY <1>1, <1>2, <1>3, <1>4, <1>5, <1>6, <1>7, Freely DEF Moves
LEMMA AdvanceMoves ==
  ASSUME IInv, NEW w \in Workers, Advance(w)
  PROVE  \E q : /\ Moves(w, q) /\ Further(tx[w], q)
                /\ q.row = tx[w].row /\ q.locks = tx[w].locks
                /\ q.pc = IF Reached(w) = tx[w].head.status THEN "sync" ELSE "status"
                /\ q.head.status = Reached(w)
                /\ q.head.quantity = tx[w].head.quantity /\ q.head.recipe = tx[w].head.recipe
<1>1. PICK r : r = tx[w]
  OBVIOUS
<1>2. PICK q : /\ Continue(w, q) /\ Further(r, q)
               /\ q.row = r.row /\ q.locks = r.locks
               /\ q.pc = IF Reached(w) = r.head.status THEN "sync" ELSE "status"
               /\ q.head.status = Reached(w)
               /\ q.head.quantity = r.head.quantity /\ q.head.recipe = r.head.recipe
  BY <1>1, Advances, InState
<1>3. /\ Shape(r) /\ Fits(r) /\ r.pc = "advance" /\ r.kind = "validate"
  BY <1>1, InState, KindOf DEF Advance
<1>4. ValidationShape(r)
  BY <1>3 DEF Shape
<1>5. q.pc \in {"sync", "status"}
  BY <1>2
<1>6. /\ Own(q) = Own(r) /\ ReservationLock(q) = ReservationLock(r)
      /\ OrderLock(q) = OrderLock(r)
  BY <1>2 DEF Further, Own, ReservationLock, OrderLock
<1>7. Shape(q)
  <2>1. ValidationShape(q)
    BY <1>2, <1>3, <1>4, <1>5, <1>6 DEF ValidationShape, Further, Syncing
  <2> QED
    BY <1>2, <1>3, <1>5, <2>1 DEF Shape, Further
<1>8. Fits(q)
  BY <1>2, <1>3, <1>5 DEF Fits, Further, ByEntry
<1>9. \A v \in Workers : v # w => tx[v].locks \intersect q.locks = {}
  BY <1>1, <1>2 DEF IInv, RequestsOK
<1> QED
  BY <1>1, <1>2, <1>7, <1>8, <1>9 DEF Moves

LEMMA StatusMoves ==
  ASSUME IInv, NEW w \in Workers, SaveStatus(w)
  PROVE  \/ Moves(w, Idle)
         \/ \E q : /\ Moves(w, q) /\ Kept(tx[w], q)
                   /\ q.pc = "sync" /\ q.locks = tx[w].locks \union {OrderLock(tx[w])}
<1>1. PICK r : r = tx[w]
  OBVIOUS
<1>2. /\ Shape(r) /\ Fits(r) /\ r.pc = "status" /\ r.kind = "validate" /\ Free(w, OrderLock(r))
  BY <1>1, InState, KindOf DEF SaveStatus, OrderLock
<1>3. ValidationShape(r) /\ r.order \in Orders
  BY <1>2 DEF Shape, ValidationShape
<1>4. SUFFICES ASSUME ~Continue(w, Idle)
               PROVE  \E q : /\ Moves(w, q) /\ Kept(r, q)
                             /\ q.pc = "sync" /\ q.locks = r.locks \union {OrderLock(r)}
  BY <1>1, EndMoves
<1>5. PICK q : /\ Continue(w, q) /\ Kept(r, q)
               /\ q.pc = "sync" /\ q.locks = r.locks \union {OrderLock(r)}
  BY <1>1, <1>3, <1>4, SavesStatus, InState
<1>6. /\ Own(q) = Own(r) /\ ReservationLock(q) = ReservationLock(r)
      /\ OrderLock(q) = OrderLock(r) /\ q.order # NoOrder
  BY <1>3, <1>5, NullAssumption DEF Kept, Further, Own, ReservationLock, OrderLock
<1>7. ReservationLock(r) \notin q.locks
  BY <1>2, <1>3, <1>5, LocksDiffer DEF ValidationShape, ReservationLock, OrderLock
<1>8. Shape(q)
  <2>1. ValidationShape(q)
    BY <1>2, <1>3, <1>5, <1>6, <1>7 DEF ValidationShape, Kept, Further, Syncing
  <2> QED
    BY <1>2, <1>5, <2>1 DEF Shape, Kept, Further
<1>9. Fits(q)
  <2>1. /\ StockLock \in q.locks <=> StockLock \in r.locks
        /\ \A e \in Entries : <<"entry", e>> \in q.locks => <<"entry", e>> \in r.locks
    BY <1>5, LocksDiffer DEF OrderLock
  <2> QED
    BY <1>2, <1>5, <2>1 DEF Fits, Kept, Further, ByEntry
<1>10. \A v \in Workers : v # w => tx[v].locks \intersect q.locks = {}
  BY <1>1, <1>2, <1>5, Freely
<1> QED
  BY <1>5, <1>8, <1>9, <1>10 DEF Moves

LEMMA OrderMoves ==
  ASSUME IInv, NEW w \in Workers, SaveOrder(w)
  PROVE  \E q : /\ Moves(w, q) /\ Kept(tx[w], q)
                /\ q.pc = "sync" /\ q.locks = {OrderLock(tx[w])}
<1>1. PICK r : r = tx[w]
  OBVIOUS
<1>2. /\ Shape(r) /\ Fits(r) /\ r.pc = "order" /\ r.kind = "edit order" /\ Free(w, OrderLock(r))
  BY <1>1, InState, KindOf DEF SaveOrder, OrderLock
<1>3. OrderShape(r) /\ r.order \in Orders /\ r.locks = {}
  BY <1>2 DEF Shape, OrderShape
<1>4. PICK q : /\ Continue(w, q) /\ Kept(r, q)
               /\ q.pc = "sync" /\ q.locks = r.locks \union {OrderLock(r)}
  BY <1>1, <1>3, SavesOrder, InState
<1>5. /\ ReservationLock(q) = ReservationLock(r) /\ OrderLock(q) = OrderLock(r)
      /\ q.locks = {OrderLock(r)} /\ ReservationLock(r) \notin q.locks
  BY <1>3, <1>4, LocksDiffer DEF Kept, Further, ReservationLock, OrderLock
<1>6. Shape(q)
  <2>1. OrderShape(q)
    BY <1>2, <1>3, <1>4, <1>5 DEF OrderShape, Kept, Further, Syncing
  <2> QED
    BY <1>2, <1>4, <2>1 DEF Shape, Kept, Further
<1>7. Fits(q)
  <2>1. /\ StockLock \notin q.locks
        /\ \A e \in Entries : <<"entry", e>> \notin q.locks
    BY <1>5, LocksDiffer DEF OrderLock
  <2> QED
    BY <1>2, <1>4, <2>1 DEF Fits, Kept, Further, ByEntry
<1>8. \A v \in Workers : v # w => tx[v].locks \intersect q.locks = {}
  BY <1>1, <1>2, <1>4, Freely
<1> QED
  BY <1>1, <1>4, <1>5, <1>6, <1>7, <1>8 DEF Moves

LEMMA CascadeMoves ==
  ASSUME IInv, NEW w \in Workers, Cascade(w)
  PROVE  \E q : /\ Moves(w, q) /\ Kept(tx[w], q)
                /\ q.kind = "delete order" /\ q.pc = "commit" /\ q.locks = Taken(tx[w])
<1>1. PICK r : r = tx[w]
  OBVIOUS
<1>2. /\ Shape(r) /\ Fits(r) /\ r.pc = "cascade" /\ r.kind = "delete order"
  BY <1>1, InState, KindOf DEF Cascade
<1>3. DeletionShape(r) /\ r.order \in Orders
  BY <1>2 DEF Shape, DeletionShape
<1>4. PICK q : /\ Continue(w, q) /\ Kept(r, q)
               /\ q.pc = "commit" /\ q.locks = Taken(r)
               /\ \A lock \in Taken(r) : Free(w, lock)
  BY <1>1, <1>3, Cascades, InState
<1>5. ReservationLock(q) = ReservationLock(r) /\ OrderLock(q) = OrderLock(r)
  BY <1>4 DEF Kept, Further, ReservationLock, OrderLock
<1>6. Shape(q)
  <2>1. q.locks \subseteq {OrderLock(r), ReservationLock(r)} \union ({"entry"} \X Entries)
    BY <1>4 DEF Taken
  <2>2. DeletionShape(q)
    BY <1>2, <1>3, <1>4, <1>5, <2>1 DEF DeletionShape, Kept, Further, Taken
  <2> QED
    BY <1>2, <1>4, <2>2 DEF Shape, Kept, Further
<1>7. Fits(q)
  <2>1. StockLock \notin q.locks
    BY <1>4, LocksDiffer DEF Taken, OrderLock, ReservationLock
  <2>2. ASSUME NEW e \in Entries, <<"entry", e>> \in q.locks PROVE entry[e].status # "absent"
    <3>1. entry[e].order = r.order
      BY <1>4, <2>2, LocksDiffer DEF Taken, OrderLock, ReservationLock
    <3> QED
      BY <1>3, <3>1, NoRows, NullAssumption DEF IInv, RowsOK
  <2> QED
    BY <1>2, <1>4, <2>1, <2>2 DEF Fits, Kept, Further, ByEntry
<1>8. \A v \in Workers : v # w => tx[v].locks \intersect q.locks = {}
  BY <1>4 DEF Free
<1> QED
  BY <1>1, <1>2, <1>4, <1>6, <1>7, <1>8 DEF Moves, Kept, Further

\* A request at the end of its reservations, with or without their lock.
LEMMA SyncedMoves ==
  ASSUME IInv, NEW w \in Workers, tx[w].pc \in Syncing,
         NEW q, Continue(w, q), Further(tx[w], q),
         q.row = tx[w].row, q.head = tx[w].head, q.pc \in {"commit", "syncing"},
         \/ q.locks = tx[w].locks
         \/ /\ q.pc = "commit" /\ q.locks = tx[w].locks \union {ReservationLock(tx[w])}
            /\ Free(w, ReservationLock(tx[w]))
  PROVE  Moves(w, q)
<1>1. PICK r : r = tx[w]
  OBVIOUS
<1>2. Shape(r) /\ Fits(r) /\ r.kind \in {"validate", "edit order"}
  BY <1>1, InState, KindOf
<1>3. /\ Own(q) = Own(r) /\ ReservationLock(q) = ReservationLock(r)
      /\ OrderLock(q) = OrderLock(r)
  BY <1>1 DEF Further, Own, ReservationLock, OrderLock
<1>4. /\ r.locks \subseteq q.locks /\ q.locks \subseteq r.locks \union {ReservationLock(r)}
      /\ q.pc = "syncing" => q.locks = r.locks
  BY <1>1
<1>5. /\ StockLock \in q.locks <=> StockLock \in r.locks
      /\ OrderLock(r) \in q.locks <=> OrderLock(r) \in r.locks
      /\ \A e \in Entries : <<"entry", e>> \in q.locks <=> <<"entry", e>> \in r.locks
  BY <1>4, LocksDiffer DEF OrderLock, ReservationLock
<1>6. Shape(q)
  <2>1. q \in Request /\ q.kind = r.kind
    BY <1>1 DEF Further
  <2>2. CASE r.kind = "validate"
    <3>1. ValidationShape(r) /\ r.order # NoOrder
      BY <1>1, <1>2, <2>2, NullAssumption DEF Shape, ValidationShape
    <3>2. ValidationShape(q)
      BY <1>1, <1>3, <1>4, <3>1 DEF ValidationShape, Further, Syncing
    <3> QED
      BY <2>1, <2>2, <3>2 DEF Shape
  <2>3. CASE r.kind = "edit order"
    <3>1. OrderShape(r)
      BY <1>2, <2>3 DEF Shape
    <3>2. OrderShape(q)
      BY <1>1, <1>3, <1>4, <3>1 DEF OrderShape, Further, Syncing
    <3> QED
      BY <2>1, <2>3, <3>2 DEF Shape
  <2> QED
    BY <1>2, <2>2, <2>3
<1>7. Fits(q)
  BY <1>1, <1>2, <1>5 DEF Fits, Further, ByEntry, Syncing
<1>8. \A v \in Workers : v # w => tx[v].locks \intersect q.locks = {}
  <2>1. CASE q.locks = r.locks
    BY <1>1, <2>1 DEF IInv, RequestsOK
  <2>2. CASE q.locks = r.locks \union {ReservationLock(r)} /\ Free(w, ReservationLock(r))
    BY <1>1, <2>2, Freely
  <2> QED
    BY <1>1, <2>1, <2>2
<1> QED
  BY <1>6, <1>7, <1>8 DEF Moves

LEMMA SyncsOrder ==
  ASSUME IInv, NEW w \in Workers, tx[w].pc \in Syncing
  PROVE  tx[w].order \in Orders /\ ReservationLock(tx[w]) \notin tx[w].locks
<1>1. PICK r : r = tx[w]
  OBVIOUS
<1>2. Shape(r) /\ r.kind \in {"validate", "edit order"}
  BY <1>1, InState, KindOf
<1> QED
  BY <1>1, <1>2 DEF Shape, ValidationShape, OrderShape

LEMMA SyncMoves ==
  ASSUME IInv, NEW w \in Workers, Sync(w)
  PROVE  \E q : /\ Moves(w, q) /\ Further(tx[w], q)
                /\ q.row = tx[w].row /\ q.head = tx[w].head /\ q.keep = Need(tx[w])
                /\ q.pc = "commit" /\ q.locks = tx[w].locks \union {ReservationLock(tx[w])}
<1>1. tx[w].pc \in Syncing /\ Free(w, ReservationLock(tx[w]))
  BY DEF Sync, Syncing, ReservationLock
<1>2. PICK q : /\ Continue(w, q) /\ Further(tx[w], q)
               /\ q.row = tx[w].row /\ q.head = tx[w].head /\ q.keep = Need(tx[w])
               /\ q.pc = "commit" /\ q.locks = tx[w].locks \union {ReservationLock(tx[w])}
  BY <1>1, SyncsOrder, Syncs, InState
<1> QED
  BY <1>1, <1>2, SyncedMoves

LEMMA WaitMoves ==
  ASSUME IInv, NEW w \in Workers, SyncWaits(w)
  PROVE  \E q : /\ Moves(w, q) /\ Kept(tx[w], q)
                /\ q.pc = "syncing" /\ q.locks = tx[w].locks
<1>1. tx[w].pc \in Syncing
  BY DEF SyncWaits, Syncing
<1>2. PICK q : /\ Continue(w, q) /\ Kept(tx[w], q)
               /\ q.pc = "syncing" /\ q.locks = tx[w].locks
  BY Waits, InState
<1> QED
  BY <1>1, <1>2, SyncedMoves DEF Kept

LEMMA NothingMoves ==
  ASSUME IInv, NEW w \in Workers, SyncNothing(w)
  PROVE  \E q : /\ Moves(w, q) /\ Kept(tx[w], q)
                /\ q.pc = "commit" /\ q.locks = tx[w].locks
<1>1. tx[w].pc \in Syncing
  BY DEF SyncNothing, Syncing
<1>2. PICK q : /\ Continue(w, q) /\ Kept(tx[w], q)
               /\ q.pc = "commit" /\ q.locks = tx[w].locks
  BY SyncsNothing, InState
<1> QED
  BY <1>1, <1>2, SyncedMoves DEF Kept

LEMMA BeatenMoves ==
  ASSUME IInv, NEW w \in Workers, SyncBeaten(w)
  PROVE  \/ Moves(w, Idle)
         \/ \E q : /\ Moves(w, q) /\ Kept(tx[w], q)
                   /\ q.pc = "commit" /\ q.locks = tx[w].locks
         \/ \E q : /\ Moves(w, q) /\ Further(tx[w], q)
                   /\ q.row = tx[w].row /\ q.head = tx[w].head /\ q.keep = Need(tx[w])
                   /\ q.pc = "commit"
                   /\ q.locks = tx[w].locks \union {ReservationLock(tx[w])}
<1>1. tx[w].pc \in Syncing
  BY DEF SyncBeaten, Syncing
<1>2. CASE Continue(w, Idle)
  BY <1>2, EndMoves
<1>3. CASE \E q : /\ Continue(w, q) /\ Kept(tx[w], q)
                  /\ q.pc = "commit" /\ q.locks = tx[w].locks
  BY <1>1, <1>3, SyncedMoves DEF Kept
<1>4. CASE /\ Free(w, ReservationLock(tx[w]))
           /\ \E q : /\ Continue(w, q) /\ Further(tx[w], q)
                     /\ q.row = tx[w].row /\ q.head = tx[w].head /\ q.keep = Need(tx[w])
                     /\ q.pc = "commit"
                     /\ q.locks = tx[w].locks \union {ReservationLock(tx[w])}
  BY <1>1, <1>4, SyncedMoves
<1> QED
  BY <1>1, <1>2, <1>3, <1>4, SyncsOrder, IsBeaten, InState
\* A worker takes up a request.
LEMMA TakeMoves ==
  ASSUME IInv, NEW w \in Workers, NEW q, Continue(w, q), Shape(q), Fits(q), q.locks = {}
  PROVE  Moves(w, q)
BY DEF Moves

\* The order of an entry, as it is loaded.
HeadOf(e) == IF entry[e].order = NoOrder THEN NoHead ELSE order[entry[e].order]

LEMMA ValidateMoves ==
  ASSUME IInv, NEW w \in Workers, NEW e \in Entries, LoadValidate(w, e)
  PROVE  \E q : /\ Moves(w, q) /\ q.kind = "validate" /\ q.entry = e /\ q.locks = {}
                /\ q.order = entry[e].order /\ q.head = HeadOf(e)
                /\ q.pc = IF Outcome(e) = "STOCK_CONSUMED" THEN "consume" ELSE "save"
                /\ q.row.status = Outcome(e) /\ q.row.bottles = entry[e].bottles
                /\ q.row.order = entry[e].order
                /\ q.row.consumed = IF Outcome(e) = "STOCK_CONSUMED" THEN entry[e].bottles
                                    ELSE entry[e].consumed
<1>1. PICK old \in EntryRow : old = entry[e]
  BY DEF IInv, TypeOK
<1>2. PICK head \in OrderRow : head = HeadOf(e)
  BY <1>1, NoRows, RowTypes DEF HeadOf, IInv, TypeOK
<1>3. PICK draws \in BOOLEAN : draws = (head.recipe /\ old.bottles > 0)
  OBVIOUS
<1>4. draws <=> Outcome(e) = "STOCK_CONSUMED"
  <2>1. head.recipe <=> old.order # NoOrder /\ order[old.order].recipe
    BY <1>1, <1>2, NoRows DEF HeadOf
  <2> QED
    BY <1>1, <1>3, <2>1 DEF Outcome
<1>5. PICK pc \in {"consume", "save"} : pc = IF draws THEN "consume" ELSE "save"
  OBVIOUS
<1>6. PICK status \in Validated : status = IF draws THEN "STOCK_CONSUMED" ELSE "VALIDATED"
  BY DEF Validated
<1>7. PICK consumed \in Nat : consumed = IF draws THEN old.bottles ELSE old.consumed
  BY RowTypes
<1>8. PICK row : row = [old EXCEPT !.status = status, !.consumed = consumed]
  OBVIOUS
<1>9. row = [status |-> status, bottles |-> old.bottles, order |-> old.order,
             consumed |-> consumed]
  BY <1>8 DEF EntryRow
<1>10. /\ row \in EntryRow /\ row.status = status /\ row.bottles = old.bottles
       /\ row.order = old.order /\ row.consumed = consumed
  <2>1. status \in EntryStatus \union Gone
    BY <1>6 DEF EntryStatus
  <2> QED
    BY <1>9, <2>1, RowTypes, RowFields
<1>11. PICK q : q = [kind |-> "validate", pc |-> pc, entry |-> e, order |-> old.order,
                     row |-> row, head |-> head, keep |-> 0, locks |-> {}]
  OBVIOUS
<1>12. /\ q \in Request
       /\ q.kind = "validate" /\ q.pc = pc /\ q.entry = e /\ q.order = old.order
       /\ q.row = row /\ q.head = head /\ q.keep = 0 /\ q.locks = {}
  <2>1. "validate" \in Kinds /\ pc \in PCs /\ 0 \in Nat /\ {} \in SUBSET Lock
    BY DEF Kinds, PCs
  <2>2. old.order \in Orders \union {NoOrder}
    BY RowTypes
  <2>3. q \in Request
    BY <1>10, <1>11, <2>1, <2>2 DEF Request, PCs
  <2>4. q.kind = "validate" /\ q.pc = pc /\ q.entry = e /\ q.order = old.order
    BY <1>11
  <2>5. q.row = row /\ q.head = head /\ q.keep = 0 /\ q.locks = {}
    BY <1>11
  <2> QED
    BY <2>3, <2>4, <2>5
<1>13. entry[e].status = "DRAFT" /\ Continue(w, q)
  BY <1>1, <1>2, <1>3, <1>5, <1>6, <1>7, <1>8, <1>11 DEF LoadValidate, Take, HeadOf
<1>14. old.bottles \in Nat
  BY RowTypes
<1>15. Shape(q)
  <2>1. ValidationShape(q)
    BY <1>3, <1>5, <1>6, <1>7, <1>10, <1>12, <1>14 DEF ValidationShape, Syncing
  <2> QED
    BY <1>12, <2>1 DEF Shape
<1>16. Fits(q)
  BY <1>5, <1>6, <1>10, <1>12, <1>13 DEF Fits
<1>17. Moves(w, q)
  BY <1>12, <1>13, <1>15, <1>16, TakeMoves
<1>18. Outcome(e) = status
  BY <1>4, <1>6 DEF Outcome
<1> QED
  BY <1>1, <1>2, <1>4, <1>5, <1>7, <1>10, <1>12, <1>17, <1>18

\* What the client may put into an entry.
LEMMA InputTypes ==
  ASSUME IInv, NEW bottles \in Bottles, NEW o \in Linkable
  PROVE  /\ bottles \in Nat /\ o \in Orders \union {NoOrder}
         /\ o # NoOrder => o \in Orders /\ order[o].status \notin Gone
BY NumbersAssumption DEF Linkable

\* A request about an entry that has just been taken up.
Begun(q, kind, pc, e) == q.kind = kind /\ q.pc = pc /\ q.entry = e /\ q.locks = {}

LEMMA EditMoves ==
  ASSUME IInv, NEW w \in Workers, NEW e \in Entries, LoadEditEntry(w, e)
  PROVE  \E q : Moves(w, q) /\ Begun(q, "edit entry", "save", e)
<1>1. PICK old \in EntryRow : old = entry[e]
  BY DEF IInv, TypeOK
<1>2. PICK bottles \in Bottles, o \in Linkable :
        Take(w, "edit entry", "save", e, NoOrder,
             [entry[e] EXCEPT !.bottles = bottles, !.order = o], NoHead)
  BY DEF LoadEditEntry
<1>3. PICK row : row = [old EXCEPT !.bottles = bottles, !.order = o]
  OBVIOUS
<1>4. row = [status |-> old.status, bottles |-> bottles, order |-> o, consumed |-> old.consumed]
  BY <1>3 DEF EntryRow
<1>5. row \in EntryRow /\ row.status = old.status
  BY <1>4, InputTypes, RowTypes, RowFields
<1>6. PICK q : q = [kind |-> "edit entry", pc |-> "save", entry |-> e, order |-> NoOrder,
                    row |-> row, head |-> NoHead, keep |-> 0, locks |-> {}]
  OBVIOUS
<1>7. /\ q \in Request
      /\ q.kind = "edit entry" /\ q.pc = "save" /\ q.entry = e
      /\ q.row = row /\ q.locks = {}
  <2>1. "edit entry" \in Kinds /\ "save" \in PCs /\ 0 \in Nat /\ {} \in SUBSET Lock
    BY DEF Kinds, PCs
  <2>2. q \in Request
    BY <1>5, <1>6, <2>1, NoRows DEF Request, PCs
  <2>3. q.kind = "edit entry" /\ q.pc = "save" /\ q.entry = e
    BY <1>6
  <2>4. q.row = row /\ q.locks = {}
    BY <1>6
  <2> QED
    BY <2>2, <2>3, <2>4
<1>8. Continue(w, q)
  BY <1>1, <1>2, <1>3, <1>6 DEF Take
<1>9. old.status = "DRAFT"
  BY <1>1 DEF LoadEditEntry
<1>10. Shape(q)
  BY <1>5, <1>7, <1>9 DEF Shape, EntryShape
<1>11. Fits(q)
  BY <1>1, <1>7, <1>9 DEF Fits
<1> QED
  BY <1>7, <1>8, <1>10, <1>11, TakeMoves DEF Begun

LEMMA BulkBegins ==
  ASSUME IInv, NEW w \in Workers, NEW e \in Entries, LoadBulk(w, e)
  PROVE  \E q : Moves(w, q) /\ Begun(q, "bulk", "lookup", e)
<1>1. PICK bottles \in Bottles, o \in Linkable :
        Take(w, "bulk", "lookup", e, NoOrder, [NoRow EXCEPT !.bottles = bottles, !.order = o],
             NoHead)
  BY DEF LoadBulk
<1>2. PICK row : row = [NoRow EXCEPT !.bottles = bottles, !.order = o]
  OBVIOUS
<1>3. row = [status |-> "absent", bottles |-> bottles, order |-> o, consumed |-> 0]
  BY <1>2 DEF NoRow
<1>4. row \in EntryRow
  BY <1>3, InputTypes DEF EntryRow, Gone
<1>5. PICK q : q = [kind |-> "bulk", pc |-> "lookup", entry |-> e, order |-> NoOrder,
                    row |-> row, head |-> NoHead, keep |-> 0, locks |-> {}]
  OBVIOUS
<1>6. q \in Request /\ q.kind = "bulk" /\ q.pc = "lookup" /\ q.entry = e /\ q.locks = {}
  <2>1. "bulk" \in Kinds /\ "lookup" \in PCs /\ 0 \in Nat /\ {} \in SUBSET Lock
    BY DEF Kinds, PCs
  <2>2. q \in Request
    BY <1>4, <1>5, <2>1, NoRows DEF Request, PCs
  <2>3. q.kind = "bulk" /\ q.pc = "lookup" /\ q.entry = e /\ q.locks = {}
    BY <1>5
  <2> QED
    BY <2>2, <2>3
<1>7. Continue(w, q)
  BY <1>1, <1>2, <1>5 DEF Take
<1>8. Shape(q)
  BY <1>6 DEF Shape, EntryShape
<1>9. Fits(q)
  BY <1>6 DEF Fits
<1> QED
  BY <1>6, <1>7, <1>8, <1>9, TakeMoves DEF Begun

LEMMA DeleteMoves ==
  ASSUME IInv, NEW w \in Workers, NEW e \in Entries, LoadDeleteEntry(w, e)
  PROVE  \E q : Moves(w, q) /\ Begun(q, "delete entry", "save", e)
<1>1. Take(w, "delete entry", "save", e, NoOrder, [NoRow EXCEPT !.status = "deleted"], NoHead)
  BY DEF LoadDeleteEntry
<1>2. PICK row : row = [NoRow EXCEPT !.status = "deleted"]
  OBVIOUS
<1>3. row = [status |-> "deleted", bottles |-> 0, order |-> NoOrder, consumed |-> 0]
  BY <1>2 DEF NoRow
<1>4. row \in EntryRow /\ row.status = "deleted" /\ row.order = NoOrder
  BY <1>3 DEF EntryRow, Gone
<1>5. PICK q : q = [kind |-> "delete entry", pc |-> "save", entry |-> e, order |-> NoOrder,
                    row |-> row, head |-> NoHead, keep |-> 0, locks |-> {}]
  OBVIOUS
<1>6. /\ q \in Request
      /\ q.kind = "delete entry" /\ q.pc = "save" /\ q.entry = e
      /\ q.row = row /\ q.locks = {}
  <2>1. "delete entry" \in Kinds /\ "save" \in PCs /\ 0 \in Nat /\ {} \in SUBSET Lock
    BY DEF Kinds, PCs
  <2>2. q \in Request
    BY <1>4, <1>5, <2>1, NoRows DEF Request, PCs
  <2>3. q.kind = "delete entry" /\ q.pc = "save" /\ q.entry = e
    BY <1>5
  <2>4. q.row = row /\ q.locks = {}
    BY <1>5
  <2> QED
    BY <2>2, <2>3, <2>4
<1>7. Continue(w, q)
  BY <1>1, <1>2, <1>5 DEF Take
<1>8. Shape(q)
  BY <1>4, <1>6 DEF Shape, EntryShape
<1>9. Fits(q)
  BY <1>6 DEF Fits, LoadDeleteEntry
<1> QED
  BY <1>6, <1>7, <1>8, <1>9, TakeMoves DEF Begun

\* The order in memory has the status of its row.
Current(r) == order[r.order].status = r.head.status

LEMMA EditOrderMoves ==
  ASSUME IInv, NEW w \in Workers, NEW o \in Orders, LoadEditOrder(w, o)
  PROVE  \E q : /\ Moves(w, q) /\ q.kind = "edit order" /\ q.pc = "order"
                /\ q.order = o /\ q.locks = {} /\ Current(q)
<1>1. PICK old \in OrderRow : old = order[o]
  BY DEF IInv, TypeOK
<1>2. PICK quantity \in Quantities, recipe \in Recipes :
        Take(w, "edit order", "order", NoEntry, o, NoRow,
             [order[o] EXCEPT !.quantity = quantity, !.recipe = recipe])
  BY DEF LoadEditOrder
<1>3. PICK head : head = [old EXCEPT !.quantity = quantity, !.recipe = recipe]
  OBVIOUS
<1>4. head = [status |-> old.status, quantity |-> quantity, recipe |-> recipe]
  BY <1>3 DEF OrderRow
<1>5. quantity \in Nat /\ recipe \in BOOLEAN
  BY NumbersAssumption, RecipesAssumption
<1>6. head \in OrderRow /\ head.status = old.status
  BY <1>4, <1>5, HeadTypes, HeadFields
<1>7. PICK q : q = [kind |-> "edit order", pc |-> "order", entry |-> NoEntry, order |-> o,
                    row |-> NoRow, head |-> head, keep |-> 0, locks |-> {}]
  OBVIOUS
<1>8. /\ q \in Request
      /\ q.kind = "edit order" /\ q.pc = "order" /\ q.order = o
      /\ q.head = head /\ q.locks = {}
  <2>1. "edit order" \in Kinds /\ "order" \in PCs /\ 0 \in Nat /\ {} \in SUBSET Lock
    BY DEF Kinds, PCs
  <2>2. q \in Request
    BY <1>6, <1>7, <2>1, NoRows DEF Request, PCs
  <2>3. q.kind = "edit order" /\ q.pc = "order" /\ q.order = o
    BY <1>7
  <2>4. q.head = head /\ q.locks = {}
    BY <1>7
  <2> QED
    BY <2>2, <2>3, <2>4
<1>9. Continue(w, q)
  BY <1>1, <1>2, <1>3, <1>7 DEF Take
<1>10. old.status \in OrderStatus
  BY <1>1, HeadTypes DEF LoadEditOrder
<1>11. Shape(q)
  BY <1>6, <1>8, <1>10 DEF Shape, OrderShape, Syncing
<1>12. Fits(q)
  BY <1>8 DEF Fits, ByEntry
<1>13. Current(q)
  BY <1>1, <1>6, <1>8 DEF Current
<1> QED
  BY <1>8, <1>9, <1>11, <1>12, <1>13, TakeMoves

LEMMA DeleteOrderMoves ==
  ASSUME IInv, NEW w \in Workers, NEW o \in Orders, LoadDeleteOrder(w, o)
  PROVE  \E q : /\ Moves(w, q) /\ q.kind = "delete order" /\ q.pc = "cascade"
                /\ q.order = o /\ q.locks = {}
<1>1. Take(w, "delete order", "cascade", NoEntry, o, NoRow, [NoHead EXCEPT !.status = "deleted"])
  BY DEF LoadDeleteOrder
<1>2. PICK head : head = [NoHead EXCEPT !.status = "deleted"]
  OBVIOUS
<1>3. head = [status |-> "deleted", quantity |-> 0, recipe |-> FALSE]
  BY <1>2 DEF NoHead
<1>4. head \in OrderRow /\ head.status = "deleted"
  BY <1>3 DEF OrderRow, Gone
<1>5. PICK q : q = [kind |-> "delete order", pc |-> "cascade", entry |-> NoEntry, order |-> o,
                    row |-> NoRow, head |-> head, keep |-> 0, locks |-> {}]
  OBVIOUS
<1>6. /\ q \in Request
      /\ q.kind = "delete order" /\ q.pc = "cascade" /\ q.order = o
      /\ q.head = head /\ q.keep = 0 /\ q.locks = {}
  <2>1. "delete order" \in Kinds /\ "cascade" \in PCs /\ 0 \in Nat /\ {} \in SUBSET Lock
    BY DEF Kinds, PCs
  <2>2. q \in Request
    BY <1>4, <1>5, <2>1, NoRows DEF Request, PCs
  <2>3. q.kind = "delete order" /\ q.pc = "cascade" /\ q.order = o
    BY <1>5
  <2>4. q.head = head /\ q.keep = 0 /\ q.locks = {}
    BY <1>5
  <2> QED
    BY <2>2, <2>3, <2>4
<1>7. Continue(w, q)
  BY <1>1, <1>2, <1>5 DEF Take
<1>8. Shape(q)
  BY <1>4, <1>6 DEF Shape, DeletionShape
<1>9. Fits(q)
  BY <1>6 DEF Fits, ByEntry
<1> QED
  BY <1>6, <1>7, <1>8, <1>9, TakeMoves
-----------------------------------------------------------------------------
(* What is created and what is committed.                                  *)

LEMMA FitsGrows ==
  ASSUME NEW r, Shape(r), Fits(r),
         \A e \in Entries : entry[e].status # "absent" => entry'[e].status # "absent",
         \A e \in Entries : drawn[e] > 0 => drawn'[e] > 0,
         StockLock \in r.locks => drawn'[r.entry] = drawn[r.entry]
  PROVE  Fits(r)'
<1>1. r.kind \in ByEntry => r.entry \in Entries
  BY DEF Shape, ValidationShape, EntryShape, ByEntry
<1> QED
  BY <1>1 DEF Fits, ByEntry

LEMMA RequestsStay ==
  ASSUME RequestsOK, tx' = tx, \A v \in Workers : Fits(tx[v]) => Fits(tx[v])'
  PROVE  RequestsOK'
<1>1. Busy' = Busy
  BY DEF Busy
<1>2. ASSUME NEW v \in Workers PROVE Shape(tx[v])' /\ Fits(tx[v])'
  <2>1. PICK r : r = tx[v]
    OBVIOUS
  <2>2. Shape(r)'
    BY <2>1 DEF RequestsOK
  <2> QED
    BY <2>1, <2>2 DEF RequestsOK
<1> QED
  BY <1>1, <1>2 DEF RequestsOK

LEMMA CreateOrderFacts ==
  ASSUME IInv, NEW o \in Orders, CreateOrder(o)
  PROVE  \E head \in OrderRow :
           /\ order' = [order EXCEPT ![o] = head]
           /\ head.status = "QUEUED" /\ order[o].status = "absent"
           /\ reserved' = [reserved EXCEPT ![o] = IF head.recipe THEN head.quantity ELSE 0]
           /\ UNCHANGED <<entry, drawn, tx>>
<1>1. PICK quantity \in Quantities, recipe \in Recipes :
        /\ order' = [order EXCEPT ![o] = [status |-> "QUEUED", quantity |-> quantity,
                                          recipe |-> recipe]]
        /\ reserved' = [reserved EXCEPT ![o] = IF recipe THEN quantity ELSE 0]
  BY DEF CreateOrder
<1>2. PICK head : head = [status |-> "QUEUED", quantity |-> quantity, recipe |-> recipe]
  OBVIOUS
<1>3. quantity \in Nat /\ recipe \in BOOLEAN
  BY NumbersAssumption, RecipesAssumption
<1>4. head \in OrderRow
  BY <1>2, <1>3 DEF OrderRow, OrderStatus, Open
<1>5. head.status = "QUEUED" /\ head.quantity = quantity /\ head.recipe = recipe
  BY <1>2
<1> QED
  BY <1>1, <1>2, <1>4, <1>5 DEF CreateOrder

LEMMA CreateOrderInvariant ==
  ASSUME IInv, NEW o \in Orders, CreateOrder(o)
  PROVE  IInv'
<1>1. PICK head \in OrderRow :
           /\ order' = [order EXCEPT ![o] = head]
           /\ head.status = "QUEUED" /\ order[o].status = "absent"
           /\ reserved' = [reserved EXCEPT ![o] = IF head.recipe THEN head.quantity ELSE 0]
           /\ UNCHANGED <<entry, drawn, tx>>
  BY CreateOrderFacts
<1>2. \A p \in Orders : order'[p] = IF p = o THEN head ELSE order[p]
  BY <1>1 DEF IInv, TypeOK
<1>3. TypeOK'
  <2>1. head.quantity \in Nat
    BY HeadTypes
  <2> QED
    BY <1>1, <2>1 DEF IInv, TypeOK
<1>4. RequestsOK'
  <2>1. ASSUME NEW v \in Workers, Fits(tx[v]) PROVE Fits(tx[v])'
    <3>1. PICK r : r = tx[v]
      OBVIOUS
    <3>2. Fits(r)'
      BY <1>1, <2>1, <3>1, FitsStay
    <3> QED
      BY <1>1, <3>1, <3>2
  <2> QED
    BY <1>1, <2>1, RequestsStay DEF IInv
<1>5. RowsOK'
  <2>1. Recorded' = Recorded
    BY <1>1 DEF Recorded
  <2>2. ASSUME NEW e \in Entries, entry[e].status \notin Gone, entry[e].order # NoOrder
        PROVE  order'[entry[e].order].status \notin Gone
    <3>1. entry[e].order \in Orders /\ order[entry[e].order].status \notin Gone
      BY <2>2, RowTypes DEF IInv, TypeOK, RowsOK
    <3> QED
      BY <1>1, <1>2, <3>1 DEF Gone
  <2> QED
    BY <1>1, <2>1, <2>2 DEF IInv, RowsOK
<1>6. ConsumedIsDrawn'
  BY <1>1 DEF IInv, ConsumedIsDrawn
<1> QED
  BY <1>3, <1>4, <1>5, <1>6 DEF IInv

LEMMA CreateEntryFacts ==
  ASSUME IInv, NEW e \in Entries, CreateEntry(e)
  PROVE  \E row \in EntryRow :
           /\ entry' = [entry EXCEPT ![e] = row]
           /\ row.status = "DRAFT" /\ row.consumed = 0 /\ entry[e] = NoRow
           /\ row.order # NoOrder => order[row.order].status \notin Gone
           /\ UNCHANGED <<order, reserved, drawn, tx>>
<1>1. PICK bottles \in Bottles, o \in Linkable :
        entry' = [entry EXCEPT ![e] = Draft(bottles, o)]
  BY DEF CreateEntry
<1>2. PICK row : row = Draft(bottles, o)
  OBVIOUS
<1>3. row \in EntryRow
  BY <1>2, InputTypes DEF Draft, EntryRow, EntryStatus
<1>4. row.status = "DRAFT" /\ row.consumed = 0 /\ row.order = o
  BY <1>2 DEF Draft
<1>5. entry[e] = NoRow
  BY DEF CreateEntry, IInv, RowsOK
<1> QED
  BY <1>1, <1>2, <1>3, <1>4, <1>5, InputTypes DEF CreateEntry

LEMMA CreateEntryInvariant ==
  ASSUME IInv, NEW e \in Entries, CreateEntry(e)
  PROVE  IInv'
<1>1. PICK row \in EntryRow :
           /\ entry' = [entry EXCEPT ![e] = row]
           /\ row.status = "DRAFT" /\ row.consumed = 0 /\ entry[e] = NoRow
           /\ row.order # NoOrder => order[row.order].status \notin Gone
           /\ UNCHANGED <<order, reserved, drawn, tx>>
  BY CreateEntryFacts
<1>2. \A f \in Entries : entry'[f] = IF f = e THEN row ELSE entry[f]
  BY <1>1 DEF IInv, TypeOK
<1>3. TypeOK'
  BY <1>1 DEF IInv, TypeOK
<1>4. RequestsOK'
  <2>1. ASSUME NEW v \in Workers, Fits(tx[v]) PROVE Fits(tx[v])'
    <3>1. PICK r : r = tx[v]
      OBVIOUS
    <3>2. Shape(r)
      BY <3>1 DEF IInv, RequestsOK
    <3>3. Fits(r)'
      BY <1>1, <1>2, <2>1, <3>1, <3>2, FitsGrows
    <3> QED
      BY <1>1, <3>1, <3>3
  <2> QED
    BY <1>1, <2>1, RequestsStay DEF IInv
<1>5. RowsOK'
  <2>1. IsFiniteSet(Recorded')
    <3>1. Recorded' \in SUBSET (Recorded \union {e})
      BY <1>2 DEF Recorded
    <3> QED
      BY <3>1, FS_AddElement, FS_Subset DEF IInv, RowsOK
  <2> QED
    BY <1>1, <1>2, <2>1 DEF IInv, RowsOK, Gone
<1>6. ConsumedIsDrawn'
  BY <1>1, <1>2 DEF IInv, ConsumedIsDrawn
<1> QED
  BY <1>3, <1>4, <1>5, <1>6 DEF IInv

\* An entry whose order was deleted; an order that got another status.
Unlinked(row) == [row EXCEPT !.order = NoOrder]

LEMMA UnlinkedRow ==
  ASSUME NEW row \in EntryRow, NEW new, new = Unlinked(row)
  PROVE  /\ new \in EntryRow /\ new.status = row.status /\ new.bottles = row.bottles
         /\ new.order = NoOrder /\ new.consumed = row.consumed
<1>1. new = [status |-> row.status, bottles |-> row.bottles, order |-> NoOrder,
             consumed |-> row.consumed]
  BY DEF Unlinked, EntryRow
<1>2. new \in EntryRow
  BY <1>1, RowTypes DEF EntryRow
<1>3. /\ new.status = row.status /\ new.bottles = row.bottles
      /\ new.order = NoOrder /\ new.consumed = row.consumed
  BY <1>1
<1> QED
  BY <1>2, <1>3

Restated(head, status) == [head EXCEPT !.status = status]

LEMMA RestatedHead ==
  ASSUME NEW head \in OrderRow, NEW status \in OrderStatus \union Gone,
         NEW new, new = Restated(head, status)
  PROVE  /\ new \in OrderRow /\ new.status = status
         /\ new.quantity = head.quantity /\ new.recipe = head.recipe
<1>1. new = [status |-> status, quantity |-> head.quantity, recipe |-> head.recipe]
  BY DEF Restated, OrderRow
<1>2. new \in OrderRow
  BY <1>1, HeadTypes DEF OrderRow
<1>3. new.status = status /\ new.quantity = head.quantity /\ new.recipe = head.recipe
  BY <1>1
<1> QED
  BY <1>2, <1>3

\* The row a commit leaves of an entry.
Left(r, e) ==
  IF <<"entry", e>> \notin r.locks THEN entry[e]
  ELSE IF r.kind = "delete order" THEN Unlinked(entry[e]) ELSE r.row

LEMMA CommitEntries ==
  ASSUME IInv, NEW w \in Workers, Commit(w), NEW r, r = tx[w]
  PROVE  /\ r \in Request /\ Shape(r) /\ Fits(r) /\ r.pc = "commit"
         /\ entry' \in [Entries -> EntryRow]
         /\ \A e \in Entries : entry'[e] = Left(r, e)
         /\ \A e \in Entries : entry'[e].status = "absent" <=> entry[e].status = "absent"
         /\ \A e \in Entries : entry[e].status = "absent" => entry'[e] = entry[e]
<1>1. r \in Request /\ Shape(r) /\ Fits(r) /\ r.pc = "commit"
  BY InState DEF Commit
<1>2. ASSUME NEW e \in Entries PROVE EntryAfter(w, e) = Left(r, e)
  BY DEF EntryAfter, Left, Unlinked
<1>3. entry' = [e \in Entries |-> EntryAfter(w, e)]
  BY DEF Commit
<1>4. ASSUME NEW e \in Entries PROVE Left(r, e) \in EntryRow
  BY <1>1, UnlinkedRow, RequestTypes DEF Left, IInv, TypeOK
<1>5. ASSUME NEW e \in Entries
      PROVE  /\ Left(r, e).status = "absent" <=> entry[e].status = "absent"
             /\ entry[e].status = "absent" => Left(r, e) = entry[e]
  <2>1. <<"entry", e>> \in r.locks =>
          /\ entry[e].status # "absent"
          /\ r.kind # "delete order" => r.row.status # "absent"
    BY <1>1 DEF Fits
  <2>2. Unlinked(entry[e]).status = entry[e].status
    BY UnlinkedRow DEF IInv, TypeOK
  <2> QED
    BY <2>1, <2>2 DEF Left
<1> QED
  BY <1>1, <1>2, <1>3, <1>4, <1>5

\* What it leaves of an order.
LEMMA CommitOrders ==
  ASSUME IInv, NEW w \in Workers, Commit(w), NEW r, r = tx[w]
  PROVE  /\ order' \in [Orders -> OrderRow]
         /\ \A o \in Orders :
              order'[o] = IF <<"order", o>> \notin r.locks THEN order[o]
                          ELSE IF r.kind = "validate" THEN Restated(order[o], r.head.status)
                          ELSE r.head
         /\ reserved' \in [Orders -> Nat]
         /\ \A o \in Orders :
              reserved'[o] = IF <<"reservation", o>> \in r.locks THEN r.keep ELSE reserved[o]
<1>1. r.head \in OrderRow /\ r.head.status \in OrderStatus \union Gone /\ r.keep \in Nat
  BY InState, RequestTypes, HeadTypes
<1>2. ASSUME NEW o \in Orders
      PROVE  /\ OrderAfter(w, o) = IF <<"order", o>> \notin r.locks THEN order[o]
                                   ELSE IF r.kind = "validate"
                                   THEN Restated(order[o], r.head.status) ELSE r.head
             /\ OrderAfter(w, o) \in OrderRow
  <2>1. OrderAfter(w, o) = IF <<"order", o>> \notin r.locks THEN order[o]
                           ELSE IF r.kind = "validate"
                           THEN Restated(order[o], r.head.status) ELSE r.head
    BY DEF OrderAfter, Restated
  <2>2. order[o] \in OrderRow
    BY DEF IInv, TypeOK
  <2>3. Restated(order[o], r.head.status) \in OrderRow
    BY <1>1, <2>2, RestatedHead
  <2> QED
    BY <1>1, <2>1, <2>2, <2>3
<1>3. order' = [o \in Orders |-> OrderAfter(w, o)]
  BY DEF Commit
<1>4. reserved' = [o \in Orders |-> ReservedAfter(w, o)]
  BY DEF Commit
<1>5. ASSUME NEW o \in Orders
      PROVE  /\ ReservedAfter(w, o) = IF <<"reservation", o>> \in r.locks THEN r.keep
                                      ELSE reserved[o]
             /\ ReservedAfter(w, o) \in Nat
  BY <1>1 DEF ReservedAfter, IInv, TypeOK
<1> QED
  BY <1>2, <1>3, <1>4, <1>5

\* What it draws.
LEMMA CommitDraws ==
  ASSUME IInv, NEW w \in Workers, Commit(w), NEW r, r = tx[w]
  PROVE  /\ drawn' \in [Entries -> Nat]
         /\ StockLock \notin r.locks => drawn' = drawn
         /\ StockLock \in r.locks =>
              /\ r.kind = "validate" /\ r.entry \in Entries /\ drawn[r.entry] = 0
              /\ r.row.status = "STOCK_CONSUMED" /\ r.row.consumed > 0
              /\ \A e \in Entries : drawn'[e] = IF e = r.entry THEN r.row.consumed ELSE drawn[e]
         /\ \A e \in Entries : drawn[e] > 0 => drawn'[e] = drawn[e]
<1>1. CASE StockLock \notin r.locks
  BY <1>1 DEF Commit, IInv, TypeOK
<1>2. CASE StockLock \in r.locks
  <2>1. /\ r.kind = "validate" /\ drawn[r.entry] = 0
        /\ r.row.status = "STOCK_CONSUMED" /\ Shape(r) /\ r \in Request
    BY <1>2, InState DEF Fits
  <2>2. r.entry \in Entries /\ r.row.consumed > 0 /\ r.row.consumed \in Nat
    BY <2>1, RequestTypes, RowTypes DEF Shape, ValidationShape
  <2>3. drawn' = [drawn EXCEPT ![r.entry] = r.row.consumed]
    BY <1>2 DEF Commit
  <2>4. \A e \in Entries : drawn'[e] = IF e = r.entry THEN r.row.consumed ELSE drawn[e]
    BY <2>3 DEF IInv, TypeOK
  <2>5. drawn' \in [Entries -> Nat]
    BY <2>2, <2>3 DEF IInv, TypeOK
  <2> QED
    BY <1>2, <2>1, <2>2, <2>4, <2>5
<1> QED
  BY <1>1, <1>2

\* What it does to the other requests: those that wait for its reservations are woken.
LEMMA CommitOthers ==
  ASSUME IInv, NEW w \in Workers, Commit(w)
  PROVE  /\ tx' \in [Workers -> Request] /\ tx'[w] = Idle
         /\ \A v \in Workers : v # w =>
              \/ tx'[v] = tx[v]
              \/ tx[v].pc = "syncing" /\ tx'[v] = OnTo(tx[v], "beaten")
<1>1. tx' = [v \in Workers |->
               IF v = w THEN Idle
               ELSE IF /\ tx[v].pc = "syncing"
                       /\ <<"reservation", tx[v].order>> \in tx[w].locks
               THEN OnTo(tx[v], "beaten") ELSE tx[v]]
  BY DEF Commit, OnTo
<1>2. ASSUME NEW v \in Workers
      PROVE  Idle \in Request /\ tx[v] \in Request /\ OnTo(tx[v], "beaten") \in Request
  <2>1. tx[v] \in Request /\ "beaten" \in PCs
    BY InState DEF PCs
  <2> QED
    BY <2>1, Goes, IdleFields DEF Kept, Further
<1> QED
  BY <1>1, <1>2

LEMMA CommitRequests ==
  ASSUME IInv, NEW w \in Workers, Commit(w), NEW v \in Workers, v # w, NEW r, r = tx[v],
         NEW q, q = tx'[v]
  PROVE  /\ Shape(r) /\ Fits(r) /\ Shape(q)
         /\ Kept(r, q) /\ q.locks = r.locks
         /\ q.pc = r.pc \/ (r.pc = "syncing" /\ q.pc = "beaten")
<1>1. Shape(r) /\ Fits(r) /\ r \in Request
  BY InState
<1>2. CASE q = r
  BY <1>1, <1>2 DEF Kept, Further
<1>3. CASE r.pc = "syncing" /\ q = OnTo(r, "beaten")
  <2>1. Kept(r, q) /\ q.locks = r.locks /\ q.pc = "beaten"
    BY <1>1, <1>3, Goes DEF PCs
  <2>2. /\ Own(q) = Own(r) /\ ReservationLock(q) = ReservationLock(r)
        /\ OrderLock(q) = OrderLock(r)
    BY <2>1 DEF Kept, Further, Own, ReservationLock, OrderLock
  <2>3. r.kind \in {"validate", "edit order"}
    BY <1>1, <1>3, KindOf DEF Syncing
  <2>4. CASE r.kind = "validate"
    <3>1. ValidationShape(q)
      BY <1>1, <1>3, <2>1, <2>2, <2>4 DEF Shape, ValidationShape, Kept, Further, Syncing
    <3> QED
      BY <1>1, <1>3, <2>1, <2>4, <3>1 DEF Shape, Kept, Further
  <2>5. CASE r.kind = "edit order"
    <3>1. OrderShape(q)
      BY <1>1, <1>3, <2>1, <2>2, <2>5 DEF Shape, OrderShape, Kept, Further, Syncing
    <3> QED
      BY <1>1, <1>3, <2>1, <2>5, <3>1 DEF Shape, Kept, Further
  <2> QED
    BY <1>1, <1>3, <2>1, <2>3, <2>4, <2>5
<1> QED
  BY <1>2, <1>3, CommitOthers

LEMMA CommitKeeps ==
  ASSUME IInv, NEW w \in Workers, Commit(w), NEW v \in Workers, NEW q, q = tx'[v]
  PROVE  /\ Shape(q) /\ Fits(q)' /\ q.locks \subseteq tx[v].locks
         /\ q.kind # "none" => tx[v].kind # "none"
<1>1. PICK r : r = tx[w]
  OBVIOUS
<1>2. /\ \A e \in Entries : entry[e].status # "absent" => entry'[e].status # "absent"
      /\ \A e \in Entries : drawn[e] > 0 => drawn'[e] > 0
      /\ StockLock \notin r.locks => drawn' = drawn
  BY <1>1, CommitEntries, CommitDraws
<1>3. CASE v = w
  <2>1. q = Idle
    BY <1>3, CommitOthers
  <2> QED
    BY <2>1, <1>2, FitsIdle, FitsGrows, IdleFields
<1>4. CASE v # w
  <2>1. PICK s : s = tx[v]
    OBVIOUS
  <2>2. /\ Shape(s) /\ Fits(s) /\ Shape(q)
        /\ Kept(s, q) /\ q.locks = s.locks
        /\ q.pc = s.pc \/ (s.pc = "syncing" /\ q.pc = "beaten")
    BY <1>4, <2>1, CommitRequests
  <2>3. Fits(q)
    BY <2>2 DEF Fits, Kept, Further
  <2>4. StockLock \in q.locks => drawn' = drawn
    BY <1>1, <1>2, <1>4, <2>1, <2>2 DEF IInv, RequestsOK
  <2>5. Fits(q)'
    BY <1>2, <2>2, <2>3, <2>4, FitsGrows
  <2> QED
    BY <2>1, <2>2, <2>5 DEF Kept, Further
<1> QED
  BY <1>3, <1>4

\* Whose row it writes.
LEMMA CommitWrites ==
  ASSUME NEW r, Shape(r), Fits(r), r.pc = "commit",
         NEW e \in Entries, <<"entry", e>> \in r.locks
  PROVE  /\ entry[e].status # "absent"
         /\ r.kind \in ByEntry \union {"delete order"}
         /\ r.kind \in ByEntry => e = r.entry
<1>1. r.kind # "none" /\ r.kind \in Kinds
  BY KindOf
<1>2. r.kind # "edit order"
  BY LocksDiffer DEF Shape, OrderShape, OrderLock, ReservationLock
<1>3. entry[e].status # "absent" /\ (r.kind # "delete order" => e = r.entry)
  BY DEF Fits
<1> QED
  BY <1>1, <1>2, <1>3 DEF Kinds, ByEntry

LEMMA CommitInvariant ==
  ASSUME IInv, NEW w \in Workers, Commit(w)
  PROVE  IInv'
<1>1. PICK r : r = tx[w]
  OBVIOUS
<1>2. /\ r \in Request /\ Shape(r) /\ Fits(r) /\ r.pc = "commit"
      /\ entry' \in [Entries -> EntryRow]
      /\ \A e \in Entries : entry'[e] = Left(r, e)
      /\ \A e \in Entries : entry'[e].status = "absent" <=> entry[e].status = "absent"
      /\ \A e \in Entries : entry[e].status = "absent" => entry'[e] = entry[e]
  BY <1>1, CommitEntries
<1>3. TypeOK'
  BY <1>1, <1>2, CommitOrders, CommitDraws, CommitOthers DEF TypeOK
<1>4. RequestsOK'
  <2>1. ASSUME NEW v \in Workers PROVE Shape(tx[v])' /\ Fits(tx[v])'
    <3>1. PICK q : q = tx'[v]
      OBVIOUS
    <3>2. Shape(q)' /\ Fits(q)'
      BY <3>1, CommitKeeps
    <3> QED
      BY <3>1, <3>2
  <2>2. ASSUME NEW u \in Workers, NEW v \in Workers, u # v
        PROVE  tx'[u].locks \intersect tx'[v].locks = {}
    <3>1. tx[u].locks \intersect tx[v].locks = {}
      BY <2>2 DEF IInv, RequestsOK
    <3> QED
      BY <3>1, CommitKeeps
  <2>3. IsFiniteSet(Busy')
    <3>1. Busy' \in SUBSET Busy
      BY CommitKeeps DEF Busy
    <3> QED
      BY <3>1, FS_Subset DEF IInv, RequestsOK
  <2> QED
    BY <2>1, <2>2, <2>3 DEF RequestsOK
<1>5. RowsOK'
  <2>1. Recorded' = Recorded
    BY <1>2 DEF Recorded
  <2>2. ASSUME NEW e \in Entries, entry'[e].status = "absent" PROVE entry'[e] = NoRow
    BY <1>2, <2>2 DEF IInv, RowsOK
  <2>3. ASSUME NEW e \in Entries, entry'[e].status \notin Gone, entry'[e].order # NoOrder
        PROVE  order'[entry'[e].order].status \notin Gone
    <3>1. entry'[e].order \in Orders
      BY <1>2, <2>3, RowTypes
    <3>2. entry'[e] = EntryAfter(w, e) /\ order'[entry'[e].order] = OrderAfter(w, entry'[e].order)
      BY <3>1 DEF Commit
    <3>3. KeysHold(w)
      BY DEF Commit
    <3> QED
      BY <2>3, <3>2, <3>3 DEF KeysHold
  <2> QED
    BY <2>1, <2>2, <2>3 DEF IInv, RowsOK
<1>6. ConsumedIsDrawn'
  <2> SUFFICES ASSUME NEW e \in Entries, entry'[e].status = "STOCK_CONSUMED"
               PROVE  drawn'[e] > 0
    BY DEF ConsumedIsDrawn
  <2>1. \A f \in Entries : drawn[f] > 0 => drawn'[f] > 0
    BY <1>1, CommitDraws
  <2>2. CASE entry[e].status = "STOCK_CONSUMED"
    BY <2>1, <2>2 DEF IInv, ConsumedIsDrawn
  <2>3. CASE entry[e].status # "STOCK_CONSUMED"
    <3>1. <<"entry", e>> \in r.locks
      BY <1>2, <2>3 DEF Left
    <3>2. r.kind # "delete order"
      <4>1. Unlinked(entry[e]).status = entry[e].status
        BY UnlinkedRow DEF IInv, TypeOK
      <4> QED
        BY <1>2, <2>3, <3>1, <4>1 DEF Left
    <3>3. r.row.status = "STOCK_CONSUMED"
      BY <1>2, <3>1, <3>2 DEF Left
    <3>4. e = r.entry /\ r.kind \in {"validate", "bulk"}
      <4>1. e = r.entry /\ r.kind \in ByEntry
        BY <1>2, <3>1, <3>2, CommitWrites
      <4>2. r.kind # "edit entry" /\ r.kind # "delete entry"
        BY <1>2, <3>3 DEF Shape, EntryShape
      <4> QED
        BY <4>1, <4>2 DEF ByEntry
    <3>5. drawn[e] > 0 \/ StockLock \in r.locks
      BY <1>2, <3>3, <3>4 DEF Fits
    <3>6. CASE StockLock \in r.locks
      BY <1>1, <3>4, <3>6, CommitDraws
    <3> QED
      BY <2>1, <3>5, <3>6
  <2> QED
    BY <2>2, <2>3
<1> QED
  BY <1>3, <1>4, <1>5, <1>6 DEF IInv
-----------------------------------------------------------------------------
(* What always holds.                                                      *)

LEMMA InitInvariant ==
  ASSUME Init
  PROVE  IInv
<1>1. TypeOK
  BY NoRows, IdleFields DEF Init, TypeOK
<1>2. RequestsOK
  <2>1. Busy = {}
    BY IdleFields DEF Init, Busy
  <2>2. \A w \in Workers : tx[w] = Idle
    BY DEF Init
  <2> QED
    BY <2>1, <2>2, FitsIdle, IdleFields, FS_EmptySet DEF RequestsOK
<1>3. \A e \in Entries : entry[e] = NoRow
  BY DEF Init
<1>4. RowsOK
  <2>1. Recorded = {}
    BY <1>3, NoRows DEF Recorded
  <2> QED
    BY <1>3, <2>1, NoRows, FS_EmptySet DEF RowsOK
<1>5. ConsumedIsDrawn
  BY <1>3, NoRows DEF ConsumedIsDrawn
<1> QED
  BY <1>1, <1>2, <1>4, <1>5 DEF IInv

\* A request is taken up, ends or goes on; other than by its commit.
LEMMA LoadMoves ==
  ASSUME IInv, NEW w \in Workers, Load(w)
  PROVE  \E q : Moves(w, q)
<1>1. ASSUME NEW e \in Entries, LoadValidate(w, e) PROVE \E q : Moves(w, q)
  BY <1>1, ValidateMoves
<1>2. ASSUME NEW e \in Entries, LoadEditEntry(w, e) PROVE \E q : Moves(w, q)
  BY <1>2, EditMoves
<1>3. ASSUME NEW e \in Entries, LoadBulk(w, e) PROVE \E q : Moves(w, q)
  BY <1>3, BulkBegins
<1>4. ASSUME NEW e \in Entries, LoadDeleteEntry(w, e) PROVE \E q : Moves(w, q)
  BY <1>4, DeleteMoves
<1>5. ASSUME NEW o \in Orders, LoadEditOrder(w, o) PROVE \E q : Moves(w, q)
  BY <1>5, EditOrderMoves
<1>6. ASSUME NEW o \in Orders, LoadDeleteOrder(w, o) PROVE \E q : Moves(w, q)
  BY <1>6, DeleteOrderMoves
<1> QED
  BY <1>1, <1>2, <1>3, <1>4, <1>5, <1>6 DEF Load

LEMMA StepMoves ==
  ASSUME IInv, NEW w \in Workers, Step(w), ~Commit(w)
  PROVE  \E q : Moves(w, q)
<1>1. CASE Consume(w) \/ AlreadyDrawn(w) \/ SaveEntry(w) \/ BulkWrite(w)
  BY <1>1, ConsumeMoves, AlreadyMoves, SaveMoves, BulkMoves
<1>2. CASE BulkGone(w) \/ CommitRefused(w)
  BY <1>2, RollbackMoves DEF BulkGone, CommitRefused
<1>3. CASE Advance(w) \/ SaveStatus(w) \/ SaveOrder(w) \/ Cascade(w)
  BY <1>3, AdvanceMoves, StatusMoves, OrderMoves, CascadeMoves
<1>4. CASE Sync(w) \/ SyncWaits(w) \/ SyncNothing(w) \/ SyncBeaten(w)
  BY <1>4, SyncMoves, WaitMoves, NothingMoves, BeatenMoves
<1>5. CASE BulkLookUp(w)
  BY <1>5, LookUpMoves, RollbackMoves
<1> QED
  BY <1>1, <1>2, <1>3, <1>4, <1>5 DEF Step

LEMMA NextInvariant ==
  ASSUME IInv, [Next]_vars
  PROVE  IInv'
<1>1. CASE UNCHANGED vars
  <2>1. /\ UNCHANGED <<entry, order, reserved, drawn>> /\ tx' = tx
    BY <1>1 DEF vars
  <2>2. TypeOK'
    BY <2>1 DEF IInv, TypeOK
  <2>3. RequestsOK'
    <3>1. ASSUME NEW v \in Workers, Fits(tx[v]) PROVE Fits(tx[v])'
      <4>1. PICK r : r = tx[v]
        OBVIOUS
      <4>2. Fits(r)'
        BY <2>1, <3>1, <4>1, FitsStay
      <4> QED
        BY <2>1, <4>1, <4>2
    <3> QED
      BY <2>1, <3>1, RequestsStay DEF IInv
  <2> QED
    BY <2>1, <2>2, <2>3, RowsStay DEF IInv
<1>2. ASSUME NEW w \in Workers, Load(w) \/ (Step(w) /\ ~Commit(w)) \/ Abort(w)
      PROVE  IInv'
  <2>1. PICK q : Moves(w, q)
    BY <1>2, LoadMoves, StepMoves, RollbackMoves DEF Abort
  <2> QED
    BY <2>1, MovesInvariant
<1> QED
  BY <1>1, <1>2, CommitInvariant, CreateOrderInvariant, CreateEntryInvariant DEF Next

THEOREM InvariantHolds == Spec => []IInv
<1>1. Init => IInv
  BY InitInvariant
<1>2. IInv /\ [Next]_vars => IInv'
  BY NextInvariant
<1> QED
  BY <1>1, <1>2, PTL DEF Spec

\* What remains of an order, what is reserved and what was drawn are numbers, never
\* negative, whatever is produced or edited.
THEOREM TypeCorrect == Spec => []TypeOK
<1>1. IInv => TypeOK
  BY DEF IInv
<1> QED
  BY <1>1, InvariantHolds, PTL

\* An entry takes from stock once, for any number of validations, edits and retries at a
\* time and in any order.
THEOREM DrawsOnce == Spec => DrawnOnce
<1>1. ASSUME IInv, [Next]_vars, NEW e \in Entries, drawn[e] # 0
      PROVE  drawn'[e] = drawn[e]
  <2>1. drawn[e] > 0
    BY <1>1 DEF IInv, TypeOK
  <2>2. ASSUME NEW w \in Workers, Commit(w) PROVE drawn'[e] = drawn[e]
    BY <1>1, <2>1, <2>2, CommitDraws
  <2>3. ASSUME NEW w \in Workers, Load(w) \/ (Step(w) /\ ~Commit(w)) \/ Abort(w)
        PROVE  drawn'[e] = drawn[e]
    <3>1. PICK q : Moves(w, q)
      BY <1>1, <2>3, LoadMoves, StepMoves, RollbackMoves DEF Abort
    <3> QED
      BY <3>1 DEF Moves, Continue
  <2>4. \A o \in Orders : CreateOrder(o) => drawn' = drawn
    BY DEF CreateOrder
  <2>5. \A f \in Entries : CreateEntry(f) => drawn' = drawn
    BY DEF CreateEntry
  <2>6. UNCHANGED vars => drawn' = drawn
    BY DEF vars
  <2> QED
    BY <1>1, <2>2, <2>3, <2>4, <2>5, <2>6 DEF Next
<1>2. IInv /\ [Next]_vars => [\A e \in Entries : drawn[e] # 0 => drawn'[e] = drawn[e]]_vars
  BY <1>1
<1> QED
  BY <1>2, InvariantHolds, PTL DEF Spec, DrawnOnce
-----------------------------------------------------------------------------
(* While there are validations alone.                                      *)

\* A validation that locks its entry sees it validated.
LEMMA SeenGrows ==
  ASSUME IInv, NEW r, Shape(r), Undisturbed(r), r.kind = "validate",
         NEW q, Fits(q), Further(r, q), q.row = r.row, r.locks \subseteq q.locks
  PROVE  Grows(Seen(r), Seen(q))
<1> SUFFICES ASSUME NEW e \in Entries, Seen(r)[e].status \in Validated
             PROVE  /\ Seen(q)[e].status \in Validated
                    /\ Seen(q)[e].bottles = Seen(r)[e].bottles
                    /\ Seen(q)[e].order = Seen(r)[e].order
  BY DEF Grows
<1>1. /\ Seen(r)[e] = IF <<"entry", e>> \in r.locks THEN r.row ELSE entry[e]
      /\ Seen(q)[e] = IF <<"entry", e>> \in q.locks THEN r.row ELSE entry[e]
  BY DEF Seen
<1>2. <<"entry", e>> \in q.locks => e = r.entry
  BY DEF Fits, Further
<1>3. /\ r.row.status \in Validated
      /\ r.row.bottles = entry[r.entry].bottles /\ r.row.order = entry[r.entry].order
  BY DEF Shape, ValidationShape, Undisturbed
<1> QED
  BY <1>1, <1>2, <1>3

\* More is produced, and less is left, of what a request sees.
LEMMA SeenMore ==
  ASSUME IInv, NEW r, Shape(r), Fits(r), NEW q, Shape(q), Fits(q), Grows(Seen(r), Seen(q)),
         NEW o \in Orders
  PROVE  /\ Produced(o, Seen(r)) \in Nat /\ Produced(o, Seen(q)) \in Nat
         /\ Produced(o, Seen(r)) <= Produced(o, Seen(q))
         /\ Wants(o, Seen(r)) \in Nat /\ Wants(o, Seen(q)) \in Nat
         /\ Wants(o, Seen(q)) <= Wants(o, Seen(r))
<1>1. TypeOK /\ RowsOK /\ r \in Request /\ q \in Request
  BY DEF IInv, Shape
<1>2. PICK m \in Nat, n \in Nat : m = Produced(o, Seen(r)) /\ n = Produced(o, Seen(q))
  BY <1>1, SeenProduced
<1>3. m <= n
  BY <1>1, <1>2, SeenWithin, ProducedGrows DEF RowsOK
<1>4. PICK quantity \in Nat : quantity = order[o].quantity
  BY <1>1, HeadTypes DEF TypeOK
<1>5. /\ Rest(quantity, m) \in Nat /\ Rest(quantity, n) \in Nat
      /\ Rest(quantity, n) <= Rest(quantity, m)
  BY <1>3, RestIs, RestShrinks
<1> QED
  BY <1>2, <1>3, <1>4, <1>5 DEF Wants

LEMMA GoesUndisturbed ==
  ASSUME IInv, NEW r, Shape(r), Fits(r), Undisturbed(r), r.kind = "validate",
         NEW q, Shape(q), Fits(q), Kept(r, q), r.locks \subseteq q.locks,
         ReservationLock(r) \in q.locks => ReservationLock(r) \in r.locks
  PROVE  Undisturbed(q)
<1>1. Further(r, q) /\ q.row = r.row /\ q.head = r.head /\ q.keep = r.keep
  BY DEF Kept
<1>2. q.kind = r.kind /\ q.entry = r.entry /\ q.order = r.order
  BY <1>1 DEF Further
<1>3. ASSUME q.order # NoOrder PROVE OrderUndisturbed(q)
  <2>1. OrderUndisturbed(r)
    BY <1>2, <1>3 DEF Undisturbed
  <2>2. r.order \in Orders
    BY <1>2, <1>3, RequestTypes DEF Shape
  <2>3. Grows(Seen(r), Seen(q))
    BY <1>1, SeenGrows
  <2>4. PICK o \in Orders : o = r.order
    BY <2>2
  <2>5. /\ Produced(o, Seen(r)) \in Nat /\ Produced(o, Seen(q)) \in Nat
        /\ Produced(o, Seen(r)) <= Produced(o, Seen(q))
        /\ Wants(o, Seen(r)) \in Nat /\ Wants(o, Seen(q)) \in Nat
        /\ Wants(o, Seen(q)) <= Wants(o, Seen(r))
    BY <2>3, SeenMore
  <2>6. order[o].quantity \in Nat /\ r.keep \in Nat
    BY HeadTypes, RequestTypes DEF IInv, TypeOK, Shape
  <2>7. /\ q.head.quantity = order[q.order].quantity
        /\ q.head.recipe = order[q.order].recipe
        /\ q.head.status \in OrderStatus
    BY <1>1, <1>2, <2>1 DEF OrderUndisturbed
  <2>8. q.head.status = "DONE" => Produced(o, Seen(q)) >= order[o].quantity
    BY <1>1, <2>1, <2>4, <2>5, <2>6 DEF OrderUndisturbed
  <2>9. ReservationLock(q) \in q.locks => q.keep >= Wants(o, Seen(q))
    <3>1. ReservationLock(q) = ReservationLock(r)
      BY <1>2 DEF ReservationLock
    <3> QED
      BY <1>1, <2>1, <2>4, <2>5, <2>6, <3>1 DEF OrderUndisturbed
  <2> QED
    BY <1>2, <2>4, <2>7, <2>8, <2>9 DEF OrderUndisturbed
<1> QED
  BY <1>1, <1>2, <1>3 DEF Undisturbed

\* The order advances in memory.
LEMMA AdvancesUndisturbed ==
  ASSUME IInv, NEW w \in Workers, NEW r, r = tx[w], Undisturbed(r), r.pc = "advance",
         NEW q, Shape(q), Fits(q), Further(r, q), q.row = r.row, q.locks = r.locks,
         q.head.status = Reached(w),
         q.head.quantity = r.head.quantity, q.head.recipe = r.head.recipe
  PROVE  Undisturbed(q)
<1>1. Shape(r) /\ Fits(r) /\ r.kind = "validate"
  BY InState, KindOf
<1>2. r.order \in Orders /\ r.order # NoOrder /\ ReservationLock(r) \notin r.locks
  BY <1>1, NullAssumption DEF Shape, ValidationShape
<1>3. q.kind = r.kind /\ q.entry = r.entry /\ q.order = r.order
  BY DEF Further
<1>4. Seen(q) = Seen(r)
  BY DEF Seen
<1>5. ReservationLock(q) \notin q.locks
  BY <1>2, <1>3 DEF ReservationLock
<1>6. OrderUndisturbed(r)
  BY <1>1, <1>2 DEF Undisturbed
<1>7. q.head.status \in OrderStatus
  BY DEF Reached, OrderStatus, Open
<1>8. q.head.status = "DONE" => Produced(q.order, Seen(q)) >= order[q.order].quantity
  <2>1. Remaining(w) = Rest(r.head.quantity, Produced(r.order, Seen(r)))
    BY <1>1, ToReserveIsNeed DEF IInv
  <2>2. r.head.quantity \in Nat /\ Produced(r.order, Seen(r)) \in Nat
    BY <1>1, SeenProduced, RequestTypes, HeadTypes DEF Shape, IInv
  <2>3. q.head.status = "DONE" => Rest(r.head.quantity, Produced(r.order, Seen(r))) = 0
    BY <2>1 DEF Reached
  <2>4. q.head.status = "DONE" => Produced(r.order, Seen(r)) >= r.head.quantity
    BY <2>2, <2>3, RestIs
  <2> QED
    BY <1>3, <1>4, <1>6, <2>4 DEF OrderUndisturbed
<1>9. OrderUndisturbed(q)
  BY <1>3, <1>5, <1>6, <1>7, <1>8 DEF OrderUndisturbed
<1> QED
  BY <1>3, <1>9 DEF Undisturbed

\* It reserves what the order may need.
LEMMA NeedIsWanted ==
  ASSUME IInv, NEW r, Shape(r), Fits(r), OrderUndisturbed(r), r.order \in Orders
  PROVE  Need(r) = Wants(r.order, Seen(r)) /\ Need(r) \in Nat
<1>1. r.head.quantity \in Nat /\ Produced(r.order, Seen(r)) \in Nat
  BY SeenProduced, RequestTypes, HeadTypes DEF Shape, IInv
<1>2. /\ r.head.quantity = order[r.order].quantity
      /\ r.head.recipe = order[r.order].recipe
      /\ r.head.status \in OrderStatus
      /\ r.head.status = "DONE" => Produced(r.order, Seen(r)) >= r.head.quantity
  BY DEF OrderUndisturbed
<1>3. PICK left \in Nat : /\ left = Rest(r.head.quantity, Produced(r.order, Seen(r)))
                          /\ left = 0 <=> Produced(r.order, Seen(r)) >= r.head.quantity
  BY <1>1, RestIs
<1>4. Wants(r.order, Seen(r)) = IF r.head.recipe THEN left ELSE 0
  BY <1>2, <1>3 DEF Wants
<1>5. Need(r) = IF r.head.recipe /\ r.head.status \in Open THEN left ELSE 0
  BY <1>3 DEF Need
<1>6. r.head.status \notin Open => left = 0
  BY <1>2, <1>3 DEF OrderStatus
<1> QED
  BY <1>4, <1>5, <1>6

LEMMA KeepsUndisturbed ==
  ASSUME IInv, NEW r, Shape(r), Fits(r), Undisturbed(r), r.kind = "validate",
         r.order \in Orders,
         NEW q, Further(r, q), q.row = r.row, q.head = r.head, q.keep = Need(r),
         q.locks = r.locks \union {ReservationLock(r)}
  PROVE  Undisturbed(q)
<1>1. q.kind = r.kind /\ q.entry = r.entry /\ q.order = r.order /\ r.order # NoOrder
  BY NullAssumption DEF Further
<1>2. Seen(q) = Seen(r)
  <2>1. \A e \in Entries : <<"entry", e>> \in q.locks <=> <<"entry", e>> \in r.locks
    BY LocksDiffer DEF ReservationLock
  <2> QED
    BY <2>1 DEF Seen
<1>3. OrderUndisturbed(r)
  BY <1>1 DEF Undisturbed
<1>4. Need(r) = Wants(r.order, Seen(r)) /\ Need(r) \in Nat
  BY <1>3, NeedIsWanted
<1>5. OrderUndisturbed(q)
  BY <1>1, <1>2, <1>3, <1>4 DEF OrderUndisturbed
<1> QED
  BY <1>1, <1>5 DEF Undisturbed

\* A validation as it is loaded.
LEMMA LoadsUndisturbed ==
  ASSUME IInv, Peaceful, NEW w \in Workers, NEW e \in Entries, LoadValidate(w, e)
  PROVE  \E q : Moves(w, q) /\ Undisturbed(q)
<1>1. PICK q : /\ Moves(w, q) /\ q.kind = "validate" /\ q.entry = e /\ q.locks = {}
               /\ q.order = entry[e].order /\ q.head = HeadOf(e)
               /\ q.row.status = Outcome(e) /\ q.row.bottles = entry[e].bottles
               /\ q.row.order = entry[e].order
               /\ q.row.consumed = IF Outcome(e) = "STOCK_CONSUMED" THEN entry[e].bottles
                                   ELSE entry[e].consumed
  BY ValidateMoves
<1>2. entry[e].status = "DRAFT"
  BY DEF LoadValidate
<1>3. q.row.consumed = Consumption(q.row)
  <2>1. entry[e].consumed = 0
    BY <1>2 DEF Peaceful, Consumption
  <2> QED
    BY <1>1, <2>1 DEF Consumption
<1>4. ASSUME q.order # NoOrder PROVE OrderUndisturbed(q)
  <2>1. q.order \in Orders /\ q.head = order[q.order] /\ order[q.order].status \notin Gone
    <3>1. entry[e].order \in Orders \union {NoOrder}
      BY RowTypes DEF IInv, TypeOK
    <3> QED
      BY <1>1, <1>2, <1>4, <3>1 DEF HeadOf, IInv, RowsOK, Gone
  <2>2. q.head.status \in OrderStatus
    BY <2>1, HeadTypes DEF IInv, TypeOK
  <2>3. Seen(q) = entry
    BY <1>1 DEF Seen, IInv, TypeOK
  <2>4. ReservationLock(q) \notin q.locks
    BY <1>1
  <2>5. order[q.order].status = "DONE" => Produced(q.order, entry) >= order[q.order].quantity
    BY <2>1 DEF Peaceful, DoneIsProduced
  <2> QED
    BY <2>1, <2>2, <2>3, <2>4, <2>5 DEF OrderUndisturbed
<1>5. Undisturbed(q)
  BY <1>1, <1>3, <1>4 DEF Undisturbed
<1> QED
  BY <1>1, <1>5

LEMMA StepUndisturbed ==
  ASSUME IInv, Peaceful, NEW w \in Workers, Step(w), ~Commit(w)
  PROVE  \E q : Moves(w, q) /\ Undisturbed(q)
<1>1. PICK r : r = tx[w]
  OBVIOUS
<1>2. Shape(r) /\ Fits(r) /\ Undisturbed(r) /\ r.kind \in {"none", "validate"}
  BY <1>1, InState DEF Peaceful, Undisturbed
<1>3. Undisturbed(Idle)
  BY IdleFields DEF Undisturbed
<1>4. ASSUME NEW q, Moves(w, q), Kept(r, q), r.locks \subseteq q.locks, r.kind = "validate",
             ReservationLock(r) \in q.locks => ReservationLock(r) \in r.locks
      PROVE  \E z : Moves(w, z) /\ Undisturbed(z)
  BY <1>2, <1>4, GoesUndisturbed DEF Moves
<1>5. CASE Consume(w)
  <2>1. r.kind = "validate"
    BY <1>1, <1>2, <1>5, KindOf DEF Consume
  <2> QED
    BY <1>1, <1>4, <1>5, <2>1, ConsumeMoves, LocksDiffer DEF ReservationLock
<1>6. CASE AlreadyDrawn(w)
  <2>1. r.kind = "validate"
    BY <1>1, <1>2, <1>6, KindOf DEF AlreadyDrawn
  <2> QED
    BY <1>1, <1>4, <1>6, <2>1, AlreadyMoves
<1>7. CASE SaveEntry(w)
  <2>1. r.kind = "validate"
    BY <1>1, <1>2, <1>7, KindOf DEF SaveEntry
  <2> QED
    BY <1>1, <1>4, <1>7, <2>1, SaveMoves, LocksDiffer DEF ReservationLock, Own
<1>8. CASE BulkGone(w) \/ CommitRefused(w)
  BY <1>3, <1>8, RollbackMoves DEF BulkGone, CommitRefused
<1>9. CASE Advance(w)
  <2>1. r.pc = "advance"
    BY <1>1, <1>9 DEF Advance
  <2>2. PICK q : /\ Moves(w, q) /\ Further(r, q)
                 /\ q.row = r.row /\ q.locks = r.locks
                 /\ q.head.status = Reached(w)
                 /\ q.head.quantity = r.head.quantity /\ q.head.recipe = r.head.recipe
    BY <1>1, <1>9, AdvanceMoves
  <2>3. Undisturbed(q)
    BY <1>1, <1>2, <2>1, <2>2, AdvancesUndisturbed DEF Moves
  <2> QED
    BY <2>2, <2>3
<1>10. CASE SaveStatus(w)
  <2>1. r.kind = "validate"
    BY <1>1, <1>2, <1>10, KindOf DEF SaveStatus
  <2> QED
    BY <1>1, <1>3, <1>4, <1>10, <2>1, StatusMoves, LocksDiffer DEF ReservationLock, OrderLock
<1>11. ASSUME r.pc \in Syncing
       PROVE  /\ r.kind = "validate" /\ r.order \in Orders
              /\ ReservationLock(r) \notin r.locks
  BY <1>1, <1>2, <1>11, KindOf, SyncsOrder
<1>12. ASSUME r.pc \in Syncing, NEW q, Moves(w, q), Further(r, q), q.row = r.row, q.head = r.head,
              q.keep = Need(r), q.locks = r.locks \union {ReservationLock(r)}
       PROVE  \E z : Moves(w, z) /\ Undisturbed(z)
  BY <1>2, <1>11, <1>12, KeepsUndisturbed
<1>13. CASE Sync(w)
  <2>1. r.pc \in Syncing
    BY <1>1, <1>13 DEF Sync, Syncing
  <2> QED
    BY <1>1, <1>12, <1>13, <2>1, SyncMoves
<1>14. CASE SyncWaits(w) \/ SyncNothing(w)
  <2>1. r.pc \in Syncing
    BY <1>1, <1>14 DEF SyncWaits, SyncNothing, Syncing
  <2> QED
    BY <1>1, <1>4, <1>11, <1>14, <2>1, WaitMoves, NothingMoves
<1>15. CASE SyncBeaten(w)
  <2>1. r.pc \in Syncing
    BY <1>1, <1>15 DEF SyncBeaten, Syncing
  <2>2. CASE Moves(w, Idle)
    BY <1>3, <2>2
  <2>3. CASE \E q : /\ Moves(w, q) /\ Kept(r, q) /\ q.pc = "commit" /\ q.locks = r.locks
    BY <1>4, <1>11, <2>1, <2>3
  <2>4. CASE \E q : /\ Moves(w, q) /\ Further(r, q)
                    /\ q.row = r.row /\ q.head = r.head /\ q.keep = Need(r)
                    /\ q.pc = "commit" /\ q.locks = r.locks \union {ReservationLock(r)}
    BY <1>12, <2>1, <2>4
  <2> QED
    BY <1>1, <1>15, <2>2, <2>3, <2>4, BeatenMoves
<1>16. ~BulkLookUp(w) /\ ~BulkWrite(w) /\ ~SaveOrder(w) /\ ~Cascade(w)
  BY <1>1, <1>2, KindOf DEF BulkLookUp, BulkWrite, SaveOrder, Cascade
<1> QED
  BY <1>5, <1>6, <1>7, <1>8, <1>9, <1>10, <1>13, <1>14, <1>15, <1>16 DEF Step

\* A step in memory.
LEMMA PeacefulMove ==
  ASSUME IInv, Peaceful, NEW w \in Workers, NEW q, Moves(w, q), Undisturbed(q)
  PROVE  Peaceful'
<1>1. UNCHANGED <<entry, order, reserved, drawn>> /\ tx' = [tx EXCEPT ![w] = q]
  BY DEF Moves, Continue
<1>2. tx'[w] = q /\ \A v \in Workers : v # w => tx'[v] = tx[v]
  BY <1>1, Others DEF IInv
<1>3. ASSUME NEW v \in Workers PROVE Undisturbed(tx[v])'
  <2>1. PICK r : r = tx'[v]
    OBVIOUS
  <2>2. Undisturbed(r)
    BY <1>2, <2>1 DEF Peaceful
  <2>3. Undisturbed(r)'
    BY <1>1, <2>2 DEF Undisturbed, OrderUndisturbed, Outcome, Seen, Wants
  <2> QED
    BY <2>1, <2>3
<1>4. Books' /\ DoneIsProduced'
  BY <1>1 DEF Peaceful, Books, ConsumedIsProduced, DrawnIsRecorded, DoneIsProduced
<1>5. \A e \in Entries : /\ (entry[e].status \in {"absent", "DRAFT", Outcome(e)})'
                         /\ (entry[e].consumed = Consumption(entry[e]))'
  BY <1>1 DEF Peaceful, Outcome
<1>6. \A o \in Orders : (order[o].status # "absent" => reserved[o] >= Wants(o, entry))'
  BY <1>1 DEF Peaceful, Wants
<1> QED
  BY <1>3, <1>4, <1>5, <1>6 DEF Peaceful

\* What is seen after a step.
LEMMA SeenNext ==
  ASSUME IInv', NEW r, Shape(r), Fits(r)', NEW more, more = Seen(r)'
  PROVE  /\ IsFiniteSet(Recorded') /\ Within(more, Recorded')
         /\ \A o : Produced(o, more) \in Nat
<1>1. ASSUME NEW e \in Entries
      PROVE  /\ more[e].bottles \in Nat
             /\ more[e].status \in Validated => e \in Recorded'
  <2>1. entry'[e] \in EntryRow /\ r.row \in EntryRow
    BY RequestTypes DEF IInv, TypeOK, Shape
  <2>2. more[e] = IF <<"entry", e>> \in r.locks THEN r.row ELSE entry'[e]
    BY DEF Seen
  <2>3. <<"entry", e>> \in r.locks => e \in Recorded'
    BY DEF Fits, Recorded
  <2>4. entry'[e].status \in Validated => e \in Recorded'
    BY DEF Recorded, Validated
  <2> QED
    BY <2>1, <2>2, <2>3, <2>4, RowTypes
<1>2. IsFiniteSet(Recorded')
  BY DEF IInv, RowsOK
<1>3. Within(more, Recorded')
  BY <1>1 DEF Within
<1> QED
  BY <1>2, <1>3, ProducedType

LEMMA EntryNext ==
  ASSUME IInv'
  PROVE  /\ IsFiniteSet(Recorded') /\ Within(entry', Recorded')
         /\ \A o : Produced(o, entry') \in Nat
<1>1. ASSUME NEW e \in Entries
      PROVE  /\ entry'[e].bottles \in Nat
             /\ entry'[e].status \in Validated => e \in Recorded'
  <2>1. entry'[e] \in EntryRow
    BY DEF IInv, TypeOK
  <2> QED
    BY <2>1, RowTypes DEF Recorded, Validated
<1>2. IsFiniteSet(Recorded')
  BY DEF IInv, RowsOK
<1>3. Within(entry', Recorded')
  BY <1>1 DEF Within
<1> QED
  BY <1>2, <1>3, ProducedType

\* Rows that grew, and an order that is the same but for its status.
SameOrder(o) == order'[o].quantity = order[o].quantity /\ order'[o].recipe = order[o].recipe

LEMMA RowsMore ==
  ASSUME IInv, NEW rows, NEW more, NEW S, IsFiniteSet(S), Within(more, S), Grows(rows, more),
         NEW o \in Orders, SameOrder(o), NEW T, IsFiniteSet(T), Within(rows, T)
  PROVE  /\ Produced(o, rows) \in Nat /\ Produced(o, more) \in Nat
         /\ Produced(o, rows) <= Produced(o, more)
         /\ Wants(o, rows) \in Nat
         /\ (IF order'[o].recipe THEN Rest(order'[o].quantity, Produced(o, more)) ELSE 0) \in Nat
         /\ (IF order'[o].recipe THEN Rest(order'[o].quantity, Produced(o, more)) ELSE 0)
              <= Wants(o, rows)
<1>1. PICK m \in Nat, n \in Nat : m = Produced(o, rows) /\ n = Produced(o, more)
  BY ProducedType
<1>2. m <= n
  BY <1>1, ProducedGrows
<1>3. PICK quantity \in Nat : quantity = order[o].quantity
  BY HeadTypes DEF IInv, TypeOK
<1>4. /\ Rest(quantity, m) \in Nat /\ Rest(quantity, n) \in Nat
      /\ Rest(quantity, n) <= Rest(quantity, m)
  BY <1>2, RestIs, RestShrinks
<1> QED
  BY <1>1, <1>2, <1>3, <1>4 DEF Wants, SameOrder

\* A validation that others do not disturb.
LEMMA UndisturbedStays ==
  ASSUME IInv, IInv', NEW r, Shape(r), Fits(r), Fits(r)', Undisturbed(r),
         r.kind = "validate" =>
           /\ entry'[r.entry].bottles = entry[r.entry].bottles
           /\ entry'[r.entry].order = entry[r.entry].order,
         r.kind = "validate" /\ r.order # NoOrder => SameOrder(r.order),
         Grows(Seen(r), Seen(r)')
  PROVE  Undisturbed(r)'
<1>1. CASE r.kind # "validate"
  BY <1>1 DEF Undisturbed
<1>2. CASE r.kind = "validate"
  <2>1. r.order = entry[r.entry].order /\ r.order \in Orders \union {NoOrder}
    BY <1>2, RequestTypes DEF Undisturbed, Shape
  <2>2. Outcome(r.entry)' = Outcome(r.entry)
    BY <1>2, <2>1 DEF Outcome, SameOrder
  <2>3. ASSUME r.order # NoOrder PROVE OrderUndisturbed(r)'
    <3>1. PICK o \in Orders : o = r.order
      BY <2>1, <2>3
    <3>2. OrderUndisturbed(r) /\ SameOrder(o)
      BY <1>2, <2>3, <3>1 DEF Undisturbed
    <3>3. PICK rows, more : rows = Seen(r) /\ more = Seen(r)'
      OBVIOUS
    <3>4. /\ IsFiniteSet(Recorded') /\ Within(more, Recorded')
          /\ IsFiniteSet(Recorded) /\ Within(rows, Recorded)
      BY <3>3, SeenNext, SeenWithin DEF IInv, RowsOK, Shape
    <3>5. PICK m \in Nat, n \in Nat : m = Produced(o, rows) /\ n = Produced(o, more) /\ m <= n
      BY <3>2, <3>3, <3>4, RowsMore
    <3>6. PICK a \in Nat, b \in Nat :
            /\ a = Wants(o, rows) /\ b <= a
            /\ b = IF order'[o].recipe THEN Rest(order'[o].quantity, Produced(o, more)) ELSE 0
      BY <3>2, <3>3, <3>4, RowsMore
    <3>7. order[o].quantity \in Nat /\ r.keep \in Nat
      BY HeadTypes, RequestTypes DEF IInv, TypeOK, Shape
    <3>8. /\ r.head.quantity = order[o].quantity
          /\ r.head.recipe = order[o].recipe
          /\ r.head.status \in OrderStatus
          /\ r.head.status = "DONE" => m >= order[o].quantity
          /\ ReservationLock(r) \in r.locks => r.keep >= a
      BY <3>1, <3>2, <3>3, <3>5, <3>6 DEF OrderUndisturbed
    <3>9. r.head.status = "DONE" => n >= order[o].quantity
      BY <3>5, <3>7, <3>8
    <3>10. ReservationLock(r) \in r.locks => r.keep >= b
      BY <3>6, <3>7, <3>8
    <3>11. r.head.status = "DONE" => Produced(r.order, Seen(r)') >= order'[r.order].quantity
      BY <3>1, <3>2, <3>3, <3>5, <3>9 DEF SameOrder
    <3>12. Wants(r.order, Seen(r))' = b
      BY <3>1, <3>3, <3>6 DEF Wants
    <3> QED
      BY <3>1, <3>2, <3>8, <3>10, <3>11, <3>12 DEF OrderUndisturbed, SameOrder
  <2> QED
    BY <1>2, <2>1, <2>2, <2>3 DEF Undisturbed
<1> QED
  BY <1>1, <1>2

\* While there are validations alone, no entry is deleted and no order of one is gone.
LEMMA PeacefulLinks ==
  ASSUME IInv, Peaceful, NEW e \in Entries, entry[e].order # NoOrder
  PROVE  /\ entry[e].status \in EntryStatus
         /\ entry[e].order \in Orders /\ order[entry[e].order].status \in OrderStatus
<1>1. entry[e].status # "absent"
  BY NoRows DEF IInv, RowsOK
<1>2. entry[e].status \in EntryStatus
  BY <1>1 DEF Peaceful, Outcome, EntryStatus, Validated
<1>3. entry[e].order \in Orders
  BY RowTypes DEF IInv, TypeOK
<1>4. order[entry[e].order].status \notin Gone
  BY <1>2 DEF IInv, RowsOK, EntryStatus, Validated, Gone
<1>5. order[entry[e].order].status \in OrderStatus \union Gone
  BY <1>3, HeadTypes DEF IInv, TypeOK
<1> QED
  BY <1>2, <1>3, <1>4, <1>5

LEMMA CreateOrderPeaceful ==
  ASSUME IInv, Peaceful, NEW o \in Orders, CreateOrder(o)
  PROVE  Peaceful'
<1>1. PICK head \in OrderRow :
           /\ order' = [order EXCEPT ![o] = head]
           /\ head.status = "QUEUED" /\ order[o].status = "absent"
           /\ reserved' = [reserved EXCEPT ![o] = IF head.recipe THEN head.quantity ELSE 0]
           /\ UNCHANGED <<entry, drawn, tx>>
  BY CreateOrderFacts
<1>2. /\ \A p \in Orders : order'[p] = IF p = o THEN head ELSE order[p]
      /\ \A p \in Orders : p # o => SameOrder(p) /\ reserved'[p] = reserved[p]
  BY <1>1 DEF IInv, TypeOK, SameOrder
<1>3. IInv'
  BY CreateOrderInvariant
<1>4. \A e \in Entries : entry[e].order # o
  BY <1>1, PeacefulLinks, NullAssumption DEF OrderStatus, Open
<1>5. \A e \in Entries : Outcome(e)' = Outcome(e)
  <2>1. ASSUME NEW e \in Entries PROVE Outcome(e)' = Outcome(e)
    <3>1. entry[e].order \in Orders \union {NoOrder}
      BY RowTypes DEF IInv, TypeOK
    <3> QED
      BY <1>1, <1>2, <1>4, <3>1 DEF Outcome
  <2> QED
    BY <2>1
<1>6. ASSUME NEW v \in Workers PROVE Undisturbed(tx[v])'
  <2>1. PICK r : r = tx[v]
    OBVIOUS
  <2>2. /\ Shape(r) /\ Fits(r) /\ Undisturbed(r)
    BY <2>1 DEF Peaceful, IInv, RequestsOK
  <2>3. Fits(r)'
    BY <1>1, <2>2, FitsStay
  <2>4. Grows(Seen(r), Seen(r)')
    BY <1>1 DEF Grows, Seen
  <2>5. r.kind = "validate" /\ r.order # NoOrder => SameOrder(r.order)
    <3>1. r.kind = "validate" => r.entry \in Entries /\ r.order = entry[r.entry].order
      BY <2>2 DEF Shape, ValidationShape, Undisturbed
    <3>2. r.order \in Orders \union {NoOrder}
      BY <2>2, RequestTypes DEF Shape
    <3> QED
      BY <1>2, <1>4, <3>1, <3>2
  <2>6. Undisturbed(r)'
    BY <1>1, <1>3, <2>2, <2>3, <2>4, <2>5, UndisturbedStays
  <2> QED
    BY <1>1, <2>1, <2>6
<1>7. Books'
  BY <1>1 DEF Peaceful, Books, ConsumedIsProduced, DrawnIsRecorded
<1>8. DoneIsProduced'
  BY <1>1, <1>2 DEF Peaceful, DoneIsProduced
<1>9. ASSUME NEW p \in Orders, order'[p].status # "absent"
      PROVE  reserved'[p] >= Wants(p, entry)'
  <2>1. CASE p # o
    BY <1>1, <1>2, <1>9, <2>1 DEF Peaceful, Wants
  <2>2. CASE p = o
    <3>1. head.quantity \in Nat /\ Produced(o, entry) \in Nat
      BY EntryProduced, HeadTypes DEF IInv
    <3>2. Rest(head.quantity, Produced(o, entry)) \in Nat
          /\ Rest(head.quantity, Produced(o, entry)) <= head.quantity
      BY <3>1, RestIs
    <3>3. Wants(o, entry)' = IF head.recipe THEN Rest(head.quantity, Produced(o, entry)) ELSE 0
      BY <1>1, <1>2 DEF Wants
    <3>4. reserved'[o] = IF head.recipe THEN head.quantity ELSE 0
      BY <1>1 DEF IInv, TypeOK
    <3> QED
      BY <2>2, <3>1, <3>2, <3>3, <3>4
  <2> QED
    BY <2>1, <2>2
<1> QED
  BY <1>1, <1>5, <1>6, <1>7, <1>8, <1>9 DEF Peaceful

LEMMA CreateEntryPeaceful ==
  ASSUME IInv, Peaceful, NEW e \in Entries, CreateEntry(e)
  PROVE  Peaceful'
<1>1. PICK row \in EntryRow :
           /\ entry' = [entry EXCEPT ![e] = row]
           /\ row.status = "DRAFT" /\ row.consumed = 0 /\ entry[e] = NoRow
           /\ row.order # NoOrder => order[row.order].status \notin Gone
           /\ UNCHANGED <<order, reserved, drawn, tx>>
  BY CreateEntryFacts
<1>2. \A f \in Entries : entry'[f] = IF f = e THEN row ELSE entry[f]
  BY <1>1 DEF IInv, TypeOK
<1>3. IInv'
  BY CreateEntryInvariant
<1>4. Grows(entry, entry')
  BY <1>1, <1>2, NoRows DEF Grows, Validated
<1>5. \A o \in Orders : SameOrder(o)
  BY <1>1 DEF SameOrder
<1>6. ASSUME NEW v \in Workers PROVE Undisturbed(tx[v])'
  <2>1. PICK r : r = tx[v]
    OBVIOUS
  <2>2. /\ Shape(r) /\ Fits(r) /\ Undisturbed(r)
    BY <2>1 DEF Peaceful, IInv, RequestsOK
  <2>3. Fits(r)'
    BY <1>1, <1>2, <2>2, FitsGrows
  <2>4. Grows(Seen(r), Seen(r)')
    BY <1>4 DEF Grows, Seen
  <2>5. r.kind = "validate" => r.entry \in Entries /\ r.entry # e
    BY <1>1, <2>2, NoRows DEF Fits, ByEntry, Shape, ValidationShape
  <2>6. r.kind = "validate" /\ r.order # NoOrder => SameOrder(r.order)
    BY <1>5, <2>2, RequestTypes DEF Shape
  <2>7. r.kind = "validate" =>
           /\ entry'[r.entry].bottles = entry[r.entry].bottles
           /\ entry'[r.entry].order = entry[r.entry].order
    BY <1>2, <2>5
  <2>8. Undisturbed(r)'
    BY <1>3, <2>2, <2>3, <2>4, <2>6, <2>7, UndisturbedStays
  <2> QED
    BY <1>1, <2>1, <2>8
<1>7. Books'
  <2>1. drawn[e] = 0
    BY <1>1, NoRows DEF Peaceful, Books, DrawnIsRecorded, IInv, TypeOK
  <2> QED
    BY <1>1, <1>2, <2>1 DEF Peaceful, Books, ConsumedIsProduced, DrawnIsRecorded
<1>8. ASSUME NEW o \in Orders
      PROVE  /\ Produced(o, entry) \in Nat /\ Produced(o, entry') \in Nat
             /\ Produced(o, entry) <= Produced(o, entry')
             /\ Wants(o, entry) \in Nat /\ Wants(o, entry)' \in Nat
             /\ Wants(o, entry)' <= Wants(o, entry)
  <2>1. /\ IsFiniteSet(Recorded') /\ Within(entry', Recorded')
        /\ IsFiniteSet(Recorded) /\ Within(entry, Recorded)
    BY <1>3, EntryNext, EntryWithin DEF IInv, RowsOK
  <2> QED
    BY <1>4, <1>5, <2>1, RowsMore DEF Wants
<1>9. DoneIsProduced'
  <2>1. \A o \in Orders : order[o].quantity \in Nat
    BY HeadTypes DEF IInv, TypeOK
  <2>2. ASSUME NEW o \in Orders, order[o].status = "DONE"
        PROVE  Produced(o, entry') >= order[o].quantity
    BY <1>8, <2>1, <2>2 DEF Peaceful, DoneIsProduced
  <2> QED
    BY <1>1, <2>2 DEF DoneIsProduced
<1>10. ASSUME NEW o \in Orders, order'[o].status # "absent"
       PROVE  reserved'[o] >= Wants(o, entry)'
  <2>1. reserved[o] \in Nat /\ reserved[o] >= Wants(o, entry)
    BY <1>1, <1>10 DEF Peaceful, IInv, TypeOK
  <2>2. PICK a \in Nat, b \in Nat : a = Wants(o, entry) /\ b = Wants(o, entry)' /\ b <= a
    BY <1>8
  <2>3. reserved[o] >= b
    BY <2>1, <2>2
  <2> QED
    BY <1>1, <2>2, <2>3
<1>11. \A f \in Entries : /\ (entry[f].status \in {"absent", "DRAFT", Outcome(f)})'
                          /\ (entry[f].consumed = Consumption(entry[f]))'
  BY <1>1, <1>2 DEF Peaceful, Outcome, Consumption
<1> QED
  BY <1>6, <1>7, <1>9, <1>10, <1>11 DEF Peaceful

\* What the commit of a validation leaves of the entries and the orders.
LEMMA CommitFacts ==
  ASSUME IInv, Peaceful, NEW w \in Workers, Commit(w), NEW r, r = tx[w]
  PROVE  /\ Shape(r) /\ Fits(r) /\ r.kind = "validate" /\ r.entry \in Entries
         /\ Undisturbed(r) /\ Own(r) \in r.locks
         /\ entry' = Seen(r)
         /\ \A e \in Entries : entry'[e] = IF e = r.entry THEN r.row ELSE entry[e]
         /\ \A e \in Entries : /\ entry'[e].bottles = entry[e].bottles
                               /\ entry'[e].order = entry[e].order
                               /\ Outcome(e)' = Outcome(e)
         /\ Grows(entry, entry')
         /\ \A o \in Orders : SameOrder(o)
         /\ \A o \in Orders :
              \/ order'[o].status = order[o].status
              \/ /\ o = r.order /\ r.order # NoOrder
                 /\ order'[o].status = r.head.status
                 /\ order[o].status # "absent"
<1>1. /\ r \in Request /\ Shape(r) /\ Fits(r) /\ r.pc = "commit"
      /\ \A e \in Entries : entry'[e] = Left(r, e)
      /\ entry' \in [Entries -> EntryRow]
  BY CommitEntries
<1>2. r.kind = "validate" /\ Undisturbed(r)
  BY <1>1, KindOf DEF Peaceful, Undisturbed
<1>3. /\ r.entry \in Entries /\ Own(r) \in r.locks /\ r.row.status \in Validated
      /\ r.locks \subseteq {StockLock, Own(r), OrderLock(r), ReservationLock(r)}
      /\ r.order = NoOrder => r.locks \subseteq {StockLock, Own(r)}
  BY <1>1, <1>2 DEF Shape, ValidationShape
<1>4. \A e \in Entries : Left(r, e) = Seen(r)[e]
  BY <1>2 DEF Left, Seen
<1>5. entry' = Seen(r)
  BY <1>1, <1>4 DEF Seen
<1>6. \A e \in Entries : <<"entry", e>> \in r.locks <=> e = r.entry
  <2>1. ASSUME NEW e \in Entries, <<"entry", e>> \in r.locks PROVE e = r.entry
    BY <1>3, <2>1, LocksDiffer DEF Own, OrderLock, ReservationLock
  <2> QED
    BY <1>3, <2>1 DEF Own
<1>7. \A e \in Entries : entry'[e] = IF e = r.entry THEN r.row ELSE entry[e]
  BY <1>1, <1>2, <1>6 DEF Left
<1>8. \A e \in Entries : /\ entry'[e].bottles = entry[e].bottles
                         /\ entry'[e].order = entry[e].order
  BY <1>2, <1>7 DEF Undisturbed
<1>9. ASSUME NEW o \in Orders
      PROVE  /\ SameOrder(o)
             /\ \/ order'[o].status = order[o].status
                \/ /\ o = r.order /\ r.order # NoOrder
                   /\ order'[o].status = r.head.status
                   /\ order[o].status # "absent"
  <2>1. order'[o] = IF <<"order", o>> \notin r.locks THEN order[o]
                    ELSE Restated(order[o], r.head.status)
    BY <1>2, CommitOrders
  <2>2. CASE <<"order", o>> \notin r.locks
    BY <2>1, <2>2 DEF SameOrder
  <2>3. CASE <<"order", o>> \in r.locks
    <3>1. o = r.order /\ r.order # NoOrder
      BY <1>3, <2>3, LocksDiffer DEF Own, OrderLock, ReservationLock
    <3>2. r.head.status \in OrderStatus \union Gone /\ order[o] \in OrderRow
      BY <1>1, RequestTypes, HeadTypes DEF IInv, TypeOK
    <3>3. /\ order'[o].status = r.head.status
          /\ order'[o].quantity = order[o].quantity /\ order'[o].recipe = order[o].recipe
      BY <2>1, <2>3, <3>2, RestatedHead
    <3>4. order[o].status # "absent"
      BY <1>2, <1>3, <3>1, PeacefulLinks DEF Undisturbed, OrderStatus, Open
    <3> QED
      BY <3>1, <3>3, <3>4 DEF SameOrder
  <2> QED
    BY <2>2, <2>3
<1>10. ASSUME NEW e \in Entries PROVE Outcome(e)' = Outcome(e)
  <2>1. entry[e].order \in Orders \union {NoOrder}
    BY RowTypes DEF IInv, TypeOK
  <2> QED
    BY <1>8, <1>9, <2>1 DEF Outcome, SameOrder
<1>11. Grows(entry, entry')
  BY <1>3, <1>7, <1>8 DEF Grows
<1> QED
  BY <1>1, <1>2, <1>3, <1>5, <1>7, <1>8, <1>9, <1>10, <1>11

LEMMA CommitPeaceful ==
  ASSUME IInv, Peaceful, NEW w \in Workers, Commit(w)
  PROVE  Peaceful'
<1>1. PICK r : r = tx[w]
  OBVIOUS
<1>2. /\ Shape(r) /\ Fits(r) /\ r.kind = "validate" /\ r.entry \in Entries
      /\ Undisturbed(r) /\ Own(r) \in r.locks
      /\ entry' = Seen(r)
      /\ \A e \in Entries : entry'[e] = IF e = r.entry THEN r.row ELSE entry[e]
      /\ \A e \in Entries : /\ entry'[e].bottles = entry[e].bottles
                            /\ entry'[e].order = entry[e].order
                            /\ Outcome(e)' = Outcome(e)
      /\ Grows(entry, entry')
      /\ \A o \in Orders : SameOrder(o)
      /\ \A o \in Orders :
           \/ order'[o].status = order[o].status
           \/ /\ o = r.order /\ r.order # NoOrder
              /\ order'[o].status = r.head.status
              /\ order[o].status # "absent"
  BY <1>1, CommitFacts
<1>3. IInv'
  BY CommitInvariant
<1>4. ASSUME NEW v \in Workers PROVE Undisturbed(tx[v])'
  <2>1. PICK q : q = tx'[v]
    OBVIOUS
  <2>2. CASE v = w
    <3>1. q.kind = "none"
      BY <2>1, <2>2, CommitOthers, IdleFields
    <3>2. Undisturbed(q)'
      BY <3>1 DEF Undisturbed
    <3> QED
      BY <2>1, <3>2
  <2>3. CASE v # w
    <3>1. PICK s : s = tx[v]
      OBVIOUS
    <3>2. /\ Shape(s) /\ Fits(s) /\ Undisturbed(s) /\ Shape(q) /\ Kept(s, q) /\ q.locks = s.locks
          /\ q.pc = s.pc \/ (s.pc = "syncing" /\ q.pc = "beaten")
      BY <2>1, <2>3, <3>1, CommitRequests DEF Peaceful
    <3>3. Fits(q)
      BY <3>2 DEF Fits, Kept, Further
    <3>4. /\ q.kind = s.kind /\ q.entry = s.entry /\ q.order = s.order
          /\ ReservationLock(q) = ReservationLock(s)
      BY <3>2 DEF Kept, Further, ReservationLock
    <3>5. Undisturbed(q)
      BY <3>2, <3>3, <3>4, GoesUndisturbed DEF Undisturbed
    <3>6. Fits(q)'
      BY <2>1, CommitKeeps
    <3>7. Grows(Seen(q), Seen(q)')
      <4>1. \A e \in Entries : /\ Seen(q)[e] = IF <<"entry", e>> \in q.locks THEN q.row ELSE entry[e]
                               /\ Seen(q)'[e] = IF <<"entry", e>> \in q.locks THEN q.row ELSE entry'[e]
        BY DEF Seen
      <4>2. \A e \in Entries : entry[e].status \in Validated =>
              entry'[e].status \in Validated /\ entry'[e].bottles = entry[e].bottles
              /\ entry'[e].order = entry[e].order
        BY <1>2 DEF Grows
      <4> QED
        BY <4>1, <4>2 DEF Grows
    <3>8. q.kind = "validate" => q.entry \in Entries
      BY <3>2 DEF Shape, ValidationShape
    <3>9. q.kind = "validate" /\ q.order # NoOrder => SameOrder(q.order)
      BY <1>2, <3>2, RequestTypes DEF Shape
    <3>10. Undisturbed(q)'
      BY <1>2, <1>3, <3>2, <3>3, <3>5, <3>6, <3>7, <3>8, <3>9, UndisturbedStays
    <3> QED
      BY <2>1, <3>10
  <2> QED
    BY <2>2, <2>3
<1>5. ASSUME NEW e \in Entries
      PROVE  /\ entry'[e].status \in {"absent", "DRAFT", Outcome(e)'}
             /\ entry'[e].consumed = Consumption(entry'[e])
  BY <1>2 DEF Peaceful, Undisturbed
<1>6. Books'
  <2>1. /\ StockLock \notin r.locks => drawn' = drawn
        /\ StockLock \in r.locks =>
              /\ r.row.status = "STOCK_CONSUMED" /\ drawn[r.entry] = 0
              /\ \A e \in Entries : drawn'[e] = IF e = r.entry THEN r.row.consumed ELSE drawn[e]
    BY <1>1, CommitDraws
  <2>2. /\ r.row.bottles = entry[r.entry].bottles /\ r.row.status = Outcome(r.entry)
        /\ r.row.consumed = Consumption(r.row)
    BY <1>2 DEF Undisturbed
  <2>3. ASSUME NEW e \in Entries, entry'[e].status = "STOCK_CONSUMED"
        PROVE  entry'[e].consumed = entry'[e].bottles /\ drawn'[e] = entry'[e].bottles
    <3>1. CASE e # r.entry
      BY <1>2, <2>1, <2>3, <3>1 DEF Peaceful, Books, ConsumedIsProduced
    <3>2. CASE e = r.entry /\ StockLock \in r.locks
      BY <1>2, <2>1, <2>2, <2>3, <3>2 DEF Consumption
    <3>3. CASE e = r.entry /\ StockLock \notin r.locks
      <4>1. r.row.status = "STOCK_CONSUMED" /\ r.pc # "consume"
        BY <1>1, <1>2, <2>3, <3>3 DEF Commit
      <4>2. drawn[e] > 0
        BY <1>2, <3>3, <4>1 DEF Fits
      <4>3. drawn[e] = entry[e].bottles
        BY <4>2 DEF Peaceful, Books, DrawnIsRecorded, ConsumedIsProduced
      <4> QED
        BY <1>2, <2>1, <2>2, <2>3, <3>3, <4>1, <4>3 DEF Consumption
    <3> QED
      BY <3>1, <3>2, <3>3
  <2>4. ASSUME NEW e \in Entries, drawn'[e] > 0
        PROVE  entry'[e].status = "STOCK_CONSUMED"
    <3>1. CASE e = r.entry /\ StockLock \in r.locks
      BY <1>2, <2>1, <3>1
    <3>2. CASE e # r.entry \/ StockLock \notin r.locks
      <4>1. drawn[e] > 0
        BY <2>1, <2>4, <3>2
      <4>2. entry[e].status = "STOCK_CONSUMED"
        BY <4>1 DEF Peaceful, Books, DrawnIsRecorded
      <4>3. Outcome(e) = "STOCK_CONSUMED"
        BY <4>2 DEF Peaceful
      <4> QED
        BY <1>2, <2>2, <4>2, <4>3
    <3> QED
      BY <3>1, <3>2
  <2> QED
    BY <2>3, <2>4 DEF Books, ConsumedIsProduced, DrawnIsRecorded
<1>7. ASSUME NEW o \in Orders
      PROVE  \E m \in Nat, n \in Nat, a \in Nat, b \in Nat :
               /\ m = Produced(o, entry) /\ n = Produced(o, entry') /\ m <= n
               /\ a = Wants(o, entry) /\ b = Wants(o, entry)' /\ b <= a
  <2>1. /\ IsFiniteSet(Recorded') /\ Within(entry', Recorded')
        /\ IsFiniteSet(Recorded) /\ Within(entry, Recorded) /\ SameOrder(o)
    BY <1>2, <1>3, EntryNext, EntryWithin DEF IInv, RowsOK
  <2> QED
    BY <1>2, <2>1, RowsMore DEF Wants
<1>8. \A o \in Orders : order[o].quantity \in Nat /\ order'[o].quantity = order[o].quantity
  BY <1>2, HeadTypes DEF IInv, TypeOK, SameOrder
<1>9. DoneIsProduced'
  <2> SUFFICES ASSUME NEW o \in Orders, order'[o].status = "DONE"
               PROVE  Produced(o, entry') >= order'[o].quantity
    BY DEF DoneIsProduced
  <2>1. PICK m \in Nat, n \in Nat : m = Produced(o, entry) /\ n = Produced(o, entry') /\ m <= n
    BY <1>7
  <2>2. CASE order[o].status = "DONE"
    <3>1. m >= order[o].quantity
      BY <2>1, <2>2 DEF Peaceful, DoneIsProduced
    <3>2. n >= order[o].quantity
      BY <1>8, <2>1, <3>1
    <3> QED
      BY <1>8, <2>1, <3>2
  <2>3. CASE o = r.order /\ r.order # NoOrder /\ r.head.status = "DONE"
    <3>1. Produced(o, Seen(r)) >= order[o].quantity
      BY <1>2, <2>3 DEF Undisturbed, OrderUndisturbed
    <3> QED
      BY <1>2, <1>8, <3>1
  <2> QED
    BY <1>2, <2>2, <2>3
<1>10. ASSUME NEW o \in Orders, order'[o].status # "absent"
       PROVE  reserved'[o] >= Wants(o, entry)'
  <2>1. PICK a \in Nat, b \in Nat : a = Wants(o, entry) /\ b = Wants(o, entry)' /\ b <= a
    BY <1>7
  <2>2. reserved'[o] = IF <<"reservation", o>> \in r.locks THEN r.keep ELSE reserved[o]
    BY <1>1, CommitOrders
  <2>3. CASE <<"reservation", o>> \notin r.locks
    <3>1. order[o].status # "absent"
      BY <1>2, <1>10
    <3>2. reserved[o] >= a /\ reserved[o] \in Nat
      BY <2>1, <3>1 DEF Peaceful, IInv, TypeOK
    <3>3. reserved[o] >= b
      BY <2>1, <3>2
    <3> QED
      BY <2>1, <2>2, <2>3, <3>3
  <2>4. CASE <<"reservation", o>> \in r.locks
    <3>1. o = r.order /\ r.order # NoOrder /\ ReservationLock(r) \in r.locks
      BY <1>2, <2>4, LocksDiffer
      DEF Shape, ValidationShape, Own, OrderLock, ReservationLock
    <3>2. r.keep >= Wants(o, Seen(r))
      BY <1>2, <3>1 DEF Undisturbed, OrderUndisturbed
    <3>3. Wants(o, entry)' = Wants(o, Seen(r))
      BY <1>2 DEF Wants, SameOrder
    <3> QED
      BY <2>2, <2>4, <3>2, <3>3
  <2> QED
    BY <2>3, <2>4
<1> QED
  BY <1>4, <1>5, <1>6, <1>9, <1>10 DEF Peaceful

\* As long as the requests are validations.
LEMMA PeacefulNext ==
  ASSUME IInv, Peaceful, [Next]_vars,
         \A w \in Workers : tx'[w].kind \in {"none", "validate"}
  PROVE  Peaceful'
<1>1. CASE UNCHANGED vars
  <2>1. UNCHANGED <<entry, order, reserved, drawn, tx>>
    BY <1>1 DEF vars
  <2>2. Books' /\ DoneIsProduced'
    BY <2>1 DEF Peaceful, Books, ConsumedIsProduced, DrawnIsRecorded, DoneIsProduced
  <2>3. ASSUME NEW v \in Workers PROVE Undisturbed(tx[v])'
    <3>1. PICK r : r = tx[v]
      OBVIOUS
    <3>2. Undisturbed(r)
      BY <3>1 DEF Peaceful
    <3>3. Undisturbed(r)'
      BY <2>1, <3>2 DEF Undisturbed, OrderUndisturbed, Outcome, Seen, Wants
    <3> QED
      BY <2>1, <3>1, <3>3
  <2>4. /\ \A e \in Entries : /\ (entry[e].status \in {"absent", "DRAFT", Outcome(e)})'
                              /\ (entry[e].consumed = Consumption(entry[e]))'
        /\ \A o \in Orders : (order[o].status # "absent" => reserved[o] >= Wants(o, entry))'
    BY <2>1 DEF Peaceful, Outcome, Wants
  <2> QED
    BY <2>2, <2>3, <2>4 DEF Peaceful
<1>2. ASSUME NEW w \in Workers, NEW q, Moves(w, q), Undisturbed(q) PROVE Peaceful'
  BY <1>2, PeacefulMove
<1>3. ASSUME NEW w \in Workers, Load(w) PROVE Peaceful'
  <2>1. ASSUME NEW q, Moves(w, q) PROVE q.kind \in {"none", "validate"}
    <3>1. tx'[w] = q
      BY <2>1, Others DEF Moves, Continue, IInv
    <3> QED
      BY <3>1
  <2>2. ASSUME NEW e \in Entries, LoadValidate(w, e) PROVE Peaceful'
    BY <1>2, <2>2, LoadsUndisturbed
  <2>3. \A e \in Entries : ~LoadEditEntry(w, e) /\ ~LoadBulk(w, e) /\ ~LoadDeleteEntry(w, e)
    BY <2>1, EditMoves, BulkBegins, DeleteMoves DEF Begun
  <2>4. \A o \in Orders : ~LoadEditOrder(w, o) /\ ~LoadDeleteOrder(w, o)
    BY <2>1, EditOrderMoves, DeleteOrderMoves
  <2> QED
    BY <1>3, <2>2, <2>3, <2>4 DEF Load
<1>4. ASSUME NEW w \in Workers, Abort(w) PROVE Peaceful'
  <2>1. Undisturbed(Idle)
    BY IdleFields DEF Undisturbed
  <2> QED
    BY <1>2, <1>4, <2>1, RollbackMoves DEF Abort
<1>5. ASSUME NEW w \in Workers, Step(w) PROVE Peaceful'
  BY <1>2, <1>5, StepUndisturbed, CommitPeaceful
<1> QED
  BY <1>1, <1>3, <1>4, <1>5, CreateOrderPeaceful, CreateEntryPeaceful DEF Next
-----------------------------------------------------------------------------
(* While requests come one at a time.                                      *)

LEMMA OneAtATime ==
  ASSUME IsFiniteSet(Busy), Cardinality(Busy) <= 1
  PROVE  Alone
<1> SUFFICES ASSUME NEW v \in Workers, NEW w \in Workers,
                    tx[v].kind # "none", tx[w].kind # "none", v # w
             PROVE  FALSE
  BY DEF Alone
<1>1. v \in Busy /\ w \in Busy
  BY DEF Busy
<1>2. w \in Busy \ {v}
  BY <1>1
<1>3. /\ IsFiniteSet(Busy \ {v})
      /\ Cardinality(Busy \ {v}) = Cardinality(Busy) - 1
  BY <1>1, FS_RemoveElement
<1>4. Cardinality(Busy \ {v}) \in Nat /\ Cardinality(Busy) \in Nat
  BY <1>3, FS_CardinalityType
<1>5. Cardinality(Busy \ {v}) = 0
  BY <1>3, <1>4
<1>6. Busy \ {v} = {}
  BY <1>3, <1>5, FS_EmptySet
<1> QED
  BY <1>2, <1>6

\* Nobody else has a lock.
LEMMA AloneFree ==
  ASSUME IInv, Alone, NEW w \in Workers, tx[w].kind # "none", NEW v \in Workers, v # w
  PROVE  tx[v] = Idle /\ tx[v].locks = {}
<1>1. tx[v].kind = "none" /\ Shape(tx[v])
  BY InState DEF Alone
<1> QED
  BY <1>1, IdleFields DEF Shape

LEMMA FreshIdle == Fresh(Idle)
BY IdleFields DEF Fresh, ByEntry

\* A request that is taken up.
LEMMA LoadsFresh ==
  ASSUME IInv, NEW w \in Workers, Load(w)
  PROVE  \E q : Moves(w, q) /\ Fresh(q)
<1>1. ASSUME NEW e \in Entries, LoadValidate(w, e)
      PROVE  \E q : Moves(w, q) /\ Fresh(q)
  <2>1. PICK q : /\ Moves(w, q) /\ q.kind = "validate" /\ q.entry = e /\ q.locks = {}
                 /\ q.order = entry[e].order /\ q.head = HeadOf(e)
                 /\ q.pc \in {"consume", "save"}
                 /\ q.row.status = Outcome(e) /\ q.row.bottles = entry[e].bottles
                 /\ q.row.order = entry[e].order
                 /\ q.row.consumed = IF Outcome(e) = "STOCK_CONSUMED" THEN entry[e].bottles
                                     ELSE entry[e].consumed
    BY <1>1, ValidateMoves
  <2>2. entry[e].status = "DRAFT"
    BY <1>1 DEF LoadValidate
  <2>3. ASSUME q.order # NoOrder PROVE OrderFresh(q)
    <3>1. entry[e].order \in Orders \union {NoOrder}
      BY RowTypes DEF IInv, TypeOK
    <3>2. q.head = order[q.order] /\ order[q.order].status \notin Gone
      BY <2>1, <2>2, <2>3, <3>1 DEF HeadOf, IInv, RowsOK, Gone
    <3> QED
      BY <2>1, <3>2 DEF OrderFresh
  <2>4. Fresh(q)
    BY <2>1, <2>2, <2>3 DEF Fresh
  <2> QED
    BY <2>1, <2>4
<1>2. ASSUME NEW e \in Entries, entry[e].status = "DRAFT", NEW q, Moves(w, q),
             q.kind \in {"edit entry", "delete entry"}, q.pc = "save", q.entry = e
      PROVE  Fresh(q)
  BY <1>2 DEF Fresh
<1>3. ASSUME NEW e \in Entries, LoadEditEntry(w, e)
      PROVE  \E q : Moves(w, q) /\ Fresh(q)
  <2>1. PICK q : Moves(w, q) /\ Begun(q, "edit entry", "save", e)
    BY <1>3, EditMoves
  <2>2. entry[e].status = "DRAFT"
    BY <1>3 DEF LoadEditEntry
  <2> QED
    BY <1>2, <1>3, <2>1, <2>2 DEF Begun
<1>4. ASSUME NEW e \in Entries, LoadBulk(w, e)
      PROVE  \E q : Moves(w, q) /\ Fresh(q)
  <2>1. PICK q : Moves(w, q) /\ Begun(q, "bulk", "lookup", e)
    BY <1>4, BulkBegins
  <2>2. entry[e].status = "absent"
    BY <1>4 DEF LoadBulk
  <2>3. Fresh(q)
    BY <2>1, <2>2 DEF Begun, Fresh
  <2> QED
    BY <2>1, <2>3
<1>5. ASSUME NEW e \in Entries, LoadDeleteEntry(w, e)
      PROVE  \E q : Moves(w, q) /\ Fresh(q)
  <2>1. PICK q : Moves(w, q) /\ Begun(q, "delete entry", "save", e)
    BY <1>5, DeleteMoves
  <2>2. entry[e].status = "DRAFT"
    BY <1>5 DEF LoadDeleteEntry
  <2> QED
    BY <1>2, <1>5, <2>1, <2>2 DEF Begun
<1>6. ASSUME NEW o \in Orders, LoadEditOrder(w, o)
      PROVE  \E q : Moves(w, q) /\ Fresh(q)
  <2>1. PICK q : Moves(w, q) /\ q.kind = "edit order" /\ q.pc = "order" /\ Current(q)
    BY <1>6, EditOrderMoves
  <2>2. Fresh(q)
    BY <2>1 DEF Fresh, ByEntry, Current
  <2> QED
    BY <2>1, <2>2
<1>7. ASSUME NEW o \in Orders, LoadDeleteOrder(w, o)
      PROVE  \E q : Moves(w, q) /\ Fresh(q)
  <2>1. PICK q : /\ Moves(w, q) /\ q.kind = "delete order" /\ q.pc = "cascade" /\ q.locks = {}
    BY <1>7, DeleteOrderMoves
  <2>2. Fresh(q)
    BY <2>1 DEF Fresh, ByEntry
  <2> QED
    BY <2>1, <2>2
<1> QED
  BY <1>1, <1>3, <1>4, <1>5, <1>6, <1>7 DEF Load

\* The same entries are seen, and the same is needed.
LEMMA SameSeen ==
  ASSUME NEW r, NEW q, Further(r, q), q.row = r.row,
         \A e \in Entries : <<"entry", e>> \in q.locks <=> <<"entry", e>> \in r.locks
  PROVE  /\ Seen(q) = Seen(r) /\ (q.head = r.head => Need(q) = Need(r))
<1>1. Seen(q) = Seen(r)
  BY DEF Seen
<1> QED
  BY <1>1 DEF Need, Further

LEMMA ReservingIsNeed ==
  ASSUME NEW r
  PROVE  Reserving(r) <=>
           Need(r) = IF ReservationLock(r) \in r.locks THEN r.keep ELSE reserved[r.order]
BY DEF Reserving, Need

\* The entry of a request is written.
LEMMA SaveFresh ==
  ASSUME IInv, Serial, NEW w \in Workers, SaveEntry(w)
  PROVE  \E q : Moves(w, q) /\ Fresh(q)
<1>1. PICK r : r = tx[w]
  OBVIOUS
<1>2. /\ Shape(r) /\ r.pc = "save" /\ Fresh(r)
      /\ r.kind \in {"validate", "edit entry", "delete entry"}
  BY <1>1, InState, KindOf DEF SaveEntry, Serial
<1>3. PICK q : /\ Moves(w, q) /\ Kept(r, q)
               /\ q.pc = SavedPC(r) /\ q.locks = r.locks \union {Own(r)}
  BY <1>1, SaveMoves
<1>4. q.kind = r.kind /\ q.entry = r.entry /\ q.order = r.order /\ q.row = r.row /\ q.head = r.head
  BY <1>3 DEF Kept, Further
<1>5. CASE r.kind # "validate"
  <2>1. q.pc = "commit"
    BY <1>3, <1>5 DEF SavedPC
  <2>2. Fresh(q)
    BY <1>2, <1>4, <1>5, <2>1 DEF Fresh
  <2> QED
    BY <1>3, <2>2
<1>6. CASE r.kind = "validate"
  <2>1. r.locks \subseteq {StockLock} /\ Own(q) = Own(r)
    BY <1>2, <1>4, <1>6 DEF Shape, ValidationShape, Own
  <2>2. q.locks \subseteq {StockLock, Own(q)}
    BY <1>3, <2>1
  <2>3. ASSUME q.order # NoOrder PROVE OrderFresh(q)
    <3>1. OrderFresh(r) /\ r.head.status = order[r.order].status
      BY <1>2, <1>4, <1>6, <2>3 DEF Fresh, OrderFresh
    <3>2. q.pc = IF order[q.order].status = "DONE" THEN "commit" ELSE "advance"
      BY <1>3, <1>4, <1>6, <2>3, <3>1 DEF SavedPC
    <3> QED
      BY <1>4, <2>2, <3>1, <3>2 DEF OrderFresh
  <2>4. Fresh(q)
    <3>1. q.pc \in {"advance", "commit"}
      BY <1>3 DEF SavedPC
    <3> QED
      BY <1>2, <1>4, <1>6, <2>3, <3>1 DEF Fresh
  <2> QED
    BY <1>3, <2>4
<1> QED
  BY <1>5, <1>6

\* The order of a validation is advanced and written.
LEMMA AdvanceFresh ==
  ASSUME IInv, Serial, NEW w \in Workers, Advance(w)
  PROVE  \E q : Moves(w, q) /\ Fresh(q)
<1>1. PICK r : r = tx[w]
  OBVIOUS
<1>2. /\ Shape(r) /\ Fits(r) /\ r.pc = "advance" /\ Fresh(r) /\ r.kind = "validate"
  BY <1>1, InState, KindOf DEF Advance, Serial
<1>3. PICK q : /\ Moves(w, q) /\ Further(r, q)
               /\ q.row = r.row /\ q.locks = r.locks
               /\ q.pc = IF Reached(w) = r.head.status THEN "sync" ELSE "status"
               /\ q.head.status = Reached(w)
               /\ q.head.quantity = r.head.quantity /\ q.head.recipe = r.head.recipe
  BY <1>1, AdvanceMoves
<1>4. q.kind = r.kind /\ q.entry = r.entry /\ q.order = r.order /\ q.pc \in {"sync", "status"}
  BY <1>3 DEF Further
<1>5. Seen(q) = Seen(r)
  BY <1>3, SameSeen
<1>6. r.order # NoOrder
  BY <1>2, NullAssumption DEF Shape, ValidationShape
<1>7. OrderFresh(r)
  BY <1>2, <1>6 DEF Fresh
<1>8. q.head.status = IF Rest(q.head.quantity, Produced(q.order, Seen(q))) = 0
                      THEN "DONE" ELSE "IN_PROGRESS"
  <2>1. Remaining(w) = Rest(r.head.quantity, Produced(r.order, Seen(r)))
    BY <1>1, <1>2, ToReserveIsNeed DEF IInv
  <2> QED
    BY <1>3, <1>4, <1>5, <2>1 DEF Reached
<1>9. q.pc = "sync" => q.head.status = order[q.order].status
  BY <1>2, <1>3, <1>4, <1>7 DEF OrderFresh
<1>10. order[q.order].status # "DONE" /\ order[q.order].status \notin Gone
       /\ q.head.quantity = order[q.order].quantity /\ q.head.recipe = order[q.order].recipe
  BY <1>2, <1>3, <1>4, <1>7 DEF OrderFresh
<1>11. OrderFresh(q)
  BY <1>4, <1>8, <1>9, <1>10 DEF OrderFresh
<1>12. Fresh(q)
  BY <1>2, <1>3, <1>4, <1>11 DEF Fresh
<1> QED
  BY <1>3, <1>12

LEMMA StatusFresh ==
  ASSUME IInv, Serial, NEW w \in Workers, SaveStatus(w)
  PROVE  \E q : Moves(w, q) /\ Fresh(q)
<1>1. PICK r : r = tx[w]
  OBVIOUS
<1>2. /\ Shape(r) /\ r.pc = "status" /\ Fresh(r) /\ r.kind = "validate"
  BY <1>1, InState, KindOf DEF SaveStatus, Serial
<1>3. CASE Moves(w, Idle)
  BY <1>3, FreshIdle
<1>4. CASE \E q : /\ Moves(w, q) /\ Kept(r, q)
                  /\ q.pc = "sync" /\ q.locks = r.locks \union {OrderLock(r)}
  <2>1. PICK q : /\ Moves(w, q) /\ Kept(r, q)
                 /\ q.pc = "sync" /\ q.locks = r.locks \union {OrderLock(r)}
    BY <1>4
  <2>2. /\ q.kind = r.kind /\ q.entry = r.entry /\ q.order = r.order
        /\ q.row = r.row /\ q.head = r.head /\ OrderLock(q) = OrderLock(r)
    BY <2>1 DEF Kept, Further, OrderLock
  <2>3. Seen(q) = Seen(r)
    BY <2>1, <2>2, LocksDiffer, SameSeen DEF OrderLock, Kept
  <2>4. r.order # NoOrder
    BY <1>2, NullAssumption DEF Shape, ValidationShape
  <2>5. OrderFresh(r) /\ OrderLock(q) \in q.locks
    BY <1>2, <2>1, <2>2, <2>4 DEF Fresh
  <2>6. OrderFresh(q)
    BY <1>2, <2>1, <2>2, <2>3, <2>5 DEF OrderFresh
  <2>7. Fresh(q)
    BY <1>2, <2>1, <2>2, <2>6 DEF Fresh
  <2> QED
    BY <2>1, <2>7
<1> QED
  BY <1>1, <1>3, <1>4, StatusMoves

\* Its reservations.
LEMMA SyncFresh ==
  ASSUME IInv, Serial, NEW w \in Workers, Sync(w) \/ SyncNothing(w)
  PROVE  \E q : Moves(w, q) /\ Fresh(q)
<1>1. PICK r : r = tx[w]
  OBVIOUS
<1>2. /\ Shape(r) /\ Fits(r) /\ Fresh(r) /\ r.pc \in Syncing
  BY <1>1, InState DEF Sync, SyncNothing, Syncing, Serial
<1>3. /\ r.pc = "sync" /\ r.kind \in {"validate", "edit order"}
      /\ r.order \in Orders /\ ReservationLock(r) \notin r.locks
  BY <1>1, <1>2, KindOf, SyncsOrder DEF Fresh, Syncing
<1>4. \E q : /\ Moves(w, q) /\ Further(r, q) /\ q.row = r.row /\ q.head = r.head /\ q.pc = "commit"
             /\ \/ q.locks = r.locks \union {ReservationLock(r)} /\ q.keep = Need(r)
                \/ q.locks = r.locks /\ reserved[r.order] = Need(r)
  <2>1. CASE Sync(w)
    BY <1>1, <2>1, SyncMoves
  <2>2. CASE SyncNothing(w)
    <3>1. reserved[r.order] = Need(r)
      BY <1>1, <1>2, <2>2, ToReserveIsNeed DEF SyncNothing, IInv
    <3> QED
      BY <1>1, <2>2, <3>1, NothingMoves DEF Kept
  <2> QED
    BY <2>1, <2>2
<1>5. PICK q : /\ Moves(w, q) /\ Further(r, q)
               /\ q.row = r.row /\ q.head = r.head /\ q.pc = "commit"
               /\ \/ q.locks = r.locks \union {ReservationLock(r)} /\ q.keep = Need(r)
                  \/ q.locks = r.locks /\ reserved[r.order] = Need(r)
  BY <1>4
<1>6. /\ q.kind = r.kind /\ q.entry = r.entry /\ q.order = r.order
      /\ OrderLock(q) = OrderLock(r) /\ ReservationLock(q) = ReservationLock(r)
  BY <1>5 DEF Further, OrderLock, ReservationLock
<1>7. /\ \A e \in Entries : <<"entry", e>> \in q.locks <=> <<"entry", e>> \in r.locks
      /\ OrderLock(q) \in q.locks <=> OrderLock(r) \in r.locks
  BY <1>5, <1>6, LocksDiffer DEF OrderLock, ReservationLock
<1>8. Seen(q) = Seen(r) /\ Need(q) = Need(r)
  BY <1>5, <1>7, SameSeen
<1>9. Reserving(q)
  BY <1>3, <1>5, <1>6, <1>8, ReservingIsNeed
<1>10. CASE r.kind = "validate"
  <2>1. OrderFresh(r)
    BY <1>2, <1>3, <1>10, NullAssumption DEF Fresh
  <2>2. order[r.order].status # "DONE"
    BY <1>3, <2>1 DEF OrderFresh
  <2>3. OrderFresh(q)
    BY <1>3, <1>5, <1>6, <1>7, <1>8, <1>9, <2>1, <2>2 DEF OrderFresh
  <2>4. Fresh(q)
    BY <1>2, <1>5, <1>6, <1>10, <2>3 DEF Fresh
  <2> QED
    BY <1>5, <2>4
<1>11. CASE r.kind = "edit order"
  <2>1. Fresh(q)
    BY <1>2, <1>5, <1>6, <1>9, <1>11 DEF Fresh, ByEntry
  <2> QED
    BY <1>5, <2>1
<1> QED
  BY <1>3, <1>10, <1>11

LEMMA StepFresh ==
  ASSUME IInv, Serial, NEW w \in Workers, Step(w), ~Commit(w)
  PROVE  \E q : Moves(w, q) /\ Fresh(q)
<1>1. PICK r : r = tx[w]
  OBVIOUS
<1>2. Shape(r) /\ Fits(r) /\ Fresh(r)
  BY <1>1, InState DEF Serial
<1>3. CASE Consume(w) \/ AlreadyDrawn(w)
  <2>1. r.pc = "consume" /\ r.kind = "validate"
    BY <1>1, <1>2, <1>3, KindOf DEF Consume, AlreadyDrawn
  <2>2. r.locks = {}
    BY <1>2, <2>1 DEF Shape, ValidationShape
  <2>3. PICK q : Moves(w, q) /\ Kept(r, q) /\ q.pc = "save" /\ q.locks \subseteq {StockLock}
    BY <1>1, <1>3, <2>2, ConsumeMoves, AlreadyMoves
  <2>4. /\ q.kind = r.kind /\ q.entry = r.entry /\ q.order = r.order
        /\ q.row = r.row /\ q.head = r.head
    BY <2>3 DEF Kept, Further
  <2>5. ASSUME q.order # NoOrder PROVE OrderFresh(q)
    <3>1. OrderFresh(r)
      BY <1>2, <2>1, <2>4, <2>5 DEF Fresh
    <3> QED
      BY <2>1, <2>3, <2>4, <3>1 DEF OrderFresh
  <2>6. Fresh(q)
    BY <1>2, <2>1, <2>3, <2>4, <2>5 DEF Fresh
  <2> QED
    BY <2>3, <2>6
<1>4. CASE BulkWrite(w)
  <2>1. r.kind = "bulk"
    BY <1>1, <1>2, <1>4, KindOf DEF BulkWrite
  <2>2. PICK q : /\ Moves(w, q) /\ Further(r, q) /\ q.kind = "bulk" /\ q.pc = "commit"
                 /\ q.row.status = entry[r.entry].status
    BY <1>1, <1>4, BulkMoves
  <2>3. q.entry = r.entry /\ entry[r.entry].status = "DRAFT"
    BY <1>1, <1>2, <1>4, <2>1, <2>2 DEF Further, Fresh, ByEntry, BulkWrite, Gone
  <2>4. Fresh(q)
    BY <2>2, <2>3 DEF Fresh
  <2> QED
    BY <2>2, <2>4
<1>5. CASE BulkGone(w) \/ CommitRefused(w) \/ Rollback(w)
  BY <1>5, RollbackMoves, FreshIdle DEF BulkGone, CommitRefused
<1>6. CASE SaveOrder(w)
  <2>1. r.kind = "edit order"
    BY <1>1, <1>2, <1>6, KindOf DEF SaveOrder
  <2>2. PICK q : Moves(w, q) /\ Kept(r, q) /\ q.pc = "sync"
    BY <1>1, <1>6, OrderMoves
  <2>3. q.kind = r.kind /\ q.order = r.order /\ q.head = r.head
    BY <2>2 DEF Kept, Further
  <2>4. Fresh(q)
    BY <1>2, <2>1, <2>2, <2>3 DEF Fresh, ByEntry
  <2> QED
    BY <2>2, <2>4
<1>7. CASE Cascade(w)
  <2>1. PICK q : /\ Moves(w, q) /\ Kept(r, q)
                 /\ q.kind = "delete order" /\ q.pc = "commit" /\ q.locks = Taken(r)
    BY <1>1, <1>7, CascadeMoves
  <2>2. q.order = r.order
    BY <2>1 DEF Kept, Further
  <2>3. \A e \in Entries : <<"entry", e>> \in q.locks => entry[e].order = q.order
    BY <2>1, <2>2, LocksDiffer DEF Taken, OrderLock, ReservationLock
  <2>4. Fresh(q)
    BY <2>1, <2>3 DEF Fresh, ByEntry
  <2> QED
    BY <2>1, <2>4
<1>8. ~SyncWaits(w)
  <2>1. ASSUME SyncWaits(w) PROVE FALSE
    <3>1. tx[w].pc = "sync" /\ ~Free(w, ReservationLock(r))
      BY <1>1, <2>1 DEF SyncWaits, ReservationLock
    <3>2. tx[w].kind # "none"
      BY <1>1, <1>2, <3>1, KindOf
    <3> QED
      BY <3>1, <3>2, AloneFree DEF Free, Serial
  <2> QED
    BY <2>1
<1>9. ~SyncBeaten(w)
  BY <1>1, <1>2 DEF SyncBeaten, Fresh
<1>10. CASE BulkLookUp(w) /\ ~Rollback(w)
  <2>1. r.kind = "bulk" /\ r.pc = "lookup"
    BY <1>1, <1>2, <1>10, KindOf DEF BulkLookUp
  <2>2. PICK q : Moves(w, q) /\ Kept(r, q) /\ q.pc = "bulk"
    BY <1>1, <1>10, LookUpMoves
  <2>3. q.kind = "bulk" /\ q.entry = r.entry
    BY <2>1, <2>2 DEF Kept, Further
  <2>4. Fresh(q)
    BY <1>2, <2>1, <2>2, <2>3 DEF Fresh, ByEntry
  <2> QED
    BY <2>2, <2>4
<1> QED
  BY <1>3, <1>4, <1>5, <1>6, <1>7, <1>8, <1>9, <1>10, SaveFresh, AdvanceFresh, StatusFresh,
     SyncFresh DEF Step

\* A step in memory.
LEMMA FreshStay ==
  ASSUME NEW r, Fresh(r), UNCHANGED <<entry, order, reserved>>
  PROVE  Fresh(r)'
BY DEF Fresh, OrderFresh, Reserving, Seen

LEMMA SerialMove ==
  ASSUME IInv, Serial, NEW w \in Workers, NEW q, Moves(w, q), Fresh(q), Alone'
  PROVE  Serial'
<1>1. UNCHANGED <<entry, order, reserved, drawn>> /\ tx' = [tx EXCEPT ![w] = q]
  BY DEF Moves, Continue
<1>2. tx'[w] = q /\ \A v \in Workers : v # w => tx'[v] = tx[v]
  BY <1>1, Others DEF IInv
<1>3. ASSUME NEW v \in Workers PROVE Fresh(tx[v])'
  <2>1. PICK r : r = tx'[v]
    OBVIOUS
  <2>2. Fresh(r)
    BY <1>2, <2>1 DEF Serial
  <2>3. Fresh(r)'
    BY <1>1, <2>2, FreshStay
  <2> QED
    BY <2>1, <2>3
<1>4. Books' /\ ReservedIsNeeded'
  BY <1>1 DEF Serial, Books, ConsumedIsProduced, DrawnIsRecorded, ReservedIsNeeded, Needs
<1> QED
  BY <1>3, <1>4 DEF Serial

\* Nothing is produced for an order without entries.
LEMMA ProducedNone ==
  ASSUME NEW o, NEW rows, Counts(o, rows) = {}
  PROVE  Produced(o, rows) = 0
<1>1. IsFiniteSet({})
  BY FS_EmptySet
<1>2. SumOf(rows, {}) = SumFunctionOnSet(BottlesOf(rows, {}), {})
  BY <1>1, SumOfIs
<1> QED
  BY <1>2, SumEmpty, ProducedIsSum

\* An order that is the same, and for which the same is validated.
LEMMA NeedsStay ==
  ASSUME IInv, NEW o \in Orders, Alike(o, entry, entry'), order'[o] = order[o]
  PROVE  Needs(o)' = Needs(o)
<1>1. Produced(o, entry) = Produced(o, entry')
  <2>1. PICK rows, more : rows = entry /\ more = entry'
    OBVIOUS
  <2>2. Within(rows, Recorded) /\ IsFiniteSet(Recorded)
    BY <2>1, EntryWithin DEF IInv, RowsOK
  <2> QED
    BY <2>1, <2>2, ProducedAlike
<1> QED
  BY <1>1 DEF Needs

\* What a request that is fresh writes of the entries.
WritesDrafts(r) ==
  /\ \A e \in Entries : <<"entry", e>> \notin r.locks => entry'[e] = entry[e]
  /\ \A e \in Entries : <<"entry", e>> \in r.locks /\ r.kind \in ByEntry =>
       /\ e = r.entry /\ entry[e].status = "DRAFT" /\ drawn[e] = 0
       /\ entry'[e] = r.row
  /\ \A e \in Entries : <<"entry", e>> \in r.locks /\ r.kind \notin ByEntry =>
       /\ r.kind = "delete order" /\ entry[e].order = r.order
       /\ entry'[e] = Unlinked(entry[e])

LEMMA FreshWrites ==
  ASSUME IInv, Serial, NEW w \in Workers, Commit(w), NEW r, r = tx[w]
  PROVE  /\ Shape(r) /\ Fits(r) /\ Fresh(r) /\ r.pc = "commit"
         /\ r.kind \in ByEntry \union {"edit order", "delete order"}
         /\ WritesDrafts(r)
<1>1. /\ Shape(r) /\ Fits(r) /\ Fresh(r) /\ r.pc = "commit"
      /\ \A e \in Entries : entry'[e] = Left(r, e)
  BY CommitEntries DEF Serial
<1>2. r.kind \in ByEntry \union {"edit order", "delete order"}
  BY <1>1, KindOf DEF Kinds, ByEntry
<1>3. ASSUME NEW e \in Entries, <<"entry", e>> \in r.locks, r.kind \in ByEntry
      PROVE  /\ e = r.entry /\ entry[e].status = "DRAFT" /\ drawn[e] = 0
             /\ entry'[e] = r.row
  <2>1. e = r.entry
    BY <1>1, <1>3, CommitWrites
  <2>2. entry[e].status = "DRAFT"
    BY <1>1, <1>3, <2>1 DEF Fresh
  <2>3. drawn[e] = 0
    BY <2>2 DEF Serial, Books, DrawnIsRecorded, IInv, TypeOK
  <2>4. entry'[e] = r.row
    BY <1>1, <1>3 DEF Left, ByEntry
  <2> QED
    BY <2>1, <2>2, <2>3, <2>4
<1>4. ASSUME NEW e \in Entries, <<"entry", e>> \in r.locks, r.kind \notin ByEntry
      PROVE  /\ r.kind = "delete order" /\ entry[e].order = r.order
             /\ entry'[e] = Unlinked(entry[e])
  <2>1. r.kind = "delete order"
    BY <1>1, <1>4, CommitWrites
  <2>2. entry[e].order = r.order
    BY <1>1, <1>4, <2>1 DEF Fresh
  <2> QED
    BY <1>1, <1>4, <2>1, <2>2 DEF Left
<1>5. \A e \in Entries : <<"entry", e>> \notin r.locks => entry'[e] = entry[e]
  BY <1>1 DEF Left
<1>6. WritesDrafts(r)
  BY <1>3, <1>4, <1>5 DEF WritesDrafts
<1> QED
  BY <1>1, <1>2, <1>6

LEMMA CommitBooks ==
  ASSUME IInv, Serial, NEW w \in Workers, Commit(w)
  PROVE  Books'
<1>1. PICK r : r = tx[w]
  OBVIOUS
<1>2. /\ Shape(r) /\ Fits(r) /\ Fresh(r) /\ r.pc = "commit"
      /\ r.kind \in ByEntry \union {"edit order", "delete order"}
      /\ WritesDrafts(r)
  BY <1>1, FreshWrites
<1>3. /\ Shape(r) /\ Fits(r) /\ Fresh(r) /\ r.pc = "commit"
      /\ r.kind \in ByEntry \union {"edit order", "delete order"}
      /\ \A e \in Entries : <<"entry", e>> \notin r.locks => entry'[e] = entry[e]
      /\ \A e \in Entries : <<"entry", e>> \in r.locks /\ r.kind \in ByEntry =>
           /\ e = r.entry /\ entry[e].status = "DRAFT" /\ drawn[e] = 0
           /\ entry'[e] = r.row
      /\ \A e \in Entries : <<"entry", e>> \in r.locks /\ r.kind \notin ByEntry =>
           /\ r.kind = "delete order" /\ entry[e].order = r.order
           /\ entry'[e] = Unlinked(entry[e])
  BY <1>2 DEF WritesDrafts
<1>4. /\ StockLock \notin r.locks => drawn' = drawn
      /\ StockLock \in r.locks =>
           /\ r.kind = "validate" /\ r.entry \in Entries /\ drawn[r.entry] = 0
           /\ r.row.status = "STOCK_CONSUMED" /\ r.row.consumed > 0
           /\ \A e \in Entries : drawn'[e] = IF e = r.entry THEN r.row.consumed ELSE drawn[e]
  BY <1>1, CommitDraws
<1>5. StockLock \in r.locks => Own(r) \in r.locks
  BY <1>3, <1>4 DEF Shape, ValidationShape
<1>6. ASSUME NEW e \in Entries
      PROVE  /\ entry'[e].status = "STOCK_CONSUMED" =>
                  entry'[e].consumed = entry'[e].bottles /\ drawn'[e] = entry'[e].bottles
             /\ drawn'[e] > 0 => entry'[e].status = "STOCK_CONSUMED"
  <2>1. /\ entry[e].status = "STOCK_CONSUMED" =>
             entry[e].consumed = entry[e].bottles /\ drawn[e] = entry[e].bottles
        /\ drawn[e] > 0 => entry[e].status = "STOCK_CONSUMED"
    BY DEF Serial, Books, ConsumedIsProduced, DrawnIsRecorded
  <2>2. CASE <<"entry", e>> \notin r.locks
    <3>1. drawn'[e] = drawn[e]
      BY <1>4, <1>5, <2>2 DEF Own
    <3> QED
      BY <1>3, <2>1, <2>2, <3>1
  <2>3. CASE <<"entry", e>> \in r.locks /\ r.kind \notin ByEntry
    <3>1. drawn'[e] = drawn[e]
      BY <1>4, <2>3 DEF ByEntry
    <3>2. /\ entry'[e].status = entry[e].status /\ entry'[e].bottles = entry[e].bottles
          /\ entry'[e].consumed = entry[e].consumed
      BY <1>3, <2>3, UnlinkedRow DEF IInv, TypeOK
    <3> QED
      BY <2>1, <3>1, <3>2
  <2>4. CASE <<"entry", e>> \in r.locks /\ r.kind = "validate"
    <3>1. e = r.entry /\ entry'[e] = r.row /\ drawn[e] = 0
      BY <1>3, <2>4 DEF ByEntry
    <3>2. r.row.status = "STOCK_CONSUMED" => r.row.consumed = r.row.bottles
      BY <1>3, <2>4 DEF Fresh
    <3>3. r.row.status = "STOCK_CONSUMED" => StockLock \in r.locks
      BY <1>3, <2>4, <3>1 DEF Fits
    <3>4. CASE StockLock \in r.locks
      BY <1>4, <3>1, <3>2, <3>4
    <3>5. CASE StockLock \notin r.locks
      BY <1>4, <3>1, <3>3, <3>5
    <3> QED
      BY <3>4, <3>5
  <2>5. CASE <<"entry", e>> \in r.locks /\ r.kind \in ByEntry \ {"validate"}
    <3>1. entry'[e] = r.row /\ drawn[e] = 0
      BY <1>3, <2>5
    <3>2. drawn' = drawn
      BY <1>4, <2>5
    <3>3. r.row.status # "STOCK_CONSUMED"
      BY <1>3, <2>5 DEF Shape, EntryShape, Fresh, ByEntry
    <3> QED
      BY <3>1, <3>2, <3>3
  <2> QED
    BY <2>2, <2>3, <2>4, <2>5
<1> QED
  BY <1>6 DEF Books, ConsumedIsProduced, DrawnIsRecorded

\* The same is validated for any order but the request's own.
LEMMA CommitAlike ==
  ASSUME IInv, Serial, NEW w \in Workers, Commit(w), NEW r, r = tx[w], NEW o \in Orders,
         o # r.order \/ r.kind \in ByEntry \ {"validate"}
  PROVE  Alike(o, entry, entry')
<1>1. /\ Shape(r) /\ Fits(r) /\ Fresh(r) /\ r.pc = "commit"
      /\ r.kind \in ByEntry \union {"edit order", "delete order"}
      /\ WritesDrafts(r)
  BY FreshWrites
<1>2. /\ Shape(r) /\ Fits(r) /\ Fresh(r) /\ r.pc = "commit"
      /\ r.kind \in ByEntry \union {"edit order", "delete order"}
      /\ \A e \in Entries : <<"entry", e>> \notin r.locks => entry'[e] = entry[e]
      /\ \A e \in Entries : <<"entry", e>> \in r.locks /\ r.kind \in ByEntry =>
           /\ e = r.entry /\ entry[e].status = "DRAFT" /\ drawn[e] = 0
           /\ entry'[e] = r.row
      /\ \A e \in Entries : <<"entry", e>> \in r.locks /\ r.kind \notin ByEntry =>
           /\ r.kind = "delete order" /\ entry[e].order = r.order
           /\ entry'[e] = Unlinked(entry[e])
  BY <1>1 DEF WritesDrafts
<1> SUFFICES ASSUME NEW e \in Entries
             PROVE  /\ entry[e].order = o /\ entry[e].status \in Validated
                         <=> entry'[e].order = o /\ entry'[e].status \in Validated
                    /\ entry[e].order = o /\ entry[e].status \in Validated
                         => entry[e].bottles = entry'[e].bottles
  BY DEF Alike
<1>3. CASE <<"entry", e>> \notin r.locks
  BY <1>2, <1>3
<1>4. CASE <<"entry", e>> \in r.locks /\ r.kind \notin ByEntry
  <2>1. entry[e].order = r.order /\ entry'[e].order = NoOrder
    BY <1>2, <1>4, UnlinkedRow DEF IInv, TypeOK
  <2> QED
    BY <1>4, <2>1, NullAssumption
<1>5. CASE <<"entry", e>> \in r.locks /\ r.kind = "validate"
  <2>1. entry[e].status = "DRAFT" /\ entry'[e] = r.row
    BY <1>2, <1>5 DEF ByEntry
  <2>2. r.row.order = r.order
    BY <1>2, <1>5 DEF Fresh
  <2> QED
    BY <1>5, <2>1, <2>2 DEF Validated
<1>6. CASE <<"entry", e>> \in r.locks /\ r.kind \in ByEntry \ {"validate"}
  <2>1. entry[e].status = "DRAFT" /\ entry'[e] = r.row
    BY <1>2, <1>6
  <2>2. r.row.status \notin Validated
    BY <1>2, <1>6 DEF Shape, EntryShape, Fresh, ByEntry, Validated
  <2> QED
    BY <2>1, <2>2 DEF Validated
<1> QED
  BY <1>3, <1>4, <1>5, <1>6

\* What is needed for the order of the request, is what it needed in memory.
LEMMA NeedsAreNeed ==
  ASSUME NEW r, NEW o, o = r.order, entry' = Seen(r),
         \/ order'[o].quantity = r.head.quantity /\ order'[o].recipe = r.head.recipe
              /\ order'[o].status = r.head.status
  PROVE  Needs(o)' = Need(r)
BY DEF Needs, Need

\* The orders after the commit.
LEMMA CommitReserves ==
  ASSUME IInv, Serial, NEW w \in Workers, Commit(w)
  PROVE  ReservedIsNeeded'
<1>1. PICK r : r = tx[w]
  OBVIOUS
<1>2. /\ Shape(r) /\ Fits(r) /\ Fresh(r) /\ r.pc = "commit"
      /\ r.kind \in ByEntry \union {"edit order", "delete order"}
  BY <1>1, FreshWrites
<1>3. r \in Request /\ r.order \in Orders \union {NoOrder}
  BY <1>2, RequestTypes DEF Shape
<1>4. /\ \A o \in Orders :
           order'[o] = IF <<"order", o>> \notin r.locks THEN order[o]
                       ELSE IF r.kind = "validate" THEN Restated(order[o], r.head.status)
                       ELSE r.head
      /\ \A o \in Orders :
           reserved'[o] = IF <<"reservation", o>> \in r.locks THEN r.keep ELSE reserved[o]
  BY <1>1, CommitOrders
<1>5. ASSUME NEW o \in Orders, <<"order", o>> \in r.locks \/ <<"reservation", o>> \in r.locks
      PROVE  o = r.order /\ r.kind \in {"validate", "edit order", "delete order"}
  <2>1. CASE r.kind = "validate"
    BY <1>2, <1>5, <2>1, LocksDiffer
    DEF Shape, ValidationShape, Own, OrderLock, ReservationLock
  <2>2. CASE r.kind = "edit order"
    BY <1>2, <1>5, <2>2, LocksDiffer DEF Shape, OrderShape, OrderLock, ReservationLock
  <2>3. CASE r.kind = "delete order"
    <3>1. <<"order", o>> \notin {"entry"} \X Entries /\ <<"reservation", o>> \notin {"entry"} \X Entries
      OBVIOUS
    <3> QED
      BY <1>2, <1>5, <2>3, <3>1, LocksDiffer DEF Shape, DeletionShape, OrderLock, ReservationLock
  <2>4. CASE r.kind \in {"edit entry", "bulk", "delete entry"}
    <3>1. r.locks = {<<"entry", r.entry>>}
      BY <1>2, <2>4 DEF Shape, EntryShape, Own
    <3> QED
      BY <1>5, <3>1, LocksDiffer
  <2> QED
    BY <1>2, <2>1, <2>2, <2>3, <2>4 DEF ByEntry
<1> SUFFICES ASSUME NEW o \in Orders PROVE reserved'[o] = Needs(o)'
  BY DEF ReservedIsNeeded
<1>6. reserved[o] = Needs(o)
  BY DEF Serial, ReservedIsNeeded
<1>7. CASE o # r.order \/ r.kind \in ByEntry \ {"validate"}
  <2>1. <<"order", o>> \notin r.locks /\ <<"reservation", o>> \notin r.locks
    BY <1>5, <1>7 DEF ByEntry
  <2>2. Alike(o, entry, entry')
    BY <1>1, <1>7, CommitAlike
  <2> QED
    BY <1>4, <1>6, <2>1, <2>2, NeedsStay
<1>8. CASE o = r.order /\ r.kind = "delete order"
  <2>1. <<"order", o>> \in r.locks /\ <<"reservation", o>> \in r.locks
        /\ r.head.status = "deleted" /\ r.keep = 0
    BY <1>2, <1>8 DEF Shape, DeletionShape, OrderLock, ReservationLock
  <2>2. order'[o].status = "deleted" /\ reserved'[o] = 0
    BY <1>4, <1>8, <2>1
  <2>3. Needs(o)' = 0
    BY <2>2 DEF Needs, Open
  <2> QED
    BY <2>2, <2>3
<1>9. ASSUME r.kind \in {"validate", "edit order"} PROVE entry' = Seen(r)
  <2>1. /\ entry' \in [Entries -> EntryRow] /\ \A e \in Entries : entry'[e] = Left(r, e)
    BY <1>1, CommitEntries
  <2> QED
    BY <1>9, <2>1 DEF Left, Seen
<1>10. ASSUME o = r.order, Reserving(r) PROVE reserved'[o] = Need(r)
  BY <1>4, <1>10, ReservingIsNeed DEF ReservationLock
<1>11. CASE o = r.order /\ r.kind = "edit order"
  <2>1. <<"order", o>> \in r.locks /\ Reserving(r)
    BY <1>2, <1>11 DEF Shape, OrderShape, OrderLock, Fresh
  <2>2. order'[o] = r.head
    BY <1>4, <1>11, <2>1
  <2>3. Needs(o)' = Need(r)
    BY <1>9, <1>11, <2>2, NeedsAreNeed
  <2> QED
    BY <1>10, <1>11, <2>1, <2>3
<1>12. CASE o = r.order /\ r.kind = "validate"
  <2>1. OrderFresh(r)
    BY <1>2, <1>12, NullAssumption DEF Fresh
  <2>2. CASE order[o].status = "DONE"
    <3>1. r.locks \subseteq {StockLock, Own(r)}
      BY <1>12, <2>1, <2>2 DEF OrderFresh
    <3>2. <<"order", o>> \notin r.locks /\ <<"reservation", o>> \notin r.locks
      BY <3>1, LocksDiffer DEF Own
    <3>3. order'[o] = order[o] /\ reserved'[o] = reserved[o]
      BY <1>4, <3>2
    <3>4. Needs(o)' = 0 /\ Needs(o) = 0
      BY <2>2, <3>3 DEF Needs, Open
    <3> QED
      BY <1>6, <3>3, <3>4
  <2>3. CASE order[o].status # "DONE"
    <3>1. Reserving(r)
      BY <1>2, <1>12, <2>1, <2>3 DEF OrderFresh
    <3>2. /\ order'[o].quantity = order[o].quantity /\ order'[o].recipe = order[o].recipe
          /\ order'[o].status = r.head.status
      <4>1. CASE <<"order", o>> \in r.locks
        <5>1. order[o] \in OrderRow /\ r.head.status \in OrderStatus \union Gone
          BY <1>3, RequestTypes, HeadTypes DEF IInv, TypeOK
        <5> QED
          BY <1>4, <1>12, <4>1, <5>1, RestatedHead
      <4>2. CASE <<"order", o>> \notin r.locks
        <5>1. r.head.status = order[o].status
          BY <1>2, <1>12, <2>1, <2>3, <4>2 DEF OrderFresh, OrderLock
        <5> QED
          BY <1>4, <4>2, <5>1
      <4> QED
        BY <4>1, <4>2
    <3>3. r.head.quantity = order[o].quantity /\ r.head.recipe = order[o].recipe
      BY <1>12, <2>1 DEF OrderFresh
    <3>4. Needs(o)' = Need(r)
      BY <1>9, <1>12, <3>2, <3>3, NeedsAreNeed
    <3> QED
      BY <1>10, <1>12, <3>1, <3>4
  <2> QED
    BY <2>2, <2>3
<1> QED
  BY <1>2, <1>7, <1>8, <1>11, <1>12 DEF ByEntry

LEMMA CommitSerial ==
  ASSUME IInv, Serial, NEW w \in Workers, Commit(w), Alone'
  PROVE  Serial'
<1>1. ASSUME NEW v \in Workers PROVE Fresh(tx[v])'
  <2>1. tx[w].kind # "none"
    BY InState, KindOf DEF Commit
  <2>2. tx'[v].kind = "none" /\ tx'[v].pc = "idle"
    <3>1. CASE v = w
      BY <3>1, CommitOthers, IdleFields
    <3>2. CASE v # w
      <4>1. tx[v] = Idle
        BY <2>1, <3>2, AloneFree DEF Serial
      <4>2. tx[v].pc # "syncing"
        BY <4>1, IdleFields
      <4> QED
        BY <3>2, <4>1, <4>2, CommitOthers, IdleFields
    <3> QED
      BY <3>1, <3>2
  <2>3. PICK q : q = tx'[v]
    OBVIOUS
  <2>4. Fresh(q)'
    BY <2>2, <2>3 DEF Fresh, ByEntry
  <2> QED
    BY <2>3, <2>4
<1> QED
  BY <1>1, CommitBooks, CommitReserves DEF Serial

\* A request whose own rows stay, for whose order the same is produced.
LEMMA FreshStays ==
  ASSUME NEW r, Shape(r), Fresh(r),
         r.kind \in ByEntry =>
           \/ entry'[r.entry] = entry[r.entry]
           \/ r.kind = "bulk" /\ r.pc # "commit" /\ entry'[r.entry].status = "DRAFT",
         r.kind \in {"validate", "edit order"} /\ r.order # NoOrder =>
           order'[r.order] = order[r.order] /\ reserved'[r.order] = reserved[r.order],
         Produced(r.order, Seen(r)') = Produced(r.order, Seen(r)),
         \A e \in Entries : <<"entry", e>> \in r.locks => entry'[e].order = entry[e].order
  PROVE  Fresh(r)'
<1>1. ASSUME r.kind \in {"validate", "edit order"}, r.order # NoOrder
      PROVE  Reserving(r)' <=> Reserving(r)
  BY <1>1 DEF Reserving
<1>2. ASSUME r.kind = "validate", r.order # NoOrder PROVE OrderFresh(r)'
  <2>1. OrderFresh(r)
    BY <1>2 DEF Fresh
  <2> QED
    BY <1>1, <1>2, <2>1 DEF OrderFresh
<1>3. r.kind = "edit order" => r.order # NoOrder
  BY NullAssumption DEF Shape, OrderShape
<1> QED
  BY <1>1, <1>2, <1>3 DEF Fresh, ByEntry

LEMMA CreateOrderSerial ==
  ASSUME IInv, Serial, NEW o \in Orders, CreateOrder(o)
  PROVE  Serial'
<1>1. PICK head \in OrderRow :
           /\ order' = [order EXCEPT ![o] = head]
           /\ head.status = "QUEUED" /\ order[o].status = "absent"
           /\ reserved' = [reserved EXCEPT ![o] = IF head.recipe THEN head.quantity ELSE 0]
           /\ UNCHANGED <<entry, drawn, tx>>
  BY CreateOrderFacts
<1>2. /\ \A p \in Orders : order'[p] = IF p = o THEN head ELSE order[p]
      /\ \A p \in Orders : p # o => reserved'[p] = reserved[p]
      /\ reserved'[o] = IF head.recipe THEN head.quantity ELSE 0
  BY <1>1 DEF IInv, TypeOK
<1>3. ASSUME NEW v \in Workers PROVE Fresh(tx[v])'
  <2>1. PICK r : r = tx[v]
    OBVIOUS
  <2>2. Shape(r) /\ Fresh(r)
    BY <2>1, InState DEF Serial
  <2>3. Seen(r)' = Seen(r)
    BY <1>1 DEF Seen
  <2>4. ASSUME r.kind \in {"validate", "edit order"}, r.order # NoOrder
        PROVE  r.order \in Orders \ {o}
    <3>1. r.order \in Orders
      BY <2>2, <2>4, RequestTypes DEF Shape
    <3>2. CASE r.kind = "validate"
      BY <1>1, <2>2, <2>4, <3>1, <3>2 DEF Fresh, OrderFresh, Gone
    <3>3. CASE r.kind = "edit order"
      BY <1>1, <2>2, <3>1, <3>3 DEF Fresh, Shape, OrderShape, OrderStatus, Open
    <3> QED
      BY <2>4, <3>2, <3>3
  <2>5. Fresh(r)'
    BY <1>1, <1>2, <2>2, <2>3, <2>4, FreshStays
  <2> QED
    BY <1>1, <2>1, <2>5
<1>4. Books' /\ Alone'
  BY <1>1 DEF Serial, Books, ConsumedIsProduced, DrawnIsRecorded, Alone
<1>5. ASSUME NEW p \in Orders PROVE reserved'[p] = Needs(p)'
  <2>1. CASE p # o
    <3>1. Alike(p, entry, entry')
      BY <1>1 DEF Alike
    <3> QED
      BY <1>2, <2>1, <3>1, NeedsStay DEF Serial, ReservedIsNeeded
  <2>2. CASE p = o
    <3>1. Counts(o, entry) = {}
      BY <1>1, NullAssumption DEF Counts, IInv, RowsOK, Gone, Validated
    <3>2. Produced(o, entry') = 0 /\ head.quantity \in Nat
      BY <1>1, <3>1, ProducedNone, HeadTypes
    <3>3. Needs(o)' = IF head.recipe THEN Rest(head.quantity, 0) ELSE 0
      BY <1>1, <1>2, <3>2 DEF Needs, Open
    <3>4. Rest(head.quantity, 0) = head.quantity
      BY <3>2 DEF Rest
    <3> QED
      BY <1>2, <2>2, <3>3, <3>4
  <2> QED
    BY <2>1, <2>2
<1> QED
  BY <1>3, <1>4, <1>5 DEF Serial, ReservedIsNeeded

LEMMA CreateEntrySerial ==
  ASSUME IInv, Serial, NEW e \in Entries, CreateEntry(e)
  PROVE  Serial'
<1>1. PICK row \in EntryRow :
           /\ entry' = [entry EXCEPT ![e] = row]
           /\ row.status = "DRAFT" /\ row.consumed = 0 /\ entry[e] = NoRow
           /\ row.order # NoOrder => order[row.order].status \notin Gone
           /\ UNCHANGED <<order, reserved, drawn, tx>>
  BY CreateEntryFacts
<1>2. /\ \A f \in Entries : entry'[f] = IF f = e THEN row ELSE entry[f]
      /\ entry[e].status = "absent"
  BY <1>1, NoRows DEF IInv, TypeOK
<1>3. ASSUME NEW v \in Workers PROVE Fresh(tx[v])'
  <2>1. PICK r : r = tx[v]
    OBVIOUS
  <2>2. Shape(r) /\ Fits(r) /\ Fresh(r) /\ TypeOK /\ RowsOK /\ r \in Request
    BY <2>1, InState DEF Serial
  <2>3. /\ <<"entry", e>> \notin r.locks
        /\ r.kind \in ByEntry => (r.entry # e \/ (r.kind = "bulk" /\ r.pc # "commit"))
    <3>1. <<"entry", e>> \notin r.locks /\ (r.kind \in ByEntry \ {"bulk"} => r.entry # e)
      BY <1>2, <2>2 DEF Fits
    <3>2. ASSUME r.kind = "bulk", r.pc = "commit" PROVE r.entry # e
      <4>1. <<"entry", r.entry>> \in r.locks
        BY <2>2, <3>2 DEF Shape, EntryShape, Own
      <4> QED
        BY <3>1, <4>1
    <3> QED
      BY <3>1, <3>2
  <2>4. PICK rows, more : rows = Seen(r) /\ more = Seen(r)'
    OBVIOUS
  <2>5. \A f \in Entries :
          /\ f # e => more[f] = rows[f]
          /\ more[e].status = "DRAFT" /\ rows[e].status = "absent"
    BY <1>1, <1>2, <2>3, <2>4 DEF Seen
  <2>6. Alike(r.order, rows, more)
    BY <2>5 DEF Alike, Validated
  <2>7. Within(rows, Recorded) /\ IsFiniteSet(Recorded)
    BY <2>2, <2>4, SeenWithin DEF RowsOK
  <2>8. Produced(r.order, Seen(r)') = Produced(r.order, Seen(r))
    BY <2>4, <2>6, <2>7, ProducedAlike
  <2>9. r.kind \in ByEntry => r.entry \in Entries
    BY <2>2 DEF Shape, ValidationShape, EntryShape, ByEntry
  <2>10. Fresh(r)'
    BY <1>1, <1>2, <2>2, <2>3, <2>8, <2>9, FreshStays
  <2> QED
    BY <1>1, <2>1, <2>10
<1>4. Alone'
  BY <1>1 DEF Serial, Alone
<1>5. Books'
  <2>1. drawn[e] = 0
    BY <1>2 DEF Serial, Books, DrawnIsRecorded, IInv, TypeOK
  <2> QED
    BY <1>1, <1>2, <2>1 DEF Serial, Books, ConsumedIsProduced, DrawnIsRecorded
<1>6. ASSUME NEW o \in Orders PROVE reserved'[o] = Needs(o)'
  <2>1. Alike(o, entry, entry')
    BY <1>1, <1>2 DEF Alike, Validated
  <2> QED
    BY <1>1, <2>1, NeedsStay DEF Serial, ReservedIsNeeded
<1> QED
  BY <1>3, <1>4, <1>5, <1>6 DEF Serial, ReservedIsNeeded

\* As long as requests come one at a time.
LEMMA SerialNext ==
  ASSUME IInv, Serial, [Next]_vars, Alone'
  PROVE  Serial'
<1>1. CASE UNCHANGED vars
  <2>1. UNCHANGED <<entry, order, reserved, drawn, tx>>
    BY <1>1 DEF vars
  <2>2. ASSUME NEW v \in Workers PROVE Fresh(tx[v])'
    <3>1. PICK r : r = tx[v]
      OBVIOUS
    <3>2. Fresh(r)'
      BY <2>1, <3>1, FreshStay DEF Serial
    <3> QED
      BY <2>1, <3>1, <3>2
  <2>3. Books' /\ ReservedIsNeeded'
    BY <2>1 DEF Serial, Books, ConsumedIsProduced, DrawnIsRecorded, ReservedIsNeeded, Needs
  <2> QED
    BY <2>2, <2>3 DEF Serial
<1>2. ASSUME NEW w \in Workers, NEW q, Moves(w, q), Fresh(q) PROVE Serial'
  BY <1>2, SerialMove
<1>3. ASSUME NEW w \in Workers, Load(w) PROVE Serial'
  BY <1>2, <1>3, LoadsFresh
<1>4. ASSUME NEW w \in Workers, Abort(w) PROVE Serial'
  BY <1>2, <1>4, RollbackMoves, FreshIdle DEF Abort
<1>5. ASSUME NEW w \in Workers, Step(w) PROVE Serial'
  BY <1>2, <1>5, StepFresh, CommitSerial
<1> QED
  BY <1>1, <1>3, <1>4, <1>5, CreateOrderSerial, CreateEntrySerial DEF Next

LEMMA HistoryInit ==
  ASSUME MCInit
  PROVE  IInv /\ History
<1>1. Init /\ marred = {}
  BY DEF MCInit
<1>2. /\ \A w \in Workers : tx[w] = Idle
      /\ \A e \in Entries : entry[e] = NoRow /\ drawn[e] = 0
      /\ \A o \in Orders : order[o] = NoHead /\ reserved[o] = 0
  BY <1>1 DEF Init
<1>3. Books
  BY <1>2, NoRows DEF Books, ConsumedIsProduced, DrawnIsRecorded
<1>4. DoneIsProduced
  BY <1>2, NoRows DEF DoneIsProduced
<1>5. ReservedIsNeeded
  BY <1>2, NoRows DEF ReservedIsNeeded, Needs, Open
<1>6. Undisturbed(Idle)
  BY IdleFields DEF Undisturbed
<1>7. Peaceful
  BY <1>2, <1>3, <1>4, <1>6, NoRows DEF Peaceful, Consumption
<1>8. Serial
  BY <1>2, <1>3, <1>5, FreshIdle, IdleFields DEF Serial, Alone
<1> QED
  BY <1>1, <1>7, <1>8, InitInvariant DEF History

\* What is noted of a step.
LEMMA Noted ==
  ASSUME IInv, History, HistoryNext
  PROVE  /\ [Next]_vars /\ IInv' /\ marred' \subseteq {"overlap", "edit"}
         /\ "edit" \notin marred' =>
              Peaceful /\ \A w \in Workers : tx'[w].kind \in {"none", "validate"}
         /\ "overlap" \notin marred' => Serial /\ Alone'
<1>1. [Next]_vars /\ IInv'
  BY NextInvariant DEF HistoryNext
<1>2. /\ marred \subseteq marred' /\ marred' \subseteq marred \union {"overlap", "edit"}
      /\ Cardinality(Busy') > 1 => "overlap" \in marred'
      /\ (\E w \in Workers : tx'[w].kind \notin {"none", "validate"}) => "edit" \in marred'
  BY DEF HistoryNext
<1>3. ASSUME "overlap" \notin marred' PROVE Alone'
  <2>1. IsFiniteSet(Busy') /\ Cardinality(Busy') \in Nat
    BY <1>1, FS_CardinalityType DEF IInv, RequestsOK
  <2>2. Cardinality(Busy') <= 1
    BY <1>2, <1>3, <2>1
  <2>3. (IsFiniteSet(Busy) /\ Cardinality(Busy) <= 1 => Alone)'
    BY OneAtATime, PTL
  <2> QED
    BY <2>1, <2>2, <2>3
<1> QED
  BY <1>1, <1>2, <1>3 DEF History

LEMMA HistoryStep ==
  ASSUME IInv, History, [HistoryNext]_<<vars, marred>>
  PROVE  IInv' /\ History'
<1>1. CASE UNCHANGED <<vars, marred>>
  <2>1. [Next]_vars /\ IInv' /\ marred' = marred /\ tx' = tx
    BY <1>1, NextInvariant DEF vars
  <2>2. Serial => Serial'
    <3>1. Serial => Alone'
      BY <2>1 DEF Serial, Alone
    <3> QED
      BY <2>1, <3>1, SerialNext
  <2>3. Peaceful => Peaceful'
    <3>1. Peaceful => \A w \in Workers : tx'[w].kind \in {"none", "validate"}
      BY <2>1 DEF Peaceful, Undisturbed
    <3> QED
      BY <2>1, <3>1, PeacefulNext
  <2> QED
    BY <2>1, <2>2, <2>3 DEF History
<1>2. CASE HistoryNext
  <2>1. /\ [Next]_vars /\ IInv' /\ marred' \subseteq {"overlap", "edit"}
        /\ "edit" \notin marred' =>
             Peaceful /\ \A w \in Workers : tx'[w].kind \in {"none", "validate"}
        /\ "overlap" \notin marred' => Serial /\ Alone'
    BY <1>2, Noted
  <2>2. "edit" \notin marred' => Peaceful'
    BY <2>1, PeacefulNext
  <2>3. "overlap" \notin marred' => Serial'
    BY <2>1, SerialNext
  <2> QED
    BY <2>1, <2>2, <2>3 DEF History
<1> QED
  BY <1>1, <1>2

LEMMA HistoryHolds == HistorySpec => [](IInv /\ History)
<1>1. MCInit => IInv /\ History
  BY HistoryInit
<1>2. (IInv /\ History) /\ [HistoryNext]_<<vars, marred>> => (IInv /\ History)'
  BY HistoryStep
<1> QED
  BY <1>1, <1>2, PTL DEF HistorySpec

\* Validations that race, and any requests one at a time, keep the books: of every entry
\* the stock drawn is what it says it consumed and what it produced.
THEOREM BooksAlwaysAgree == HistorySpec => []BooksAgree
<1>1. IInv /\ History => BooksAgree
  <2> SUFFICES ASSUME IInv, History PROVE BooksAgree
    OBVIOUS
  <2>1. ~Mixed => Peaceful \/ Serial
    BY DEF History, Mixed
  <2> QED
    BY <2>1 DEF BooksAgree, IInv, Peaceful, Serial, Books
<1> QED
  BY <1>1, HistoryHolds, PTL

\* With requests one at a time what is reserved for an order is exactly what it needs; with
\* validations only, however they race, it is never less, and an order is DONE only when
\* its quantity was validated.
THEOREM OrdersAlwaysAgree == HistorySpec => []OrdersAgree
<1>1. ASSUME IInv, Peaceful, NEW o \in Orders PROVE reserved[o] >= Needs(o)
  <2>1. reserved[o] \in Nat
    BY <1>1 DEF IInv, TypeOK
  <2>2. CASE order[o].recipe /\ order[o].status \in Open
    <3>1. Needs(o) = Wants(o, entry) /\ order[o].status # "absent"
      BY <2>2 DEF Needs, Wants, Open
    <3> QED
      BY <1>1, <3>1 DEF Peaceful
  <2>3. CASE ~(order[o].recipe /\ order[o].status \in Open)
    <3>1. Needs(o) = 0
      BY <2>3 DEF Needs
    <3> QED
      BY <2>1, <3>1
  <2> QED
    BY <2>2, <2>3
<1>2. IInv /\ History => OrdersAgree
  <2>1. IInv /\ Peaceful => NeverUnderReserved /\ DoneIsProduced
    BY <1>1 DEF NeverUnderReserved, Peaceful
  <2> QED
    BY <2>1 DEF History, OrdersAgree, Serial
<1> QED
  BY <1>2, HistoryHolds, PTL

\* A row with the same numbers and the same status.
LEMMA NumbersKept ==
  ASSUME NEW row \in EntryRow, NEW new \in EntryRow,
         new.status = row.status, new.bottles = row.bottles, new.consumed = row.consumed
  PROVE  new = [row EXCEPT !.order = new.order]
<1>1. PICK o : o = new.order
  OBVIOUS
<1>2. new = [status |-> new.status, bottles |-> new.bottles, order |-> new.order,
             consumed |-> new.consumed]
  BY RowTypes
<1>3. row = [status |-> row.status, bottles |-> row.bottles, order |-> row.order,
             consumed |-> row.consumed]
  BY RowTypes
<1> QED
  BY <1>2, <1>3 DEF EntryRow

\* Only a commit changes a validated entry, and the orders.
LEMMA OnlyCommits ==
  ASSUME IInv, [Next]_vars
  PROVE  \/ entry' = entry
         \/ \E e \in Entries : CreateEntry(e)
         \/ \E w \in Workers : Commit(w)
<1>1. ASSUME NEW w \in Workers, Load(w) \/ Abort(w) \/ (Step(w) /\ ~Commit(w))
      PROVE  entry' = entry
  BY <1>1, LoadMoves, StepMoves, RollbackMoves DEF Abort, Moves, Continue
<1>2. \A o \in Orders : CreateOrder(o) => entry' = entry
  BY DEF CreateOrder
<1>3. UNCHANGED vars => entry' = entry
  BY DEF vars
<1> QED
  BY <1>1, <1>2, <1>3 DEF Next

LEMMA NumbersAreKept ==
  ASSUME IInv, IInv', [Next]_vars, Peaceful \/ Serial
  PROVE  NumbersStay
<1> SUFFICES ASSUME NEW e \in Entries, entry[e].status \in Validated
             PROVE  entry'[e] = [entry[e] EXCEPT !.order = entry'[e].order]
  BY DEF NumbersStay
<1>1. PICK row, new : row = entry[e] /\ new = entry'[e]
  OBVIOUS
<1>2. row \in EntryRow /\ new \in EntryRow
  BY <1>1 DEF IInv, TypeOK
<1>3. /\ new.status = row.status /\ new.bottles = row.bottles /\ new.consumed = row.consumed
  <2>1. CASE entry' = entry
    BY <1>1, <2>1
  <2>2. ASSUME NEW f \in Entries, CreateEntry(f) PROVE entry'[e] = entry[e]
    BY <2>2, CreateEntryFacts, NoRows DEF IInv, TypeOK, Validated
  <2>3. ASSUME NEW w \in Workers, Commit(w), Serial
        PROVE  new.status = row.status /\ new.bottles = row.bottles /\ new.consumed = row.consumed
    <3>1. PICK r : r = tx[w]
      OBVIOUS
    <3>2. new = row \/ new = Unlinked(row)
      BY <1>1, <2>3, <3>1, FreshWrites DEF WritesDrafts, Validated
    <3> QED
      BY <1>2, <3>2, UnlinkedRow
  <2>4. ASSUME NEW w \in Workers, Commit(w), Peaceful
        PROVE  new.status = row.status /\ new.bottles = row.bottles /\ new.consumed = row.consumed
    <3>1. PICK r : r = tx[w]
      OBVIOUS
    <3>2. /\ r.kind = "validate" /\ Undisturbed(r)
          /\ \A f \in Entries : entry'[f] = IF f = r.entry THEN r.row ELSE entry[f]
      BY <2>4, <3>1, CommitFacts
    <3>3. /\ row.status \in {"absent", "DRAFT", Outcome(e)}
          /\ row.consumed = Consumption(row)
      BY <1>1, <2>4 DEF Peaceful
    <3>4. row.status = Outcome(e)
      BY <1>1, <3>3 DEF Validated
    <3>5. CASE e = r.entry
      BY <1>1, <3>2, <3>3, <3>4, <3>5 DEF Undisturbed, Consumption
    <3>6. CASE e # r.entry
      BY <1>1, <3>2, <3>6
    <3> QED
      BY <3>5, <3>6
  <2> QED
    BY <1>1, <2>1, <2>2, <2>3, <2>4, OnlyCommits
<1> QED
  BY <1>1, <1>2, <1>3, NumbersKept

LEMMA OrdersAdvance ==
  ASSUME IInv, Serial, [Next]_vars
  PROVE  OrderAdvances
<1> SUFFICES ASSUME NEW e \in Entries, entry[e].status = "DRAFT", entry'[e].status \in Validated,
                    NEW o \in Orders, o = entry[e].order, order[o].status \in Open
             PROVE  order'[o].status = IF Produced(o, entry') >= order[o].quantity
                                       THEN "DONE" ELSE "IN_PROGRESS"
  BY DEF OrderAdvances
<1>1. PICK w \in Workers : Commit(w)
  <2>1. ASSUME NEW f \in Entries, CreateEntry(f) PROVE FALSE
    BY <2>1, CreateEntryFacts, NoRows DEF IInv, TypeOK, Validated
  <2>2. entry' # entry
    BY DEF Validated
  <2> QED
    BY <2>1, <2>2, OnlyCommits
<1>2. PICK r : r = tx[w]
  OBVIOUS
<1>3. /\ Shape(r) /\ Fits(r) /\ Fresh(r) /\ r.pc = "commit"
      /\ \A f \in Entries : <<"entry", f>> \notin r.locks => entry'[f] = entry[f]
      /\ \A f \in Entries : <<"entry", f>> \in r.locks /\ r.kind \in ByEntry =>
           f = r.entry /\ entry'[f] = r.row
      /\ \A f \in Entries : <<"entry", f>> \in r.locks /\ r.kind \notin ByEntry =>
           entry'[f] = Unlinked(entry[f])
  BY <1>1, <1>2, FreshWrites DEF WritesDrafts
<1>4. <<"entry", e>> \in r.locks
  BY <1>3 DEF Validated
<1>5. r.kind \in ByEntry
  BY <1>3, <1>4, UnlinkedRow DEF IInv, TypeOK, Validated
<1>6. e = r.entry /\ r.row.status \in Validated
  BY <1>3, <1>4, <1>5
<1>7. r.kind = "validate"
  BY <1>3, <1>5, <1>6 DEF Shape, EntryShape, Fresh, ByEntry, Validated
<1>8. r.order = o /\ OrderFresh(r)
  BY <1>3, <1>6, <1>7, NullAssumption DEF Fresh
<1>9. entry' = Seen(r)
  <2>1. /\ entry' \in [Entries -> EntryRow] /\ \A f \in Entries : entry'[f] = Left(r, f)
    BY <1>1, <1>2, CommitEntries
  <2> QED
    BY <1>7, <2>1 DEF Left, Seen
<1>10. order'[o].status = r.head.status
  <2>1. order'[o] = IF <<"order", o>> \notin r.locks THEN order[o]
                    ELSE Restated(order[o], r.head.status)
    BY <1>1, <1>2, <1>7, CommitOrders
  <2>2. CASE <<"order", o>> \in r.locks
    <3>1. order[o] \in OrderRow /\ r.head.status \in OrderStatus \union Gone
      BY <1>3, RequestTypes, HeadTypes DEF IInv, TypeOK, Shape
    <3> QED
      BY <2>1, <2>2, <3>1, RestatedHead
  <2>3. CASE <<"order", o>> \notin r.locks
    <3>1. r.head.status = order[o].status
      BY <1>3, <1>8, <2>3 DEF OrderFresh, OrderLock, Open
    <3> QED
      BY <2>1, <2>3, <3>1
  <2> QED
    BY <2>2, <2>3
<1>11. r.head.status = IF Rest(order[o].quantity, Produced(o, entry')) = 0
                       THEN "DONE" ELSE "IN_PROGRESS"
  BY <1>3, <1>8, <1>9 DEF OrderFresh, Open
<1>12. Rest(order[o].quantity, Produced(o, entry')) = 0
         <=> Produced(o, entry') >= order[o].quantity
  <2>1. order[o].quantity \in Nat
    BY HeadTypes DEF IInv, TypeOK
  <2>2. Produced(o, entry') \in Nat
    BY <1>2, <1>3, <1>9, InState, SeenProduced
  <2> QED
    BY <2>1, <2>2, RestIs
<1> QED
  BY <1>10, <1>11, <1>12

\* With validations only, and with requests one at a time, the numbers of a validated entry
\* are final; with requests one at a time its order gets the status its bottles earn it.
THEOREM ValidatedStaysFinal == HistorySpec => FinalUnlessMixed
<1>1. IInv /\ History /\ [HistoryNext]_<<vars, marred>>
        => [/\ Mixed' \/ NumbersStay
            /\ "overlap" \notin marred' => OrderAdvances]_<<vars, marred>>
  <2> SUFFICES ASSUME IInv, History, HistoryNext
               PROVE  /\ Mixed' \/ NumbersStay
                      /\ "overlap" \notin marred' => OrderAdvances
    OBVIOUS
  <2>1. /\ [Next]_vars /\ IInv' /\ marred' \subseteq {"overlap", "edit"}
        /\ "edit" \notin marred' =>
             Peaceful /\ \A w \in Workers : tx'[w].kind \in {"none", "validate"}
        /\ "overlap" \notin marred' => Serial /\ Alone'
    BY Noted
  <2>2. Mixed' \/ "edit" \notin marred' \/ "overlap" \notin marred'
    BY <2>1 DEF Mixed
  <2>3. "edit" \notin marred' \/ "overlap" \notin marred' => NumbersStay
    BY <2>1, NumbersAreKept
  <2>4. "overlap" \notin marred' => OrderAdvances
    BY <2>1, OrdersAdvance
  <2> QED
    BY <2>2, <2>3, <2>4
<1> QED
  BY <1>1, HistoryHolds, PTL DEF HistorySpec, FinalUnlessMixed
=============================================================================
