---------------------------- MODULE StockLedger ----------------------------
(***************************************************************************)
(* The stock ledger of apps/stock: StockItem.quantity, the append-only     *)
(* StockMovement rows that explain it, and the requests that change them.  *)
(*                                                                         *)
(* Every HTTP request is one PostgreSQL transaction (ATOMIC_REQUESTS) at   *)
(* READ COMMITTED.  No query takes a lock when it reads, so a request      *)
(* first loads the item rows, later writes a quantity computed from what   *)
(* it loaded, and keeps the row locks its writes took until it commits.    *)
(* A worker is a server thread; tx[w] is the request it is running.        *)
(*                                                                         *)
(* A quantity is a natural number of the smallest unit (0.001 kg): the     *)
(* columns are decimals with three places.                                 *)
(***************************************************************************)
EXTENDS Integers, Sequences, FiniteSets

CONSTANTS
  Items,          \* StockItem rows
  Workers,        \* server threads
  Sources,        \* <<source_type, source_id>> keys of automatic consumptions
  NoSource,       \* the blank source of a manual movement
  Jobs,           \* automatic consumptions: a bag creation or an entry validation
  Deltas,         \* the quantities a manual movement may carry
  Requests,       \* which requests the clients issue
  MaxMovements    \* bound: no manual movement starts on an item with
                  \* that many rows (the sources bound the others)

VARIABLES
  quantity,       \* StockItem.quantity, committed
  shelf,          \* whether the row exists, and its is_active flag
  ledger,         \* the StockMovement rows of each item, in commit order
  recorded,       \* the jobs whose bag or validated entry is committed
  tx              \* the request each worker is running

vars == <<quantity, shelf, ledger, recorded, tx>>
----------------------------------------------------------------------------
MovementType == {"RECEIPT", "CONSUMPTION", "ADJUSTMENT"}

Source == Sources \cup {NoSource}

Movement == [type : MovementType, delta : Int, before : Nat, after : Nat,
             source : Source]

\* One apply_movement() call: the item, the movement type, the signed quantity.
Line == [item : Items, type : MovementType \cup {"EDIT"}, delta : Int]

\* What a worker remembers of its request: the lines to apply, the one it is at,
\* the quantities it loaded and the lines it has written and not yet committed.
Request == [pc : {"idle", "check", "write", "commit", "edit"}, source : Source,
            lines : Seq(Line), at : Nat, seen : [Items -> Nat], wrote : SUBSET Nat]

\* A manual movement that StockMoveSerializer accepts: never zero, a receipt
\* only adds, a consumption only removes, an adjustment does either.
ManualMoves ==
  {m \in [item : Items, type : MovementType, delta : Deltas] :
     /\ m.delta # 0
     /\ m.type = "RECEIPT" => m.delta > 0
     /\ m.type = "CONSUMPTION" => m.delta < 0}

ASSUME SourceAssumption == NoSource \notin Sources
ASSUME DeltaAssumption == Deltas \subseteq Int
ASSUME BoundAssumption == MaxMovements \in Nat

\* A job is a source and the items it draws, raw material before colorant.  The
\* two may be one item, or the other way round for another bag: the foreign
\* keys of Package do not restrict the item's type.
ASSUME JobAssumption ==
  \A j \in Jobs :
    /\ j = [source |-> j.source, lines |-> j.lines]
    /\ j.source \in Sources
    /\ j.lines \in Seq(Line)
    /\ \A k \in 1..Len(j.lines) :
         j.lines[k].type = "CONSUMPTION" /\ j.lines[k].delta < 0

Idle == [pc |-> "idle", source |-> NoSource, lines |-> << >>, at |-> 1,
         seen |-> [i \in Items |-> 0], wrote |-> {}]

Init ==
  /\ quantity = [i \in Items |-> 0]
  /\ shelf = [i \in Items |-> "absent"]
  /\ ledger = [i \in Items |-> << >>]
  /\ recorded = {}
  /\ tx = [w \in Workers |-> Idle]
----------------------------------------------------------------------------
\* The line the request is at.
Current(w) == tx[w].lines[tx[w].at]

\* A row written and not yet committed stays locked by its writer.
Holds(w, i) == \E k \in tx[w].wrote : tx[w].lines[k].item = i

LockedByOther(w, i) == \E v \in Workers \ {w} : Holds(v, i)

\* unique_stock_movement_per_source: a movement with this key is committed.
\* The condition of the partial constraint leaves blank sources out.
Charged(s, i, type) ==
  /\ s # NoSource
  /\ \E n \in 1..Len(ledger[i]) : ledger[i][n].source = s /\ ledger[i][n].type = type

\* Mutant: the idempotency query forgets to filter by item.
ExistingOfAnyItem(w) ==
  /\ tx[w].source # NoSource
  /\ \/ \E i \in Items : Charged(tx[w].source, i, Current(w).type)
     \/ tx[w].wrote # {}

\* What the query of apply_movement_idempotent() finds: committed rows and
\* those its own transaction inserted.  A manual movement makes no such query.
Existing(w) ==
  /\ tx[w].source # NoSource
  /\ \/ Charged(tx[w].source, Current(w).item, Current(w).type)
     \/ Holds(w, Current(w).item)

\* The quantity_after of line k, computed from the loaded quantity.
After(w, k) == tx[w].seen[tx[w].lines[k].item] + tx[w].lines[k].delta

\* Where a request with these lines stands once it has dealt with line n.
PcAfter(lines, n) == IF n < Len(lines) THEN "check" ELSE "commit"

Finish(w) == tx' = [tx EXCEPT ![w] = Idle]

StepPast(w, written) ==
  tx' = [tx EXCEPT ![w] = [pc |-> PcAfter(tx[w].lines, tx[w].at),
                           source |-> tx[w].source, lines |-> tx[w].lines,
                           at |-> tx[w].at + 1, seen |-> tx[w].seen,
                           wrote |-> tx[w].wrote \cup written]]

Rollback(w) == Finish(w) /\ UNCHANGED <<quantity, shelf, ledger, recorded>>
----------------------------------------------------------------------------
\* StockItemViewSet.perform_create: quantity is read-only, so it starts at 0.
CreateItem(i) ==
  /\ shelf[i] = "absent"
  /\ shelf' = [shelf EXCEPT ![i] = "active"]
  /\ UNCHANGED <<quantity, ledger, recorded, tx>>

\* perform_destroy archives with update_fields = [is_active]: the quantity the
\* instance holds is not written.  It waits for the row lock.
ArchiveItem(i) ==
  /\ "archive" \in Requests
  /\ shelf[i] = "active"
  /\ \A w \in Workers : ~Holds(w, i)
  /\ shelf' = [shelf EXCEPT ![i] = "archived"]
  /\ UNCHANGED <<quantity, ledger, recorded, tx>>

\* The quantities of the item rows a request loads; of the others it knows nothing.
SeenBy(lines) ==
  [i \in Items |-> IF \E k \in 1..Len(lines) : lines[k].item = i THEN quantity[i] ELSE 0]

\* A request loads the item rows and remembers their quantities.
Load(w, source, lines, pc) ==
  /\ tx[w].pc = "idle"
  /\ \A k \in 1..Len(lines) : shelf[lines[k].item] # "absent"
  /\ tx' = [tx EXCEPT ![w] = [pc |-> pc, source |-> source, lines |-> lines,
                              at |-> 1, seen |-> SeenBy(lines), wrote |-> {}]]
  /\ UNCHANGED <<quantity, shelf, ledger, recorded>>

\* StockItemViewSet.move(): get_object, then apply_movement() without a source.
LoadMove(w, m) ==
  /\ "move" \in Requests
  /\ Len(ledger[m.item]) < MaxMovements
  /\ Load(w, NoSource, <<m>>, "check")

\* PackageViewSet.perform_create or ProductionEntryViewSet.validate.
LoadJob(w, j) ==
  /\ "consume" \in Requests
  /\ Load(w, j.source, j.lines, PcAfter(j.lines, 0))

\* StockItemViewSet.update: get_object, then the serializer validates.
LoadEdit(w, i) ==
  /\ "edit" \in Requests
  /\ Load(w, NoSource, <<[item |-> i, type |-> "EDIT", delta |-> 0]>>, "edit")

\* Mutant: the quantity field of the serializer is not read-only.
SaveEditQuantity(w) ==
  /\ tx[w].pc = "edit"
  /\ ~LockedByOther(w, Current(w).item)
  /\ \E kg \in Deltas \cap Nat : quantity' = [quantity EXCEPT ![Current(w).item] = kg]
  /\ Finish(w)
  /\ UNCHANGED <<shelf, ledger, recorded>>

\* serializer.save() writes the whole row: is_active as the client asks, and
\* the quantity as it was loaded.  It waits for the row lock.
SaveEdit(w) ==
  /\ tx[w].pc = "edit"
  /\ ~LockedByOther(w, Current(w).item)
  /\ quantity' = [quantity EXCEPT ![Current(w).item] = tx[w].seen[Current(w).item]]
  /\ \E flag \in {"active", "archived"} :
       shelf' = [shelf EXCEPT ![Current(w).item] = flag]
  /\ Finish(w)
  /\ UNCHANGED <<ledger, recorded>>

\* apply_movement_idempotent() finds the movement: created = False, no change.
SkipExisting(w) ==
  /\ tx[w].pc = "check"
  /\ Existing(w)
  /\ StepPast(w, {})
  /\ UNCHANGED <<quantity, shelf, ledger, recorded>>

\* Mutant: perform_create() saves the bag outside the transaction of its movements.
RejectKeepingBag(w) ==
  /\ tx[w].pc = "check"
  /\ ~Existing(w)
  /\ After(w, tx[w].at) < 0
  /\ Finish(w)
  /\ recorded' = IF tx[w].source = NoSource THEN recorded
                 ELSE recorded \cup {[source |-> tx[w].source, lines |-> tx[w].lines]}
  /\ UNCHANGED <<quantity, shelf, ledger>>

\* Mutant: every movement is a transaction of its own; a colorant that lacks
\* undoes the bag and leaves the raw material taken.
RejectKeepingLines(w) ==
  /\ tx[w].pc = "check"
  /\ ~Existing(w)
  /\ After(w, tx[w].at) < 0
  /\ \A k \in tx[w].wrote :
       LET line == tx[w].lines[k] IN
         /\ quantity' = [quantity EXCEPT ![line.item] = After(w, k)]
         /\ ledger' = [ledger EXCEPT ![line.item] =
              Append(@, [type |-> line.type, delta |-> line.delta, after |-> After(w, k),
                         before |-> tx[w].seen[line.item], source |-> tx[w].source])]
  /\ tx[w].wrote = {} => UNCHANGED <<quantity, ledger>>
  /\ Finish(w)
  /\ UNCHANGED <<shelf, recorded>>

\* The result would be negative: ValidationError, and the whole request, the bag
\* or the validation with it, is rolled back.
Reject(w) ==
  /\ tx[w].pc = "check"
  /\ ~Existing(w)
  /\ After(w, tx[w].at) < 0
  /\ Rollback(w)

\* Mutant: no check that the result is not negative.
PassUnchecked(w) ==
  /\ tx[w].pc = "check"
  /\ ~Existing(w)
  /\ tx' = [tx EXCEPT ![w].pc = "write"]
  /\ UNCHANGED <<quantity, shelf, ledger, recorded>>

\* The loaded quantity suffices: apply_movement() goes on to its UPDATE.
PassCheck(w) ==
  /\ tx[w].pc = "check"
  /\ ~Existing(w)
  /\ After(w, tx[w].at) >= 0
  /\ tx' = [tx EXCEPT ![w].pc = "write"]
  /\ UNCHANGED <<quantity, shelf, ledger, recorded>>

\* Mutant: the unique constraint is missing.
WriteUnconstrained(w) ==
  /\ tx[w].pc = "write"
  /\ ~LockedByOther(w, Current(w).item)
  /\ StepPast(w, {tx[w].at})
  /\ UNCHANGED <<quantity, shelf, ledger, recorded>>

\* UPDATE of the quantity and INSERT of the movement, once the row lock is had.
WriteLine(w) ==
  /\ tx[w].pc = "write"
  /\ ~LockedByOther(w, Current(w).item)
  /\ ~Charged(tx[w].source, Current(w).item, Current(w).type)
  /\ StepPast(w, {tx[w].at})
  /\ UNCHANGED <<quantity, shelf, ledger, recorded>>

\* The INSERT breaks the unique constraint: the savepoint takes the UPDATE and
\* its lock back, and the existing movement is returned.
UniqueViolation(w) ==
  /\ tx[w].pc = "write"
  /\ ~LockedByOther(w, Current(w).item)
  /\ Charged(tx[w].source, Current(w).item, Current(w).type)
  /\ StepPast(w, {})
  /\ UNCHANGED <<quantity, shelf, ledger, recorded>>

\* The line of w's request that wrote item i.
WrittenLine(w, i) == CHOOSE k \in tx[w].wrote : tx[w].lines[k].item = i

\* Mutant: the movement quotes the row of the moment, the UPDATE the loaded one.
MovementOfRow(w, k) ==
  [type |-> tx[w].lines[k].type, delta |-> tx[w].lines[k].delta,
   before |-> quantity[tx[w].lines[k].item],
   after |-> quantity[tx[w].lines[k].item] + tx[w].lines[k].delta,
   source |-> tx[w].source]

\* Mutant: the movement records the amount without its sign.
MovementUnsigned(w, k) ==
  [type |-> tx[w].lines[k].type,
   delta |-> IF tx[w].lines[k].delta < 0 THEN -tx[w].lines[k].delta
                                         ELSE tx[w].lines[k].delta,
   before |-> tx[w].seen[tx[w].lines[k].item], after |-> After(w, k),
   source |-> tx[w].source]

MovementOf(w, k) ==
  [type |-> tx[w].lines[k].type, delta |-> tx[w].lines[k].delta,
   before |-> tx[w].seen[tx[w].lines[k].item], after |-> After(w, k),
   source |-> tx[w].source]

\* The transaction commits: its quantities, its movements and, for a job, the
\* bag or the validated entry become visible together, and its locks go.
Commit(w) ==
  /\ tx[w].pc = "commit"
  /\ quantity' = [i \in Items |-> IF Holds(w, i) THEN After(w, WrittenLine(w, i))
                                                 ELSE quantity[i]]
  /\ ledger' = [i \in Items |-> IF Holds(w, i)
                                THEN Append(ledger[i], MovementOf(w, WrittenLine(w, i)))
                                ELSE ledger[i]]
  /\ recorded' = IF tx[w].source = NoSource THEN recorded
                 ELSE recorded \cup {[source |-> tx[w].source, lines |-> tx[w].lines]}
  /\ Finish(w)
  /\ UNCHANGED shelf

\* The item whose lock w is waiting for, held by v.
WaitsFor(w, v) ==
  /\ tx[w].pc \in {"write", "edit"}
  /\ v # w
  /\ Holds(v, Current(w).item)

\* Mutant: nothing breaks a cycle of waiters.
NoVictim(w) ==
  /\ tx[w].pc = "deadlocked"
  /\ Rollback(w)

\* PostgreSQL finds a cycle of waiters and aborts one of them.
DeadlockVictim(w) ==
  /\ \E S \in SUBSET Workers :
       /\ w \in S
       /\ \A u \in S : \E v \in S : WaitsFor(u, v)
  /\ Rollback(w)

\* The process dies or the connection is lost: the transaction is rolled back.
Abort(w) ==
  /\ tx[w].pc # "idle"
  /\ Rollback(w)
----------------------------------------------------------------------------
Start(w) ==
  \/ \E m \in ManualMoves : LoadMove(w, m)
  \/ \E j \in Jobs : LoadJob(w, j)
  \/ \E i \in Items : LoadEdit(w, i)

LockedStep(w) == SaveEdit(w) \/ WriteLine(w) \/ UniqueViolation(w)

Step(w) ==
  \/ SkipExisting(w) \/ Reject(w) \/ PassCheck(w) \/ Commit(w)
  \/ DeadlockVictim(w)
  \/ LockedStep(w)

Next ==
  \/ \E i \in Items : CreateItem(i) \/ ArchiveItem(i)
  \/ \E w \in Workers : Start(w) \/ Step(w) \/ Abort(w)

Spec == Init /\ [][Next]_vars

\* A thread keeps running its request, and PostgreSQL serves the waiters of a
\* row lock in turn: a step that waits for a lock is not passed over for ever.
Fairness ==
  \A w \in Workers : WF_vars(Step(w)) /\ SF_vars(LockedStep(w))

FairSpec == Spec /\ Fairness
----------------------------------------------------------------------------
\* Types; among them that no committed quantity, loaded quantity or quantity a
\* movement quotes is ever negative (apply_movement: "Never allows the
\* resulting quantity to go negative"), which the check before the lock gives.
TypeOK ==
  /\ quantity \in [Items -> Nat]
  /\ shelf \in [Items -> {"absent", "active", "archived"}]
  /\ ledger \in [Items -> Seq(Movement)]
  /\ recorded \subseteq Jobs
  /\ tx \in [Workers -> Request]

\* However requests race, retry, fail or die, one source charges an item at most
\* once: unique_stock_movement_per_source and apply_movement_idempotent().
AtMostOncePerSource ==
  \A i \in Items : \A m, n \in 1..Len(ledger[i]) :
    /\ ledger[i][m].source = ledger[i][n].source
    /\ ledger[i][m].type = ledger[i][n].type
    /\ ledger[i][m].source # NoSource
    => m = n

\* A committed bag or validated entry has all its material charged to its source,
\* also when a concurrent request with that source did the charging: no line is
\* skipped on the strength of a movement that was rolled back.
RecordedIsCharged ==
  \A j \in recorded : \A k \in 1..Len(j.lines) :
    Charged(j.source, j.lines[k].item, j.lines[k].type)

\* Nothing is charged for a bag or an entry whose request was rolled back.
ChargedIsRecorded ==
  \A i \in Items : \A n \in 1..Len(ledger[i]) :
    ledger[i][n].source # NoSource =>
      \E j \in recorded : /\ j.source = ledger[i][n].source
                          /\ \E k \in 1..Len(j.lines) :
                               /\ j.lines[k].item = i
                               /\ j.lines[k].delta = ledger[i][n].delta

\* One source charges an item at most once, and exactly for the bag or the entry
\* that is committed with it, however requests race, retry, fail or die.
ChargedExactly == AtMostOncePerSource /\ RecordedIsCharged /\ ChargedIsRecorded

\* The quantity of item i is the quantity_after of its newest movement.
Explained(i) ==
  quantity[i] = IF ledger[i] = << >> THEN 0 ELSE ledger[i][Len(ledger[i])].after

\* The quantity of every item is the quantity_after of its newest movement: only
\* apply_movement() changes quantities ("Single chokepoint for every stock
\* quantity change", apps/stock/services.py).  It holds while requests come one at a
\* time; a SaveEdit undoes a movement committed since its LoadEdit.
QuantityIsLastAfter == \A i \in Items : Explained(i)

\* Each movement starts from the quantity the one before it left: no update of
\* the quantity was lost.
ChainUnbroken ==
  \A i \in Items : \A n \in 1..Len(ledger[i]) :
    /\ ledger[i][n].before = IF n = 1 THEN 0 ELSE ledger[i][n - 1].after
    /\ ledger[i][n].after = ledger[i][n].before + ledger[i][n].delta

\* Every request ends, committed or rolled back: requests whose bags draw on the
\* same items in opposite orders do not wait for each other for ever.
RequestEnds == \A w \in Workers : tx[w].pc # "idle" ~> tx[w].pc = "idle"
----------------------------------------------------------------------------
\* What source s took of item i, by the ledger.
Billed(i, s) ==
  IF \E n \in 1..Len(ledger[i]) : ledger[i][n].source = s
  THEN -ledger[i][CHOOSE n \in 1..Len(ledger[i]) : ledger[i][n].source = s].delta
  ELSE 0

bill == [i \in Items |-> [s \in Sources |-> Billed(i, s)]]

\* The ledger implements the promise of ConsumeOnce.
Promise == INSTANCE ConsumeOnce
             WITH Items <- Items, Sources <- Sources, Jobs <- Jobs,
                  recorded <- recorded, bill <- bill

ConsumesOnce == Promise!Spec
============================================================================
