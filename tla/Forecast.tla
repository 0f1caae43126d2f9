------------------------------ MODULE Forecast ------------------------------
(***************************************************************************)
(* What the plant can still make: recipes (apps/catalog), the schedule of  *)
(* the order queue and its simulation against the stock (apps/planning),   *)
(* requirements, reservations and capacity (apps/stock, apps/catalog).     *)
(*                                                                         *)
(* The figures are computed anew on every read from rows the requests      *)
(* change; a request is one step here, their races are ProductionFlow's.   *)
(* Quantities are in grams: kilograms times a thousand, so exact.          *)
(***************************************************************************)
EXTENDS Integers, Sequences, FiniteSets, FiniteSetsExt, SequencesExt, Functions

CONSTANTS Items, NoItem, Threshold,     \* StockItem; min_threshold of each
          Bottles, NoBottle, Recipes,   \* BottleCharacteristic; what it may say
          Orders, Machines,             \* keys, which are numbers
          Forms,                        \* what a client may put in an order:
                                        \* machine, mold, bottle, quantity, start
          NoTime, NoMold, Now,
          MoldChange,                   \* mold_change_min
          Batches, Deliveries           \* bottles of an entry, grams of a delivery

RawTypes == {"BOTTLE_RAW", "CAP_RAW"}
ColorantTypes == {"BOTTLE_COLORANT", "CAP_COLORANT"}
Types == RawTypes \union ColorantTypes

ASSUME KeysAssumption == Orders \subseteq Nat /\ Machines \subseteq Nat

\* An item has one type (limit_choices_to); nothing checks the sign of the grams.
ASSUME RecipesAssumption ==
  /\ NoItem \notin Items
  /\ \A r \in Recipes : /\ r.raw \in Items /\ r.colorant \in Items \union {NoItem}
                        /\ r.raw # r.colorant
                        /\ \A t \in Types : r.g[t] \in Int

\* validate_quantity.
ASSUME FormsAssumption ==
  \A f \in Forms : /\ f.machine \in Machines /\ f.bottle \in Bottles \union {NoBottle}
                   /\ f.quantity \in Nat \ {0} /\ f.start \in Int \union {NoTime}

ASSUME AmountsAssumption ==
  /\ Batches \subseteq Nat /\ Deliveries \subseteq Nat
  /\ MoldChange \in Nat /\ Now \in Int /\ \A i \in Items : Threshold[i] \in Int

VARIABLES quantity,     \* StockItem.quantity
          recipe,       \* the fields of BottleCharacteristic
          component,    \* RecipeComponent rows of each bottle, by type
          order,        \* PlanningOrder rows
          produced,     \* bottles_produced of an order's validated entries
          reserved      \* StockReservation rows of each order, by type

forecastVars == <<quantity, recipe, component, order, produced, reserved>>

Live == {"QUEUED", "IN_PROGRESS"}

NoOrder == [status |-> "none"]
NoRows == [t \in {} |-> {}]

Row(f, status) ==
  [status |-> status, machine |-> f.machine, mold |-> f.mold, bottle |-> f.bottle,
   quantity |-> f.quantity, start |-> f.start]

SyncRecipeComponents(r) ==
  [t \in IF r.colorant = NoItem THEN RawTypes ELSE Types |->
     [item |-> IF t \in RawTypes THEN r.raw ELSE r.colorant, g |-> r.g[t]]]

\* The grams of item i that n bottles take, by the components.
Needs(b, n, i) ==
  n * SumFunction([t \in {u \in DOMAIN component[b] : component[b][u].item = i} |->
                     component[b][t].g])

\* raw_and_colorant_requirement: the items; each takes what Needs says.
Drawn(b) == {component[b][t].item : t \in DOMAIN component[b]}

\* Mutant: more than was ordered leaves less than nothing.
RemainingUnfloored(row, made) == row.quantity - made

Remaining(row, made) == Max({row.quantity - made, 0})

\* Mutant: what was produced already is reserved again.
ReservationsOfAll(row, made) ==
  IF row.bottle = NoBottle \/ row.status \notin Live \/ Remaining(row, made) = 0
  THEN NoRows
  ELSE [t \in DOMAIN component[row.bottle] |->
          [item |-> component[row.bottle][t].item,
           grams |-> component[row.bottle][t].g * row.quantity]]

\* sync_reservations_for_order: the rows are deleted and made again.
Reservations(row, made) ==
  IF row.bottle = NoBottle \/ row.status \notin Live \/ Remaining(row, made) = 0
  THEN NoRows
  ELSE [t \in DOMAIN component[row.bottle] |->
          [item |-> component[row.bottle][t].item,
           grams |-> component[row.bottle][t].g * Remaining(row, made)]]

-----------------------------------------------------------------------------
(* The requests.                                                           *)

ForecastInit ==
  /\ quantity \in [Items -> Deliveries]
  /\ recipe \in [Bottles -> Recipes]
  /\ component = [b \in Bottles |-> SyncRecipeComponents(recipe[b])]
  /\ order = [o \in Orders |-> NoOrder]
  /\ produced = [o \in Orders |-> 0]
  /\ reserved = [o \in Orders |-> NoRows]

Write(o, row) ==
  /\ order' = [order EXCEPT ![o] = row]
  /\ reserved' = [reserved EXCEPT ![o] = Reservations(row, produced[o])]
  /\ UNCHANGED <<quantity, recipe, component, produced>>

CreateOrder(o) ==
  /\ order[o] = NoOrder
  /\ \A p \in Orders : p < o => order[p] # NoOrder
  /\ \E f \in Forms : Write(o, Row(f, "QUEUED"))

\* status is read-only to the client.
UpdateOrder(o) ==
  /\ order[o] # NoOrder /\ order[o].status # "deleted"
  /\ \E f \in Forms : Write(o, Row(f, order[o].status))

\* A DONE order is kept; reservations go with the order, entries do not.
DestroyOrder(o) ==
  /\ order[o].status \in Live
  /\ order' = [order EXCEPT ![o] = [status |-> "deleted"]]
  /\ reserved' = [reserved EXCEPT ![o] = NoRows]
  /\ produced' = [produced EXCEPT ![o] = 0]
  /\ UNCHANGED <<quantity, recipe, component>>

\* An entry of n bottles is validated against o; see ProductionFlow.
Validate(o) ==
  \E n \in Batches :
    LET row == order[o]
        made == produced[o] + n
        status == IF row.status = "DONE" \/ Remaining(row, made) = 0
                  THEN "DONE" ELSE "IN_PROGRESS"
        draw(i) == IF row.bottle = NoBottle THEN 0 ELSE Needs(row.bottle, n, i)
        after == Row(row, status)
    IN /\ row.status \in Live \union {"DONE"}
       /\ \A i \in Items : quantity[i] >= draw(i)
       /\ quantity' = [i \in Items |-> quantity[i] - draw(i)]
       /\ produced' = [produced EXCEPT ![o] = made]
       /\ order' = [order EXCEPT ![o] = after]
       /\ reserved' = [reserved EXCEPT ![o] =
            IF row.status = "DONE" THEN reserved[o]
            ELSE Reservations(after, made)]
       /\ UNCHANGED <<recipe, component>>

Deliver(i) ==
  /\ \E g \in Deliveries : quantity' = [quantity EXCEPT ![i] = @ + g]
  /\ UNCHANGED <<recipe, component, order, produced, reserved>>

\* perform_create and perform_update of a bottle.
EditBottle(b) ==
  /\ \E r \in Recipes : /\ recipe' = [recipe EXCEPT ![b] = r]
                        /\ component' = [component EXCEPT ![b] = SyncRecipeComponents(r)]
  /\ UNCHANGED <<quantity, order, produced, reserved>>

\* The admin site saves the bottle and nothing else.
AdminEditBottle(b) ==
  /\ \E r \in Recipes : recipe' = [recipe EXCEPT ![b] = r]
  /\ UNCHANGED <<quantity, component, order, produced, reserved>>

ForecastNext ==
  \/ \E o \in Orders : CreateOrder(o) \/ UpdateOrder(o) \/ DestroyOrder(o) \/ Validate(o)
  \/ \E i \in Items : Deliver(i)
  \/ \E b \in Bottles : EditBottle(b) \/ AdminEditBottle(b)

-----------------------------------------------------------------------------
(* calculate_schedule.                                                     *)

Queue == {o \in Orders : order[o].status = "QUEUED"}

\* S in the order of R, a set of pairs.
Sorted(S, R) ==
  CHOOSE s \in [1 .. Cardinality(S) -> S] :
    /\ \A x \in S : \E n \in DOMAIN s : s[n] = x
    /\ \A k, n \in DOMAIN s : k < n => <<s[k], s[n]>> \in R

\* By requested_start, nulls last, then by key.
ComesBefore(o, p) ==
  LET s == order[o].start  u == order[p].start IN
  IF s = u THEN o < p ELSE u = NoTime \/ (s # NoTime /\ s < u)

Waiting(m) ==
  LET orders == {o \in Queue : order[o].machine = m}
  IN Sorted(orders, {p \in orders \X orders : ComesBefore(p[1], p[2])})

\* Mutant: a requested start is taken as it is.
StartAsAsked(o, jobs) ==
  IF order[o].start # NoTime THEN order[o].start
  ELSE IF jobs = <<>> THEN Now ELSE Last(jobs).finish

\* Never before the machine is free.
Start(o, jobs) ==
  LET asked == IF order[o].start # NoTime THEN order[o].start ELSE Now
  IN IF jobs = <<>> THEN asked
     ELSE IF order[o].start = NoTime THEN Last(jobs).finish
     ELSE Max({asked, Last(jobs).finish})

\* A mold is changed when the job before had another one.
Book(jobs, o) ==
  LET before == IF jobs = <<>> THEN NoMold ELSE order[Last(jobs).order].mold
      change == IF before # NoMold /\ order[o].mold # before THEN MoldChange ELSE 0
      start == Start(o, jobs)
  IN Append(jobs, [order |-> o, start |-> start,
                   finish |-> start + change + order[o].quantity])

Timeline(m) == FoldLeft(Book, <<>>, Waiting(m))

StartOf(o) == LET jobs == Timeline(order[o].machine)
              IN jobs[CHOOSE n \in DOMAIN jobs : jobs[n].order = o].start

\* Python's sort is stable: at one time, by machine and as they wait there.
StartsBefore(start, o, p) ==
  \/ start[o] < start[p]
  \/ /\ start[o] = start[p]
     /\ \/ order[o].machine < order[p].machine
        \/ order[o].machine = order[p].machine /\ ComesBefore(o, p)

\* The queued orders of all machines by their start.
StartOrder ==
  LET start == [o \in Queue |-> StartOf(o)]
  IN Sorted(Queue, {p \in Queue \X Queue : StartsBefore(start, p[1], p[2])})

\* The grams of i for what is left of o, and whether the pool has them all.
Need(o, i) == Needs(order[o].bottle, Remaining(order[o], produced[o]), i)
Enough(pool, o) == \A i \in Drawn(order[o].bottle) : pool[i] >= Need(o, i)

\* Mutant: an order that cannot be made takes its material all the same.
TakeAlways(pool, o) == [i \in Items |-> pool[i] - Need(o, i)]

\* The pool once o has been made, if it can be.
Take(pool, o) == IF Enough(pool, o) THEN [i \in Items |-> pool[i] - Need(o, i)] ELSE pool

\* The check of one order, if it has a recipe and is not all made.
Check(acc, o) ==
  LET left == Take(acc.pool, o)
      status == IF ~Enough(acc.pool, o) THEN "INSUFFICIENT"
                ELSE IF \E i \in Drawn(order[o].bottle) : left[i] <= Threshold[i]
                THEN "WARNING" ELSE "OK"
  IN IF order[o].bottle = NoBottle \/ Remaining(order[o], produced[o]) = 0 THEN acc
     ELSE [pool |-> left, checks |-> Append(acc.checks, [order |-> o, status |-> status])]

\* simulate_stock_sequence: each order in turn.
Simulate == FoldLeft(Check, [pool |-> quantity, checks |-> <<>>], StartOrder).checks

-----------------------------------------------------------------------------
(* calculate_material_requirements and max_producible.                     *)

\* The grams of item i that o has reserved.
Held(o, i) ==
  SumFunction([t \in {u \in DOMAIN reserved[o] : reserved[o][u].item = i} |->
                 reserved[o][t].grams])

\* _reserved_totals, of every order that has rows.
ReservedOf(i) ==
  SumFunction([o \in {p \in Orders : DOMAIN reserved[p] # {}} |-> Held(o, i)])

RequirementStatus(b, n, i) ==
  LET projected == quantity[i] - ReservedOf(i) - Needs(b, n, i) IN
  IF projected < 0 THEN "INSUFFICIENT"
  ELSE IF projected <= Threshold[i] THEN "WARNING" ELSE "OK"

\* Decimal // truncates towards zero.
Quotient(a, d) == IF a < 0 THEN -((-a) \div d) ELSE a \div d

\* Mutant: each component by itself.
PerBottleAlone(b, i) ==
  Max({component[b][t].g : t \in {u \in DOMAIN component[b] : component[b][u].item = i}})

PerBottle(b, i) == Needs(b, 1, i)

\* The capacity that stock gives, all of it or what is not reserved.
Capacity(b, stock) ==
  LET limits == {Quotient(stock[i], PerBottle(b, i)) : i \in {j \in Drawn(b) : PerBottle(b, j) > 0}}
  IN IF limits = {} THEN 0 ELSE Min(limits)

Available == [i \in Items |-> quantity[i] - ReservedOf(i)]

LimitingComponents(b) ==
  {i \in Drawn(b) : PerBottle(b, i) > 0
                    /\ Quotient(Available[i], PerBottle(b, i)) = Capacity(b, Available)}

\* MaterialsOverviewView: planned against made.
Active == {o \in Orders : order[o].status \in Live}
Planned == SumFunction([o \in Active |-> order[o].quantity])
Actual == Planned - SumFunction([o \in Active |-> Remaining(order[o], produced[o])])
StatusCount(checks, status) == Cardinality({n \in DOMAIN checks : checks[n].status = status})

-----------------------------------------------------------------------------
(* Properties.                                                             *)

\* The recipes are what a scale shows, which nothing checks.
Weighed == \A r \in Recipes : \A t \in Types : r.g[t] >= 0

\* The types; by recipes that were weighed nothing negative is reserved.
ForecastTypeOK ==
  /\ quantity \in [Items -> Nat] /\ produced \in [Orders -> Nat]
  /\ recipe \in [Bottles -> Recipes]
  /\ \A b \in Bottles : DOMAIN component[b] \in {RawTypes, Types}
                        /\ Drawn(b) \subseteq Items
  /\ \A o \in Orders : /\ order[o].status \in Live \union {"none", "DONE", "deleted"}
                       /\ \A t \in DOMAIN reserved[o] :
                            /\ reserved[o][t].grams \in Int
                            /\ Weighed => reserved[o][t].grams >= 0

\* The simulation (simulate_stock_sequence): an order is refused just when it does
\* not fit with the orders before it that are not, and a refused one takes nothing
\* from those that follow.
SimulationIsGreedy ==
  LET checks == Simulate
      need(n, i) == Needs(order[checks[n].order].bottle, order[checks[n].order].quantity, i)
      before(n) == {k \in 1 .. n - 1 : checks[k].status # "INSUFFICIENT"}
  IN \A n \in DOMAIN checks :
       checks[n].status = "INSUFFICIENT" <=>
         \E i \in Items :
           need(n, i) + SumFunction([k \in before(n) |-> need(k, i)]) > quantity[i]

\* "can't start earlier than the previous job's finish" (calculate_schedule): a
\* machine does one job at a time, none before it was asked for, every queued order
\* once, and a job takes the time of its bottles and, "only added when the mold
\* actually differs from the previous job's", that of the change.
NeverDoubleBooked ==
  \A m \in Machines :
    LET jobs == Timeline(m) IN
    /\ {jobs[n].order : n \in DOMAIN jobs} = {o \in Queue : order[o].machine = m}
    /\ \A n \in DOMAIN jobs :
         LET o == jobs[n].order IN
         /\ order[o].start # NoTime => jobs[n].start >= order[o].start
         /\ LET before == IF n = 1 THEN NoMold ELSE order[jobs[n - 1].order].mold
                other == before # NoMold /\ order[o].mold # before
            IN jobs[n].finish = jobs[n].start + order[o].quantity
                                + IF other THEN MoldChange ELSE 0
         /\ \A k \in 1 .. n - 1 :
              /\ jobs[k].order # o
              /\ jobs[k].finish <= jobs[n].start

\* max_producible agrees with calculate_material_requirements: that many bottles
\* can be made and one more cannot, for want of the limiting component; and what is
\* there is at least what is available ("Always >= available_capacity"), by recipes
\* that were weighed.
CapacityIsExact ==
  \A b \in Bottles :
    LET n == Capacity(b, Available) IN
    /\ Weighed => Capacity(b, quantity) >= n
    /\ \A i \in LimitingComponents(b) :
         Available[i] >= 0 => RequirementStatus(b, n + 1, i) = "INSUFFICIENT"
    /\ (\A i \in Items : Available[i] >= 0) =>
         \A i \in Drawn(b) : RequirementStatus(b, n, i) # "INSUFFICIENT"

\* What order o should have reserved of item i, by the recipe as it was last saved.
Due(o, i) ==
  LET r == recipe[order[o].bottle]
      types == (IF r.raw = i THEN RawTypes ELSE {})
               \union (IF r.colorant = i THEN ColorantTypes ELSE {})
  IN Remaining(order[o], produced[o]) * SumFunction([t \in types |-> r.g[t]])

\* Reservations are "always recomputed, never hand-edited"
\* (sync_reservations_for_order): an order holds what its recipe says for what is
\* left of it, body and cap, colorant or not.
ReservedFollowsRecipe(o) ==
  \A i \in Items :
    Held(o, i) = IF order[o].status \in Live /\ order[o].bottle # NoBottle
                 THEN Due(o, i) ELSE 0

\* The dashboard's overview (MaterialsOverviewView): what was made of the live orders
\* is between nothing and what was planned, however many bottles were entered, and
\* every queued order with a recipe is counted under one status.
OverviewAddsUp ==
  LET checks == Simulate IN
  /\ Actual \in 0 .. Planned
  /\ StatusCount(checks, "OK") + StatusCount(checks, "WARNING")
        + StatusCount(checks, "INSUFFICIENT")
       = Cardinality({o \in Queue : order[o].bottle # NoBottle})
=============================================================================
