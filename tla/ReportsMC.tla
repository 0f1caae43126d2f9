------------------------------ MODULE ReportsMC ------------------------------
(***************************************************************************)
(* Small instances of Forecast and Figures for TLC, side by side: they     *)
(* share no row.  History variables tell which figures were made from rows *)
(* that have changed since.                                                *)
(***************************************************************************)
EXTENDS Forecast, Figures, TLC

CONSTANTS pet, red, small, big, moldA, moldB,
          MaxStock, MaxProduced   \* bounds on the grams of an item, on bottles

Thresholds == (pet :> 1) @@ (red :> 0)

Grams(body, cap, tint) == ("BOTTLE_RAW" :> body) @@ ("CAP_RAW" :> cap)
                            @@ ("BOTTLE_COLORANT" :> tint) @@ ("CAP_COLORANT" :> 0)

RecipeBook == {[raw |-> pet, colorant |-> red, g |-> Grams(1, 1, 1)],
               [raw |-> pet, colorant |-> NoItem, g |-> Grams(1, 0, 0)]}

\* Two orders that contend for one machine, two that want another mold or machine.
OrderForms == {[machine |-> 1, mold |-> moldA, bottle |-> small, quantity |-> 2, start |-> NoTime],
               [machine |-> 1, mold |-> moldB, bottle |-> big, quantity |-> 1, start |-> 1],
               [machine |-> 2, mold |-> NoMold, bottle |-> small, quantity |-> 1, start |-> 2],
               [machine |-> 2, mold |-> moldA, bottle |-> NoBottle, quantity |-> 1, start |-> NoTime]}

\* An hour of each shift, with more rejects than bottles in one.
EntryForms == {[line |-> 1, hour |-> 7, shift |-> "", made |-> 2, rejects |-> 1, downtime |-> 0, pct |-> 0],
               [line |-> 1, hour |-> 23, shift |-> "", made |-> 3, rejects |-> 0, downtime |-> 4, pct |-> 0],
               [line |-> 1, hour |-> 7, shift |-> "NIGHT", made |-> 3, rejects |-> 2, downtime |-> 0, pct |-> -5],
               [line |-> 2, hour |-> 14, shift |-> "", made |-> 0, rejects |-> 1, downtime |-> 12, pct |-> 0]}

VARIABLES unsynced,     \* orders whose recipe changed since they were reserved for
          staleTrs,     \* machines whose entries, or record by hand, changed since
          staleCost,    \* their record of the TRS, or of the cost, was rebuilt
          touched,      \* entries sent more than once, or with a percentage or a shift
          side          \* which of the instances this is

history == <<unsynced, staleTrs, staleCost, touched>>

\* The admin site has left the components behind.
Drifted(b) == component[b] # SyncRecipeComponents(recipe[b])

Synced(o) == order'[o] # order[o] \/ produced'[o] # produced[o]

ForecastStep ==
  /\ ForecastNext
  /\ unsynced' =
       {o \in Orders :
          \/ o \in unsynced /\ ~Synced(o)
          \/ /\ order[o].status \in Live /\ order[o].bottle # NoBottle
             /\ \/ recipe'[order[o].bottle] # recipe[order[o].bottle]
                \/ component'[order[o].bottle] # component[order[o].bottle]}
  /\ UNCHANGED <<figuresVars, staleTrs, staleCost, touched>>

EntryChanged(m) == \E e \in Entries : entry'[e] # entry[e] /\ e \in OnLine(m) \union OnLine(m)'

\* Whether the step is a recalculation of machine m, which has entries.
TrsRecalculated(m) ==
  OnLine(m) # {} /\ \E machines \in SUBSET Lines : m \in machines /\ RecalcOEE(machines)
CostRecalculated(m) ==
  OnLine(m) # {} /\ \E machines \in SUBSET Lines : m \in machines /\ RecalcCost(machines)

\* The entry is made of one form with neither a percentage nor a shift of its own.
MadePlainly(e) ==
  \E s \in Sent : s.shift \in {"", ShiftForHour(s.hour)} /\ Make(e, s, 0)

FiguresStep ==
  /\ FiguresNext
  /\ staleTrs' = {m \in Lines : /\ m \in staleTrs \/ EntryChanged(m) \/ oee'[m] # oee[m]
                                /\ ~TrsRecalculated(m)}
  /\ staleCost' = {m \in Lines : /\ m \in staleCost \/ EntryChanged(m) \/ cost'[m] # cost[m]
                                 /\ ~CostRecalculated(m)}
  /\ touched' = {e \in Present' :
                   IF e \in Present
                   THEN e \in touched \/ (entry'[e] # entry[e] /\ ~entry'[e].final)
                   ELSE ~MadePlainly(e)}
  /\ UNCHANGED <<forecastVars, unsynced>>

HistoryInit ==
  /\ ForecastInit /\ FiguresInit
  /\ unsynced = {} /\ staleTrs = {} /\ staleCost = {} /\ touched = {}

HistoryNext == ForecastStep \/ FiguresStep

HistorySpec == HistoryInit /\ [][HistoryNext]_<<forecastVars, figuresVars, history>>

-----------------------------------------------------------------------------
\* Bounds: on the stock and on what is produced; one recipe that changes; two orders
\* once it has, or once something was produced or an order deleted, and one once
\* both; one final entry, and none that is sent again where records are looked at.
InBounds ==
  /\ \A i \in Items : quantity[i] <= MaxStock
  /\ SumFunction(produced) <= MaxProduced
  /\ recipe[big].colorant = NoItem /\ component[big] = SyncRecipeComponents(recipe[big])
  /\ LET changed == recipe[small].colorant # red \/ Drifted(small) \/ unsynced # {}
         moved == \E o \in Orders : produced[o] > 0 \/ order[o].status = "deleted"
     IN /\ changed \/ moved => \A o \in Orders : o > 2 => order[o] = NoOrder
        /\ changed /\ moved => \A o \in Orders : o > 1 => order[o] = NoOrder
  /\ Cardinality({e \in Present : entry[e].final}) < 2
  /\ side # "entries" => touched = {} /\ \A e \in Present : ~entry[e].final

MCInit ==
  /\ HistoryInit
  /\ side \in {"forecast", "entries", "trs", "cost"}
  /\ side # "forecast" => \A i \in Items : quantity[i] = 0
  /\ side # "cost" => rate = Min(Rates)
  /\ InBounds /\ recipe[small].colorant = red

MCNext ==
  /\ IF side = "forecast" THEN ForecastStep ELSE FiguresStep
  /\ side # "trs" => oee' = oee
  /\ side # "cost" => cost' = cost /\ rate' = rate
  /\ side' = side
  /\ InBounds'

MCSpec == MCInit /\ [][MCNext]_<<forecastVars, figuresVars, history, side>>

-----------------------------------------------------------------------------
TypeOK == ForecastTypeOK /\ FiguresTypeOK

\* ReservedFollowsRecipe, for orders whose recipe was not changed since their last
\* request, nor by the admin site without its components.
ReservedUnlessUnsynced ==
  \A o \in Orders \ unsynced :
    \/ order[o].status \in Live /\ order[o].bottle # NoBottle /\ Drifted(order[o].bottle)
    \/ ReservedFollowsRecipe(o)

\* TrsRebuilt and CostRebuilt, for machines of which neither an entry nor the record
\* was written since the last recalculation, and RecordsAgree, whoever wrote;
\* PctTellsRejects and ShiftTellsHour, for entries sent once, with neither a percentage
\* nor a shift of their own: save() keeps those of a client, and an edit or a second
\* form leaves those of the first.
FiguresUnlessTouched ==
  /\ RecordsAgree
  /\ \A m \in Lines \ staleTrs : TrsRebuilt(m)
  /\ \A m \in Lines \ staleCost : CostRebuilt(m)
  /\ \A e \in Present \ touched : PctTellsRejects(e) /\ ShiftTellsHour(e)

\* ShiftsAddUp and OverviewAddsUp.
TotalsAddUp == ShiftsAddUp /\ OverviewAddsUp
=============================================================================
