------------------------------- MODULE Figures -------------------------------
(***************************************************************************)
(* The figures of one day: hourly entries (apps/production), the TRS and   *)
(* cost records rebuilt from them (apps/oee, apps/costs) and the summaries *)
(* the screens add up (apps/production, apps/dashboard).                   *)
(*                                                                         *)
(* A request is one step.  made is bottles_produced + caps_produced.       *)
(* Percentages are in whole points, where the code keeps two decimals.     *)
(***************************************************************************)
EXTENDS Integers, FiniteSets, FiniteSetsExt, Functions

CONSTANTS Entries,                      \* keys of ProductionEntry
          Lines,                        \* machines
          Sent,                         \* what a client may send of an entry: line,
                                        \* hour, shift or "", made, rejects, downtime,
                                        \* pct, if it sends one
          Nominal, ShiftDuration,       \* theoretical_production, SHIFT_DURATION_MIN
          Rates                         \* COST_LABOR_H: CostParameter.value

Shifts == {"MORNING", "AFTERNOON", "NIGHT"}

ASSUME SentAssumption ==
  \A s \in Sent : /\ s.line \in Lines /\ s.hour \in Nat /\ s.shift \in Shifts \union {""}
                  /\ s.made \in Nat /\ s.rejects \in Nat /\ s.downtime \in Nat
                  /\ s.pct \in Int

\* A duration of zero is taken for 1440; nothing checks the sign of a parameter.
ASSUME FiguresAssumption ==
  /\ IsFiniteSet(Lines)
  /\ Nominal \in Nat /\ ShiftDuration \in Nat \ {0} /\ Rates \subseteq Int

VARIABLES entry,        \* ProductionEntry rows of the day
          oee, cost,    \* its OEERecord and CostRecord rows, shift "DAY"
          rate          \* the labour cost parameter

figuresVars == <<entry, oee, cost, rate>>

NoEntry == [made |-> -1]
NoRecord == [made |-> -1]
Present == {e \in Entries : entry[e] # NoEntry}
OnLine(m) == {e \in Present : entry[e].line = m}

\* round(n / d), half to even.
Round(n, d) ==
  LET q == n \div d  twice == 2 * (n % d)
  IN IF twice < d \/ (twice = d /\ q % 2 = 0) THEN q ELSE q + 1

-----------------------------------------------------------------------------
(* Entries.                                                                *)

ShiftForHour(h) ==
  IF h \in 6 .. 13 THEN "MORNING" ELSE IF h \in 14 .. 21 THEN "AFTERNOON" ELSE "NIGHT"

\* Mutant: an entry keeps the shift it was sent, or none.
SavedAsSent(row) ==
  [row EXCEPT !.pct = IF row.made > 0 /\ row.pct = 0
                      THEN Round(100 * row.rejects, row.made) ELSE @]

\* Mutant: the percentage is left to the client.
SavedWithoutPct(row) ==
  [row EXCEPT !.shift = IF @ = "" THEN ShiftForHour(row.hour) ELSE @]

\* ProductionEntry.save: a shift that is missing and a percentage that is zero.
Saved(row) ==
  [row EXCEPT !.shift = IF @ = "" THEN ShiftForHour(row.hour) ELSE @,
              !.pct = IF row.made > 0 /\ row.pct = 0
                      THEN Round(100 * row.rejects, row.made) ELSE @]

\* A row that is not validated.
Draft(s, shift, pct) ==
  [line |-> s.line, hour |-> s.hour, shift |-> shift, made |-> s.made,
   rejects |-> s.rejects, downtime |-> s.downtime, pct |-> pct, final |-> FALSE]

\* unique_together: one entry of a machine and an hour.
Unique(e, row) == \A f \in Present \ {e} : entry[f].line # row.line \/ entry[f].hour # row.hour

WriteEntry(e, row) ==
  /\ Unique(e, row)
  /\ entry' = [entry EXCEPT ![e] = row]
  /\ UNCHANGED <<oee, cost, rate>>

\* An entry is made of one form, its percentage sent (reject_pct is writable) or not.
Make(e, s, pct) == e \notin Present /\ WriteEntry(e, Saved(Draft(s, s.shift, pct)))

CreateEntry(e) == \E s \in Sent, sends \in BOOLEAN : Make(e, s, IF sends THEN s.pct ELSE 0)

\* A draft is saved whole; a shift or a percentage that is not sent stays.
UpdateEntry(e) ==
  /\ e \in Present /\ ~entry[e].final
  /\ \E s \in Sent, sends \in BOOLEAN :
       WriteEntry(e, Saved(Draft(s, IF s.shift = "" THEN entry[e].shift ELSE s.shift,
                                 IF sends THEN s.pct ELSE entry[e].pct)))

\* update_or_create() on an entry that is there writes the fields that were sent: what
\* save() works out is not among those, but for a percentage sent as zero.
Overwritten(row, s, sends) ==
  LET sent == [row EXCEPT !.made = s.made, !.rejects = s.rejects, !.downtime = s.downtime,
                          !.shift = IF s.shift = "" THEN @ ELSE s.shift]
  IN IF sends THEN [sent EXCEPT !.pct = Saved([sent EXCEPT !.pct = s.pct]).pct] ELSE sent

\* A bulk request makes entries like CreateEntry: is_valid() refuses an hour that has
\* one.  It does not compare the forms with each other: the second of an hour finds
\* the entry of the first.
BulkEntry(e) ==
  /\ e \notin Present
  /\ \E s, t \in Sent, sends, again \in BOOLEAN :
       /\ t.line = s.line /\ t.hour = s.hour
       /\ WriteEntry(e, Overwritten(Saved(Draft(s, s.shift, IF sends THEN s.pct ELSE 0)),
                                    t, again))

\* validate() saves the entry once more.
ValidateEntry(e) ==
  /\ e \in Present /\ ~entry[e].final
  /\ WriteEntry(e, Saved([entry[e] EXCEPT !.final = TRUE]))

DestroyEntry(e) ==
  /\ e \in Present /\ ~entry[e].final
  /\ entry' = [entry EXCEPT ![e] = NoEntry]
  /\ UNCHANGED <<oee, cost, rate>>

-----------------------------------------------------------------------------
(* Records.                                                                *)

\* field of the entries, added up.
Total(field, entries) == SumFunction([e \in entries |-> entry[e][field]])

\* Mutant: the TRS is left out until the next update.
ComputeQualityOnly(r) ==
  [r EXCEPT !.quality = IF r.made > 0 THEN Round(100 * (r.made - r.rejects), r.made) ELSE 0]

\* OEERecord.compute.
Compute(r) ==
  LET availability == Round(100 * (r.duration - r.downtime), r.duration)
      performance == IF r.theory > 0 THEN Round(100 * r.made, r.theory) ELSE 0
      quality == IF r.made > 0 THEN Round(100 * (r.made - r.rejects), r.made) ELSE 0
  IN [r EXCEPT !.availability = availability, !.performance = performance,
               !.quality = quality,
               !.trs = Round(availability * performance * quality, 10000)]

Unrated(made, rejects, downtime) ==
  [made |-> made, rejects |-> rejects, downtime |-> downtime,
   theory |-> Nominal, duration |-> ShiftDuration,
   availability |-> 0, performance |-> 0, quality |-> 0, trs |-> 0]

Inputs(m) == Unrated(Total("made", OnLine(m)), Total("rejects", OnLine(m)),
                     Total("downtime", OnLine(m)))

\* recalc of apps/oee, for the active machines or the one that is asked for: those
\* without an entry that day are passed over.
RecalcOEE(machines) ==
  /\ oee' = [m \in Lines |-> IF m \in machines /\ OnLine(m) # {}
                             THEN Compute(Inputs(m)) ELSE oee[m]]
  /\ UNCHANGED <<entry, cost, rate>>

\* perform_create and perform_update of a record, by hand.
WriteOEE(m) ==
  /\ \E s \in Sent :
       oee' = [oee EXCEPT ![m] = Compute(Unrated(s.made, s.rejects, s.downtime))]
  /\ UNCHANGED <<entry, cost, rate>>

\* CostRecord.compute_totals: without a count the cost of a bottle stays.
ComputeTotals(r) ==
  [r EXCEPT !.total = r.labor,
            !.each = IF r.made > 0 THEN Round(r.labor, r.made) ELSE @]

OldEach(m) == IF cost[m] = NoRecord THEN 0 ELSE cost[m].each

Labour(r, m, made) == [labor |-> 24 * r, total |-> 0, each |-> OldEach(m), made |-> made]

\* recalc of apps/costs: a day of labour; a count of zero is taken as one.
RecalcCost(machines) ==
  /\ cost' = [m \in Lines |->
       IF m \in machines /\ OnLine(m) # {}
       THEN ComputeTotals(Labour(rate, m, Max({Total("made", OnLine(m)), 1})))
       ELSE cost[m]]
  /\ UNCHANGED <<entry, oee, rate>>

WriteCost(m) ==
  /\ \E s \in Sent, r \in Rates :
       cost' = [cost EXCEPT ![m] = ComputeTotals(Labour(r, m, s.made))]
  /\ UNCHANGED <<entry, oee, rate>>

\* bulk_update and update of the parameters.
SetRate == rate' \in Rates \ {rate} /\ UNCHANGED <<entry, oee, cost>>

FiguresInit ==
  /\ entry = [e \in Entries |-> NoEntry]
  /\ oee = [m \in Lines |-> NoRecord]
  /\ cost = [m \in Lines |-> NoRecord]
  /\ rate \in Rates

FiguresNext ==
  \/ \E e \in Entries : \/ CreateEntry(e) \/ UpdateEntry(e) \/ BulkEntry(e)
                        \/ ValidateEntry(e) \/ DestroyEntry(e)
  \/ \E machines \in SUBSET Lines : RecalcOEE(machines) \/ RecalcCost(machines)
  \/ SetRate
  \/ \E m \in Lines : WriteOEE(m) \/ WriteCost(m)

-----------------------------------------------------------------------------
(* Summaries.                                                              *)

\* KPIsView and daily_summary.
DayTotal(field) == Total(field, Present)

PerMachine(m) == Total("made", OnLine(m))

\* shift_summary and ShiftReportView.
ShiftTotal(field, shift) == Total(field, {e \in Present : entry[e].shift = shift})

-----------------------------------------------------------------------------
(* Properties.                                                             *)

\* The types.
FiguresTypeOK ==
  /\ \A e \in Present : entry[e].shift \in Shifts \union {""} /\ entry[e].made \in Nat
  /\ \A m \in Lines : oee[m] = NoRecord \/ oee[m].trs \in Int
  /\ \A m \in Lines : cost[m] = NoRecord \/ cost[m].each \in Int

\* "Rebuild OEERecord rows from ProductionEntry" (recalc): the records of line m are
\* those of its entries, as long as it has any.
TrsRebuilt(m) ==
  OnLine(m) # {} /\ oee[m] # NoRecord =>
    /\ oee[m].made = PerMachine(m)
    /\ oee[m].rejects = Total("rejects", OnLine(m))
    /\ oee[m].downtime = Total("downtime", OnLine(m))

CostRebuilt(m) ==
  OnLine(m) # {} /\ cost[m] # NoRecord => cost[m].made = Max({PerMachine(m), 1})

Size(n) == IF n < 0 THEN -n ELSE n

\* How far rounding the three percentages, and then the TRS, may move it, in parts of
\* 20000 of a point: at three times 100 by some two points.
Slack(r) ==
  10001 + Size(r.availability) * Size(r.performance) + Size(r.availability) * Size(r.quality)
        + Size(r.performance) * Size(r.quality)
        + Size(r.availability) + Size(r.performance) + Size(r.quality)

TrsAgrees(r) ==
  r.made > 0 /\ r.theory > 0 =>
    20000 * Size(r.trs * (r.duration * r.theory)
                 - 100 * (r.duration - r.downtime) * (r.made - r.rejects))
      <= (r.duration * r.theory) * Slack(r)

CostAgrees(c) == c.made > 0 => 2 * Size(c.each * c.made - c.total) <= c.made

\* Whatever wrote a record, by hand or from entries: its TRS agrees with its inputs,
\* within the rounding (OEERecord.compute, "Recompute OEE metrics from raw inputs"),
\* and the cost of a bottle with its total, if there is a count.
RecordsAgree ==
  \A m \in Lines : /\ oee[m] # NoRecord => TrsAgrees(oee[m])
                   /\ cost[m] # NoRecord => CostAgrees(cost[m])

\* The three shifts add up to the day, and so do the machines: nothing produced is
\* missing from the shift report (shift_summary, ShiftReportView, daily_summary).
ShiftsAddUp ==
  /\ DayTotal("made") = SumFunction([s \in Shifts |-> ShiftTotal("made", s)])
  /\ DayTotal("rejects") = SumFunction([s \in Shifts |-> ShiftTotal("rejects", s)])
  /\ DayTotal("made") = SumFunction([m \in Lines |-> PerMachine(m)])

\* reject_pct of e tells reject_count (ProductionEntry.save, "auto-fill").
PctTellsRejects(e) ==
  entry[e].made > 0 => entry[e].pct = Round(100 * entry[e].rejects, entry[e].made)

\* shift of e is that of its hour.
ShiftTellsHour(e) == entry[e].shift = ShiftForHour(entry[e].hour)
=============================================================================
