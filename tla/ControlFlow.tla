----------------------------- MODULE ControlFlow -----------------------------
(***************************************************************************)
(* Preventive controls (apps/maintenance): a controller starts one for a   *)
(* machine or an equipment, fills in its checklist and confirms it, which  *)
(* locks it.                                                               *)
(*                                                                         *)
(* A slot is a date, a shift and a target: the template follows from the   *)
(* target.  A request checks what it loads, then writes: others see it     *)
(* when it commits (ATOMIC_REQUESTS, READ COMMITTED).                      *)
(***************************************************************************)
EXTENDS Naturals, Sequences, FiniteSets

CONSTANTS Slots,
          Day,          \* the date of each slot
          Template,     \* the items of the checklist of each slot's target; none
                        \* if no template is known for it
          Controllers, NoController,
          Workers

ASSUME NullAssumption == NoController \notin Controllers
ASSUME SlotsAssumption == DOMAIN Day = Slots /\ DOMAIN Template = Slots

VARIABLES control,      \* rows of MaintenanceControl
          result,       \* MaintenanceControlResult: of each control, by item
          log,          \* "maintenance_control.confirmed" lines
          tx            \* the request of each worker

vars == <<control, result, log, tx>>

\* A result's status, a problem with its note being as good as OK here.
Values == {"PENDING", "OK", "PROBLEM"}
Statuses == {"none", "open", "confirmed"}

NoControl == [status |-> "none", by |-> NoController]
NoResults == [i \in {} |-> "PENDING"]
Idle == [act |-> "idle"]

Init == /\ control = [s \in Slots |-> NoControl]
        /\ result = [s \in Slots |-> NoResults]
        /\ log = <<>>
        /\ tx = [w \in Workers |-> Idle]

Begin(w, r) == /\ tx[w] = Idle
               /\ tx' = [tx EXCEPT ![w] = r]
               /\ UNCHANGED <<control, result, log>>

End(w) == tx' = [tx EXCEPT ![w] = Idle]

-----------------------------------------------------------------------------
(* start: get_or_create() of the control, then its results.                *)

\* SELECT finds none; what is there already is only returned.
LoadStart(w) ==
  \E s \in Slots : /\ Template[s] # {}
                   /\ control[s].status = "none"
                   /\ Begin(w, [act |-> "start", slot |-> s])

\* The INSERT waits for one of the same slot and fails if that one commits:
\* get_or_create() then takes the control that is there.
Insert(w) ==
  /\ tx[w].act = "start"
  /\ \A v \in Workers : tx[v].act = "started" => tx[v].slot # tx[w].slot
  /\ tx' = [tx EXCEPT ![w] = IF control[tx[w].slot].status = "none"
                             THEN [act |-> "started", slot |-> tx[w].slot] ELSE Idle]
  /\ UNCHANGED <<control, result, log>>

\* Mutant: the results are made when the checklist is first filled in.
PopulateNothing(s) == NoResults

\* bulk_create: one pending result for each item.
Populate(s) == [i \in Template[s] |-> "PENDING"]

CommitStart(w) ==
  LET s == tx[w].slot IN
  /\ tx[w].act = "started"
  /\ control' = [control EXCEPT ![s] = [status |-> "open", by |-> NoController]]
  /\ result' = [result EXCEPT ![s] = Populate(s)]
  /\ End(w)
  /\ UNCHANGED log

-----------------------------------------------------------------------------
(* submit_results and confirm.                                             *)

\* Mutant: no control is locked.
IsLockedNever(s) == FALSE

IsLocked(s) == control[s].status = "confirmed"

\* The items a client sends, one or all; an item of another checklist makes the
\* whole request fail.
LoadSubmit(w) ==
  \E s \in Slots, v \in Values, all \in BOOLEAN :
    \E i \in Template[s] :
      /\ control[s].status # "none" /\ ~IsLocked(s)
      /\ Begin(w, [act |-> "submit", slot |-> s, value |-> v,
                   items |-> IF all THEN Template[s] ELSE {i}])

CommitSubmit(w) ==
  LET s == tx[w].slot IN
  /\ tx[w].act = "submit"
  /\ control[s].status # "none"
  /\ result' = [result EXCEPT ![s] = [i \in DOMAIN result[s] |->
                  IF i \in tx[w].items THEN tx[w].value ELSE result[s][i]]]
  /\ End(w)
  /\ UNCHANGED <<control, log>>

\* Mutant: one confirmation per controller and control.
ConfirmedTodayHere(c, s) == FALSE

\* "across every machine/equipment".
ConfirmedToday(c, s) ==
  \E o \in Slots \ {s} : control[o].by = c /\ Day[o] = Day[s]

\* Mutant: a problem needs no note.
MissingNotesNone(s) == {}

MissingNotes(s) == {i \in DOMAIN result[s] : result[s][i] = "PROBLEM"}

\* The checks of confirm, on what is committed.
LoadConfirm(w) ==
  \E s \in Slots, c \in Controllers :
    /\ control[s].status # "none" /\ ~IsLocked(s)
    /\ ~ConfirmedToday(c, s)
    /\ MissingNotes(s) = {}
    /\ Begin(w, [act |-> "confirm", slot |-> s, by |-> c])

CommitConfirm(w) ==
  LET s == tx[w].slot IN
  /\ tx[w].act = "confirm"
  /\ control[s].status # "none"
  /\ control' = [control EXCEPT ![s] = [status |-> "confirmed", by |-> tx[w].by]]
  /\ log' = Append(log, [slot |-> s, by |-> tx[w].by])
  /\ End(w)
  /\ UNCHANGED result

-----------------------------------------------------------------------------
\* The target is deleted, and its controls and their results with it.
RemoveTarget(s) ==
  /\ control[s].status # "none"
  /\ control' = [control EXCEPT ![s] = NoControl]
  /\ result' = [result EXCEPT ![s] = NoResults]
  /\ UNCHANGED <<log, tx>>

\* The account of a controller is deleted: who confirmed is forgotten.
RemoveController(c) ==
  /\ \E s \in Slots : control[s].by = c
  /\ control' = [s \in Slots |-> IF control[s].by = c
                   THEN [control[s] EXCEPT !.by = NoController] ELSE control[s]]
  /\ UNCHANGED <<result, log, tx>>

\* A crash, or a foreign item, or a row locked in a circle.
Abort(w) == tx[w] # Idle /\ End(w) /\ UNCHANGED <<control, result, log>>

Next ==
  \/ \E w \in Workers : \/ LoadStart(w) \/ Insert(w) \/ CommitStart(w)
                        \/ LoadSubmit(w) \/ CommitSubmit(w)
                        \/ LoadConfirm(w) \/ CommitConfirm(w) \/ Abort(w)
  \/ \E s \in Slots : RemoveTarget(s)
  \/ \E c \in Controllers : RemoveController(c)

Spec == Init /\ [][Next]_vars

-----------------------------------------------------------------------------
(* Properties.                                                             *)

\* The types; and every control there is has its whole checklist, whoever
\* started it and whatever has been submitted (start, "auto-populates results
\* from its items").
TypeOK ==
  /\ control \in [Slots -> [status : Statuses, by : Controllers \union {NoController}]]
  /\ \A s \in Slots :
       result[s] \in [IF control[s].status = "none" THEN {} ELSE Template[s] -> Values]
  /\ \A n \in 1 .. Len(log) : log[n] \in [slot : Slots, by : Controllers]

\* "Locked once confirmed_at is set" (MaintenanceControl): from then on neither
\* the results nor the confirmation change, until the target is deleted.
LockedIsFinal ==
  \A s \in Slots :
    control[s].status = "confirmed" /\ control'[s].status # "none" =>
      /\ result'[s] = result[s]
      /\ control'[s].status = "confirmed"
      /\ control'[s].by \in {control[s].by, NoController}

\* "One confirmation per controller per day, across every machine/equipment"
\* (confirm), by the lines of the log.
OneConfirmationADay ==
  \A n, m \in 1 .. Len(log) :
    n # m /\ log[n].by = log[m].by => Day[log[n].slot] # Day[log[m].slot]

\* "Une note est requise pour chaque élément marqué « Problème »" (confirm): a
\* confirmed control tells what is wrong with whatever it calls a problem.
ProblemsAreNoted ==
  \A s \in Slots : control[s].status = "confirmed" =>
                     \A i \in Template[s] : result[s][i] # "PROBLEM"

\* A control is not started over: an item that was looked at does not go back to
\* pending unless a client says so or the target is deleted.
NotStartedOver ==
  \A s \in Slots :
    \/ control[s].status = "none" \/ control'[s].status = "none"
    \/ \A i \in Template[s] :
         result'[s][i] = "PENDING" =>
           \/ result[s][i] = "PENDING"
           \/ \E w \in Workers : tx[w].act = "submit" /\ tx[w].slot = s
                                 /\ i \in tx[w].items /\ tx[w].value = "PENDING"
=============================================================================
