------------------------------ MODULE AlertFlow ------------------------------
(***************************************************************************)
(* Alerts, the interventions maintenance works from and the machines whose *)
(* status follows the alerts (apps/alerts, apps/maintenance,               *)
(* apps/machines).                                                         *)
(*                                                                         *)
(* A request loads rows into objects, checks the objects, then saves them  *)
(* one row at a time in a READ COMMITTED transaction (ATOMIC_REQUESTS): a  *)
(* save rewrites the whole row from the object, holds the row until the    *)
(* commit, and is seen by the others only then.  The escalation task runs  *)
(* beside the requests, outside of any transaction, on the rows it read    *)
(* when it started.                                                        *)
(***************************************************************************)
EXTENDS Naturals, Sequences, FiniteSets

CONSTANTS Alerts,       \* the alerts that may be declared
          Machines,
          Workers,      \* requests served at a time
          NoAlert, NoMachine,
          Requests,     \* the kinds of request the clients send; "sweep" if
                        \* the escalation task runs
          ClientLevels, \* the levels the clients escalate to, and the
          ByHand        \* statuses they set: bounds on their inputs

ASSUME NullAssumption == NoAlert \notin Alerts /\ NoMachine \notin Machines

ASSUME InputsAssumption ==
  /\ ClientLevels \subseteq 0 .. 2
  /\ ByHand \subseteq {"RUNNING", "STOPPED", "MAINTENANCE", "BREAKDOWN"}

VARIABLES alert,        \* committed rows of Alert
          job,          \* the Intervention of each alert
          machine,      \* Machine.status
          age,          \* of each alert: 0, 1 from 5 minutes, 2 from 15
          sweep,        \* alerts check_escalations loaded and has not handled
          tx            \* the transaction of each worker

vars == <<alert, job, machine, age, sweep, tx>>

Active == {"OPEN", "ACKNOWLEDGED", "IN_PROGRESS"}
Statuses == {"none", "RESOLVED", "CLOSED"} \union Active
MachineStatuses == {"RUNNING", "STOPPED", "MAINTENANCE", "BREAKDOWN"}
\* No level above the task's is modelled.
Levels == 0 .. 2

Blank == [status |-> "none", critical |-> FALSE, needs |-> FALSE,
          machine |-> NoMachine, level |-> 0, acknowledged |-> FALSE,
          resolved |-> FALSE, closed |-> FALSE, score |-> 0]

\* One intervention row per alert: a deleted one is not opened anew.
NoJob == [state |-> "none", finished |-> FALSE, verified |-> FALSE]

Idle == [act |-> "none", todo |-> <<>>, a |-> NoAlert, row |-> Blank,
         job |-> NoJob, on |-> NoMachine, status |-> "RUNNING", held |-> {}]

Init == /\ alert = [a \in Alerts |-> Blank]
        /\ job = [a \in Alerts |-> NoJob]
        /\ machine = [m \in Machines |-> "RUNNING"]
        /\ age = [a \in Alerts |-> 0]
        /\ sweep = {}
        /\ tx = [w \in Workers |-> Idle]

-----------------------------------------------------------------------------
(* What a request does to the objects it loaded.                           *)

\* The severities below critical weigh as MAJOR does.
Score(row) == (IF row.critical THEN 1000 ELSE 500)
              + (IF row.status \in Active THEN 1000 ELSE 0)
              + row.level * 250

Acknowledged(row) == [row EXCEPT !.status = "ACKNOWLEDGED", !.acknowledged = TRUE]
Started(row) == [row EXCEPT !.status = "IN_PROGRESS"]
Resolved(row) == [row EXCEPT !.status = "RESOLVED", !.resolved = TRUE]
Closed(row) == [row EXCEPT !.status = "CLOSED", !.closed = TRUE]

\* Mutant: resolve, close and finish forget the machine.
SaveWithoutSync == <<"alert">>

\* The saves of a request that changes what is active on the machine.
SaveAndSync == <<"alert", "sync", "machine">>

Begin(w, act, t) ==
  /\ act \in Requests
  /\ tx[w] = Idle
  /\ tx' = [tx EXCEPT ![w] = [t EXCEPT !.act = act]]
  /\ UNCHANGED <<alert, job, machine, age, sweep>>

\* An object of an alert, with its machine: the view's select_related.
Loaded(a) == [Idle EXCEPT !.a = a, !.row = alert[a], !.job = job[a],
                          !.on = alert[a].machine,
                          !.status = IF alert[a].machine \in Machines
                                     THEN machine[alert[a].machine] ELSE "RUNNING"]

Change(w, act, a, row, todo) ==
  Begin(w, act, [Loaded(a) EXCEPT !.row = row, !.todo = todo])

\* Mutant: any alert may be acknowledged.
LoadAcknowledgeAny(w) ==
  \E a \in Alerts : /\ alert[a].status # "none"
                    /\ Change(w, "acknowledge", a, Acknowledged(alert[a]), <<"alert">>)

LoadAcknowledge(w) ==
  \E a \in Alerts : /\ alert[a].status = "OPEN"
                    /\ Change(w, "acknowledge", a, Acknowledged(alert[a]), <<"alert">>)

LoadStart(w) ==
  \E a \in Alerts : /\ alert[a].status = "ACKNOWLEDGED"
                    /\ Change(w, "start", a, Started(alert[a]), <<"alert">>)

\* Mutant: the machine is synchronised before the alert is saved.
LoadResolveMachineFirst(w) ==
  \E a \in Alerts : /\ alert[a].status \in Active
                    /\ Change(w, "resolve", a, Resolved(alert[a]),
                              <<"sync", "machine", "alert">>)

LoadResolve(w) ==
  \E a \in Alerts : /\ alert[a].status \in Active
                    /\ Change(w, "resolve", a, Resolved(alert[a]), SaveAndSync)

LoadClose(w) ==
  \E a \in Alerts : /\ alert[a].status = "RESOLVED"
                    /\ Change(w, "close", a, Closed(alert[a]), SaveAndSync)

\* No status is refused, and the level is the client's.
LoadEscalate(w) ==
  \E a \in Alerts, l \in ClientLevels :
    /\ alert[a].status # "none"
    /\ Change(w, "escalate", a, [alert[a] EXCEPT !.level = l], <<"alert">>)

\* The machine's object is the one the serializer loaded.  An alert whose
\* category needs no maintenance gets no intervention.
LoadCreate(w) ==
  \E a \in Alerts, m \in Machines, critical, needs \in BOOLEAN :
    /\ alert[a].status = "none"
    /\ \A o \in Workers : tx[o].a # a
    /\ Begin(w, "create",
             [Idle EXCEPT
                !.a = a, !.on = m, !.status = machine[m],
                !.row = [Blank EXCEPT !.status = "OPEN", !.machine = m,
                                      !.critical = critical, !.needs = needs],
                !.job = [NoJob EXCEPT !.state = IF needs THEN "here" ELSE "none"],
                !.todo = SaveAndSync \o (IF needs THEN <<"job">> ELSE <<>>)])

ChangeJob(w, act, a, new, then) ==
  Begin(w, act, [Loaded(a) EXCEPT !.job = new, !.todo = <<"job">> \o then,
                                  !.row = IF then = <<>> THEN alert[a]
                                                         ELSE Resolved(alert[a])])

\* Mutant: only an acknowledged alert is resolved with its intervention.
LoadFinishAcknowledged(w) ==
  \E a \in Alerts :
    /\ job[a].state = "here" /\ ~job[a].finished
    /\ ChangeJob(w, "finish", a, [job[a] EXCEPT !.finished = TRUE],
                 IF alert[a].status \in Active \ {"OPEN"} THEN SaveAndSync ELSE <<>>)

LoadFinish(w) ==
  \E a \in Alerts :
    /\ job[a].state = "here" /\ ~job[a].finished
    /\ ChangeJob(w, "finish", a, [job[a] EXCEPT !.finished = TRUE],
                 IF alert[a].status \in Active THEN SaveAndSync ELSE <<>>)

LoadVerify(w) ==
  \E a \in Alerts :
    /\ job[a].state = "here" /\ job[a].finished /\ ~job[a].verified
    /\ ChangeJob(w, "verify", a, [job[a] EXCEPT !.verified = TRUE], <<>>)

\* PATCH: finished_at is an ordinary field of the serializer.
LoadEditJob(w) ==
  \E a \in Alerts, f \in BOOLEAN :
    /\ job[a].state = "here"
    /\ ChangeJob(w, "editJob", a, [job[a] EXCEPT !.finished = f], <<>>)

LoadDeleteJob(w) ==
  \E a \in Alerts :
    /\ job[a].state = "here"
    /\ ChangeJob(w, "deleteJob", a, [NoJob EXCEPT !.state = "gone"], <<>>)

LoadOpenJob(w) ==
  \E a \in Alerts, f \in BOOLEAN :
    /\ alert[a].status # "none" /\ job[a].state = "none"
    /\ ChangeJob(w, "openJob", a, [NoJob EXCEPT !.state = "here", !.finished = f], <<>>)

\* The status action, or a PATCH that names the status.
LoadSetMachine(w) ==
  \E m \in Machines, s \in ByHand :
    Begin(w, "setMachine", [Idle EXCEPT !.on = m, !.status = s, !.todo = <<"machine">>])

\* A PATCH of any other field writes back the status it loaded.
LoadEditMachine(w) ==
  \E m \in Machines :
    Begin(w, "editMachine",
          [Idle EXCEPT !.on = m, !.status = machine[m], !.todo = <<"machine">>])

-----------------------------------------------------------------------------
(* The saves, one row at a time.                                           *)

Due(w, step) == tx[w].todo # <<>> /\ Head(tx[w].todo) = step

WaitsFor(w, o) ==
  /\ o # w
  /\ tx[w].todo # <<>>
  /\ Head(tx[w].todo) \in tx[o].held
  /\ IF Due(w, "machine") THEN tx[o].on = tx[w].on ELSE tx[o].a = tx[w].a

Free(w) == \A o \in Workers : ~WaitsFor(w, o)

Save(w, row) ==
  /\ Due(w, row)
  /\ Free(w)
  /\ tx' = [tx EXCEPT ![w].todo = Tail(tx[w].todo),
                      ![w].held = tx[w].held \union {row}]
  /\ UNCHANGED <<alert, job, machine, age, sweep>>

\* Mutant: escalate saves the whole row it loaded.
AlertAfterWhole(w) == [tx[w].row EXCEPT !.score = Score(tx[w].row)]

\* Mutant: an action saves the status alone.
AlertAfterStatus(w) ==
  IF tx[w].act = "create" THEN [tx[w].row EXCEPT !.score = Score(tx[w].row)]
  ELSE [alert[tx[w].a] EXCEPT !.status = tx[w].row.status, !.level = tx[w].row.level]

\* escalate saves the level alone: the score it computed stays in memory.
AlertAfter(w) ==
  IF tx[w].act = "escalate" THEN [alert[tx[w].a] EXCEPT !.level = tx[w].row.level]
  ELSE [tx[w].row EXCEPT !.score = Score(tx[w].row)]

SaveMachine(w) == Save(w, "machine")

\* Mutant: the alert is committed as it is saved, before the rest.
SaveAlertAutocommit(w) ==
  /\ Due(w, "alert")
  /\ Free(w)
  /\ alert' = [alert EXCEPT ![tx[w].a] = AlertAfter(w)]
  /\ tx' = [tx EXCEPT ![w].todo = Tail(tx[w].todo)]
  /\ UNCHANGED <<job, machine, age, sweep>>

\* finish reads the machine only now, when it broadcasts the event.
SaveAlert(w) ==
  /\ Due(w, "alert")
  /\ Free(w)
  /\ tx' = [tx EXCEPT ![w].todo = Tail(tx[w].todo),
                      ![w].held = tx[w].held \union {"alert"},
                      ![w].status = IF tx[w].act = "finish"
                                    THEN machine[tx[w].on] ELSE tx[w].status]
  /\ UNCHANGED <<alert, job, machine, age, sweep>>

\* The alert of an intervention is unique.
Duplicate(w) == tx[w].act = "openJob" /\ job[tx[w].a].state = "here"

SaveJob(w) == ~Duplicate(w) /\ Save(w, "job")

RefuseDuplicate(w) ==
  /\ Due(w, "job")
  /\ Free(w)
  /\ Duplicate(w)
  /\ tx' = [tx EXCEPT ![w] = Idle]
  /\ UNCHANGED <<alert, job, machine, age, sweep>>

\* sync_machine_andon_status: the transaction sees what is committed and its
\* own alert, and saves the machine only if its object differs.
SeenBy(w, a) == IF a = tx[w].a THEN tx[w].row ELSE alert[a]

ActiveCritical(row, m) == row.machine = m /\ row.critical /\ row.status \in Active

Target(w) == IF \E a \in Alerts : ActiveCritical(SeenBy(w, a), tx[w].on)
             THEN "BREAKDOWN" ELSE "RUNNING"

Sync(w) ==
  /\ Due(w, "sync")
  /\ tx' = [tx EXCEPT
              ![w].status = Target(w),
              ![w].todo = IF tx[w].status = Target(w) THEN Tail(Tail(tx[w].todo))
                                                      ELSE Tail(tx[w].todo)]
  /\ UNCHANGED <<alert, job, machine, age, sweep>>

Commit(w) ==
  LET t == tx[w] IN
  /\ t.act # "none" /\ t.todo = <<>>
  /\ alert' = IF "alert" \in t.held THEN [alert EXCEPT ![t.a] = AlertAfter(w)] ELSE alert
  /\ job' = IF "job" \in t.held THEN [job EXCEPT ![t.a] = t.job] ELSE job
  /\ machine' = IF "machine" \in t.held THEN [machine EXCEPT ![t.on] = t.status]
                                        ELSE machine
  /\ tx' = [tx EXCEPT ![w] = Idle]
  /\ UNCHANGED <<age, sweep>>

\* The server stops, or a statement fails: everything is rolled back.
Abort(w) ==
  /\ tx[w].act # "none"
  /\ tx' = [tx EXCEPT ![w] = Idle]
  /\ UNCHANGED <<alert, job, machine, age, sweep>>

-----------------------------------------------------------------------------
(* The escalation task.                                                    *)

SweepStart ==
  /\ "sweep" \in Requests
  /\ sweep = {}
  /\ sweep' = {[a |-> a, level |-> alert[a].level, age |-> age[a]] :
                 a \in {x \in Alerts : alert[x].status = "OPEN"}}
  /\ UNCHANGED <<alert, job, machine, age, tx>>

\* Mutant: every reminder raises the level by one.
LevelForUncapped(r) == IF r.age = 2 THEN r.level + 1
                       ELSE IF r.age >= 1 /\ r.level < 1 THEN 1 ELSE r.level

\* Mutant: an alert that was reminded is not escalated again.
LevelForOnce(r) == IF r.level = 0 THEN r.age ELSE r.level

\* The level check_escalations gives an alert it read as r.
LevelFor(r) == IF r.age = 2 /\ r.level < 2 THEN 2
               ELSE IF r.age >= 1 /\ r.level < 1 THEN 1 ELSE r.level

SweepStep(a) ==
  \E r \in {x \in sweep : x.a = a} :
    /\ sweep' = sweep \ {r}
    /\ IF LevelFor(r) = r.level THEN UNCHANGED alert
       ELSE /\ \A w \in Workers : ~(tx[w].a = a /\ "alert" \in tx[w].held)
            /\ alert' = [alert EXCEPT ![a].level = LevelFor(r)]
    /\ UNCHANGED <<job, machine, age, tx>>

\* The task is lost with its worker and something still to do; the next beat
\* starts another.
SweepCrash == /\ \E r \in sweep : LevelFor(r) # r.level
              /\ sweep' = {}
              /\ UNCHANGED <<alert, job, machine, age, tx>>

\* Only the task looks at the age.
Age(a) == /\ "sweep" \in Requests
          /\ alert[a].status # "none" /\ age[a] < 2
          /\ age' = [age EXCEPT ![a] = age[a] + 1]
          /\ UNCHANGED <<alert, job, machine, sweep, tx>>

-----------------------------------------------------------------------------
Load(w) == \/ LoadCreate(w) \/ LoadAcknowledge(w) \/ LoadStart(w) \/ LoadResolve(w)
           \/ LoadClose(w) \/ LoadEscalate(w) \/ LoadFinish(w) \/ LoadVerify(w)
           \/ LoadEditJob(w) \/ LoadDeleteJob(w) \/ LoadOpenJob(w)
           \/ LoadSetMachine(w) \/ LoadEditMachine(w)

Continue(w) == \/ SaveAlert(w) \/ SaveMachine(w) \/ SaveJob(w) \/ RefuseDuplicate(w)
               \/ Sync(w) \/ Commit(w)

Next == \/ \E w \in Workers : Load(w) \/ Continue(w) \/ Abort(w)
        \/ \E a \in Alerts : SweepStep(a) \/ Age(a)
        \/ SweepStart \/ SweepCrash

Spec == Init /\ [][Next]_vars

-----------------------------------------------------------------------------
(* What the screens show of the rows.                                      *)

\* The active alerts, and the critical ones among them, that the dashboard counts.
ActiveAlerts == {a \in Alerts : alert[a].status \in Active}
CriticalActive == {a \in ActiveAlerts : alert[a].critical}

MachinesIn(status) == {m \in Machines : machine[m] = status}

\* get_andon_status: the colour of a machine on the board.
Andon(m) == IF m \in MachinesIn("STOPPED") \union MachinesIn("BREAKDOWN") THEN "RED"
            ELSE IF \E a \in ActiveAlerts : alert[a].machine = m THEN "ORANGE"
            ELSE "GREEN"

\* The interventions maintenance has still to finish.
Queue == {a \in Alerts : job[a].state = "here" /\ ~job[a].finished}

-----------------------------------------------------------------------------
(* Properties.                                                             *)

Row == [status : Statuses, critical : BOOLEAN, needs : BOOLEAN,
        machine : Machines \union {NoMachine}, level : Levels,
        acknowledged : BOOLEAN, resolved : BOOLEAN, closed : BOOLEAN, score : 0 .. 2500]

Job == [state : {"none", "here", "gone"}, finished : BOOLEAN, verified : BOOLEAN]

\* The rows keep their types: in particular the task never writes an escalation
\* level above 2, the one build_escalation_context words.
TypeOK == /\ alert \in [Alerts -> Row]
          /\ job \in [Alerts -> Job]
          /\ machine \in [Machines -> MachineStatuses]
          /\ age \in [Alerts -> 0 .. 2]
          /\ sweep \subseteq [a : Alerts, level : Levels, age : 0 .. 2]
          /\ \A w \in Workers : /\ tx[w].row \in Row /\ tx[w].job \in Job
                                /\ tx[w].held \subseteq {"alert", "job", "machine"}
                                /\ tx[w].status \in MachineStatuses

\* A machine is in breakdown exactly while a critical alert is active on it:
\* what sync_machine_andon_status keeps in step.
MachineMatchesAlerts ==
  \A m \in Machines :
    machine[m] = IF \E a \in Alerts : ActiveCritical(alert[a], m)
                 THEN "BREAKDOWN" ELSE "RUNNING"

\* Nothing reopens an alert that was finished with: a resolved alert is only
\* closed, and a closed one stays closed (the can_... helpers).
StatusForward ==
  \A a \in Alerts :
    /\ alert[a].status = "RESOLVED" => alert'[a].status \in {"RESOLVED", "CLOSED"}
    /\ alert[a].status = "CLOSED" => alert'[a].status = "CLOSED"

\* An alert somebody has taken is never put back among the unacknowledged ones,
\* however the saves interleave: escalate, which takes an alert in any status,
\* writes the level and not the status it loaded.
NeverReopened ==
  \A a \in Alerts : alert[a].status \notin {"none", "OPEN"} => alert'[a].status # "OPEN"

\* However stale the saves, status and stamps of a row come from one object:
\* an alert is resolved, closed or acknowledged together with its stamp.
StampsMatchStatus ==
  \A a \in Alerts :
    /\ alert[a].status \in {"ACKNOWLEDGED", "IN_PROGRESS"} => alert[a].acknowledged
    /\ alert[a].status \in {"RESOLVED", "CLOSED"} => alert[a].resolved
    /\ alert[a].closed <=> alert[a].status = "CLOSED"

\* An alert that needs maintenance is never there without having reached the
\* maintenance queue, in whatever state a failure leaves its creation.
HandedOff == \A a \in Alerts :
               alert[a].status # "none" /\ alert[a].needs => job[a].state # "none"

\* Both: no save and no failure leaves an alert half done.
NothingHalfDone == StampsMatchStatus /\ HandedOff

\* A finished intervention leaves no active alert behind (finish).
FinishedIsResolved == \A a \in Alerts : job[a].finished => alert[a].status \notin Active

\* The screens agree with each other: a machine is red on the board exactly while a
\* critical alert is active on it and green exactly while no alert is, no more machines
\* are counted in breakdown than alerts critical, and maintenance finds every active
\* alert it has to follow in its queue, unless the intervention was deleted.
ScreensAgree ==
  /\ \A m \in Machines :
       /\ Andon(m) = "RED" <=> \E a \in CriticalActive : alert[a].machine = m
       /\ Andon(m) = "GREEN" <=> \A a \in ActiveAlerts : alert[a].machine # m
  /\ Cardinality(MachinesIn("BREAKDOWN")) <= Cardinality(CriticalActive)
  /\ \A a \in ActiveAlerts : alert[a].needs => a \in Queue \/ job[a].state = "gone"

\* No transactions wait for each other in a circle: every request takes the
\* intervention, then the alert, then the machine.
NoCycle == \A S \in (SUBSET Workers) \ {{}} :
             \E w \in S : \A o \in S : ~WaitsFor(w, o)

\* A request that began goes on, the beat fires again and again, a row's lock
\* queue serves the task in the end, and the task is not lost for ever.
Fairness == /\ \A w \in Workers : WF_vars(Continue(w))
            /\ WF_vars(SweepStart)
            /\ \A a \in Alerts : SF_vars(SweepStep(a))
            /\ <>[][~SweepCrash]_vars

FairSpec == Spec /\ Fairness

\* An alert left unacknowledged for 15 minutes is escalated to level 2, whatever
\* requests, crashes and other alerts do meanwhile (check_escalations).
Escalated ==
  \A a \in Alerts :
    (alert[a].status = "OPEN" /\ age[a] = 2) ~> (alert[a].status # "OPEN" \/ alert[a].level = 2)
=============================================================================
