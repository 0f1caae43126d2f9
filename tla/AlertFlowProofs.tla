-------------------------- MODULE AlertFlowProofs --------------------------
(***************************************************************************)
(* Theorems of AlertFlow and AlertFeed, for any alerts, machines, workers  *)
(* and requests.                                                           *)
(*                                                                         *)
(* Two invariants: what holds however the requests interleave (IInv), and  *)
(* what holds besides as long as they come one at a time and nothing is    *)
(* put down by hand (Calm).                                                *)
(***************************************************************************)
EXTENDS AlertFlowHistory, AlertFeedMC, SequenceTheorems, FiniteSetTheorems, TLAPS

ByMachine == {"setMachine", "editMachine"}
ByJob == {"verify", "editJob", "deleteJob", "openJob"}
OneSave == {"acknowledge", "start", "escalate"}
Syncing == {"resolve", "close"}
Acts == {"none", "create", "finish"} \union ByMachine \union ByJob \union OneSave \union Syncing

Request == [act : Acts, todo : Seq({"alert", "sync", "machine", "job"}),
            a : Alerts \union {NoAlert}, row : Row, job : Job,
            on : Machines \union {NoMachine}, status : MachineStatuses,
            held : SUBSET {"alert", "job", "machine"}]

At(r, todo, held) == r.todo = todo /\ r.held = held

\* The saves of a request that synchronises the machine, left and run.
Synchronising(r) ==
  \/ At(r, <<"alert", "sync", "machine">>, {})
  \/ At(r, <<"sync", "machine">>, {"alert"})
  \/ At(r, <<"machine">>, {"alert"})
  \/ At(r, <<>>, {"alert"}) \/ At(r, <<>>, {"alert", "machine"})

\* The same with an intervention to insert at the end.
Opening(r) ==
  \/ At(r, <<"alert", "sync", "machine", "job">>, {})
  \/ At(r, <<"sync", "machine", "job">>, {"alert"})
  \/ At(r, <<"machine", "job">>, {"alert"})
  \/ At(r, <<"job">>, {"alert"}) \/ At(r, <<"job">>, {"alert", "machine"})
  \/ At(r, <<>>, {"alert", "job"}) \/ At(r, <<>>, {"alert", "job", "machine"})

\* The same with an intervention to save first.
Finishing(r) ==
  \/ At(r, <<"job", "alert", "sync", "machine">>, {})
  \/ At(r, <<"alert", "sync", "machine">>, {"job"})
  \/ At(r, <<"sync", "machine">>, {"alert", "job"})
  \/ At(r, <<"machine">>, {"alert", "job"})
  \/ At(r, <<>>, {"alert", "job"}) \/ At(r, <<>>, {"alert", "job", "machine"})

Saving(r, row) == At(r, <<row>>, {}) \/ At(r, <<>>, {row})

\* Each act saves its rows in one order.
InOrder(r) ==
  \/ r = Idle
  \/ r.act \in ByMachine /\ Saving(r, "machine")
  \/ r.act \in ByJob /\ Saving(r, "job")
  \/ r.act \in OneSave /\ Saving(r, "alert")
  \/ r.act \in Syncing /\ Synchronising(r)
  \/ r.act = "finish" /\ (Saving(r, "job") \/ (r.row.status = "RESOLVED" /\ Finishing(r)))
  \/ r.act = "create" /\ ~r.row.needs /\ Synchronising(r)
  \/ r.act = "create" /\ r.row.needs /\ Opening(r)

\* A row in one piece: what it says happened has its stamp, and it has a machine.
Sound(row) ==
  /\ row.status # "none" => row.machine \in Machines
  /\ row.status \in {"ACKNOWLEDGED", "IN_PROGRESS"} => row.acknowledged
  /\ row.status \in {"RESOLVED", "CLOSED"} => row.resolved
  /\ row.closed <=> row.status = "CLOSED"

\* What the object of a request has kept of the row it was loaded from, however
\* stale: what no request changes.
Fits(r) ==
  /\ r.act # "none" => r.on \in Machines
  /\ r.act \in ByMachine \union {"none"} => r.a = NoAlert
  /\ r.act \notin ByMachine \union {"none"} =>
       r.a \in Alerts /\ r.row.status # "none" /\ r.row.machine = r.on
  /\ r.act = "create" => /\ alert[r.a].status = "none"
                         /\ r.row.status = "OPEN" /\ ~r.job.finished
                         /\ r.row.needs => r.job.state = "here"
  /\ r.act \notin ByMachine \union {"none", "create"} =>
       /\ alert[r.a].status # "none"
       /\ r.row.needs = alert[r.a].needs
       /\ r.row.machine = alert[r.a].machine
       /\ r.row.critical = alert[r.a].critical
  /\ r.act \in ByJob \union {"finish"} => r.job.state # "none"
  /\ r.act = "acknowledge" => r.row.status = "ACKNOWLEDGED"
  /\ r.act = "start" => r.row.status = "IN_PROGRESS"
  /\ r.act = "resolve" => r.row.status = "RESOLVED"
  /\ r.act = "close" => r.row.status = "CLOSED"

RequestOK(r) == InOrder(r) /\ Sound(r.row) /\ Fits(r)

\* An intervention has its alert, and an alert that needs one has had it.
RowOK(a) ==
  /\ Sound(alert[a])
  /\ job[a].state # "none" => alert[a].status # "none"
  /\ job[a].state = "none" => job[a] = NoJob
  /\ alert[a].status # "none" /\ alert[a].needs => job[a].state # "none"

Begun == {a \in Alerts : alert[a].status # "none"}

IInv ==
  /\ TypeOK
  /\ tx \in [Workers -> Request]
  /\ \A w \in Workers : RequestOK(tx[w])
  /\ \A v, w \in Workers : v # w /\ tx[v].act = "create" => tx[w].a # tx[v].a
  /\ \A a \in Alerts : RowOK(a)
  /\ IsFiniteSet(Begun)
  /\ IsFiniteSet(Busy)

\* The machine is still to be compared with the alerts.
Unsynced(r) ==
  r.todo \in {<<"alert", "sync", "machine">>, <<"sync", "machine">>,
             <<"job", "alert", "sync", "machine">>,
             <<"alert", "sync", "machine", "job">>, <<"sync", "machine", "job">>}

\* The status the machine should have once the request has committed.
TargetOf(r) ==
  IF \E a \in Alerts : ActiveCritical(IF a = r.a THEN r.row ELSE alert[a], r.on)
  THEN "BREAKDOWN" ELSE "RUNNING"

\* What a request that is alone knows: the rows are still as it loaded them.
Fresh(r) ==
  /\ r.act = "editMachine" => r.status = machine[r.on]
  /\ r.act = "acknowledge" => alert[r.a].status = "OPEN"
  /\ r.act = "start" => alert[r.a].status = "ACKNOWLEDGED"
  /\ r.act = "resolve" => alert[r.a].status \in Active
  /\ r.act = "close" => alert[r.a].status = "RESOLVED"
  /\ r.act = "finish" =>
       IF alert[r.a].status \in Active THEN r.row.status = "RESOLVED" /\ Finishing(r)
                                       ELSE Saving(r, "job")
  /\ r.act = "verify" => r.job.finished = job[r.a].finished
  /\ r.act = "deleteJob" => ~r.job.finished
  /\ r.act \in Syncing \union {"create", "finish"} =>
       /\ Unsynced(r) => r.status = machine[r.on]
       /\ ~Unsynced(r) /\ "alert" \in r.held =>
            /\ r.status = TargetOf(r)
            /\ \/ r.todo \in {<<"machine">>, <<"machine", "job">>}
               \/ "machine" \in r.held \/ machine[r.on] = r.status

-----------------------------------------------------------------------------
\* The sequences of saves, spelled out.
LEMMA Tails ==
  /\ Head(<<"alert">>) = "alert" /\ Tail(<<"alert">>) = <<>>
  /\ Head(<<"machine">>) = "machine" /\ Tail(<<"machine">>) = <<>>
  /\ Head(<<"job">>) = "job" /\ Tail(<<"job">>) = <<>>
  /\ Head(<<"sync", "machine">>) = "sync" /\ Tail(<<"sync", "machine">>) = <<"machine">>
  /\ Head(<<"machine", "job">>) = "machine" /\ Tail(<<"machine", "job">>) = <<"job">>
  /\ Head(<<"alert", "sync", "machine">>) = "alert"
  /\ Tail(<<"alert", "sync", "machine">>) = <<"sync", "machine">>
  /\ Head(<<"sync", "machine", "job">>) = "sync"
  /\ Tail(<<"sync", "machine", "job">>) = <<"machine", "job">>
  /\ Head(<<"job", "alert", "sync", "machine">>) = "job"
  /\ Tail(<<"job", "alert", "sync", "machine">>) = <<"alert", "sync", "machine">>
  /\ Head(<<"alert", "sync", "machine", "job">>) = "alert"
  /\ Tail(<<"alert", "sync", "machine", "job">>) = <<"sync", "machine", "job">>
OBVIOUS

LEMMA NotEmpty ==
  /\ <<"alert">> # <<>> /\ <<"machine">> # <<>> /\ <<"job">> # <<>>
  /\ <<"sync", "machine">> # <<>> /\ <<"machine", "job">> # <<>>
  /\ <<"alert", "sync", "machine">> # <<>> /\ <<"sync", "machine", "job">> # <<>>
  /\ <<"job", "alert", "sync", "machine">> # <<>>
  /\ <<"alert", "sync", "machine", "job">> # <<>>
OBVIOUS

\* A save is the next one of its order.
LEMMA SaveAdvances ==
  ASSUME NEW r, NEW s, NEW row \in {"alert", "job", "machine"},
         r.todo # <<>>, Head(r.todo) = row,
         s.todo = Tail(r.todo), s.held = r.held \union {row}
  PROVE  /\ \A x : Saving(r, x) => Saving(s, x)
         /\ Synchronising(r) => Synchronising(s)
         /\ Opening(r) => Opening(s)
         /\ Finishing(r) => Finishing(s)
<1> DEFINE todo == r.todo
           held == r.held
<1>1. /\ todo = <<"alert">> => row = "alert" /\ s.todo = <<>>
      /\ todo = <<"machine">> => row = "machine" /\ s.todo = <<>>
      /\ todo = <<"job">> => row = "job" /\ s.todo = <<>>
      /\ todo = <<"machine", "job">> => row = "machine" /\ s.todo = <<"job">>
      /\ todo = <<"alert", "sync", "machine">> => row = "alert" /\ s.todo = <<"sync", "machine">>
      /\ todo = <<"job", "alert", "sync", "machine">> =>
           row = "job" /\ s.todo = <<"alert", "sync", "machine">>
      /\ todo = <<"alert", "sync", "machine", "job">> =>
           row = "alert" /\ s.todo = <<"sync", "machine", "job">>
      /\ todo # <<"sync", "machine">> /\ todo # <<"sync", "machine", "job">> /\ todo # <<>>
  BY Tails
<1>2. s.held = held \union {row}
  OBVIOUS
<1>3. /\ {} \union {"alert"} = {"alert"}
      /\ {} \union {"job"} = {"job"}
      /\ {} \union {"machine"} = {"machine"}
      /\ {"job"} \union {"alert"} = {"alert", "job"}
      /\ {"alert"} \union {"job"} = {"alert", "job"}
      /\ {"alert"} \union {"machine"} = {"alert", "machine"}
      /\ {"alert", "machine"} \union {"job"} = {"alert", "job", "machine"}
      /\ {"alert", "job"} \union {"machine"} = {"alert", "job", "machine"}
  OBVIOUS
<1>4. ASSUME NEW x, Saving(r, x) PROVE Saving(s, x)
  <2>1. todo = <<x>> /\ held = {}
    BY <1>1, <1>4 DEF Saving, At
  <2>2. Head(<<x>>) = x /\ Tail(<<x>>) = <<>>
    OBVIOUS
  <2>3. row = x /\ s.todo = <<>> /\ s.held = {x}
    BY <2>1, <2>2
  <2> QED
    BY <2>3 DEF Saving, At
<1>5. Synchronising(r) => Synchronising(s)
  BY <1>1, <1>2, <1>3 DEF Synchronising, At
<1>6. Opening(r) => Opening(s)
  BY <1>1, <1>2, <1>3 DEF Opening, At
<1>7. Finishing(r) => Finishing(s)
  BY <1>1, <1>2, <1>3 DEF Finishing, At
<1> QED
  BY <1>4, <1>5, <1>6, <1>7

LEMMA SaveInOrder ==
  ASSUME NEW r, NEW s, NEW row \in {"alert", "job", "machine"}, InOrder(r),
         r.todo # <<>>, Head(r.todo) = row,
         s.act = r.act, s.row = r.row,
         s.todo = Tail(r.todo), s.held = r.held \union {row}
  PROVE  InOrder(s)
<1>1. \A x : Saving(r, x) => Saving(s, x)
  BY SaveAdvances
<1>2. Synchronising(r) => Synchronising(s)
  BY SaveAdvances
<1>3. Opening(r) => Opening(s)
  BY SaveAdvances
<1>4. Finishing(r) => Finishing(s)
  BY SaveAdvances
<1>5. r # Idle
  BY DEF Idle
<1> QED
  BY <1>1, <1>2, <1>3, <1>4, <1>5 DEF InOrder

\* Synchronising leaves the machine to save, or not.
LEMMA SyncAdvances ==
  ASSUME NEW r, NEW s,
         r.todo # <<>>, Head(r.todo) = "sync", s.held = r.held,
         s.todo \in {Tail(r.todo), Tail(Tail(r.todo))}
  PROVE  /\ \A x \in {"alert", "job", "machine"} : ~Saving(r, x)
         /\ Synchronising(r) => Synchronising(s)
         /\ Opening(r) => Opening(s)
         /\ Finishing(r) => Finishing(s)
<1> DEFINE todo == r.todo
<1>1. /\ todo = <<"sync", "machine">> => s.todo \in {<<"machine">>, <<>>}
      /\ todo = <<"sync", "machine", "job">> => s.todo \in {<<"machine", "job">>, <<"job">>}
      /\ todo # <<"alert">> /\ todo # <<"machine">> /\ todo # <<"job">>
      /\ todo # <<"machine", "job">> /\ todo # <<"alert", "sync", "machine">>
      /\ todo # <<"job", "alert", "sync", "machine">>
      /\ todo # <<"alert", "sync", "machine", "job">> /\ todo # <<>>
  BY Tails
<1>2. ASSUME NEW x \in {"alert", "job", "machine"} PROVE ~Saving(r, x)
  BY <1>1 DEF Saving, At
<1>3. Synchronising(r) => Synchronising(s)
  BY <1>1 DEF Synchronising, At
<1>4. Opening(r) => Opening(s)
  BY <1>1 DEF Opening, At
<1>5. Finishing(r) => Finishing(s)
  BY <1>1 DEF Finishing, At
<1> QED
  BY <1>2, <1>3, <1>4, <1>5

LEMMA SyncInOrder ==
  ASSUME NEW r, NEW s, InOrder(r),
         r.todo # <<>>, Head(r.todo) = "sync",
         s.act = r.act, s.row = r.row, s.held = r.held,
         s.todo \in {Tail(r.todo), Tail(Tail(r.todo))}
  PROVE  InOrder(s)
<1>1. \A x \in {"alert", "job", "machine"} : ~Saving(r, x)
  BY SyncAdvances
<1>2. Synchronising(r) => Synchronising(s)
  BY SyncAdvances
<1>3. Opening(r) => Opening(s)
  BY SyncAdvances
<1>4. Finishing(r) => Finishing(s)
  BY SyncAdvances
<1>5. r # Idle
  BY DEF Idle
<1> QED
  BY <1>1, <1>2, <1>3, <1>4, <1>5 DEF InOrder

\* What comes after the synchronisation.
LEMMA SyncNext ==
  ASSUME NEW r, InOrder(r), r.todo # <<>>, Head(r.todo) = "sync"
  PROVE  r.todo \in {<<"sync", "machine">>, <<"sync", "machine", "job">>}
<1> DEFINE todo == r.todo
<1>1. /\ todo # <<"alert">> /\ todo # <<"machine">> /\ todo # <<"job">>
      /\ todo # <<"machine", "job">> /\ todo # <<"alert", "sync", "machine">>
      /\ todo # <<"job", "alert", "sync", "machine">>
      /\ todo # <<"alert", "sync", "machine", "job">> /\ todo # <<>>
  BY Tails
<1>2. ASSUME NEW x \in {"alert", "job", "machine"} PROVE ~Saving(r, x)
  BY <1>1 DEF Saving, At
<1>3. Synchronising(r) \/ Opening(r) \/ Finishing(r) =>
        r.todo \in {<<"sync", "machine">>, <<"sync", "machine", "job">>}
  BY <1>1 DEF Synchronising, Opening, Finishing, At
<1>4. r # Idle
  BY <1>1 DEF Idle
<1> QED
  BY <1>2, <1>3, <1>4 DEF InOrder

\* What a request still has to save when it holds a row.
LEMMA HeldFacts ==
  ASSUME NEW r, InOrder(r), r.todo # <<>>
  PROVE  /\ "machine" \in r.held => r.act = "create" /\ r.todo = <<"job">>
         /\ "alert" \in r.held => \/ Head(r.todo) \in {"sync", "machine"}
                                  \/ r.act = "create" /\ r.todo = <<"job">>
         /\ "job" \in r.held => Head(r.todo) \in {"alert", "sync", "machine"}
         /\ Head(r.todo) \in {"alert", "sync", "machine", "job"}
         /\ Head(r.todo) = "job" => r.todo = <<"job">> \/ r.act = "finish"
<1>1. ASSUME NEW x \in {"alert", "job", "machine"}, Saving(r, x)
      PROVE  r.held = {} /\ r.todo = <<x>> /\ Head(r.todo) = x
  BY <1>1 DEF Saving, At
<1>2. ASSUME Synchronising(r)
      PROVE  /\ "machine" \notin r.held /\ "job" \notin r.held
             /\ Head(r.todo) \in {"alert", "sync", "machine"}
             /\ "alert" \in r.held => Head(r.todo) \in {"sync", "machine"}
  BY <1>2, Tails, NotEmpty DEF Synchronising, At
<1>3. ASSUME Opening(r)
      PROVE  /\ "machine" \in r.held => r.todo = <<"job">>
             /\ "job" \notin r.held
             /\ Head(r.todo) \in {"alert", "sync", "machine", "job"}
             /\ Head(r.todo) = "job" => r.todo = <<"job">>
             /\ "alert" \in r.held => Head(r.todo) \in {"sync", "machine"} \/ r.todo = <<"job">>
  BY <1>3, Tails, NotEmpty DEF Opening, At
<1>4. ASSUME Finishing(r)
      PROVE  /\ "machine" \notin r.held
             /\ Head(r.todo) \in {"alert", "sync", "machine", "job"}
             /\ "job" \in r.held => Head(r.todo) \in {"alert", "sync", "machine"}
             /\ "alert" \in r.held => Head(r.todo) \in {"sync", "machine"}
  BY <1>4, Tails, NotEmpty DEF Finishing, At
<1>5. r # Idle
  BY DEF Idle
<1>6. r.act \in ByMachine \union ByJob \union OneSave => r.act # "create"
  BY DEF ByMachine, ByJob, OneSave
<1> QED
  BY <1>1, <1>2, <1>3, <1>4, <1>5, <1>6 DEF InOrder
-----------------------------------------------------------------------------
LEMMA IdleFits ==
  /\ Idle \in Request /\ Idle.act = "none" /\ Idle.a = NoAlert /\ Idle.row = Blank
  /\ Idle.todo = <<>> /\ Idle.held = {} /\ Idle.job = NoJob
  /\ Blank \in Row /\ Blank.status = "none" /\ ~Blank.closed /\ NoJob \in Job
  /\ NoJob.state = "none" /\ ~NoJob.finished
<1>1. Blank \in Row
  BY DEF Blank, Row, Statuses, Levels
<1>2. NoJob \in Job
  BY DEF NoJob, Job
<1>3. <<>> \in Seq({"alert", "sync", "machine", "job"})
  OBVIOUS
<1> QED
  BY <1>1, <1>2, <1>3 DEF Idle, Request, Acts, MachineStatuses, Blank, NoJob

LEMMA IdleOK == RequestOK(Idle)
BY IdleFits DEF RequestOK, InOrder, Sound, Fits, ByMachine, ByJob

\* A request fits as long as no row has lost what no request changes.
LEMMA FitsStays ==
  ASSUME NEW r, Fits(r),
         r.act \notin ByMachine \union {"none"} =>
           /\ alert'[r.a].status = "none" <=> alert[r.a].status = "none"
           /\ r.act # "create" => /\ alert'[r.a].needs = alert[r.a].needs
                                  /\ alert'[r.a].machine = alert[r.a].machine
                                  /\ alert'[r.a].critical = alert[r.a].critical
  PROVE  Fits(r)'
BY DEF Fits, ByMachine

\* A step of one request that commits nothing keeps the invariant if the request is
\* in order afterwards and declares no alert that another one has loaded.
LEMMA QuietStep ==
  ASSUME IInv, NEW w \in Workers, NEW r \in Request,
         UNCHANGED <<alert, job, machine, age, sweep>>,
         tx' = [tx EXCEPT ![w] = r],
         RequestOK(r),
         r.act = "create" => \A v \in Workers : v # w => tx[v].a # r.a
  PROVE  IInv' /\ tx'[w] = r /\ \A v \in Workers : v # w => tx'[v] = tx[v]
<1>1. tx \in [Workers -> Request] /\ TypeOK
  BY DEF IInv
<1>2. /\ tx' \in [Workers -> Request]
      /\ tx'[w] = r /\ \A v \in Workers : v # w => tx'[v] = tx[v]
  BY <1>1
<1>3. RequestOK(r)'
  <2>1. Fits(r)'
    BY FitsStays DEF RequestOK
  <2> QED
    BY <2>1 DEF RequestOK, InOrder, Sound
<1>4. ASSUME NEW v \in Workers PROVE RequestOK(tx[v])'
  <2>1. CASE v = w
    BY <1>2, <1>3, <2>1
  <2>2. CASE v # w
    <3>1. PICK q : q = tx[v]
      OBVIOUS
    <3>2. RequestOK(q)
      BY <3>1 DEF IInv
    <3>3. RequestOK(q)'
      BY <3>2, FitsStays DEF RequestOK, InOrder, Sound
    <3>4. tx'[v] = q
      BY <1>2, <2>2, <3>1
    <3> QED
      BY <3>3, <3>4
  <2> QED
    BY <2>1, <2>2
<1>5. TypeOK'
  <2>1. ASSUME NEW v \in Workers
        PROVE  /\ tx'[v].row \in Row /\ tx'[v].job \in Job
               /\ tx'[v].held \subseteq {"alert", "job", "machine"}
               /\ tx'[v].status \in MachineStatuses
    BY <1>2 DEF Request
  <2> QED
    BY <1>1, <2>1 DEF TypeOK
<1>6. ASSUME NEW u \in Workers, NEW v \in Workers, u # v, tx'[u].act = "create"
      PROVE  tx'[v].a # tx'[u].a
  <2>1. CASE u = w
    BY <1>2, <1>6, <2>1
  <2>2. CASE v = w
    <3>1. tx[u].act = "create" /\ tx'[u] = tx[u]
      BY <1>2, <1>6, <2>2
    <3>2. PICK q : q = tx[u]
      OBVIOUS
    <3>3. q.a \in Alerts /\ alert[q.a].status = "none" /\ RequestOK(q)
      BY <3>1, <3>2 DEF IInv, RequestOK, Fits, ByMachine
    <3>4. CASE r.act \in ByMachine \union {"none"}
      BY <1>2, <2>2, <3>1, <3>2, <3>3, <3>4, NullAssumption DEF RequestOK, Fits
    <3>5. CASE r.act = "create"
      BY <1>2, <2>2, <3>1, <3>2, <3>5, <1>6
    <3>6. CASE r.act \notin ByMachine \union {"none", "create"}
      BY <1>2, <2>2, <3>1, <3>2, <3>3, <3>6 DEF RequestOK, Fits
    <3> QED
      BY <3>4, <3>5, <3>6
  <2>3. CASE u # w /\ v # w
    BY <1>2, <1>6, <2>3 DEF IInv
  <2> QED
    BY <2>1, <2>2, <2>3
<1>7. \A a \in Alerts : RowOK(a)'
  BY DEF IInv, RowOK, Sound
<1>8. Begun' = Begun
  BY DEF Begun
<1>9. IsFiniteSet(Busy')
  <2>1. Busy' \subseteq Busy \union {w}
    BY <1>2 DEF Busy
  <2>2. IsFiniteSet(Busy \union {w})
    BY FS_AddElement DEF IInv
  <2> QED
    BY <2>1, <2>2, FS_Subset
<1> QED
  BY <1>2, <1>4, <1>5, <1>6, <1>7, <1>8, <1>9 DEF IInv
-----------------------------------------------------------------------------
(* The loads.                                                              *)

\* An object of an alert, field by field.
LEMMA LoadedFacts ==
  ASSUME IInv, NEW a \in Alerts, alert[a].status # "none"
  PROVE  LET r == Loaded(a) IN
         /\ r.a = a /\ r.row = alert[a] /\ r.job = job[a] /\ r.on = alert[a].machine
         /\ r.todo = <<>> /\ r.held = {}
         /\ r.status = machine[alert[a].machine]
         /\ alert[a].machine \in Machines
         /\ r.act = "none" /\ r \in Request
         /\ Sound(alert[a]) /\ alert[a] \in Row /\ job[a] \in Job
<1>1. Sound(alert[a]) /\ alert[a].machine \in Machines /\ alert[a] \in Row /\ job[a] \in Job
  BY DEF IInv, TypeOK, RowOK, Sound
<1>2. machine[alert[a].machine] \in MachineStatuses
  BY <1>1 DEF IInv, TypeOK
<1> DEFINE r == Loaded(a)
<1>3. /\ r.a = a /\ r.row = alert[a] /\ r.job = job[a] /\ r.on = alert[a].machine
      /\ r.todo = <<>> /\ r.held = {} /\ r.act = "none"
      /\ r.status = machine[alert[a].machine]
  BY <1>1 DEF Loaded, Idle
<1>4. r \in Request
  BY <1>1, <1>2, IdleFits DEF Loaded, Request
<1> QED
  BY <1>1, <1>3, <1>4

\* A request begins on an object that fits the rows.
Starts(w, r) ==
  /\ tx[w] = Idle /\ tx' = [tx EXCEPT ![w] = r]
  /\ UNCHANGED <<alert, job, machine, age, sweep>>
  /\ r \in Request /\ r.act # "none" /\ r.held = {}
  /\ RequestOK(r) /\ Fresh(r)
  /\ r.act = "create" => \A v \in Workers : tx[v].a # r.a

LEMMA ActFacts ==
  /\ \A x \in ByMachine : x \notin ByJob \union OneSave \union Syncing
                             \union {"none", "create", "finish"}
  /\ \A x \in ByJob : x \notin OneSave \union Syncing \union {"none", "create", "finish"}
  /\ \A x \in OneSave : x \notin Syncing \union {"none", "create", "finish"}
  /\ \A x \in Syncing : x \notin {"none", "create", "finish"}
BY DEF ByMachine, ByJob, OneSave, Syncing

\* A row with one field changed is a row.
LEMMA RowStatus == ASSUME NEW x \in Row, NEW v \in Statuses PROVE [x EXCEPT !.status = v] \in Row
BY DEF Row

LEMMA RowCritical == ASSUME NEW x \in Row, NEW v \in BOOLEAN PROVE [x EXCEPT !.critical = v] \in Row
BY DEF Row

LEMMA RowNeeds == ASSUME NEW x \in Row, NEW v \in BOOLEAN PROVE [x EXCEPT !.needs = v] \in Row
BY DEF Row

LEMMA RowMachine == ASSUME NEW x \in Row, NEW v \in Machines PROVE [x EXCEPT !.machine = v] \in Row
BY DEF Row

LEMMA RowLevel == ASSUME NEW x \in Row, NEW v \in Levels PROVE [x EXCEPT !.level = v] \in Row
BY DEF Row

LEMMA RowAcknowledged ==
  ASSUME NEW x \in Row, NEW v \in BOOLEAN
  PROVE  [x EXCEPT !.acknowledged = v] \in Row
BY DEF Row

LEMMA RowResolved == ASSUME NEW x \in Row, NEW v \in BOOLEAN PROVE [x EXCEPT !.resolved = v] \in Row
BY DEF Row

LEMMA RowClosed == ASSUME NEW x \in Row, NEW v \in BOOLEAN PROVE [x EXCEPT !.closed = v] \in Row
BY DEF Row

\* What an action writes into the object of an alert.
LEMMA RowChanges ==
  ASSUME NEW x \in Row
  PROVE  /\ Acknowledged(x) \in Row /\ Started(x) \in Row
         /\ Resolved(x) \in Row /\ Closed(x) \in Row
         /\ Acknowledged(x).status = "ACKNOWLEDGED" /\ Acknowledged(x).acknowledged
         /\ Started(x).status = "IN_PROGRESS" /\ Started(x).acknowledged = x.acknowledged
         /\ Resolved(x).status = "RESOLVED" /\ Resolved(x).resolved
         /\ Closed(x).status = "CLOSED" /\ Closed(x).closed /\ Closed(x).resolved = x.resolved
         /\ \A y \in {Acknowledged(x), Started(x), Resolved(x)} : y.closed = x.closed
         /\ \A y \in {Acknowledged(x), Started(x), Resolved(x), Closed(x)} :
              y.machine = x.machine /\ y.needs = x.needs /\ y.critical = x.critical
<1>1. {"ACKNOWLEDGED", "IN_PROGRESS", "RESOLVED", "CLOSED"} \subseteq Statuses
  BY DEF Statuses, Active
<1>2. Acknowledged(x) \in Row
  <2> DEFINE y == [x EXCEPT !.status = "ACKNOWLEDGED"]
  <2>1. y \in Row
    BY <1>1, RowStatus
  <2>2. Acknowledged(x) = [y EXCEPT !.acknowledged = TRUE]
    BY DEF Row, Acknowledged
  <2> QED
    BY <2>1, <2>2, RowAcknowledged
<1>3. Started(x) \in Row
  BY <1>1, RowStatus DEF Started
<1>4. Resolved(x) \in Row
  <2> DEFINE y == [x EXCEPT !.status = "RESOLVED"]
  <2>1. y \in Row
    BY <1>1, RowStatus
  <2>2. Resolved(x) = [y EXCEPT !.resolved = TRUE]
    BY DEF Row, Resolved
  <2> QED
    BY <2>1, <2>2, RowResolved
<1>5. Closed(x) \in Row
  <2> DEFINE y == [x EXCEPT !.status = "CLOSED"]
  <2>1. y \in Row
    BY <1>1, RowStatus
  <2>2. Closed(x) = [y EXCEPT !.closed = TRUE]
    BY DEF Row, Closed
  <2> QED
    BY <2>1, <2>2, RowClosed
<1>6. /\ Acknowledged(x).status = "ACKNOWLEDGED" /\ Acknowledged(x).acknowledged
      /\ Acknowledged(x).closed = x.closed /\ Acknowledged(x).machine = x.machine
      /\ Acknowledged(x).needs = x.needs /\ Acknowledged(x).critical = x.critical
  BY DEF Row, Acknowledged
<1>7. /\ Started(x).status = "IN_PROGRESS" /\ Started(x).acknowledged = x.acknowledged
      /\ Started(x).closed = x.closed /\ Started(x).machine = x.machine
      /\ Started(x).needs = x.needs /\ Started(x).critical = x.critical
  BY DEF Row, Started
<1>8. /\ Resolved(x).status = "RESOLVED" /\ Resolved(x).resolved
      /\ Resolved(x).closed = x.closed /\ Resolved(x).machine = x.machine
      /\ Resolved(x).needs = x.needs /\ Resolved(x).critical = x.critical
  BY DEF Row, Resolved
<1>9. /\ Closed(x).status = "CLOSED" /\ Closed(x).closed /\ Closed(x).resolved = x.resolved
      /\ Closed(x).machine = x.machine
      /\ Closed(x).needs = x.needs /\ Closed(x).critical = x.critical
  BY DEF Row, Closed
<1> QED
  BY <1>2, <1>3, <1>4, <1>5, <1>6, <1>7, <1>8, <1>9

\* The saves of an act that has two parts.
LEMMA JobBefore ==
  <<"job">> \o <<"alert", "sync", "machine">> = <<"job", "alert", "sync", "machine">>
<1> DEFINE S == {"job", "alert", "sync", "machine"}
           a == <<"job">>
           b == <<"alert", "sync", "machine">>
           c == a \o b
           d == <<"job", "alert", "sync", "machine">>
<1>1. /\ a \in Seq(S) /\ b \in Seq(S) /\ d \in Seq(S)
      /\ Len(a) = 1 /\ Len(b) = 3 /\ Len(d) = 4
  OBVIOUS
<1>2. /\ a[1] = "job"
      /\ b[1] = "alert" /\ b[2] = "sync" /\ b[3] = "machine"
      /\ d[1] = "job" /\ d[2] = "alert" /\ d[3] = "sync" /\ d[4] = "machine"
  OBVIOUS
<1> HIDE DEF a, b, d, S
<1>3. /\ c \in Seq(S)
      /\ Len(c) = 4
      /\ \A i \in 1 .. 4 : c[i] = IF i <= 1 THEN a[i] ELSE b[i - 1]
  <2>1. c \in Seq(S)
    BY <1>1
  <2>2. Len(c) = Len(a) + Len(b)
    BY <1>1, ConcatProperties
  <2>3. \A i \in 1 .. Len(a) + Len(b) : c[i] = IF i <= Len(a) THEN a[i] ELSE b[i - Len(a)]
    BY <1>1, ConcatProperties
  <2> HIDE DEF c
  <2> QED
    BY <1>1, <2>1, <2>2, <2>3
<1> HIDE DEF c
<1>4. \A i \in 1 .. 4 : c[i] = d[i]
  BY <1>2, <1>3
<1>5. c = d
  BY <1>1, <1>3, <1>4, SeqEqual
<1> QED
  BY <1>5 DEF a, b, c, d

LEMMA JobAfter ==
  <<"alert", "sync", "machine">> \o <<"job">> = <<"alert", "sync", "machine", "job">>
<1> DEFINE S == {"job", "alert", "sync", "machine"}
           a == <<"alert", "sync", "machine">>
           b == <<"job">>
           c == a \o b
           d == <<"alert", "sync", "machine", "job">>
<1>1. /\ a \in Seq(S) /\ b \in Seq(S) /\ d \in Seq(S)
      /\ Len(a) = 3 /\ Len(b) = 1 /\ Len(d) = 4
  OBVIOUS
<1>2. /\ a[1] = "alert" /\ a[2] = "sync" /\ a[3] = "machine"
      /\ b[1] = "job"
      /\ d[1] = "alert" /\ d[2] = "sync" /\ d[3] = "machine" /\ d[4] = "job"
  OBVIOUS
<1> HIDE DEF a, b, d, S
<1>3. /\ c \in Seq(S)
      /\ Len(c) = 4
      /\ \A i \in 1 .. 4 : c[i] = IF i <= 3 THEN a[i] ELSE b[i - 3]
  <2>1. c \in Seq(S)
    BY <1>1
  <2>2. Len(c) = Len(a) + Len(b)
    BY <1>1, ConcatProperties
  <2>3. \A i \in 1 .. Len(a) + Len(b) : c[i] = IF i <= Len(a) THEN a[i] ELSE b[i - Len(a)]
    BY <1>1, ConcatProperties
  <2> HIDE DEF c
  <2> QED
    BY <1>1, <2>1, <2>2, <2>3
<1> HIDE DEF c
<1>4. \A i \in 1 .. 4 : c[i] = d[i]
  BY <1>2, <1>3
<1>5. c = d
  BY <1>1, <1>3, <1>4, SeqEqual
<1> QED
  BY <1>5 DEF a, b, c, d

LEMMA Prepended ==
  /\ <<"job">> \o <<>> = <<"job">>
  /\ <<"job">> \o <<"alert", "sync", "machine">> = <<"job", "alert", "sync", "machine">>
  /\ <<"alert", "sync", "machine">> \o <<"job">> = <<"alert", "sync", "machine", "job">>
  /\ <<"alert", "sync", "machine">> \o <<>> = <<"alert", "sync", "machine">>
<1>1. <<"job">> \o <<>> = <<"job">>
  OBVIOUS
<1>2. <<"alert", "sync", "machine">> \o <<>> = <<"alert", "sync", "machine">>
  OBVIOUS
<1> QED
  BY <1>1, <1>2, JobBefore, JobAfter

\* acknowledge, start, escalate, resolve and close load an alert.
LEMMA ChangeStarts ==
  ASSUME IInv, NEW w \in Workers, NEW a \in Alerts, alert[a].status # "none",
         NEW act \in OneSave \union Syncing, NEW row \in Row, NEW todo,
         Change(w, act, a, row, todo), Sound(row),
         \/ act \in OneSave /\ todo = <<"alert">>
         \/ act \in Syncing /\ todo = <<"alert", "sync", "machine">>,
         row.status # "none", row.machine = alert[a].machine,
         row.needs = alert[a].needs, row.critical = alert[a].critical,
         act = "acknowledge" => alert[a].status = "OPEN" /\ row.status = "ACKNOWLEDGED",
         act = "start" => alert[a].status = "ACKNOWLEDGED" /\ row.status = "IN_PROGRESS",
         act = "resolve" => alert[a].status \in Active /\ row.status = "RESOLVED",
         act = "close" => alert[a].status = "RESOLVED" /\ row.status = "CLOSED"
  PROVE  \E r : Starts(w, r)
<1> DEFINE l == Loaded(a)
           r == [[l EXCEPT !.row = row, !.todo = todo] EXCEPT !.act = act]
<1>1. /\ l.a = a /\ l.row = alert[a] /\ l.job = job[a] /\ l.on = alert[a].machine
      /\ l.todo = <<>> /\ l.held = {}
      /\ l.status = machine[alert[a].machine]
      /\ alert[a].machine \in Machines
      /\ l \in Request
  BY LoadedFacts
<1>2. todo \in Seq({"alert", "sync", "machine", "job"}) /\ act \in Acts
  <2>1. /\ <<"alert">> \in Seq({"alert", "sync", "machine", "job"})
        /\ <<"alert", "sync", "machine">> \in Seq({"alert", "sync", "machine", "job"})
    OBVIOUS
  <2>2. act \in Acts
    BY DEF Acts
  <2> QED
    BY <2>1, <2>2
<1> HIDE DEF l
<1>3. /\ r \in Request
      /\ r.act = act /\ r.a = a /\ r.row = row /\ r.on = alert[a].machine
      /\ r.todo = todo /\ r.held = {} /\ r.status = machine[alert[a].machine]
  BY <1>1, <1>2 DEF Request
<1>4. /\ tx[w] = Idle /\ tx' = [tx EXCEPT ![w] = r]
      /\ UNCHANGED <<alert, job, machine, age, sweep>>
  BY DEF Change, Begin, l
<1> HIDE DEF r
<1>5. InOrder(r)
  BY <1>3 DEF InOrder, Saving, Synchronising, At
<1>6. act \notin ByMachine \union ByJob \union {"none", "create", "finish"}
  BY ActFacts
<1>7. Fits(r)
  BY <1>1, <1>3, <1>6 DEF Fits
<1>8. Fresh(r)
  <2>1. act \notin {"editMachine", "finish", "verify", "deleteJob", "create"}
    BY <1>6 DEF ByMachine, ByJob
  <2> QED
    BY <1>3, <2>1 DEF Fresh
<1>9. RequestOK(r) /\ r.act # "none" /\ r.act # "create"
  BY <1>3, <1>5, <1>6, <1>7 DEF RequestOK
<1> QED
  BY <1>3, <1>4, <1>8, <1>9 DEF Starts

\* finish, verify, the PATCH, the DELETE and the POST of an intervention load it with
\* its alert.
LEMMA ChangeJobStarts ==
  ASSUME IInv, NEW w \in Workers, NEW a \in Alerts, alert[a].status # "none",
         NEW act \in ByJob \union {"finish"}, NEW new \in Job,
         NEW then \in {<<>>, <<"alert", "sync", "machine">>},
         ChangeJob(w, act, a, new, then), new.state # "none",
         act # "finish" => then = <<>>,
         act = "finish" => (then # <<>> <=> alert[a].status \in Active),
         act = "verify" => new.finished = job[a].finished,
         act = "deleteJob" => ~new.finished
  PROVE  \E r : Starts(w, r)
<1> DEFINE l == Loaded(a)
           row == IF then = <<>> THEN alert[a] ELSE Resolved(alert[a])
           todo == <<"job">> \o then
           r == [[l EXCEPT !.job = new, !.todo = todo, !.row = row] EXCEPT !.act = act]
<1>1. /\ l.a = a /\ l.row = alert[a] /\ l.job = job[a] /\ l.on = alert[a].machine
      /\ l.todo = <<>> /\ l.held = {}
      /\ l.status = machine[alert[a].machine]
      /\ alert[a].machine \in Machines
      /\ l \in Request /\ Sound(alert[a]) /\ alert[a] \in Row
  BY LoadedFacts
<1>2. /\ then = <<>> => todo = <<"job">>
      /\ then # <<>> => todo = <<"job", "alert", "sync", "machine">>
  BY Prepended
<1>3. todo \in Seq({"alert", "sync", "machine", "job"})
  <2>1. /\ <<"job">> \in Seq({"alert", "sync", "machine", "job"})
        /\ <<"job", "alert", "sync", "machine">> \in Seq({"alert", "sync", "machine", "job"})
    OBVIOUS
  <2> QED
    BY <1>2, <2>1
<1>4. /\ row \in Row /\ row.status # "none" /\ row.machine = alert[a].machine
      /\ row.needs = alert[a].needs /\ row.critical = alert[a].critical
      /\ then # <<>> => row.status = "RESOLVED" /\ row.resolved /\ row.closed = alert[a].closed
      /\ then = <<>> => row = alert[a]
  BY <1>1, RowChanges
<1>5. then # <<>> => ~alert[a].closed
  BY <1>1, NotEmpty DEF Sound, Active
<1>6. Sound(row)
  BY <1>1, <1>4, <1>5 DEF Sound
<1>7. act \in Acts
  BY DEF Acts
<1>8. tx' = [tx EXCEPT ![w] = r] /\ tx[w] = Idle
  BY DEF ChangeJob, Begin
<1>9. UNCHANGED <<alert, job, machine, age, sweep>>
  BY DEF ChangeJob, Begin
<1> HIDE DEF l, row, todo
<1>10. /\ r \in Request
       /\ r.act = act /\ r.a = a /\ r.row = row /\ r.on = alert[a].machine
       /\ r.todo = todo /\ r.held = {} /\ r.status = machine[alert[a].machine]
       /\ r.job = new
  BY <1>1, <1>3, <1>4, <1>7 DEF Request
<1> HIDE DEF r
<1>11. InOrder(r)
  BY <1>2, <1>4, <1>10 DEF InOrder, Saving, Finishing, At
<1>12. act \notin ByMachine \union OneSave \union Syncing \union {"none", "create"}
  BY ActFacts DEF ByMachine, OneSave, Syncing
<1>13. Fits(r)
  BY <1>1, <1>4, <1>10, <1>12 DEF Fits, OneSave, Syncing
<1>14. Fresh(r)
  <2>1. act \notin {"editMachine", "acknowledge", "start", "resolve", "close"}
    BY <1>12 DEF ByMachine, OneSave, Syncing
  <2>2. act = "finish" => IF alert[a].status \in Active
                          THEN row.status = "RESOLVED" /\ Finishing(r) ELSE Saving(r, "job")
    BY <1>2, <1>4, <1>10 DEF Finishing, Saving, At
  <2> QED
    BY <1>10, <2>1, <2>2 DEF Fresh
<1>15. RequestOK(r) /\ r.act # "none" /\ r.act # "create"
  BY <1>6, <1>10, <1>11, <1>12, <1>13 DEF RequestOK
<1> QED
  BY <1>8, <1>9, <1>10, <1>14, <1>15 DEF Starts

\* The status and the PATCH of a machine load it alone.
LEMMA MachineStarts ==
  ASSUME IInv, NEW w \in Workers, LoadSetMachine(w) \/ LoadEditMachine(w)
  PROVE  \E r : Starts(w, r)
<1>1. PICK act \in ByMachine, m \in Machines, s \in MachineStatuses :
        /\ Begin(w, act, [Idle EXCEPT !.on = m, !.status = s, !.todo = <<"machine">>])
        /\ act = "editMachine" => s = machine[m]
  BY InputsAssumption, ZenonT(30)
  DEF LoadSetMachine, LoadEditMachine, ByMachine, MachineStatuses, IInv, TypeOK
<1> DEFINE r == [[Idle EXCEPT !.on = m, !.status = s, !.todo = <<"machine">>] EXCEPT !.act = act]
<1>2. <<"machine">> \in Seq({"alert", "sync", "machine", "job"}) /\ act \in Acts
  BY DEF Acts
<1>3. /\ r \in Request
      /\ r.act = act /\ r.on = m /\ r.status = s /\ r.todo = <<"machine">> /\ r.held = {}
      /\ r.a = NoAlert /\ r.row = Blank
  BY <1>2, IdleFits DEF Request, Idle
<1>4. tx' = [tx EXCEPT ![w] = r] /\ tx[w] = Idle
  BY <1>1 DEF Begin
<1>5. UNCHANGED <<alert, job, machine, age, sweep>>
  BY <1>1 DEF Begin
<1> HIDE DEF r
<1>6. InOrder(r)
  BY <1>3 DEF InOrder, Saving, At
<1>7. act \notin ByJob \union OneSave \union Syncing \union {"none", "create", "finish"}
  BY ActFacts
<1>8. Fits(r)
  BY <1>3, <1>7 DEF Fits, OneSave, Syncing
<1>9. Sound(Blank)
  BY IdleFits DEF Sound
<1>10. Fresh(r)
  BY <1>1, <1>3, <1>7 DEF Fresh, OneSave, Syncing, ByJob
<1>11. RequestOK(r) /\ r.act # "none" /\ r.act # "create"
  BY <1>3, <1>6, <1>7, <1>8, <1>9 DEF RequestOK
<1> QED
  BY <1>3, <1>4, <1>5, <1>10, <1>11 DEF Starts

\* A new alert is nobody else's.
LEMMA CreateStarts ==
  ASSUME IInv, NEW w \in Workers, LoadCreate(w)
  PROVE  \E r : Starts(w, r)
<1>1. PICK a \in Alerts, m \in Machines, critical, needs \in BOOLEAN :
        /\ alert[a].status = "none"
        /\ \A o \in Workers : tx[o].a # a
        /\ Begin(w, "create",
             [Idle EXCEPT
                !.a = a, !.on = m, !.status = machine[m],
                !.row = [Blank EXCEPT !.status = "OPEN", !.machine = m,
                                      !.critical = critical, !.needs = needs],
                !.job = [NoJob EXCEPT !.state = IF needs THEN "here" ELSE "none"],
                !.todo = SaveAndSync \o (IF needs THEN <<"job">> ELSE <<>>)])
  BY DEF LoadCreate
<1> DEFINE row == [Blank EXCEPT !.status = "OPEN", !.machine = m,
                                !.critical = critical, !.needs = needs]
           new == [NoJob EXCEPT !.state = IF needs THEN "here" ELSE "none"]
           todo == SaveAndSync \o (IF needs THEN <<"job">> ELSE <<>>)
           r == [[Idle EXCEPT !.a = a, !.on = m, !.status = machine[m], !.row = row,
                              !.job = new, !.todo = todo] EXCEPT !.act = "create"]
<1>2. /\ row \in Row /\ row.status = "OPEN" /\ row.machine = m /\ row.needs = needs
      /\ Sound(row)
  <2>1. row.status = "OPEN" /\ row.machine = m /\ row.needs = needs /\ row.closed = FALSE
    BY DEF Blank
  <2>2. row \in Row
    <3>1. "OPEN" \in Statuses
      BY DEF Statuses, Active
    <3> DEFINE y1 == [Blank EXCEPT !.status = "OPEN"]
               y2 == [y1 EXCEPT !.machine = m]
               y3 == [y2 EXCEPT !.critical = critical]
               y4 == [y3 EXCEPT !.needs = needs]
    <3>2. row = y4
      BY DEF Blank
    <3>3. y1 \in Row
      BY <3>1, IdleFits, RowStatus
    <3> HIDE DEF y1
    <3>4. y2 \in Row
      BY <3>3, RowMachine
    <3> HIDE DEF y2
    <3>5. y3 \in Row
      BY <3>4, RowCritical
    <3> HIDE DEF y3
    <3>6. y4 \in Row
      BY <3>5, RowNeeds
    <3> HIDE DEF y4, row
    <3> QED
      BY <3>2, <3>6
  <2> QED
    BY <2>1, <2>2 DEF Sound
<1>3. new \in Job /\ ~new.finished /\ (needs => new.state = "here")
  BY DEF NoJob, Job
<1>4. /\ needs => todo = <<"alert", "sync", "machine", "job">>
      /\ ~needs => todo = <<"alert", "sync", "machine">>
  BY Prepended DEF SaveAndSync
<1>5. todo \in Seq({"alert", "sync", "machine", "job"})
  <2>1. /\ <<"alert", "sync", "machine">> \in Seq({"alert", "sync", "machine", "job"})
        /\ <<"alert", "sync", "machine", "job">> \in Seq({"alert", "sync", "machine", "job"})
    OBVIOUS
  <2> QED
    BY <1>4, <2>1
<1>6. machine[m] \in MachineStatuses
  BY DEF IInv, TypeOK
<1>7. tx' = [tx EXCEPT ![w] = r] /\ tx[w] = Idle
  BY <1>1 DEF Begin
<1>8. UNCHANGED <<alert, job, machine, age, sweep>>
  BY <1>1 DEF Begin
<1> HIDE DEF row, new, todo
<1>9. /\ r \in Request
      /\ r.act = "create" /\ r.a = a /\ r.row = row /\ r.on = m
      /\ r.todo = todo /\ r.held = {} /\ r.status = machine[m] /\ r.job = new
  BY <1>2, <1>3, <1>5, <1>6, IdleFits DEF Request, Idle, Acts
<1> HIDE DEF r
<1>10. InOrder(r)
  BY <1>2, <1>4, <1>9 DEF InOrder, Opening, Synchronising, At
<1>11. "create" \notin ByMachine \union ByJob \union OneSave \union Syncing
  BY DEF ByMachine, ByJob, OneSave, Syncing
<1>12. Fits(r)
  BY <1>1, <1>2, <1>3, <1>9, <1>11 DEF Fits
<1>13. Fresh(r)
  BY <1>9, <1>11 DEF Fresh
<1>14. RequestOK(r)
  BY <1>2, <1>9, <1>10, <1>12 DEF RequestOK
<1> QED
  BY <1>1, <1>7, <1>8, <1>9, <1>13, <1>14 DEF Starts

\* Every load starts a request that is in order and fits.
LEMMA LoadStarts ==
  ASSUME IInv, NEW w \in Workers, Load(w)
  PROVE  \E r : Starts(w, r)
<1>1. \A a \in Alerts : alert[a] \in Row /\ job[a] \in Job /\ Sound(alert[a])
  BY DEF IInv, TypeOK, RowOK
<1>2. \A a \in Alerts : job[a].state = "here" => alert[a].status # "none"
  BY DEF IInv, RowOK
<1>3. SaveAndSync = <<"alert", "sync", "machine">>
  BY DEF SaveAndSync
<1>4. CASE LoadAcknowledge(w)
  <2>1. PICK a \in Alerts : /\ alert[a].status = "OPEN"
                            /\ Change(w, "acknowledge", a, Acknowledged(alert[a]), <<"alert">>)
    BY <1>4 DEF LoadAcknowledge
  <2>2. PICK row \in Row : row = Acknowledged(alert[a])
    BY <1>1, RowChanges
  <2>3. /\ row.status = "ACKNOWLEDGED" /\ row.acknowledged /\ row.closed = alert[a].closed
        /\ row.machine = alert[a].machine /\ row.needs = alert[a].needs
        /\ row.critical = alert[a].critical
    BY <1>1, <2>2, RowChanges
  <2>4. Sound(row)
    BY <1>1, <2>1, <2>3 DEF Sound
  <2> QED
    BY <2>1, <2>2, <2>3, <2>4, ChangeStarts DEF OneSave
<1>5. CASE LoadStart(w)
  <2>1. PICK a \in Alerts : /\ alert[a].status = "ACKNOWLEDGED"
                            /\ Change(w, "start", a, Started(alert[a]), <<"alert">>)
    BY <1>5 DEF LoadStart
  <2>2. PICK row \in Row : row = Started(alert[a])
    BY <1>1, RowChanges
  <2>3. /\ row.status = "IN_PROGRESS" /\ row.acknowledged = alert[a].acknowledged
        /\ row.closed = alert[a].closed
        /\ row.machine = alert[a].machine /\ row.needs = alert[a].needs
        /\ row.critical = alert[a].critical
    BY <1>1, <2>2, RowChanges
  <2>4. Sound(row)
    BY <1>1, <2>1, <2>3 DEF Sound
  <2> QED
    BY <2>1, <2>2, <2>3, <2>4, ChangeStarts DEF OneSave
<1>6. CASE LoadResolve(w)
  <2>1. PICK a \in Alerts : /\ alert[a].status \in Active
                            /\ Change(w, "resolve", a, Resolved(alert[a]), SaveAndSync)
    BY <1>6 DEF LoadResolve
  <2>2. PICK row \in Row : row = Resolved(alert[a])
    BY <1>1, RowChanges
  <2>3. /\ row.status = "RESOLVED" /\ row.resolved
        /\ row.closed = alert[a].closed
        /\ row.machine = alert[a].machine /\ row.needs = alert[a].needs
        /\ row.critical = alert[a].critical
    BY <1>1, <2>2, RowChanges
  <2>4. Sound(row) /\ alert[a].status # "none"
    BY <1>1, <2>1, <2>3 DEF Sound, Active
  <2> QED
    BY <1>3, <2>1, <2>2, <2>3, <2>4, ChangeStarts DEF Syncing
<1>7. CASE LoadClose(w)
  <2>1. PICK a \in Alerts : /\ alert[a].status = "RESOLVED"
                            /\ Change(w, "close", a, Closed(alert[a]), SaveAndSync)
    BY <1>7 DEF LoadClose
  <2>2. PICK row \in Row : row = Closed(alert[a])
    BY <1>1, RowChanges
  <2>3. /\ row.status = "CLOSED" /\ row.closed /\ row.resolved = alert[a].resolved
        /\ row.machine = alert[a].machine /\ row.needs = alert[a].needs
        /\ row.critical = alert[a].critical
    BY <1>1, <2>2, RowChanges
  <2>4. Sound(row)
    BY <1>1, <2>1, <2>3 DEF Sound
  <2> QED
    BY <1>3, <2>1, <2>2, <2>3, <2>4, ChangeStarts DEF Syncing
<1>8. CASE LoadEscalate(w)
  <2>1. PICK a \in Alerts, l \in ClientLevels :
          /\ alert[a].status # "none"
          /\ Change(w, "escalate", a, [alert[a] EXCEPT !.level = l], <<"alert">>)
    BY <1>8 DEF LoadEscalate
  <2>2. PICK row : row = [alert[a] EXCEPT !.level = l]
    OBVIOUS
  <2>3. row \in Row
    BY <1>1, <2>2, RowLevel, InputsAssumption DEF Levels
  <2>4. /\ row.status = alert[a].status /\ row.acknowledged = alert[a].acknowledged
        /\ row.resolved = alert[a].resolved /\ row.closed = alert[a].closed
        /\ row.machine = alert[a].machine /\ row.needs = alert[a].needs
        /\ row.critical = alert[a].critical
    <3>1. PICK old \in Row : old = alert[a]
      BY <1>1
    <3>2. row = [old EXCEPT !.level = l]
      BY <2>2, <3>1
    <3>3. /\ row.status = old.status /\ row.acknowledged = old.acknowledged
          /\ row.resolved = old.resolved /\ row.closed = old.closed
      BY <3>2 DEF Row
    <3>4. /\ row.machine = old.machine /\ row.needs = old.needs
          /\ row.critical = old.critical
      BY <3>2 DEF Row
    <3> QED
      BY <3>1, <3>3, <3>4
  <2>5. Sound(row)
    BY <1>1, <2>4 DEF Sound
  <2> QED
    BY <2>1, <2>2, <2>3, <2>4, <2>5, ChangeStarts DEF OneSave
<1>9. CASE LoadFinish(w)
  <2>1. PICK a \in Alerts :
          /\ job[a].state = "here" /\ ~job[a].finished
          /\ ChangeJob(w, "finish", a, [job[a] EXCEPT !.finished = TRUE],
                       IF alert[a].status \in Active THEN SaveAndSync ELSE <<>>)
    BY <1>9 DEF LoadFinish
  <2>2. PICK new : new = [job[a] EXCEPT !.finished = TRUE]
    OBVIOUS
  <2>3. new \in Job /\ new.state # "none"
    BY <1>1, <2>1, <2>2 DEF Job
  <2>4. PICK then : then = IF alert[a].status \in Active
                           THEN <<"alert", "sync", "machine">> ELSE <<>>
    OBVIOUS
  <2>5. /\ then \in {<<>>, <<"alert", "sync", "machine">>}
        /\ then # <<>> <=> alert[a].status \in Active
    BY <2>4, NotEmpty
  <2>6. ChangeJob(w, "finish", a, new, then)
    BY <1>3, <2>1, <2>2, <2>4, Zenon
  <2>7. job[a].state = "here" /\ ~job[a].finished
    BY <2>1
  <2> QED
    BY <1>2, <2>3, <2>5, <2>6, <2>7, ChangeJobStarts
<1>10. CASE LoadVerify(w)
  <2>1. PICK a \in Alerts :
          /\ job[a].state = "here"
          /\ ChangeJob(w, "verify", a, [job[a] EXCEPT !.verified = TRUE], <<>>)
    BY <1>10 DEF LoadVerify
  <2>2. PICK new : new = [job[a] EXCEPT !.verified = TRUE]
    OBVIOUS
  <2>3. new \in Job /\ new.state # "none" /\ new.finished = job[a].finished
    BY <1>1, <2>1, <2>2 DEF Job
  <2>4. ChangeJob(w, "verify", a, new, <<>>) /\ "verify" \in ByJob
    BY <2>1, <2>2 DEF ByJob
  <2> QED
    BY <1>2, <2>1, <2>3, <2>4, ChangeJobStarts
<1>11. CASE LoadEditJob(w)
  <2>1. PICK a \in Alerts, f \in BOOLEAN :
          /\ job[a].state = "here"
          /\ ChangeJob(w, "editJob", a, [job[a] EXCEPT !.finished = f], <<>>)
    BY <1>11 DEF LoadEditJob
  <2>2. PICK new : new = [job[a] EXCEPT !.finished = f]
    OBVIOUS
  <2>3. new \in Job /\ new.state # "none"
    BY <1>1, <2>1, <2>2 DEF Job
  <2>4. ChangeJob(w, "editJob", a, new, <<>>) /\ "editJob" \in ByJob
    BY <2>1, <2>2 DEF ByJob
  <2> QED
    BY <1>2, <2>1, <2>3, <2>4, ChangeJobStarts
<1>12. CASE LoadDeleteJob(w)
  <2>1. PICK a \in Alerts :
          /\ job[a].state = "here"
          /\ ChangeJob(w, "deleteJob", a, [NoJob EXCEPT !.state = "gone"], <<>>)
    BY <1>12 DEF LoadDeleteJob
  <2>2. PICK new : new = [NoJob EXCEPT !.state = "gone"]
    OBVIOUS
  <2>3. new \in Job /\ new.state # "none" /\ ~new.finished
    BY <2>2 DEF Job, NoJob
  <2>4. ChangeJob(w, "deleteJob", a, new, <<>>) /\ "deleteJob" \in ByJob
    BY <2>1, <2>2 DEF ByJob
  <2> QED
    BY <1>2, <2>1, <2>3, <2>4, ChangeJobStarts
<1>13. CASE LoadOpenJob(w)
  <2>1. PICK a \in Alerts, f \in BOOLEAN :
          /\ alert[a].status # "none"
          /\ ChangeJob(w, "openJob", a, [NoJob EXCEPT !.state = "here", !.finished = f], <<>>)
    BY <1>13 DEF LoadOpenJob
  <2>2. PICK new : new = [NoJob EXCEPT !.state = "here", !.finished = f]
    OBVIOUS
  <2>3. new \in Job /\ new.state # "none"
    BY <2>2 DEF Job, NoJob
  <2>4. ChangeJob(w, "openJob", a, new, <<>>) /\ "openJob" \in ByJob
    BY <2>1, <2>2 DEF ByJob
  <2> QED
    BY <2>1, <2>3, <2>4, ChangeJobStarts
<1> QED
  BY <1>4, <1>5, <1>6, <1>7, <1>8, <1>9, <1>10, <1>11, <1>12, <1>13,
     CreateStarts, MachineStarts DEF Load

LEMMA LoadInvariant ==
  ASSUME IInv, NEW w \in Workers, Load(w)
  PROVE  IInv'
<1>1. PICK r : Starts(w, r)
  BY LoadStarts
<1> QED
  BY <1>1, QuietStep DEF Starts
-----------------------------------------------------------------------------
(* The saves.                                                              *)

\* What a save leaves of the request that makes it.
Saves(w, row, q, r) ==
  /\ q = tx[w] /\ tx' = [tx EXCEPT ![w] = r]
  /\ UNCHANGED <<alert, job, machine, age, sweep>>
  /\ r \in Request /\ RequestOK(r) /\ RequestOK(q)
  /\ q.todo # <<>> /\ Head(q.todo) = row
  /\ r.act = q.act /\ r.a = q.a /\ r.row = q.row /\ r.job = q.job /\ r.on = q.on
  /\ r.todo = Tail(q.todo) /\ r.held = q.held \union {row}
  /\ r.status = IF row = "alert" /\ q.act = "finish" THEN machine[q.on] ELSE q.status

LEMMA SaveSaves ==
  ASSUME IInv, NEW w \in Workers, SaveAlert(w) \/ SaveMachine(w) \/ SaveJob(w)
  PROVE  \E row \in {"alert", "machine", "job"} : \E q, r : Saves(w, row, q, r)
<1>1. PICK q \in Request : q = tx[w]
  BY DEF IInv
<1>2. RequestOK(q)
  BY <1>1 DEF IInv
<1>3. PICK row \in {"alert", "machine", "job"} :
        /\ Due(w, row)
        /\ tx' = [tx EXCEPT ![w] = [q EXCEPT !.todo = Tail(q.todo),
                                             !.held = q.held \union {row},
                                             !.status = IF row = "alert" /\ q.act = "finish"
                                                        THEN machine[q.on] ELSE q.status]]
  <2>1. CASE SaveAlert(w)
    BY <1>1, <2>1 DEF SaveAlert, IInv
  <2>2. ASSUME NEW row \in {"machine", "job"}, Save(w, row)
        PROVE  tx' = [tx EXCEPT ![w] = [q EXCEPT !.todo = Tail(q.todo),
                                                 !.held = q.held \union {row},
                                                 !.status = IF row = "alert" /\ q.act = "finish"
                                                            THEN machine[q.on] ELSE q.status]]
    BY <1>1, <2>2 DEF Save, IInv, Request
  <2> QED
    BY <2>1, <2>2 DEF SaveMachine, SaveJob, Save
<1>4. UNCHANGED <<alert, job, machine, age, sweep>>
  BY DEF SaveAlert, SaveMachine, SaveJob, Save
<1> DEFINE r == [q EXCEPT !.todo = Tail(q.todo), !.held = q.held \union {row},
                         !.status = IF row = "alert" /\ q.act = "finish"
                                    THEN machine[q.on] ELSE q.status]
<1>5. q.todo # <<>> /\ Head(q.todo) = row
  BY <1>1, <1>3 DEF Due
<1>6. q.act = "finish" => machine[q.on] \in MachineStatuses
  BY <1>2 DEF IInv, TypeOK, RequestOK, Fits
<1>7. /\ r.act = q.act /\ r.a = q.a /\ r.row = q.row /\ r.job = q.job /\ r.on = q.on
      /\ r.todo = Tail(q.todo) /\ r.held = q.held \union {row}
      /\ r.status = IF row = "alert" /\ q.act = "finish" THEN machine[q.on] ELSE q.status
  BY DEF Request
<1>8. r \in Request
  <2>1. Tail(q.todo) \in Seq({"alert", "sync", "machine", "job"})
    BY <1>5 DEF Request
  <2>2. q.held \union {row} \in SUBSET {"alert", "job", "machine"}
    BY DEF Request
  <2> QED
    BY <1>6, <2>1, <2>2 DEF Request
<1>9. tx' = [tx EXCEPT ![w] = r]
  BY <1>3
<1> HIDE DEF r
<1>10. RequestOK(r)
  <2>1. InOrder(r)
    BY <1>2, <1>5, <1>7, SaveInOrder DEF RequestOK
  <2>2. Sound(r.row)
    BY <1>2, <1>7 DEF RequestOK
  <2>3. Fits(r)
    BY <1>2, <1>7 DEF RequestOK, Fits
  <2> QED
    BY <2>1, <2>2, <2>3 DEF RequestOK
<1> QED
  BY <1>1, <1>2, <1>4, <1>5, <1>7, <1>8, <1>9, <1>10 DEF Saves

LEMMA SaveInvariant ==
  ASSUME IInv, NEW w \in Workers, SaveAlert(w) \/ SaveMachine(w) \/ SaveJob(w)
  PROVE  IInv'
<1>0. PICK row \in {"alert", "machine", "job"} : \E q, r : Saves(w, row, q, r)
  BY SaveSaves
<1>1. PICK q, r : Saves(w, row, q, r)
  BY <1>0
<1>2. r.act = "create" => \A v \in Workers : v # w => tx[v].a # r.a
  BY <1>1 DEF Saves, IInv
<1> QED
  BY <1>1, <1>2, QuietStep DEF Saves

\* What the synchronisation leaves of the request.
Syncs(w, q, r) ==
  /\ q = tx[w] /\ tx' = [tx EXCEPT ![w] = r]
  /\ UNCHANGED <<alert, job, machine, age, sweep>>
  /\ r \in Request /\ RequestOK(r) /\ RequestOK(q)
  /\ q.todo # <<>> /\ Head(q.todo) = "sync"
  /\ r.act = q.act /\ r.a = q.a /\ r.row = q.row /\ r.job = q.job /\ r.on = q.on
  /\ r.held = q.held
  /\ r.status = TargetOf(q)
  /\ r.todo = IF q.status = TargetOf(q) THEN Tail(Tail(q.todo)) ELSE Tail(q.todo)

LEMMA SyncSyncs ==
  ASSUME IInv, NEW w \in Workers, Sync(w)
  PROVE  \E q, r : Syncs(w, q, r)
<1>1. PICK q \in Request : q = tx[w]
  BY DEF IInv
<1>2. RequestOK(q)
  BY <1>1 DEF IInv
<1>3. PICK target : target = TargetOf(q)
  OBVIOUS
<1>4. Target(w) = target
  BY <1>1, <1>3 DEF Target, TargetOf, SeenBy
<1>5. q.todo # <<>> /\ Head(q.todo) = "sync"
  BY <1>1 DEF Sync, Due
<1>6. PICK todo : todo = IF q.status = target THEN Tail(Tail(q.todo)) ELSE Tail(q.todo)
  OBVIOUS
<1> DEFINE r == [q EXCEPT !.status = target, !.todo = todo]
<1>7. tx' = [tx EXCEPT ![w] = r]
  BY <1>1, <1>4, <1>6 DEF Sync, IInv, Request
<1>8. /\ r.act = q.act /\ r.a = q.a /\ r.row = q.row /\ r.job = q.job /\ r.on = q.on
      /\ r.todo = todo /\ r.held = q.held /\ r.status = target
  BY DEF Request
<1>9. target \in MachineStatuses
  BY <1>3 DEF TargetOf, MachineStatuses
<1> HIDE DEF r
<1>10. InOrder(r)
  BY <1>2, <1>5, <1>6, <1>8, SyncInOrder DEF RequestOK
<1>11. Sound(r.row)
  BY <1>2, <1>8 DEF RequestOK
<1>12. Fits(r)
  BY <1>2, <1>8 DEF RequestOK, Fits
<1>13. r \in Request
  <2>1. q.todo \in {<<"sync", "machine">>, <<"sync", "machine", "job">>}
    BY <1>2, <1>5, SyncNext DEF RequestOK
  <2>2. todo \in {<<"machine">>, <<>>, <<"machine", "job">>, <<"job">>}
    BY <1>6, <2>1, Tails
  <2>3. /\ <<"machine">> \in Seq({"alert", "sync", "machine", "job"})
        /\ <<>> \in Seq({"alert", "sync", "machine", "job"})
        /\ <<"machine", "job">> \in Seq({"alert", "sync", "machine", "job"})
        /\ <<"job">> \in Seq({"alert", "sync", "machine", "job"})
    OBVIOUS
  <2>4. todo \in Seq({"alert", "sync", "machine", "job"})
    BY <2>2, <2>3
  <2> QED
    BY <1>9, <2>4 DEF r, Request
<1>14. UNCHANGED <<alert, job, machine, age, sweep>>
  BY DEF Sync
<1> QED
  BY <1>1, <1>2, <1>3, <1>5, <1>6, <1>7, <1>8, <1>10, <1>11, <1>12, <1>13, <1>14
     DEF Syncs, RequestOK

LEMMA SyncInvariant ==
  ASSUME IInv, NEW w \in Workers, Sync(w)
  PROVE  IInv'
<1>1. PICK q, r : Syncs(w, q, r)
  BY SyncSyncs
<1>2. r.act = "create" => \A v \in Workers : v # w => tx[v].a # r.a
  BY <1>1 DEF Syncs, IInv
<1> QED
  BY <1>1, <1>2, QuietStep DEF Syncs

\* A request that is refused or rolled back leaves nothing.
LEMMA EndInvariant ==
  ASSUME IInv, NEW w \in Workers, RefuseDuplicate(w) \/ Abort(w)
  PROVE  IInv'
<1>1. tx' = [tx EXCEPT ![w] = Idle] /\ UNCHANGED <<alert, job, machine, age, sweep>>
  BY DEF RefuseDuplicate, Abort
<1> QED
  BY <1>1, IdleFits, IdleOK, QuietStep
-----------------------------------------------------------------------------
(* The commit.                                                             *)

\* The rows a request holds when it commits, by its act.
LEMMA HeldAtEnd ==
  ASSUME NEW r, InOrder(r), r.act # "none", r.todo = <<>>
  PROVE  /\ r.act \in ByMachine => r.held = {"machine"}
         /\ r.act \in ByJob => r.held = {"job"}
         /\ r.act \in OneSave => r.held = {"alert"}
         /\ r.act \in Syncing => "alert" \in r.held /\ "job" \notin r.held
         /\ r.act = "finish" => /\ "job" \in r.held
                                /\ "machine" \in r.held => "alert" \in r.held
                                /\ "alert" \in r.held => r.row.status = "RESOLVED"
         /\ r.act = "create" => /\ "alert" \in r.held
                                /\ "job" \in r.held <=> r.row.needs
<1>1. ASSUME NEW x, Saving(r, x) PROVE r.held = {x}
  BY <1>1 DEF Saving, At
<1>2. Synchronising(r) => "alert" \in r.held /\ "job" \notin r.held
  BY NotEmpty DEF Synchronising, At
<1>3. Opening(r) => "alert" \in r.held /\ "job" \in r.held
  BY NotEmpty DEF Opening, At
<1>4. Finishing(r) => "alert" \in r.held /\ "job" \in r.held
  BY NotEmpty DEF Finishing, At
<1>5. r # Idle
  BY IdleFits
<1>6. CASE r.act \in ByMachine \union ByJob \union OneSave \union Syncing
  BY <1>1, <1>2, <1>5, <1>6, ActFacts DEF InOrder
<1>7. CASE r.act = "finish"
  BY <1>1, <1>4, <1>5, <1>7, ActFacts DEF InOrder
<1>8. CASE r.act = "create"
  BY <1>2, <1>3, <1>5, <1>8, ActFacts DEF InOrder
<1>9. CASE r.act \notin ByMachine \union ByJob \union OneSave \union Syncing \union {"finish", "create"}
  BY <1>5, <1>9 DEF InOrder
<1> QED
  BY <1>6, <1>7, <1>8, <1>9, ActFacts

LEMMA ScoreType ==
  ASSUME NEW row \in Row
  PROVE  Score(row) \in 0 .. 2500
<1>1. PICK l \in 0 .. 2 : l = row.level
  BY DEF Row, Levels
<1>2. PICK c \in {500, 1000} : c = IF row.critical THEN 1000 ELSE 500
  OBVIOUS
<1>3. PICK s \in {0, 1000} : s = IF row.status \in Active THEN 1000 ELSE 0
  OBVIOUS
<1>4. Score(row) = c + s + l * 250
  BY <1>1, <1>2, <1>3 DEF Score
<1> QED
  BY <1>4

\* What a commit writes, and what it cannot have lost however stale its object.
Commits(w, q, x) ==
  /\ q = tx[w] /\ q \in Request /\ RequestOK(q) /\ q.act # "none" /\ q.todo = <<>>
  /\ alert' = IF "alert" \in q.held THEN [alert EXCEPT ![q.a] = x] ELSE alert
  /\ job' = IF "job" \in q.held THEN [job EXCEPT ![q.a] = q.job] ELSE job
  /\ machine' = IF "machine" \in q.held THEN [machine EXCEPT ![q.on] = q.status] ELSE machine
  /\ tx' = [tx EXCEPT ![w] = Idle]
  /\ age' = age /\ sweep' = sweep
  /\ "alert" \in q.held \/ "job" \in q.held =>
       q.a \in Alerts /\ q.act \notin ByMachine \union {"none"}
  /\ "alert" \in q.held =>
       /\ x \in Row /\ Sound(x)
       /\ x.status # "none" /\ x.machine = q.on /\ x.machine \in Machines
       /\ q.act = "create" => x.status = "OPEN" /\ x.needs = q.row.needs
       /\ q.act # "create" => /\ alert[q.a].status # "none"
                              /\ x.machine = alert[q.a].machine
                              /\ x.needs = alert[q.a].needs
                              /\ x.critical = alert[q.a].critical
       /\ q.act # "escalate" => x.status = q.row.status /\ x.critical = q.row.critical
       /\ q.act = "escalate" => x.status = alert[q.a].status

\* What a row keeps when its level or its score is set.
LEMMA RowSetLevel ==
  ASSUME NEW r \in Row, NEW l, NEW x, x = [r EXCEPT !.level = l]
  PROVE  /\ x.status = r.status /\ x.machine = r.machine
         /\ x.needs = r.needs /\ x.critical = r.critical
         /\ x.acknowledged = r.acknowledged
         /\ x.resolved = r.resolved /\ x.closed = r.closed
  BY DEF Row

Scored(row, n) == [row EXCEPT !.score = n]

\* x says the same as r but for the level and the score.
Alike(x, r) ==
  /\ x.status = r.status /\ x.machine = r.machine
  /\ x.needs = r.needs /\ x.critical = r.critical
  /\ x.acknowledged = r.acknowledged
  /\ x.resolved = r.resolved /\ x.closed = r.closed

LEMMA RowSetScore ==
  ASSUME NEW r \in Row, NEW n, n \in 0 .. 2500
  PROVE  Scored(r, n) \in Row /\ Alike(Scored(r, n), r)
<1>1. PICK x : x = Scored(r, n)
  OBVIOUS
<1>2. x \in Row
  BY <1>1 DEF Scored, Row
<1>3. Alike(x, r)
  BY <1>1 DEF Scored, Row, Alike
<1> QED
  BY <1>1, <1>2, <1>3

LEMMA CommitCommits ==
  ASSUME IInv, NEW w \in Workers, Commit(w)
  PROVE  \E q, x : Commits(w, q, x)
<1>1. PICK q \in Request : q = tx[w]
  BY DEF IInv
<1>2. RequestOK(q)
  BY <1>1 DEF IInv
<1>3. PICK x : x = AlertAfter(w)
  OBVIOUS
<1>4. /\ q.act # "none" /\ q.todo = <<>>
      /\ alert' = IF "alert" \in q.held THEN [alert EXCEPT ![q.a] = x] ELSE alert
      /\ job' = IF "job" \in q.held THEN [job EXCEPT ![q.a] = q.job] ELSE job
      /\ machine' = IF "machine" \in q.held THEN [machine EXCEPT ![q.on] = q.status] ELSE machine
      /\ tx' = [tx EXCEPT ![w] = Idle]
      /\ age' = age /\ sweep' = sweep
  BY <1>1, <1>3 DEF Commit
<1>5. "alert" \in q.held \/ "job" \in q.held => q.act \notin ByMachine \union {"none"}
  BY <1>2, <1>4, HeldAtEnd DEF RequestOK
<1>6. "alert" \in q.held \/ "job" \in q.held => q.a \in Alerts
  BY <1>2, <1>5 DEF RequestOK, Fits
<1>7. "alert" \in q.held => q.act \notin ByJob
  BY <1>2, <1>4, HeldAtEnd DEF RequestOK
<1>8. ASSUME "alert" \in q.held
      PROVE  /\ x \in Row /\ Sound(x)
             /\ x.status # "none" /\ x.machine = q.on /\ x.machine \in Machines
             /\ q.act = "create" => x.status = "OPEN" /\ x.needs = q.row.needs
             /\ q.act # "create" => /\ alert[q.a].status # "none"
                                    /\ x.machine = alert[q.a].machine
                                    /\ x.needs = alert[q.a].needs
                                    /\ x.critical = alert[q.a].critical
             /\ q.act # "escalate" => x.status = q.row.status /\ x.critical = q.row.critical
             /\ q.act = "escalate" => x.status = alert[q.a].status
  <2>1. /\ q.a \in Alerts /\ q.act \notin ByMachine \union {"none"}
        /\ q.row \in Row /\ alert[q.a] \in Row /\ Sound(alert[q.a]) /\ Sound(q.row)
    BY <1>2, <1>5, <1>6, <1>8 DEF RequestOK, Request, IInv, TypeOK, RowOK
  <2>2. /\ q.on \in Machines /\ q.row.status # "none" /\ q.row.machine = q.on
        /\ q.act = "create" => q.row.status = "OPEN"
        /\ q.act # "create" => /\ alert[q.a].status # "none"
                               /\ q.row.needs = alert[q.a].needs
                               /\ q.row.machine = alert[q.a].machine
                               /\ q.row.critical = alert[q.a].critical
    BY <1>2, <2>1 DEF RequestOK, Fits
  <2>3. CASE q.act = "escalate"
    <3>1. x = [alert[q.a] EXCEPT !.level = q.row.level]
      BY <1>1, <1>3, <2>3 DEF AlertAfter
    <3>2. q.row.level \in Levels
      <4>1. PICK z \in Row : z = q.row
        BY <2>1
      <4> QED
        BY <4>1 DEF Row
    <3>3. x \in Row
      BY <2>1, <3>1, <3>2, RowLevel
    <3>4. /\ x.status = alert[q.a].status /\ x.machine = alert[q.a].machine
          /\ x.needs = alert[q.a].needs /\ x.critical = alert[q.a].critical
          /\ x.acknowledged = alert[q.a].acknowledged
          /\ x.resolved = alert[q.a].resolved /\ x.closed = alert[q.a].closed
      BY <2>1, <3>1, RowSetLevel
    <3>5. Sound(x)
      BY <2>1, <3>4 DEF Sound
    <3> QED
      BY <2>2, <2>3, <3>3, <3>4, <3>5
  <2>4. CASE q.act # "escalate"
    <3>1. PICK n \in 0 .. 2500 : n = Score(q.row)
      BY <2>1, ScoreType
    <3>2. x = [q.row EXCEPT !.score = n]
      <4>1. x = [q.row EXCEPT !.score = Score(q.row)]
        BY <1>1, <1>3, <2>4 DEF AlertAfter
      <4> QED
        BY <3>1, <4>1
    <3>3. /\ x \in Row
          /\ x.status = q.row.status /\ x.machine = q.row.machine
          /\ x.needs = q.row.needs /\ x.critical = q.row.critical
          /\ x.acknowledged = q.row.acknowledged
          /\ x.resolved = q.row.resolved /\ x.closed = q.row.closed
      <4>1. PICK z \in Row : z = q.row
        BY <2>1
      <4>2. x = Scored(z, n)
        BY <3>2, <4>1 DEF Scored
      <4>3. x \in Row /\ Alike(x, z)
        BY <3>1, <4>2, RowSetScore
      <4> QED
        BY <4>1, <4>3 DEF Alike
    <3>4. Sound(x)
      BY <2>1, <3>3 DEF Sound
    <3> QED
      BY <2>2, <2>4, <3>3, <3>4
  <2> QED
    BY <2>3, <2>4
<1> QED
  BY <1>1, <1>2, <1>4, <1>5, <1>6, <1>8 DEF Commits

LEMMA CommitInvariant ==
  ASSUME IInv, NEW w \in Workers, Commit(w)
  PROVE  IInv'
<1>1. PICK q, x : Commits(w, q, x)
  BY CommitCommits
<1>2. /\ tx \in [Workers -> Request] /\ TypeOK
      /\ q = tx[w] /\ q \in Request /\ RequestOK(q)
  BY <1>1 DEF IInv, Commits
<1>3. /\ tx' \in [Workers -> Request] /\ tx'[w] = Idle
      /\ \A v \in Workers : v # w => tx'[v] = tx[v]
  BY <1>1, <1>2, IdleFits DEF Commits
<1>4. ASSUME NEW b \in Alerts
      PROVE  /\ alert'[b] = IF "alert" \in q.held /\ b = q.a THEN x ELSE alert[b]
             /\ job'[b] = IF "job" \in q.held /\ b = q.a THEN q.job ELSE job[b]
  BY <1>1, <1>2 DEF Commits, TypeOK
<1>5. "alert" \in q.held =>
        /\ x \in Row /\ Sound(x) /\ x.status # "none" /\ q.a \in Alerts
        /\ q.act = "create" => x.needs = q.row.needs
        /\ q.act # "create" => /\ alert[q.a].status # "none"
                               /\ x.machine = alert[q.a].machine
                               /\ x.needs = alert[q.a].needs
                               /\ x.critical = alert[q.a].critical
  BY <1>1 DEF Commits
<1>6. alert' \in [Alerts -> Row]
  BY <1>1, <1>2, <1>5 DEF Commits, TypeOK
<1>7. job' \in [Alerts -> Job]
  BY <1>1, <1>2 DEF Commits, TypeOK, Request
<1>8. machine' \in [Machines -> MachineStatuses]
  BY <1>1, <1>2 DEF Commits, TypeOK, Request
<1>9. TypeOK'
  <2>1. \A v \in Workers : /\ tx'[v].row \in Row /\ tx'[v].job \in Job
                           /\ tx'[v].held \subseteq {"alert", "job", "machine"}
                           /\ tx'[v].status \in MachineStatuses
    BY <1>3 DEF Request
  <2>2. age' = age /\ sweep' = sweep
    BY <1>1 DEF Commits
  <2> QED
    BY <1>2, <1>6, <1>7, <1>8, <2>1, <2>2 DEF TypeOK
<1>10. ASSUME NEW v \in Workers PROVE RequestOK(tx[v])'
  <2>1. CASE v = w
    <3>1. RequestOK(Idle)'
      BY IdleFits DEF RequestOK, InOrder, Sound, Fits, ByMachine, ByJob
    <3> QED
      BY <1>3, <2>1, <3>1
  <2>2. CASE v # w
    <3>1. PICK r : r = tx[v]
      OBVIOUS
    <3>2. RequestOK(r)
      BY <3>1 DEF IInv
    <3>3. /\ r.act = "create" => q.a # r.a
          /\ q.act = "create" => r.a # q.a
      BY <1>2, <2>2, <3>1 DEF IInv
    <3>4. r.act \notin ByMachine \union {"none"} =>
            /\ alert'[r.a].status = "none" <=> alert[r.a].status = "none"
            /\ r.act # "create" => /\ alert'[r.a].needs = alert[r.a].needs
                                   /\ alert'[r.a].machine = alert[r.a].machine
                                   /\ alert'[r.a].critical = alert[r.a].critical
      <4> SUFFICES ASSUME r.act \notin ByMachine \union {"none"}
                   PROVE  /\ alert'[r.a].status = "none" <=> alert[r.a].status = "none"
                          /\ r.act # "create" => /\ alert'[r.a].needs = alert[r.a].needs
                                                 /\ alert'[r.a].machine = alert[r.a].machine
                                                 /\ alert'[r.a].critical = alert[r.a].critical
        OBVIOUS
      <4>1. r.a \in Alerts
        BY <3>2 DEF RequestOK, Fits
      <4> QED
        BY <1>4, <1>5, <3>3, <4>1
    <3>5. Fits(r)'
      BY <3>2, <3>4, FitsStays DEF RequestOK
    <3>6. RequestOK(r)'
      BY <3>2, <3>5 DEF RequestOK, InOrder, Sound
    <3>7. tx'[v] = r
      BY <1>3, <2>2, <3>1
    <3> QED
      BY <3>6, <3>7
  <2> QED
    BY <2>1, <2>2
<1>11. ASSUME NEW u \in Workers, NEW v \in Workers, u # v, tx'[u].act = "create"
       PROVE  tx'[v].a # tx'[u].a
  <2>1. u # w
    BY <1>3, <1>11, IdleFits
  <2>2. CASE v = w
    <3>1. PICK r : r = tx[u]
      OBVIOUS
    <3>2. r.act = "create" /\ RequestOK(r) /\ tx'[u] = r
      BY <1>3, <1>11, <2>1, <3>1 DEF IInv
    <3>3. r.a \in Alerts
      BY <3>2 DEF RequestOK, Fits, ByMachine
    <3> QED
      BY <1>3, <2>2, <3>2, <3>3, IdleFits, NullAssumption
  <2>3. CASE v # w
    BY <1>3, <1>11, <2>1, <2>3 DEF IInv
  <2> QED
    BY <2>2, <2>3
<1>12. ASSUME NEW b \in Alerts PROVE RowOK(b)'
  <2>1. RowOK(b)
    BY DEF IInv
  <2>2. CASE b # q.a
    BY <1>4, <2>1, <2>2 DEF RowOK, Sound
  <2>3. CASE b = q.a /\ "alert" \notin q.held /\ "job" \notin q.held
    BY <1>4, <2>1, <2>3 DEF RowOK, Sound
  <2>4. CASE b = q.a /\ ("alert" \in q.held \/ "job" \in q.held)
    <3>1. /\ q.act \notin ByMachine \union {"none"}
          /\ Fits(q) /\ InOrder(q) /\ q.todo = <<>>
      BY <1>1, <2>4 DEF Commits, RequestOK
    <3>2. Sound(alert'[b])
      BY <1>4, <1>5, <2>1, <2>4 DEF RowOK
    <3>3. CASE q.act = "create"
      <4>1. "alert" \in q.held /\ ("job" \in q.held <=> q.row.needs) /\ alert[b].status = "none"
        BY <2>4, <3>1, <3>3, HeldAtEnd DEF Fits
      <4>2. alert'[b].status # "none" /\ alert'[b].needs = q.row.needs
        BY <1>4, <1>5, <2>4, <3>3, <4>1
      <4>3. q.row.needs => job'[b] = q.job /\ q.job.state = "here"
        BY <1>4, <2>4, <3>1, <3>3, <4>1 DEF Fits
      <4>4. ~q.row.needs => job'[b] = job[b]
        BY <1>4, <4>1
      <4> QED
        BY <2>1, <3>2, <4>2, <4>3, <4>4 DEF RowOK, Sound
    <3>4. CASE q.act # "create"
      <4>1. alert[b].status # "none"
        BY <2>4, <3>1, <3>4 DEF Fits
      <4>2. alert'[b].status # "none" /\ alert'[b].needs = alert[b].needs
        BY <1>4, <1>5, <2>4, <3>4, <4>1
      <4>3. "job" \in q.held => q.job.state # "none"
        <5>1. "job" \in q.held => q.act \in ByJob \union {"finish"}
          BY <3>1, <3>4, HeldAtEnd DEF InOrder, Idle, IdleFits
        <5> QED
          BY <3>1, <5>1 DEF Fits
      <4>4. job'[b].state # "none" \/ job'[b] = job[b]
        BY <1>4, <2>4, <4>3
      <4>5. job[b].state # "none" => job'[b].state # "none"
        BY <4>4
      <4>6. job'[b].state = "none" => job'[b] = NoJob
        BY <2>1, <4>4 DEF RowOK
      <4>7. alert[b].needs => job[b].state # "none"
        BY <2>1, <4>1 DEF RowOK
      <4> QED
        BY <3>2, <4>2, <4>5, <4>6, <4>7 DEF RowOK, Sound
    <3> QED
      BY <3>3, <3>4
  <2> QED
    BY <2>2, <2>3, <2>4
<1>13. IsFiniteSet(Begun')
  <2>1. Begun' \subseteq Begun \union {q.a}
    BY <1>4 DEF Begun
  <2>2. IsFiniteSet(Begun \union {q.a})
    BY FS_AddElement DEF IInv
  <2> QED
    BY <2>1, <2>2, FS_Subset
<1>14. IsFiniteSet(Busy')
  <2>1. Busy' \subseteq Busy
    BY <1>3, IdleFits DEF Busy
  <2> QED
    BY <2>1, FS_Subset DEF IInv
<1> QED
  BY <1>3, <1>9, <1>10, <1>11, <1>12, <1>13, <1>14 DEF IInv
-----------------------------------------------------------------------------
(* The escalation task, and the whole.                                     *)

\* A step that moves no request and no job, and of an alert at most the level.
LEMMA TaskStep ==
  ASSUME IInv, UNCHANGED <<job, machine, tx>>, TypeOK',
         \A b \in Alerts : /\ alert'[b].status = alert[b].status
                           /\ alert'[b].machine = alert[b].machine
                           /\ alert'[b].needs = alert[b].needs
                           /\ alert'[b].critical = alert[b].critical
                           /\ alert'[b].acknowledged = alert[b].acknowledged
                           /\ alert'[b].resolved = alert[b].resolved
                           /\ alert'[b].closed = alert[b].closed
  PROVE  IInv'
<1>1. ASSUME NEW v \in Workers PROVE RequestOK(tx[v])'
  <2>1. PICK r : r = tx[v]
    OBVIOUS
  <2>2. RequestOK(r)
    BY <2>1 DEF IInv
  <2>3. r.act \notin ByMachine \union {"none"} => r.a \in Alerts
    BY <2>2 DEF RequestOK, Fits
  <2>4. Fits(r)'
    BY <2>2, <2>3, FitsStays DEF RequestOK
  <2>5. RequestOK(r)'
    BY <2>2, <2>4 DEF RequestOK, InOrder, Sound
  <2>6. tx'[v] = r
    BY <2>1
  <2> QED
    BY <2>5, <2>6
<1>2. ASSUME NEW b \in Alerts PROVE RowOK(b)'
  BY DEF IInv, RowOK, Sound
<1>3. Begun' = Begun
  BY DEF Begun
<1>4. Busy' = Busy
  BY DEF Busy
<1> QED
  BY <1>1, <1>2, <1>3, <1>4 DEF IInv

LEMMA LevelType ==
  ASSUME NEW r \in [a : Alerts, level : Levels, age : 0 .. 2]
  PROVE  LevelFor(r) \in Levels
BY DEF LevelFor, Levels

LEMMA SweepStepInvariant ==
  ASSUME IInv, NEW a \in Alerts, SweepStep(a)
  PROVE  IInv'
<1>1. PICK r \in sweep : r.a = a /\ sweep' = sweep \ {r}
                         /\ alert' \in {alert, [alert EXCEPT ![a].level = LevelFor(r)]}
  BY DEF SweepStep
<1>2. TypeOK
  BY DEF IInv
<1>3. r \in [a : Alerts, level : Levels, age : 0 .. 2]
  BY <1>1, <1>2 DEF TypeOK
<1>4. UNCHANGED <<job, machine, age, tx>>
  BY DEF SweepStep
<1>5. PICK l \in Levels : l = LevelFor(r)
  BY <1>3, LevelType
<1>6. ASSUME NEW b \in Alerts
      PROVE  /\ alert'[b] \in Row
             /\ alert'[b].status = alert[b].status
             /\ alert'[b].machine = alert[b].machine
             /\ alert'[b].needs = alert[b].needs
             /\ alert'[b].critical = alert[b].critical
             /\ alert'[b].acknowledged = alert[b].acknowledged
             /\ alert'[b].resolved = alert[b].resolved
             /\ alert'[b].closed = alert[b].closed
  <2>1. PICK z \in Row : z = alert[b]
    BY <1>2 DEF TypeOK
  <2>2. alert'[b] = z \/ alert'[b] = [z EXCEPT !.level = l]
    BY <1>1, <1>2, <1>5, <2>1 DEF TypeOK
  <2> QED
    BY <2>1, <2>2 DEF Row
<1>7. alert' \in [Alerts -> Row]
  <2>1. DOMAIN alert' = Alerts /\ alert' = [b \in Alerts |-> alert'[b]]
    BY <1>1, <1>2 DEF TypeOK
  <2> QED
    BY <1>6, <2>1
<1>8. TypeOK'
  BY <1>1, <1>2, <1>4, <1>7 DEF TypeOK
<1> QED
  BY <1>4, <1>6, <1>8, TaskStep

LEMMA SweepStartInvariant ==
  ASSUME IInv, SweepStart
  PROVE  IInv'
<1>1. TypeOK
  BY DEF IInv
<1>2. UNCHANGED <<alert, job, machine, age, tx>>
  BY Zenon DEF SweepStart
<1>3. sweep' \subseteq [a : Alerts, level : Levels, age : 0 .. 2]
  <2>1. \A a \in Alerts : alert[a] \in Row /\ age[a] \in 0 .. 2
    BY <1>1 DEF TypeOK
  <2>2. \A row \in Row : row.level \in Levels
    BY DEF Row
  <2> QED
    BY <2>1, <2>2 DEF SweepStart
<1>4. TypeOK'
  BY <1>1, <1>2, <1>3 DEF TypeOK
<1> QED
  BY <1>2, <1>4, TaskStep

LEMMA SweepCrashInvariant ==
  ASSUME IInv, SweepCrash
  PROVE  IInv'
<1>1. TypeOK
  BY DEF IInv
<1>2. UNCHANGED <<alert, job, machine, age, tx>> /\ sweep' = {}
  BY DEF SweepCrash
<1>3. TypeOK'
  BY <1>1, <1>2 DEF TypeOK
<1> QED
  BY <1>2, <1>3, TaskStep

LEMMA AgeInvariant ==
  ASSUME IInv, NEW a \in Alerts, Age(a)
  PROVE  IInv'
<1>1. TypeOK
  BY DEF IInv
<1>2. UNCHANGED <<alert, job, machine, sweep, tx>> /\ age' = [age EXCEPT ![a] = age[a] + 1]
      /\ age[a] < 2
  BY DEF Age
<1>3. age' \in [Alerts -> 0 .. 2]
  BY <1>1, <1>2 DEF TypeOK
<1>4. TypeOK'
  BY <1>1, <1>2, <1>3 DEF TypeOK
<1> QED
  BY <1>2, <1>4, TaskStep

LEMMA InitInvariant ==
  ASSUME Init
  PROVE  IInv
<1>1. Blank \in Row /\ NoJob \in Job /\ Idle \in Request
  BY IdleFits DEF Blank, NoJob, Row, Job, Statuses, Active, Levels
<1>2. \A w \in Workers : tx[w] = Idle
  BY DEF Init
<1>3. TypeOK
  BY <1>1, <1>2 DEF Init, TypeOK, MachineStatuses, Request
<1>4. tx \in [Workers -> Request]
  BY <1>1 DEF Init
<1>5. \A w \in Workers : RequestOK(tx[w]) /\ tx[w].act = "none"
  BY <1>2, IdleOK, IdleFits
<1>6. \A a \in Alerts : RowOK(a)
  BY DEF Init, RowOK, Sound, Blank, NoJob
<1>7. Begun = {}
  BY DEF Begun, Init, Blank
<1>8. Busy = {}
  BY <1>5 DEF Busy
<1> QED
  BY <1>3, <1>4, <1>5, <1>6, <1>7, <1>8, FS_EmptySet DEF IInv

LEMMA UnchangedInvariant ==
  ASSUME IInv, UNCHANGED vars
  PROVE  IInv'
<1>1. UNCHANGED <<job, machine, tx, alert, age, sweep>>
  BY DEF vars
<1>2. TypeOK'
  BY <1>1 DEF IInv, TypeOK
<1> QED
  BY <1>1, <1>2, TaskStep

LEMMA NextInvariant ==
  ASSUME IInv, [Next]_vars
  PROVE  IInv'
<1>1. ASSUME NEW w \in Workers, Load(w) PROVE IInv'
  BY <1>1, LoadInvariant
<1>2. ASSUME NEW w \in Workers, Continue(w) PROVE IInv'
  BY <1>2, SaveInvariant, SyncInvariant, EndInvariant, CommitInvariant DEF Continue
<1>3. ASSUME NEW w \in Workers, Abort(w) PROVE IInv'
  BY <1>3, EndInvariant
<1>4. ASSUME NEW a \in Alerts, SweepStep(a) PROVE IInv'
  BY <1>4, SweepStepInvariant
<1>5. ASSUME NEW a \in Alerts, Age(a) PROVE IInv'
  BY <1>5, AgeInvariant
<1>6. CASE UNCHANGED vars
  BY <1>6, UnchangedInvariant
<1> QED
  BY <1>1, <1>2, <1>3, <1>4, <1>5, <1>6, SweepStartInvariant, SweepCrashInvariant DEF Next

\* However the requests and the task interleave, each request keeps to its order of
\* saves, its objects are in one piece, and what is committed is too.
THEOREM InvariantHolds == Spec => []IInv
<1>1. Init => IInv
  BY InitInvariant
<1>2. IInv /\ [Next]_vars => IInv'
  BY NextInvariant
<1> QED
  BY <1>1, <1>2, PTL DEF Spec

\* The rows keep their types, and no level above 2 is ever written.
THEOREM TypeCorrect == Spec => []TypeOK
<1>1. IInv => TypeOK
  BY DEF IInv
<1> QED
  BY <1>1, InvariantHolds, PTL

\* However stale the saves and whatever fails in between, a row's status and its
\* stamps come from one object, and an alert that needs maintenance has reached it.
THEOREM NeverHalfDone == Spec => []NothingHalfDone
<1>1. IInv => NothingHalfDone
  BY DEF IInv, NothingHalfDone, StampsMatchStatus, HandedOff, RowOK, Sound
<1> QED
  BY <1>1, InvariantHolds, PTL

\* Of any requests one waits for none of the others: whoever holds a row waits only
\* for a later one in the order intervention, alert, machine, but for the request that
\* declares an alert, whose intervention nobody else can hold.
THEOREM NobodyWaitsInACircle == Spec => []NoCycle
<1>1. ASSUME IInv PROVE NoCycle
  <2> SUFFICES ASSUME NEW S \in (SUBSET Workers) \ {{}},
                      \A w \in S : \E o \in S : WaitsFor(w, o)
               PROVE  FALSE
    BY DEF NoCycle
  <2>1. ASSUME NEW w \in S
        PROVE  /\ InOrder(tx[w]) /\ tx[w].todo # <<>> /\ tx[w].held \subseteq {"alert", "job", "machine"}
               /\ Head(tx[w].todo) \in {"alert", "job", "machine"}
    <3>1. PICK o \in S : WaitsFor(w, o)
      OBVIOUS
    <3>2. tx[o] \in Request /\ tx[w] \in Request /\ RequestOK(tx[w])
      BY <1>1 DEF IInv
    <3> QED
      BY <3>1, <3>2 DEF WaitsFor, Request, RequestOK
  <2>2. ASSUME NEW w \in S, tx[w].act = "create", tx[w].todo = <<"job">>
        PROVE  FALSE
    <3>1. PICK o \in S : WaitsFor(w, o)
      OBVIOUS
    <3>2. Head(tx[w].todo) = "job"
      BY <2>2, Tails
    <3>3. o # w /\ tx[o].a = tx[w].a
      BY <3>1, <3>2 DEF WaitsFor, Due
    <3>4. tx[o].a # tx[w].a
      BY <1>1, <2>2, <3>3 DEF IInv
    <3> QED
      BY <3>3, <3>4
  <2>3. ASSUME NEW w \in S PROVE Head(tx[w].todo) # "machine"
    <3>1. SUFFICES ASSUME Head(tx[w].todo) = "machine" PROVE FALSE
      OBVIOUS
    <3>2. PICK o \in S : "machine" \in tx[o].held
      BY <3>1 DEF WaitsFor
    <3>3. tx[o].act = "create" /\ tx[o].todo = <<"job">>
      BY <2>1, <3>2, HeldFacts
    <3> QED
      BY <2>2, <3>3
  <2>4. ASSUME NEW w \in S PROVE Head(tx[w].todo) # "alert"
    <3>1. SUFFICES ASSUME Head(tx[w].todo) = "alert" PROVE FALSE
      OBVIOUS
    <3>2. PICK o \in S : "alert" \in tx[o].held
      BY <3>1 DEF WaitsFor
    <3>3. \/ Head(tx[o].todo) \in {"sync", "machine"}
          \/ tx[o].act = "create" /\ tx[o].todo = <<"job">>
      BY <2>1, <3>2, HeldFacts
    <3> QED
      BY <2>1, <2>2, <2>3, <3>3
  <2>5. PICK w \in S : Head(tx[w].todo) = "job"
    BY <2>1, <2>3, <2>4
  <2>6. PICK o \in S : "job" \in tx[o].held
    BY <2>5 DEF WaitsFor
  <2>7. Head(tx[o].todo) \in {"alert", "sync", "machine"}
    BY <2>1, <2>6, HeldFacts
  <2> QED
    BY <2>1, <2>3, <2>4, <2>7
<1> QED
  BY <1>1, InvariantHolds, PTL
-----------------------------------------------------------------------------
(* As long as requests come one at a time and nothing is put down by hand. *)

ByHandActs == {"setMachine", "editJob", "openJob"}

Alone == \A v, w \in Workers : tx[v].act # "none" /\ tx[w].act # "none" => v = w

Calm == /\ Alone
        /\ \A w \in Workers : tx[w].act \notin ByHandActs
        /\ \A w \in Workers : Fresh(tx[w])
        /\ MachineMatchesAlerts
        /\ FinishedIsResolved

LEMMA OneAtATime ==
  ASSUME IsFiniteSet(Busy), Cardinality(Busy) <= 1
  PROVE  Alone
<1> SUFFICES ASSUME NEW v \in Workers, NEW w \in Workers,
                    tx[v].act # "none", tx[w].act # "none", v # w
             PROVE  FALSE
  BY DEF Alone
<1>1. {v, w} \subseteq Busy
  BY DEF Busy
<1>2. Cardinality({v, w}) <= Cardinality(Busy)
  BY <1>1, FS_Subset
<1>3. IsFiniteSet({w}) /\ Cardinality({w}) = 1
  BY FS_Singleton
<1>4. Cardinality({w} \union {v}) = Cardinality({w}) + 1
  BY <1>3, FS_AddElement
<1>5. {w} \union {v} = {v, w}
  OBVIOUS
<1>6. Cardinality({v, w}) = 2
  BY <1>3, <1>4, <1>5
<1>7. Cardinality(Busy) \in Nat
  BY FS_CardinalityType
<1> QED
  BY <1>2, <1>6, <1>7

\* A worker that serves nobody knows nothing that could be stale.
LEMMA FreshNone ==
  ASSUME NEW r, r.act = "none"
  PROVE  Fresh(r)
BY DEF Fresh, Syncing

\* Where a request that synchronises the machine can be.
LEMMA SyncingShapes ==
  ASSUME NEW r, InOrder(r), r.act \in Syncing \union {"create", "finish"}, r.todo # <<>>
  PROVE  \/ Unsynced(r) /\ ~Saving(r, "job")
            /\ r.todo \in {<<"alert", "sync", "machine">>, <<"sync", "machine">>,
                           <<"job", "alert", "sync", "machine">>,
                           <<"alert", "sync", "machine", "job">>, <<"sync", "machine", "job">>}
         \/ /\ r.todo \in {<<"machine">>, <<"machine", "job">>} /\ "alert" \in r.held
         \/ r.todo = <<"job">> /\ "alert" \in r.held
         \/ r.todo = <<"job">> /\ r.held = {} /\ r.act = "finish"
<1>1. r # Idle
  BY DEF Idle
<1>2. r.act \notin ByMachine \union ByJob \union OneSave
  BY ActFacts DEF Syncing, ByMachine, ByJob, OneSave
<1>3. /\ <<"alert", "sync", "machine">> # <<"job">> /\ <<"sync", "machine">> # <<"job">>
      /\ <<"job", "alert", "sync", "machine">> # <<"job">>
      /\ <<"alert", "sync", "machine", "job">> # <<"job">>
      /\ <<"sync", "machine", "job">> # <<"job">>
  OBVIOUS
<1>4. Unsynced(r) => ~Saving(r, "job")
  BY <1>3 DEF Unsynced, Saving, At
<1>5. ASSUME Synchronising(r) \/ Opening(r) \/ Finishing(r)
      PROVE  \/ Unsynced(r)
             \/ r.todo \in {<<"machine">>, <<"machine", "job">>} /\ "alert" \in r.held
             \/ r.todo = <<"job">> /\ "alert" \in r.held
  BY <1>5 DEF Synchronising, Opening, Finishing, At, Unsynced
<1>6. Saving(r, "job") => r.todo = <<"job">> /\ r.held = {}
  BY DEF Saving, At
<1>7. \/ Synchronising(r) \/ Opening(r) \/ Finishing(r)
      \/ Saving(r, "job") /\ r.act = "finish"
  BY <1>1, <1>2 DEF InOrder
<1> QED
  BY <1>4, <1>5, <1>6, <1>7 DEF Unsynced

\* The sequences that are synchronised, and those that are not.
LEMMA SyncedTodo ==
  ASSUME NEW r
  PROVE  /\ r.todo \in {<<>>, <<"machine">>, <<"machine", "job">>, <<"job">>} => ~Unsynced(r)
         /\ r.todo \in {<<"sync", "machine">>, <<"sync", "machine", "job">>} => Unsynced(r)
<1>1. /\ <<>> \notin {<<"alert", "sync", "machine">>, <<"sync", "machine">>,
                     <<"job", "alert", "sync", "machine">>,
                     <<"alert", "sync", "machine", "job">>, <<"sync", "machine", "job">>}
      /\ <<"machine">> \notin {<<"alert", "sync", "machine">>, <<"sync", "machine">>,
                     <<"job", "alert", "sync", "machine">>,
                     <<"alert", "sync", "machine", "job">>, <<"sync", "machine", "job">>}
      /\ <<"machine", "job">> \notin {<<"alert", "sync", "machine">>, <<"sync", "machine">>,
                     <<"job", "alert", "sync", "machine">>,
                     <<"alert", "sync", "machine", "job">>, <<"sync", "machine", "job">>}
      /\ <<"job">> \notin {<<"alert", "sync", "machine">>, <<"sync", "machine">>,
                     <<"job", "alert", "sync", "machine">>,
                     <<"alert", "sync", "machine", "job">>, <<"sync", "machine", "job">>}
  OBVIOUS
<1> QED
  BY <1>1 DEF Unsynced

\* What a save leaves in memory is as fresh as before: nobody else writes.
LEMMA FreshSave ==
  ASSUME NEW w, NEW row \in {"alert", "machine", "job"}, NEW q, NEW r,
         Saves(w, row, q, r), Fresh(q)
  PROVE  Fresh(r)
<1>1. /\ InOrder(q) /\ q.todo # <<>> /\ Head(q.todo) = row
      /\ r.act = q.act /\ r.a = q.a /\ r.row = q.row /\ r.job = q.job /\ r.on = q.on
      /\ r.todo = Tail(q.todo) /\ r.held = q.held \union {row}
      /\ r.status = IF row = "alert" /\ q.act = "finish" THEN machine[q.on] ELSE q.status
  BY DEF Saves, RequestOK
<1>2. Finishing(q) => Finishing(r)
  BY <1>1, SaveAdvances
<1>3. Saving(q, "job") => Saving(r, "job")
  BY <1>1, SaveAdvances
<1>4. q.act = "finish" =>
        IF alert[q.a].status \in Active THEN q.row.status = "RESOLVED" /\ Finishing(q)
                                        ELSE Saving(q, "job")
  BY DEF Fresh
<1>5. q.act = "editMachine" => r.status = machine[r.on]
  BY <1>1 DEF Fresh
<1>6. TargetOf(r) = TargetOf(q)
  BY <1>1 DEF TargetOf
<1>7. ASSUME q.act \in Syncing \union {"create", "finish"}
      PROVE  /\ Unsynced(r) => r.status = machine[r.on]
             /\ ~Unsynced(r) /\ "alert" \in r.held =>
                  /\ r.status = TargetOf(r)
                  /\ \/ r.todo \in {<<"machine">>, <<"machine", "job">>}
                     \/ "machine" \in r.held \/ machine[r.on] = r.status
  <2>1. /\ Unsynced(q) => q.status = machine[q.on]
        /\ ~Unsynced(q) /\ "alert" \in q.held =>
             /\ q.status = TargetOf(q)
             /\ \/ q.todo \in {<<"machine">>, <<"machine", "job">>}
                \/ "machine" \in q.held \/ machine[q.on] = q.status
    BY <1>7 DEF Fresh
  <2>2. CASE /\ q.todo \in {<<"alert", "sync", "machine">>, <<"sync", "machine">>,
                            <<"job", "alert", "sync", "machine">>,
                            <<"alert", "sync", "machine", "job">>, <<"sync", "machine", "job">>}
             /\ Unsynced(q)
    <3>1. r.todo \in {<<"alert", "sync", "machine">>, <<"sync", "machine">>,
                      <<"sync", "machine", "job">>}
      BY <1>1, <2>2, Tails
    <3>2. Unsynced(r)
      BY <3>1 DEF Unsynced
    <3>3. r.status = machine[r.on]
      BY <1>1, <2>1, <2>2
    <3> QED
      BY <3>2, <3>3
  <2>3. CASE q.todo \in {<<"machine">>, <<"machine", "job">>} /\ "alert" \in q.held
    <3>1. r.todo \in {<<>>, <<"job">>} /\ row = "machine"
      BY <1>1, <2>3, Tails
    <3>2. ~Unsynced(q) /\ ~Unsynced(r)
      BY <2>3, <3>1, SyncedTodo
    <3>3. r.status = TargetOf(r)
      BY <1>1, <1>6, <2>1, <2>3, <3>1, <3>2
    <3> QED
      BY <1>1, <3>1, <3>2, <3>3
  <2>4. CASE q.todo = <<"job">> /\ "alert" \in q.held
    <3>1. r.todo = <<>> /\ row = "job" /\ q.todo \notin {<<"machine">>, <<"machine", "job">>}
      BY <1>1, <2>4, Tails
    <3>2. ~Unsynced(q) /\ ~Unsynced(r)
      BY <2>4, <3>1, SyncedTodo
    <3>3. r.status = TargetOf(r) /\ r.status = q.status
      BY <1>1, <1>6, <2>1, <2>4, <3>1, <3>2
    <3> QED
      BY <1>1, <2>1, <2>4, <3>1, <3>2, <3>3
  <2>5. CASE q.todo = <<"job">> /\ q.held = {}
    <3>1. r.todo = <<>> /\ row = "job"
      BY <1>1, <2>5, Tails
    <3>2. ~Unsynced(r) /\ "alert" \notin r.held
      BY <1>1, <2>5, <3>1, SyncedTodo
    <3> QED
      BY <3>2
  <2> QED
    BY <1>1, <1>7, <2>2, <2>3, <2>4, <2>5, SyncingShapes
<1>8. /\ r.act = "acknowledge" => alert[r.a].status = "OPEN"
      /\ r.act = "start" => alert[r.a].status = "ACKNOWLEDGED"
      /\ r.act = "resolve" => alert[r.a].status \in Active
      /\ r.act = "close" => alert[r.a].status = "RESOLVED"
      /\ r.act = "verify" => r.job.finished = job[r.a].finished
      /\ r.act = "deleteJob" => ~r.job.finished
  BY <1>1 DEF Fresh
<1>9. r.act = "finish" =>
        IF alert[r.a].status \in Active THEN r.row.status = "RESOLVED" /\ Finishing(r)
                                        ELSE Saving(r, "job")
  BY <1>1, <1>2, <1>3, <1>4
<1> QED
  BY <1>1, <1>5, <1>7, <1>8, <1>9 DEF Fresh

\* The synchronisation compares the machine it still knows with the alerts.
LEMMA FreshSync ==
  ASSUME NEW w, NEW q, NEW r, Syncs(w, q, r), Fresh(q)
  PROVE  Fresh(r)
<1>1. /\ InOrder(q) /\ q.todo # <<>> /\ Head(q.todo) = "sync"
      /\ r.act = q.act /\ r.a = q.a /\ r.row = q.row /\ r.job = q.job /\ r.on = q.on
      /\ r.held = q.held /\ r.status = TargetOf(q)
      /\ r.todo = IF q.status = TargetOf(q) THEN Tail(Tail(q.todo)) ELSE Tail(q.todo)
  BY DEF Syncs, RequestOK
<1>2. Finishing(q) => Finishing(r)
  BY <1>1, SyncAdvances
<1>3. ~Saving(q, "job")
  BY <1>1, SyncAdvances
<1>4. q.todo \in {<<"sync", "machine">>, <<"sync", "machine", "job">>}
  BY <1>1, SyncNext
<1>5. /\ r.todo \in {<<>>, <<"job">>, <<"machine">>, <<"machine", "job">>}
      /\ q.status # TargetOf(q) => r.todo \in {<<"machine">>, <<"machine", "job">>}
  BY <1>1, <1>4, Tails
<1>6. ~Unsynced(r) /\ Unsynced(q)
  BY <1>4, <1>5, SyncedTodo
<1>7. TargetOf(r) = TargetOf(q)
  BY <1>1 DEF TargetOf
<1>8. q.act # "editMachine"
  <2>1. q.act = "editMachine" => Saving(q, "machine")
    BY <1>1, ActFacts DEF InOrder, ByMachine, ByJob, OneSave, Syncing, Idle
  <2> QED
    BY <1>1, <2>1, SyncAdvances
<1>9. q.act \in Syncing \union {"create", "finish"} =>
        \/ r.todo \in {<<"machine">>, <<"machine", "job">>}
        \/ machine[r.on] = r.status
  <2>1. q.act \in Syncing \union {"create", "finish"} => q.status = machine[q.on]
    BY <1>6 DEF Fresh
  <2> QED
    BY <1>1, <1>5, <2>1
<1>10. /\ r.act = "acknowledge" => alert[r.a].status = "OPEN"
       /\ r.act = "start" => alert[r.a].status = "ACKNOWLEDGED"
       /\ r.act = "resolve" => alert[r.a].status \in Active
       /\ r.act = "close" => alert[r.a].status = "RESOLVED"
       /\ r.act = "verify" => r.job.finished = job[r.a].finished
       /\ r.act = "deleteJob" => ~r.job.finished
  BY <1>1 DEF Fresh
<1>11. r.act = "finish" =>
         IF alert[r.a].status \in Active THEN r.row.status = "RESOLVED" /\ Finishing(r)
                                         ELSE Saving(r, "job")
  BY <1>1, <1>2, <1>3 DEF Fresh
<1> QED
  BY <1>1, <1>6, <1>7, <1>8, <1>9, <1>10, <1>11 DEF Fresh

\* A step of one request that commits nothing, seen by the only request there is.
LEMMA CalmQuiet ==
  ASSUME IInv, Calm, NEW w \in Workers, NEW r,
         UNCHANGED <<alert, job, machine>>,
         tx'[w] = r, \A v \in Workers : v # w => tx'[v] = tx[v],
         Fresh(r), r.act \notin ByHandActs, Alone'
  PROVE  Calm'
<1>1. ASSUME NEW v \in Workers PROVE Fresh(tx[v])' /\ tx'[v].act \notin ByHandActs
  <2>1. PICK q : q = tx'[v]
    OBVIOUS
  <2>2. Fresh(q) /\ q.act \notin ByHandActs
    BY <2>1 DEF Calm
  <2>3. Fresh(q)'
    BY <2>2 DEF Fresh, TargetOf
  <2> QED
    BY <2>1, <2>2, <2>3
<1>2. MachineMatchesAlerts' /\ FinishedIsResolved'
  BY DEF Calm, MachineMatchesAlerts, FinishedIsResolved
<1> QED
  BY <1>1, <1>2 DEF Calm

\* Resolving, closing, declaring and finishing leave the machine as the alerts say.
LEMMA CalmCommitMachine ==
  ASSUME IInv, Calm, NEW w \in Workers, NEW q, NEW x, Commits(w, q, x)
  PROVE  MachineMatchesAlerts'
<1>1. /\ q = tx[w] /\ q \in Request /\ InOrder(q) /\ Fits(q) /\ q.act # "none" /\ q.todo = <<>>
      /\ alert \in [Alerts -> Row] /\ machine \in [Machines -> MachineStatuses]
      /\ q.act \notin ByHandActs
  BY DEF Commits, RequestOK, IInv, TypeOK, Calm
<1>2. Fresh(q)
  BY <1>1 DEF Calm
<1>3. ASSUME NEW b \in Alerts
      PROVE  alert'[b] = IF "alert" \in q.held /\ b = q.a THEN x ELSE alert[b]
  BY <1>1 DEF Commits
<1>4. ASSUME NEW m \in Machines
      PROVE  machine'[m] = IF "machine" \in q.held /\ m = q.on THEN q.status ELSE machine[m]
  BY <1>1 DEF Commits
<1>5. /\ q.act \in ByMachine => q.held = {"machine"}
      /\ q.act \in ByJob => q.held = {"job"}
      /\ q.act \in OneSave => q.held = {"alert"}
      /\ q.act = "finish" => ("machine" \in q.held => "alert" \in q.held)
      /\ q.act \in Syncing \union {"create"} => "alert" \in q.held
  BY <1>1, HeldAtEnd
<1>6. q.act \in ByMachine \union ByJob \union OneSave \union Syncing \union {"create", "finish"}
  BY <1>1 DEF Request, Acts
<1>7. ASSUME NEW m \in Machines
      PROVE  machine[m] = IF \E a \in Alerts : ActiveCritical(alert[a], m)
                          THEN "BREAKDOWN" ELSE "RUNNING"
  BY DEF Calm, MachineMatchesAlerts
<1>8. SUFFICES ASSUME NEW m \in Machines
               PROVE  machine'[m] = IF \E a \in Alerts : ActiveCritical(alert'[a], m)
                                    THEN "BREAKDOWN" ELSE "RUNNING"
  BY DEF MachineMatchesAlerts, ActiveCritical
<1>9. CASE "alert" \notin q.held
  <2>1. machine'[m] = machine[m]
    <3>1. CASE "machine" \notin q.held
      BY <1>4, <3>1
    <3>2. CASE "machine" \in q.held
      <4>1. q.act \in ByMachine
        BY <1>5, <1>6, <1>9, <3>2
      <4>2. q.act = "editMachine"
        BY <1>1, <4>1 DEF ByMachine, ByHandActs
      <4>3. q.status = machine[q.on]
        BY <1>2, <4>2 DEF Fresh
      <4> QED
        BY <1>4, <4>3
    <3> QED
      BY <3>1, <3>2
  <2>2. \A a \in Alerts : alert'[a] = alert[a]
    BY <1>3, <1>9
  <2> QED
    BY <1>7, <2>1, <2>2
<1>10. CASE "alert" \in q.held
  <2>1. /\ q.a \in Alerts /\ x.machine = q.on /\ q.on \in Machines
        /\ q.act # "create" => alert[q.a].machine = x.machine /\ x.critical = alert[q.a].critical
        /\ q.act = "create" => alert[q.a].status = "none"
        /\ q.row.machine = q.on
        /\ q.act # "escalate" => x.status = q.row.status /\ x.critical = q.row.critical
        /\ q.act = "escalate" => x.status = alert[q.a].status
    <3>1. /\ q.a \in Alerts /\ x.machine = q.on /\ x.machine \in Machines
          /\ q.act # "create" => alert[q.a].machine = x.machine /\ x.critical = alert[q.a].critical
          /\ q.act # "escalate" => x.status = q.row.status /\ x.critical = q.row.critical
          /\ q.act = "escalate" => x.status = alert[q.a].status
          /\ q.act \notin ByMachine \union {"none"}
      BY <1>10 DEF Commits
    <3>2. /\ q.act = "create" => alert[q.a].status = "none"
          /\ q.row.machine = q.on
      BY <1>1, <3>1 DEF Fits
    <3> QED
      BY <3>1, <3>2
  <2>2. CASE q.act \in OneSave
    <3>1. machine'[m] = machine[m]
      BY <1>4, <1>5, <2>2
    <3>2. x.status \in Active <=> alert[q.a].status \in Active
      BY <1>1, <1>2, <2>1, <2>2 DEF OneSave, Fresh, Fits, Active
    <3>3. q.act # "create"
      BY <2>2 DEF OneSave
    <3>4. ASSUME NEW a \in Alerts
          PROVE  ActiveCritical(alert'[a], m) <=> ActiveCritical(alert[a], m)
      BY <1>3, <1>10, <2>1, <3>2, <3>3 DEF ActiveCritical
    <3> QED
      BY <1>7, <3>1, <3>4
  <2>3. CASE q.act \in Syncing \union {"create", "finish"}
    <3>1. /\ q.status = TargetOf(q)
          /\ "machine" \in q.held \/ machine[q.on] = q.status
      <4>1. ~Unsynced(q)
        BY <1>1, SyncedTodo
      <4>2. q.todo \notin {<<"machine">>, <<"machine", "job">>}
        BY <1>1, NotEmpty
      <4> QED
        BY <1>2, <1>10, <2>3, <4>1, <4>2 DEF Fresh
    <3>2. q.act # "escalate"
      BY <2>3 DEF Syncing
    <3>3. CASE m = q.on
      <4>1. machine'[m] = TargetOf(q)
        BY <1>4, <3>1, <3>3
      <4>2. ASSUME NEW a \in Alerts
            PROVE  ActiveCritical(alert'[a], m)
                     <=> ActiveCritical(IF a = q.a THEN q.row ELSE alert[a], q.on)
        BY <1>3, <1>10, <2>1, <3>2, <3>3 DEF ActiveCritical
      <4> QED
        BY <4>1, <4>2 DEF TargetOf
    <3>4. CASE m # q.on
      <4>1. machine'[m] = machine[m]
        BY <1>4, <3>4
      <4>2. ASSUME NEW a \in Alerts
            PROVE  ActiveCritical(alert'[a], m) <=> ActiveCritical(alert[a], m)
        <5>1. CASE a # q.a
          BY <1>3, <5>1
        <5>2. CASE a = q.a
          <6>1. ~ActiveCritical(alert'[a], m)
            BY <1>3, <1>10, <2>1, <3>4, <5>2 DEF ActiveCritical
          <6>2. ~ActiveCritical(alert[a], m)
            BY <2>1, <3>4, <5>2 DEF ActiveCritical, Active
          <6> QED
            BY <6>1, <6>2
        <5> QED
          BY <5>1, <5>2
      <4> QED
        BY <1>7, <4>1, <4>2
    <3> QED
      BY <3>3, <3>4
  <2> QED
    BY <1>5, <1>6, <1>10, <2>2, <2>3
<1> QED
  BY <1>9, <1>10

\* What is committed of an intervention that is finished goes with its alert.
LEMMA CalmCommitFinished ==
  ASSUME IInv, Calm, NEW w \in Workers, NEW q, NEW x, Commits(w, q, x)
  PROVE  FinishedIsResolved'
<1>1. /\ q = tx[w] /\ q \in Request /\ InOrder(q) /\ Fits(q) /\ q.act # "none" /\ q.todo = <<>>
      /\ alert \in [Alerts -> Row] /\ job \in [Alerts -> Job]
      /\ q.act \notin ByHandActs
  BY DEF Commits, RequestOK, IInv, TypeOK, Calm
<1>2. Fresh(q)
  BY <1>1 DEF Calm
<1>3. SUFFICES ASSUME NEW b \in Alerts, job'[b].finished
               PROVE  alert'[b].status \notin Active
  BY DEF FinishedIsResolved
<1>4. /\ alert'[b] = IF "alert" \in q.held /\ b = q.a THEN x ELSE alert[b]
      /\ job'[b] = IF "job" \in q.held /\ b = q.a THEN q.job ELSE job[b]
  BY <1>1 DEF Commits
<1>5. job[b].finished => alert[b].status \notin Active
  BY DEF Calm, FinishedIsResolved
<1>6. CASE b # q.a \/ ("alert" \notin q.held /\ "job" \notin q.held)
  BY <1>3, <1>4, <1>5, <1>6
<1>7. CASE b = q.a /\ ("alert" \in q.held \/ "job" \in q.held)
  <2>1. q.act \notin ByMachine \union {"none"}
    BY <1>7 DEF Commits
  <2>2. /\ q.act \in ByJob => q.held = {"job"}
        /\ q.act \in OneSave => q.held = {"alert"}
        /\ q.act \in Syncing => "alert" \in q.held
        /\ q.act = "finish" => ("alert" \in q.held => q.row.status = "RESOLVED")
    BY <1>1, HeldAtEnd
  <2>3. q.act \in ByJob \union OneSave \union Syncing \union {"create", "finish"}
    BY <1>1, <2>1 DEF Request, Acts
  <2>4. "alert" \in q.held =>
          /\ q.act # "escalate" => x.status = q.row.status
          /\ q.act = "escalate" => x.status = alert[q.a].status
    BY DEF Commits
  <2>5. CASE q.act \in ByJob
    BY <1>1, <1>2, <1>3, <1>4, <1>5, <1>7, <2>2, <2>5 DEF ByJob, ByHandActs, Fresh
  <2>6. CASE q.act \in OneSave
    <3>1. job'[b] = job[b]
      BY <1>4, <2>2, <2>6
    <3>2. x.status \in Active => alert[b].status \in Active
      BY <1>2, <1>7, <2>2, <2>4, <2>6 DEF OneSave, Fresh, Active
    <3> QED
      BY <1>3, <1>4, <1>5, <1>7, <2>2, <2>6, <3>1, <3>2
  <2>7. CASE q.act \in Syncing
    BY <1>1, <1>4, <1>7, <2>2, <2>4, <2>7 DEF Syncing, Fits, Active
  <2>8. CASE q.act = "create"
    <3>1. ~q.job.finished /\ alert[b].status = "none"
      BY <1>1, <1>7, <2>8 DEF Fits
    <3>2. job[b] = NoJob
      BY <3>1 DEF IInv, RowOK
    <3> QED
      BY <1>3, <1>4, <3>1, <3>2 DEF NoJob
  <2>9. CASE q.act = "finish"
    <3>1. CASE "alert" \in q.held
      BY <1>4, <1>7, <2>2, <2>4, <2>9, <3>1 DEF Active
    <3>2. CASE "alert" \notin q.held
      <4>1. ~Finishing(q)
        BY <1>1, <3>2, NotEmpty DEF Finishing, At
      <4>2. alert[q.a].status \notin Active
        BY <1>2, <2>9, <4>1 DEF Fresh
      <4> QED
        BY <1>4, <1>7, <3>2, <4>2
    <3> QED
      BY <3>1, <3>2
  <2> QED
    BY <2>3, <2>5, <2>6, <2>7, <2>8, <2>9
<1> QED
  BY <1>6, <1>7

LEMMA CalmCommit ==
  ASSUME IInv, Calm, NEW w \in Workers, Commit(w), Alone'
  PROVE  Calm'
<1>1. PICK q, x : Commits(w, q, x)
  BY CommitCommits
<1>2. MachineMatchesAlerts' /\ FinishedIsResolved'
  BY <1>1, CalmCommitMachine, CalmCommitFinished
<1>3. ASSUME NEW v \in Workers PROVE Fresh(tx[v])' /\ tx'[v].act \notin ByHandActs
  <2>1. /\ q = tx[w] /\ q.act # "none" /\ tx' = [tx EXCEPT ![w] = Idle]
        /\ tx \in [Workers -> Request]
    BY <1>1 DEF Commits, IInv
  <2>2. v # w => tx[v].act = "none"
    BY <2>1 DEF Calm, Alone
  <2>3. PICK r : r = tx'[v]
    OBVIOUS
  <2>4. r.act = "none"
    BY <2>1, <2>2, <2>3, IdleFits
  <2>5. Fresh(r)'
    BY <2>4 DEF Fresh, Syncing
  <2> QED
    BY <2>3, <2>4, <2>5 DEF ByHandActs
<1> QED
  BY <1>2, <1>3 DEF Calm

\* The escalation task moves nothing a request relies on.
LEMMA CalmTask ==
  ASSUME IInv, Calm, UNCHANGED <<job, machine, tx>>,
         \A b \in Alerts : /\ alert'[b].status = alert[b].status
                           /\ alert'[b].machine = alert[b].machine
                           /\ alert'[b].critical = alert[b].critical
  PROVE  Calm'
<1>1. ASSUME NEW v \in Workers PROVE Fresh(tx[v])'
  <2>1. PICK r : r = tx[v]
    OBVIOUS
  <2>2. Fresh(r) /\ Fits(r)
    BY <2>1 DEF Calm, IInv, RequestOK
  <2>3. r.act \notin ByMachine \union {"none"} => r.a \in Alerts
    BY <2>2 DEF Fits
  <2>4. TargetOf(r)' = TargetOf(r)
    <3>1. \A a \in Alerts : ActiveCritical(IF a = r.a THEN r.row ELSE alert'[a], r.on)
                              <=> ActiveCritical(IF a = r.a THEN r.row ELSE alert[a], r.on)
      BY DEF ActiveCritical
    <3> QED
      BY <3>1 DEF TargetOf
  <2>5. r.act \in {"acknowledge", "start", "resolve", "close", "finish"} => r.a \in Alerts
    BY <2>3 DEF ByMachine
  <2>6. Fresh(r)'
    <3>1. TargetOf(r)' = TargetOf(r) /\ Finishing(r)' = Finishing(r) /\ Saving(r, "job")' = Saving(r, "job")
          /\ Unsynced(r)' = Unsynced(r)
      BY <2>4
    <3> QED
      BY <2>2, <2>4, <2>5 DEF Fresh
  <2>7. tx'[v] = r
    BY <2>1
  <2> QED
    BY <2>6, <2>7
<1>2. MachineMatchesAlerts'
  <2>1. \A m \in Machines, a \in Alerts : ActiveCritical(alert'[a], m) <=> ActiveCritical(alert[a], m)
    BY DEF ActiveCritical
  <2> QED
    BY <2>1 DEF Calm, MachineMatchesAlerts
<1>3. FinishedIsResolved'
  BY DEF Calm, FinishedIsResolved
<1>4. Alone' /\ \A w \in Workers : tx'[w].act \notin ByHandActs
  BY DEF Calm, Alone
<1> QED
  BY <1>1, <1>2, <1>3, <1>4 DEF Calm

LEMMA SweepLeaves ==
  ASSUME IInv, NEW a \in Alerts, SweepStep(a), NEW b \in Alerts
  PROVE  /\ alert'[b].status = alert[b].status /\ alert'[b].machine = alert[b].machine
         /\ alert'[b].critical = alert[b].critical
<1>1. PICK r \in sweep : alert' = alert \/ alert' = [alert EXCEPT ![a].level = LevelFor(r)]
  BY DEF SweepStep
<1>2. alert \in [Alerts -> Row]
  BY DEF IInv, TypeOK
<1>3. PICK z \in Row : z = alert[b]
  BY <1>2
<1>4. PICK l : l = LevelFor(r)
  OBVIOUS
<1>5. alert'[b] = z \/ alert'[b] = [z EXCEPT !.level = l]
  BY <1>1, <1>2, <1>3, <1>4
<1> QED
  BY <1>3, <1>5 DEF Row

LEMMA CalmNext ==
  ASSUME IInv, Calm, [Next]_vars, IInv',
         Alone', \A w \in Workers : tx'[w].act \notin ByHandActs
  PROVE  Calm'
<1>1. ASSUME NEW w \in Workers, Load(w) PROVE Calm'
  <2>1. PICK r : Starts(w, r)
    BY <1>1, LoadStarts
  <2>2. /\ UNCHANGED <<alert, job, machine>> /\ Fresh(r)
        /\ tx'[w] = r /\ \A v \in Workers : v # w => tx'[v] = tx[v]
    BY <2>1 DEF Starts, IInv
  <2> QED
    BY <2>2, CalmQuiet
<1>2. ASSUME NEW w \in Workers, SaveAlert(w) \/ SaveMachine(w) \/ SaveJob(w) PROVE Calm'
  <2>0. PICK row \in {"alert", "machine", "job"} : \E q, r : Saves(w, row, q, r)
    BY <1>2, SaveSaves
  <2>1. PICK q, r : Saves(w, row, q, r)
    BY <2>0
  <2>2. Fresh(q)
    BY <2>1 DEF Saves, Calm
  <2>3. /\ UNCHANGED <<alert, job, machine>> /\ Fresh(r)
        /\ tx'[w] = r /\ \A v \in Workers : v # w => tx'[v] = tx[v]
    BY <2>1, <2>2, FreshSave DEF Saves, IInv
  <2> QED
    BY <2>3, CalmQuiet
<1>3. ASSUME NEW w \in Workers, Sync(w) PROVE Calm'
  <2>1. PICK q, r : Syncs(w, q, r)
    BY <1>3, SyncSyncs
  <2>2. Fresh(q)
    BY <2>1 DEF Syncs, Calm
  <2>3. /\ UNCHANGED <<alert, job, machine>> /\ Fresh(r)
        /\ tx'[w] = r /\ \A v \in Workers : v # w => tx'[v] = tx[v]
    BY <2>1, <2>2, FreshSync DEF Syncs, IInv
  <2> QED
    BY <2>3, CalmQuiet
<1>4. ASSUME NEW w \in Workers, RefuseDuplicate(w) \/ Abort(w) PROVE Calm'
  <2>1. /\ UNCHANGED <<alert, job, machine>> /\ Fresh(Idle)
        /\ tx'[w] = Idle /\ \A v \in Workers : v # w => tx'[v] = tx[v]
    BY <1>4, FreshNone, IdleFits DEF RefuseDuplicate, Abort, IInv
  <2> QED
    BY <2>1, CalmQuiet
<1>5. ASSUME NEW w \in Workers, Commit(w) PROVE Calm'
  BY <1>5, CalmCommit
<1>6. ASSUME NEW a \in Alerts, SweepStep(a) PROVE Calm'
  BY <1>6, SweepLeaves, CalmTask DEF SweepStep
<1>7. ASSUME NEW a \in Alerts, Age(a) PROVE Calm'
  BY <1>7, CalmTask DEF Age
<1>8. CASE SweepStart \/ SweepCrash
  BY <1>8, CalmTask DEF SweepStart, SweepCrash
<1>9. CASE UNCHANGED vars
  BY <1>9, CalmTask DEF vars
<1> QED
  BY <1>1, <1>2, <1>3, <1>4, <1>5, <1>6, <1>7, <1>8, <1>9 DEF Next, Continue
-----------------------------------------------------------------------------
(* What the screens show.                                                  *)

LEMMA ScreensFollow ==
  ASSUME IInv, Calm
  PROVE  ScreensAgree
<1>1. /\ alert \in [Alerts -> Row] /\ job \in [Alerts -> Job]
      /\ machine \in [Machines -> MachineStatuses]
  BY DEF IInv, TypeOK
<1>2. ASSUME NEW m \in Machines
      PROVE  /\ machine[m] = "BREAKDOWN" <=> \E a \in CriticalActive : alert[a].machine = m
             /\ machine[m] # "STOPPED"
  <2>1. machine[m] = IF \E a \in Alerts : ActiveCritical(alert[a], m)
                     THEN "BREAKDOWN" ELSE "RUNNING"
    BY DEF Calm, MachineMatchesAlerts
  <2> QED
    BY <2>1 DEF ActiveCritical, CriticalActive, ActiveAlerts
<1>3. ASSUME NEW m \in Machines
      PROVE  /\ Andon(m) = "RED" <=> \E a \in CriticalActive : alert[a].machine = m
             /\ Andon(m) = "GREEN" <=> \A a \in ActiveAlerts : alert[a].machine # m
  <2>1. m \in MachinesIn("STOPPED") \union MachinesIn("BREAKDOWN")
          <=> \E a \in CriticalActive : alert[a].machine = m
    BY <1>2 DEF MachinesIn
  <2>2. (\E a \in CriticalActive : alert[a].machine = m)
          => \E a \in ActiveAlerts : alert[a].machine = m
    BY DEF CriticalActive
  <2> QED
    BY <2>1, <2>2 DEF Andon
<1>4. Cardinality(MachinesIn("BREAKDOWN")) <= Cardinality(CriticalActive)
  <2> DEFINE f == [m \in MachinesIn("BREAKDOWN") |->
                     CHOOSE a \in CriticalActive : alert[a].machine = m]
  <2>1. ASSUME NEW m \in MachinesIn("BREAKDOWN")
        PROVE  f[m] \in CriticalActive /\ alert[f[m]].machine = m
    <3>1. \E a \in CriticalActive : alert[a].machine = m
      BY <1>2 DEF MachinesIn
    <3> QED
      BY <3>1
  <2>2. f \in [MachinesIn("BREAKDOWN") -> CriticalActive]
    BY <2>1
  <2>3. IsInjective(f)
    BY <2>1 DEF IsInjective
  <2>4. f \in Injection(MachinesIn("BREAKDOWN"), CriticalActive)
    BY <2>2, <2>3 DEF Injection
  <2>5. IsFiniteSet(CriticalActive)
    <3>1. CriticalActive \subseteq Begun
      BY DEF CriticalActive, ActiveAlerts, Begun, Active
    <3> QED
      BY <3>1, FS_Subset DEF IInv
  <2> QED
    BY <2>4, <2>5, FS_Injection
<1>5. ASSUME NEW a \in ActiveAlerts, alert[a].needs
      PROVE  a \in Queue \/ job[a].state = "gone"
  <2>1. a \in Alerts /\ alert[a].status \in Active /\ alert[a].status # "none"
    BY DEF ActiveAlerts, Active
  <2>2. job[a].state \in {"here", "gone"}
    BY <1>1, <1>5, <2>1 DEF IInv, RowOK, Job
  <2>3. ~job[a].finished
    BY <2>1 DEF Calm, FinishedIsResolved
  <2> QED
    BY <2>1, <2>2, <2>3 DEF Queue
<1> QED
  BY <1>3, <1>4, <1>5 DEF ScreensAgree

-----------------------------------------------------------------------------
(* The specification with its history.                                     *)

LEMMA CalmInit ==
  ASSUME Init
  PROVE  Calm
<1>1. \A w \in Workers : tx[w] = Idle /\ tx[w].act = "none"
  BY IdleFits DEF Init
<1>2. \A w \in Workers : Fresh(tx[w])
  BY <1>1, FreshNone
<1>3. MachineMatchesAlerts
  BY DEF Init, MachineMatchesAlerts, ActiveCritical, Blank
<1>4. FinishedIsResolved
  BY DEF Init, FinishedIsResolved, Blank, Active
<1> QED
  BY <1>1, <1>2, <1>3, <1>4 DEF Calm, Alone, ByHandActs

LEMMA HistoryStep ==
  ASSUME IInv, marred \/ Calm, [HistoryNext]_<<vars, marred>>
  PROVE  IInv' /\ (marred' \/ Calm')
<1>1. CASE UNCHANGED <<vars, marred>>
  <2>1. [Next]_vars /\ IInv' /\ marred' = marred
    BY <1>1, NextInvariant DEF vars
  <2>2. Calm => Calm'
    BY <1>1, CalmTask DEF vars
  <2> QED
    BY <2>1, <2>2
<1>2. CASE HistoryNext
  <2>1. [Next]_vars /\ IInv'
    BY <1>2, NextInvariant DEF HistoryNext
  <2>2. ASSUME ~marred' PROVE Calm'
    <3>1. ~marred /\ ~(Cardinality(Busy') > 1)
          /\ \A w \in Workers : tx'[w].act \notin ByHandActs
      BY <1>2, <2>2 DEF HistoryNext, ByHandActs
    <3>2. IsFiniteSet(Busy') /\ Cardinality(Busy') \in Nat
      BY <2>1, FS_CardinalityType DEF IInv
    <3>3. Cardinality(Busy') <= 1
      BY <3>1, <3>2
    <3>4. (IsFiniteSet(Busy) /\ Cardinality(Busy) <= 1 => Alone)'
      BY OneAtATime, PTL
    <3>5. Alone'
      BY <3>2, <3>3, <3>4
    <3> QED
      BY <2>1, <3>1, <3>5, CalmNext
  <2> QED
    BY <2>1, <2>2
<1> QED
  BY <1>1, <1>2

LEMMA HistoryHolds == HistorySpec => [](IInv /\ (marred \/ Calm))
<1>1. MCInit => IInv /\ (marred \/ Calm)
  BY InitInvariant, CalmInit DEF MCInit
<1>2. IInv /\ (marred \/ Calm) /\ [HistoryNext]_<<vars, marred>> => (IInv /\ (marred \/ Calm))'
  BY HistoryStep
<1> QED
  BY <1>1, <1>2, PTL DEF HistorySpec

\* As long as the requests come one at a time and nothing is put down by hand, every
\* machine is in breakdown exactly while a critical alert is active on it, a finished
\* intervention leaves no active alert, and the board, the dashboard and the queue of
\* maintenance show the same thing.
THEOREM AlertsFollowSerially == HistorySpec => []SerialAlerts
<1>1. IInv /\ (marred \/ Calm) => SerialAlerts
  BY ScreensFollow DEF SerialAlerts, Calm
<1> QED
  BY <1>1, HistoryHolds, PTL

\* Only a commit moves the status of an alert.
LEMMA StatusMoves ==
  ASSUME IInv, [Next]_vars, NEW a \in Alerts, alert'[a].status # alert[a].status
  PROVE  \E w, q, x : /\ w \in Workers /\ Commits(w, q, x) /\ "alert" \in q.held
                      /\ a = q.a /\ alert'[a] = x
<1>1. ASSUME NEW w \in Workers, Load(w) PROVE UNCHANGED alert
  BY <1>1, LoadStarts DEF Starts
<1>2. ASSUME NEW w \in Workers,
             \/ SaveAlert(w) \/ SaveMachine(w) \/ SaveJob(w) \/ Sync(w)
             \/ RefuseDuplicate(w) \/ Abort(w)
      PROVE  UNCHANGED alert
  BY <1>2 DEF SaveAlert, SaveMachine, SaveJob, Save, Sync, RefuseDuplicate, Abort
<1>3. ASSUME NEW b \in Alerts, SweepStep(b) PROVE alert'[a].status = alert[a].status
  BY <1>3, SweepLeaves
<1>4. ASSUME NEW b \in Alerts, Age(b) PROVE UNCHANGED alert
  BY <1>4 DEF Age
<1>5. SweepStart \/ SweepCrash \/ UNCHANGED vars => UNCHANGED alert
  BY DEF SweepStart, SweepCrash, vars
<1>6. PICK w \in Workers : Commit(w)
  BY <1>1, <1>2, <1>3, <1>4, <1>5 DEF Next, Continue
<1>7. PICK q, x : Commits(w, q, x)
  BY <1>6, CommitCommits
<1>8. alert'[a] = IF "alert" \in q.held /\ a = q.a THEN x ELSE alert[a]
  BY <1>7 DEF Commits, IInv, TypeOK
<1> QED
  BY <1>7, <1>8

\* What the status of an alert can become.
LEMMA StatusAfter ==
  ASSUME IInv, NEW w \in Workers, NEW q, NEW x, Commits(w, q, x), "alert" \in q.held
  PROVE  /\ q.act = "create" => alert[q.a].status = "none"
         /\ q.act = "acknowledge" => x.status = "ACKNOWLEDGED"
         /\ q.act = "start" => x.status = "IN_PROGRESS"
         /\ q.act \in {"resolve", "finish"} => x.status = "RESOLVED"
         /\ q.act = "close" => x.status = "CLOSED"
         /\ q.act = "escalate" => x.status = alert[q.a].status
         /\ q.act \in {"create", "acknowledge", "start", "resolve", "finish", "close", "escalate"}
         /\ q.act = "finish" => ~Saving(q, "job")
<1>1. /\ InOrder(q) /\ Fits(q) /\ q.act # "none" /\ q.todo = <<>> /\ q.act \in Acts
      /\ q.act \notin ByMachine \union {"none"}
      /\ q.act # "escalate" => x.status = q.row.status
      /\ q.act = "escalate" => x.status = alert[q.a].status
  BY DEF Commits, RequestOK, Request
<1>2. /\ q.act \in ByJob => q.held = {"job"}
      /\ q.act = "finish" => q.row.status = "RESOLVED"
  BY <1>1, HeldAtEnd
<1>3. q.act \notin ByJob
  BY <1>2
<1>4. ~Saving(q, "job")
  BY DEF Saving, At
<1> QED
  BY <1>1, <1>2, <1>3, <1>4 DEF Fits, Acts, OneSave, Syncing

\* An alert that somebody has taken is never back among the open ones, whatever
\* interleaves; nor is one that was finished with, unless two requests overlapped.
THEOREM AlertsMoveForward == HistorySpec => ForwardUnlessMarred
<1>1. ASSUME IInv, [Next]_vars PROVE NeverReopened
  <2> SUFFICES ASSUME NEW a \in Alerts, alert[a].status \notin {"none", "OPEN"},
                      alert'[a].status = "OPEN"
               PROVE  FALSE
    BY DEF NeverReopened
  <2>1. PICK w, q, x : /\ w \in Workers /\ Commits(w, q, x) /\ "alert" \in q.held
                       /\ a = q.a /\ alert'[a] = x
    BY <1>1, StatusMoves
  <2> QED
    BY <1>1, <2>1, StatusAfter
<1>2. ASSUME IInv, Calm, [Next]_vars PROVE StatusForward
  <2> SUFFICES ASSUME NEW a \in Alerts, alert'[a].status # alert[a].status,
                      alert[a].status \in {"RESOLVED", "CLOSED"}
               PROVE  alert[a].status = "RESOLVED" /\ alert'[a].status = "CLOSED"
    BY DEF StatusForward
  <2>1. PICK w, q, x : /\ w \in Workers /\ Commits(w, q, x) /\ "alert" \in q.held
                       /\ a = q.a /\ alert'[a] = x
    BY <1>2, StatusMoves
  <2>2. Fresh(q)
    BY <1>2, <2>1 DEF Commits, Calm
  <2>3. /\ q.act \in {"create", "acknowledge", "start", "resolve", "finish", "close", "escalate"}
        /\ q.act = "create" => alert[q.a].status = "none"
        /\ q.act = "close" => x.status = "CLOSED"
        /\ q.act = "escalate" => x.status = alert[q.a].status
        /\ q.act = "finish" => ~Saving(q, "job")
    BY <1>2, <2>1, StatusAfter
  <2> QED
    BY <2>1, <2>2, <2>3 DEF Fresh, Active
<1>3. IInv /\ (marred \/ Calm) /\ [HistoryNext]_<<vars, marred>>
        => [NeverReopened /\ (marred' \/ StatusForward)]_<<vars, marred>>
  <2> SUFFICES ASSUME IInv, marred \/ Calm, HistoryNext
               PROVE  NeverReopened /\ (marred' \/ StatusForward)
    OBVIOUS
  <2>1. [Next]_vars
    BY DEF HistoryNext
  <2>2. marred => marred'
    BY DEF HistoryNext
  <2> QED
    BY <1>1, <1>2, <2>1, <2>2
<1> QED
  BY <1>3, HistoryHolds, PTL DEF HistorySpec, ForwardUnlessMarred
-----------------------------------------------------------------------------
(* The screens (AlertFeed).  A screen is told before the commit.  What makes it  *)
(* right in the end is that the row is locked from the save on: the events on an *)
(* alert arrive in the order of the commits, and while a request holds the row   *)
(* the screen was told what that request will leave in it (Latest).              *)

\* The lock of an alert's row.
Exclusive ==
  \A v, w \in Workers : v # w /\ "alert" \in tx[v].held /\ "alert" \in tx[w].held
                          => tx[v].a # tx[w].a

\* The status a request that has saved its alert leaves in the row.
LeftBy(r) == IF r.act = "escalate" THEN alert[r.a].status ELSE r.row.status

Told(a) == told[a] # "none" /\ a \notin missed => told[a] = Latest(a)

FeedInv == /\ IInv /\ Exclusive /\ FeedTypeOK
           /\ \A a \in Alerts \ astray : Told(a)

LatestOK ==
  \A a \in Alerts :
    /\ Saved(a) = {} => Latest(a) = alert[a].status
    /\ \A w \in Saved(a) : Saved(a) = {w} /\ Latest(a) = LeftBy(tx[w])

-----------------------------------------------------------------------------
\* What a request leaves in the row it has saved.
LEMMA AfterStatus ==
  ASSUME IInv, NEW w \in Workers, "alert" \in tx[w].held, tx[w].a \in Alerts
  PROVE  AlertAfter(w).status = LeftBy(tx[w])
<1>1. PICK r \in Request : r = tx[w]
  BY DEF IInv
<1>2. PICK row \in Row : row = alert[r.a]
  BY <1>1 DEF IInv, TypeOK
<1>3. r.row \in Row
  BY DEF Request
<1>4. [row EXCEPT !.level = r.row.level].status = row.status
  BY DEF Row
<1>5. [r.row EXCEPT !.score = Score(r.row)].status = r.row.status
  BY <1>3 DEF Row
<1> QED
  BY <1>1, <1>2, <1>4, <1>5 DEF AlertAfter, LeftBy

\* At most one request has saved an alert, and what it leaves is the latest.
LEMMA LatestKnown ==
  ASSUME IInv, Exclusive
  PROVE  LatestOK
<1> SUFFICES ASSUME NEW a \in Alerts, NEW w \in Saved(a)
             PROVE  Saved(a) = {w} /\ Latest(a) = LeftBy(tx[w])
  BY DEF LatestOK, Latest
<1>1. w \in Workers /\ tx[w].a = a /\ "alert" \in tx[w].held
  BY DEF Saved
<1>2. Saved(a) = {w}
  BY <1>1 DEF Saved, Exclusive
<1>3. (CHOOSE v \in Saved(a) : TRUE) = w
  BY <1>2
<1> QED
  BY <1>1, <1>2, <1>3, AfterStatus DEF Latest

\* Nobody takes or gives back the row of a.
LEMMA LatestStays ==
  ASSUME LatestOK, LatestOK', NEW a \in Alerts, alert'[a].status = alert[a].status,
         Saved(a)' = Saved(a),
         \A w \in Saved(a) : /\ tx'[w].act = tx[w].act /\ tx'[w].row = tx[w].row
                             /\ tx'[w].a = tx[w].a
  PROVE  Latest(a)' = Latest(a)
<1>1. CASE Saved(a) = {}
  BY <1>1 DEF LatestOK
<1>2. ASSUME NEW w \in Saved(a) PROVE Latest(a)' = Latest(a)
  <2>1. tx[w].a = a
    BY DEF Saved
  <2>2. Latest(a) = LeftBy(tx[w]) /\ Latest(a)' = LeftBy(tx[w])'
    BY <1>2 DEF LatestOK
  <2> QED
    BY <1>2, <2>1, <2>2 DEF LeftBy
<1> QED
  BY <1>1, <1>2

\* A step of w that neither saves an alert nor ends a request that has.
Silent(w, r) ==
  /\ alert' = alert
  /\ tx'[w] = r /\ \A v \in Workers : v # w => tx'[v] = tx[v]
  /\ "alert" \in r.held <=> "alert" \in tx[w].held
  /\ "alert" \in r.held => r.a = tx[w].a /\ r.act = tx[w].act /\ r.row = tx[w].row

LEMMA SilentKeeps ==
  ASSUME IInv, IInv', Exclusive, NEW w \in Workers, NEW r, Silent(w, r)
  PROVE  Exclusive' /\ \A a \in Alerts : Saved(a)' = Saved(a) /\ Latest(a)' = Latest(a)
<1>1. \A v \in Workers :
        /\ "alert" \in tx'[v].held <=> "alert" \in tx[v].held
        /\ "alert" \in tx'[v].held =>
             tx'[v].a = tx[v].a /\ tx'[v].act = tx[v].act /\ tx'[v].row = tx[v].row
  BY DEF Silent
<1>2. Exclusive'
  BY <1>1 DEF Exclusive
<1>3. \A a \in Alerts : Saved(a)' = Saved(a)
  BY <1>1 DEF Saved
<1>4. LatestOK
  BY LatestKnown
<1>5. (IInv /\ Exclusive => LatestOK)'
  BY LatestKnown, PTL
<1>6. LatestOK'
  BY <1>2, <1>5
<1>7. ASSUME NEW a \in Alerts PROVE Latest(a)' = Latest(a)
  <2>1. \A v \in Saved(a) : /\ tx'[v].act = tx[v].act /\ tx'[v].row = tx[v].row
                            /\ tx'[v].a = tx[v].a
    BY <1>1 DEF Saved
  <2>2. alert'[a].status = alert[a].status
    BY DEF Silent
  <2> QED
    BY <1>3, <1>4, <1>6, <2>1, <2>2, LatestStays
<1> QED
  BY <1>2, <1>3, <1>7

\* The steps of requests and of the task that are not heard.
LEMMA LoadSilent ==
  ASSUME IInv, NEW w \in Workers, Load(w)
  PROVE  \E r : Silent(w, r)
<1>1. PICK r : Starts(w, r)
  BY LoadStarts
<1>2. tx[w].held = {} /\ r.held = {}
  BY <1>1, IdleFits DEF Starts
<1> QED
  BY <1>1, <1>2 DEF Starts, Silent, IInv

LEMMA SaveSilent ==
  ASSUME IInv, NEW w \in Workers, SaveMachine(w) \/ SaveJob(w)
  PROVE  \E r : Silent(w, r)
<1>1. PICK row \in {"alert", "machine", "job"} : \E q, r : Saves(w, row, q, r)
  BY SaveSaves
<1>2. PICK q, r : Saves(w, row, q, r)
  BY <1>1
<1>3. row # "alert"
  BY <1>2 DEF Saves, SaveMachine, SaveJob, Save, Due
<1> QED
  BY <1>2, <1>3 DEF Saves, Silent, IInv

LEMMA SyncSilent ==
  ASSUME IInv, NEW w \in Workers, Sync(w)
  PROVE  \E r : Silent(w, r)
BY SyncSyncs DEF Syncs, Silent, IInv

LEMMA RefuseSilent ==
  ASSUME IInv, NEW w \in Workers, RefuseDuplicate(w)
  PROVE  \E r : Silent(w, r)
<1>1. tx[w].act = "openJob" /\ tx[w].todo # <<>> /\ tx' = [tx EXCEPT ![w] = Idle]
      /\ alert' = alert
  BY DEF RefuseDuplicate, Due, Duplicate
<1>2. InOrder(tx[w])
  BY DEF IInv, RequestOK
<1>3. "alert" \notin tx[w].held
  BY <1>1, <1>2, HeldFacts, Tails, NotEmpty
  DEF InOrder, ByMachine, ByJob, OneSave, Syncing, Saving, At, Idle
<1> QED
  BY <1>1, <1>3, IdleFits DEF Silent, IInv

\* A request that ends gives the row back.
LEMMA EndKeeps ==
  ASSUME IInv, IInv', Exclusive, NEW w \in Workers, tx' = [tx EXCEPT ![w] = Idle],
         \A a \in Alerts : w \in Saved(a) \/ alert'[a] = alert[a]
  PROVE  /\ Exclusive'
         /\ \A a \in Alerts : /\ Saved(a)' \subseteq Saved(a)
                              /\ w \notin Saved(a) => Latest(a)' = Latest(a)
                              /\ w \in Saved(a) => Latest(a)' = alert'[a].status
<1>1. tx'[w] = Idle /\ \A v \in Workers : v # w => tx'[v] = tx[v]
  BY DEF IInv
<1>2. "alert" \notin tx'[w].held
  BY <1>1, IdleFits
<1>3. Exclusive'
  BY <1>1, <1>2 DEF Exclusive
<1>4. \A a \in Alerts : Saved(a)' = Saved(a) \ {w}
  BY <1>1, <1>2 DEF Saved
<1>5. LatestOK
  BY LatestKnown
<1>6. (IInv /\ Exclusive => LatestOK)'
  BY LatestKnown, PTL
<1>7. LatestOK'
  BY <1>3, <1>6
<1>8. ASSUME NEW a \in Alerts, w \notin Saved(a) PROVE Latest(a)' = Latest(a)
  <2>1. \A v \in Saved(a) : v \in Workers /\ v # w
    BY <1>8 DEF Saved
  <2>2. Saved(a)' = Saved(a) /\ alert'[a].status = alert[a].status
    BY <1>4, <1>8
  <2> QED
    BY <1>1, <1>5, <1>7, <2>1, <2>2, LatestStays
<1>9. ASSUME NEW a \in Alerts, w \in Saved(a) PROVE Latest(a)' = alert'[a].status
  <2>1. Saved(a) = {w}
    BY <1>5, <1>9 DEF LatestOK
  <2>2. Saved(a)' = {}
    BY <1>4, <2>1
  <2> QED
    BY <1>7, <2>2 DEF LatestOK
<1> QED
  BY <1>3, <1>4, <1>8, <1>9

LEMMA AbortKeeps ==
  ASSUME IInv, IInv', Exclusive, NEW w \in Workers, Abort(w)
  PROVE  /\ Exclusive'
         /\ \A a \in Alerts : /\ Saved(a)' \subseteq Saved(a)
                              /\ w \notin Saved(a) => Latest(a)' = Latest(a)
BY EndKeeps DEF Abort

LEMMA CommitKeeps ==
  ASSUME IInv, IInv', Exclusive, NEW w \in Workers, Commit(w)
  PROVE  /\ Exclusive'
         /\ \A a \in Alerts : Saved(a)' \subseteq Saved(a) /\ Latest(a)' = Latest(a)
<1>1. PICK q, x : Commits(w, q, x)
  BY CommitCommits
<1>2. /\ tx' = [tx EXCEPT ![w] = Idle] /\ alert \in [Alerts -> Row]
      /\ "alert" \in tx[w].held => tx[w].a \in Alerts
  BY <1>1 DEF Commits, IInv, TypeOK
<1>3. \A a \in Alerts : a # tx[w].a \/ "alert" \notin tx[w].held => alert'[a] = alert[a]
  BY <1>1, <1>2 DEF Commits
<1>4. \A a \in Alerts : w \in Saved(a) \/ alert'[a] = alert[a]
  BY <1>3 DEF Saved
<1>5. ASSUME NEW a \in Alerts, w \in Saved(a) PROVE alert'[a].status = Latest(a)
  <2>1. "alert" \in tx[w].held /\ a = tx[w].a
    BY <1>5 DEF Saved
  <2>2. alert'[a] = AlertAfter(w)
    BY <1>2, <2>1 DEF Commit
  <2>3. Latest(a) = LeftBy(tx[w])
    BY <1>5, LatestKnown DEF LatestOK
  <2> QED
    BY <2>1, <2>2, <2>3, AfterStatus
<1> QED
  BY <1>2, <1>4, <1>5, EndKeeps

LEMMA UnheardKeeps ==
  ASSUME IInv, IInv', Exclusive, NEW w \in Workers, Unheard(w)
  PROVE  /\ Exclusive'
         /\ \A a \in Alerts : /\ Saved(a)' \subseteq Saved(a)
                              /\ Latest(a)' = Latest(a) \/ \E v \in Saved(a) : Abort(v)
<1>1. ASSUME Load(w) \/ SaveMachine(w) \/ SaveJob(w) \/ Sync(w) \/ RefuseDuplicate(w)
      PROVE  Exclusive' /\ \A a \in Alerts : Saved(a)' = Saved(a) /\ Latest(a)' = Latest(a)
  BY <1>1, LoadSilent, SaveSilent, SyncSilent, RefuseSilent, SilentKeeps
<1> QED
  BY <1>1, CommitKeeps, AbortKeeps DEF Unheard

LEMMA TaskKeeps ==
  ASSUME IInv, IInv', Exclusive, Task
  PROVE  Exclusive' /\ \A a \in Alerts : Saved(a)' = Saved(a) /\ Latest(a)' = Latest(a)
<1>1. tx' = tx
  BY DEF Task, SweepStart, SweepCrash, SweepStep, Age
<1>2. \A b \in Alerts : alert'[b].status = alert[b].status
  <2>1. ASSUME NEW a \in Alerts, SweepStep(a) PROVE \A b \in Alerts : alert'[b].status = alert[b].status
    BY <2>1, SweepLeaves
  <2> QED
    BY <2>1 DEF Task, SweepStart, SweepCrash, Age
<1>3. Exclusive' /\ \A a \in Alerts : Saved(a)' = Saved(a)
  BY <1>1 DEF Exclusive, Saved
<1>4. LatestOK
  BY LatestKnown
<1>5. (IInv /\ Exclusive => LatestOK)'
  BY LatestKnown, PTL
<1> QED
  BY <1>1, <1>2, <1>3, <1>4, <1>5, LatestStays

\* The row of an alert is saved.
LEMMA SaveKeeps ==
  ASSUME IInv, IInv', Exclusive, NEW w \in Workers, SaveAlert(w), NEW a, a = tx[w].a
  PROVE  /\ Exclusive' /\ a \in Alerts /\ Latest(a)' = LeftBy(tx[w])
         /\ w \notin Saved(a) /\ w \in Saved(a)'
         /\ \A b \in Alerts : b # a => Latest(b)' = Latest(b) /\ Saved(b)' = Saved(b)
         /\ tx[w].row.status \in Statuses
<1>1. PICK row \in {"alert", "machine", "job"} : \E q, r : Saves(w, row, q, r)
  BY SaveSaves
<1>2. PICK q, r : Saves(w, row, q, r)
  BY <1>1
<1>3. row = "alert" /\ q.todo # <<>> /\ Head(q.todo) = "alert" /\ q = tx[w]
  BY <1>2 DEF Saves, SaveAlert, Due
<1>4. /\ tx'[w] = r /\ \A v \in Workers : v # w => tx'[v] = tx[v]
      /\ r.a = a /\ r.act = q.act /\ r.row = q.row /\ r.held = q.held \union {"alert"}
      /\ alert' = alert
  BY <1>2, <1>3 DEF Saves, IInv
<1>5. "alert" \notin q.held
  BY <1>2, <1>3, HeldFacts DEF Saves, RequestOK
<1>6. \A v \in Workers : v # w => tx[v].a # a \/ "alert" \notin tx[v].held
  BY <1>3 DEF SaveAlert, Free, WaitsFor, Due
<1>7. Exclusive'
  BY <1>4, <1>6 DEF Exclusive
<1>8. a \in Alerts /\ q.row \in Row
  <2>1. InOrder(q) /\ Fits(q) /\ q \in Request
    BY <1>2, <1>3 DEF Saves, RequestOK, IInv
  <2>2. q.act \notin ByMachine \union {"none"}
    BY <1>3, <2>1, HeldFacts, Tails, NotEmpty, IdleFits
    DEF InOrder, ByMachine, ByJob, OneSave, Syncing, Saving, At
  <2> QED
    BY <1>3, <2>1, <2>2 DEF Fits, Request
<1>9. (IInv /\ Exclusive => LatestOK)'
  BY LatestKnown, PTL
<1>10. w \in Saved(a)' /\ w \notin Saved(a)
  BY <1>3, <1>4, <1>5 DEF Saved
<1>11. Latest(a)' = LeftBy(tx[w])
  <2>1. Latest(a)' = LeftBy(tx[w])'
    BY <1>7, <1>8, <1>9, <1>10 DEF LatestOK
  <2> QED
    BY <1>3, <1>4, <2>1 DEF LeftBy
<1>12. ASSUME NEW b \in Alerts, b # a PROVE Latest(b)' = Latest(b) /\ Saved(b)' = Saved(b)
  <2>1. Saved(b)' = Saved(b)
    BY <1>3, <1>4, <1>12 DEF Saved
  <2>2. \A v \in Saved(b) : tx'[v] = tx[v]
    BY <1>3, <1>4, <1>12 DEF Saved
  <2> QED
    BY <1>4, <1>7, <1>9, <2>1, <2>2, LatestKnown, LatestStays
<1> QED
  BY <1>3, <1>7, <1>8, <1>10, <1>11, <1>12 DEF Row

\* What a broadcast may do to the screen.
LEMMA BroadcastDoes ==
  ASSUME FeedTypeOK, NEW event, NEW a \in Alerts, NEW status \in Statuses \union {"none"},
         Broadcast(event, a, status)
  PROVE  /\ live' \in BOOLEAN /\ told' \in [Alerts -> Statuses \union {"none"}]
         /\ missed' \subseteq Alerts
         /\ ~live' => told' = Silence /\ missed' = {}
         /\ live' => /\ a \in missed' \/ told'[a] = status
                     /\ \A b \in Alerts : b # a =>
                          told'[b] = told[b] /\ (b \in missed' <=> b \in missed)
<1>1. /\ live \in BOOLEAN /\ told \in [Alerts -> Statuses \union {"none"}]
      /\ missed \subseteq Alerts /\ (~live => told = Silence /\ missed = {})
  BY DEF FeedTypeOK
<1>2. Silence \in [Alerts -> Statuses \union {"none"}]
  BY DEF Silence
<1>3. CASE Deliver(event, a, status)
  BY <1>1, <1>3 DEF Deliver
<1>4. CASE Unhandled(event)
  BY <1>2, <1>4 DEF Unhandled, Leave
<1>5. CASE Lose(a)
  BY <1>1, <1>5 DEF Lose
<1>6. CASE ~live /\ UNCHANGED <<live, told, missed>>
  BY <1>1, <1>6
<1> QED
  BY <1>3, <1>4, <1>5, <1>6 DEF Broadcast

\* Each step is one of AlertFlow, or of the screen alone.
LEMMA FeedSteps ==
  ASSUME IInv, FeedNext
  PROVE  [Next]_vars /\ IInv'
<1>1. [Next]_vars
  BY DEF FeedNext, SaveAndTell, Task, Unheard, Next, Continue
<1> QED
  BY <1>1, NextInvariant

-----------------------------------------------------------------------------
(* Every step keeps the invariant.                                         *)

\* A screen that has left was told nothing; one that is there was told right of
\* each alert that is not astray.
FeedGoal == /\ Exclusive' /\ FeedTypeOK'
            /\ \A a \in Alerts \ astray' : live' => Told(a)'

LEMMA GoalSuffices ==
  ASSUME IInv', FeedGoal
  PROVE  FeedInv'
<1>1. ASSUME NEW a \in Alerts, ~live' PROVE Told(a)'
  <2>1. told'[a] = "none"
    BY <1>1 DEF FeedGoal, FeedTypeOK, Silence
  <2> QED
    BY <2>1 DEF Told
<1> QED
  BY <1>1 DEF FeedInv, FeedGoal

\* A request saves its alert and tells the screen.
LEMMA SaveAndTellFeed ==
  ASSUME FeedInv, IInv', FeedHistoryNext, NEW w \in Workers, SaveAndTell(w)
  PROVE  FeedGoal
<1> PICK a, s : a = tx[w].a /\ s = tx[w].row.status
  OBVIOUS
<1>1. IInv /\ Exclusive /\ FeedTypeOK
  BY DEF FeedInv
<1>2. SaveAlert(w) /\ Broadcast(EventOf[tx[w].act], a, s) /\ comments' = comments
  BY DEF SaveAndTell, StatusOf
<1>3. /\ Exclusive' /\ a \in Alerts /\ Latest(a)' = LeftBy(tx[w])
      /\ \A b \in Alerts : b # a => Latest(b)' = Latest(b) /\ Saved(b)' = Saved(b)
      /\ s \in Statuses
  BY <1>1, <1>2, SaveKeeps
<1>4. /\ live' \in BOOLEAN /\ told' \in [Alerts -> Statuses \union {"none"}]
      /\ missed' \subseteq Alerts
      /\ ~live' => told' = Silence /\ missed' = {}
      /\ live' => /\ a \in missed' \/ told'[a] = s
                  /\ \A b \in Alerts : b # a =>
                       told'[b] = told[b] /\ (b \in missed' <=> b \in missed)
  BY <1>1, <1>2, <1>3, BroadcastDoes
<1>5. FeedTypeOK'
  BY <1>1, <1>2, <1>4 DEF FeedTypeOK, IInv
<1>6. ASSUME NEW b \in Alerts \ astray', live' PROVE Told(b)'
  <2>1. ~Stray(b) /\ (b \in astray => Repaired(b))
    BY <1>6 DEF FeedHistoryNext
  <2>2. CASE b = a
    <3>1. tx[w].act = "escalate" => s = alert[a].status
      BY <2>1, <2>2 DEF Stray
    <3>2. LeftBy(tx[w]) = s
      BY <3>1 DEF LeftBy
    <3> QED
      BY <1>3, <1>4, <1>6, <2>2, <3>2 DEF Told
  <2>3. CASE b # a
    <3>1. ~Repaired(b)
      BY <1>3, <1>6, <2>3 DEF Repaired
    <3>2. Told(b)
      BY <1>6, <2>1, <3>1 DEF FeedInv
    <3> QED
      BY <1>3, <1>4, <1>6, <2>3, <3>2 DEF Told
  <2> QED
    BY <2>2, <2>3
<1> QED
  BY <1>3, <1>5, <1>6 DEF FeedGoal

\* Every other request, and the task: nothing is told.
LEMMA UnheardFeed ==
  ASSUME FeedInv, IInv', FeedHistoryNext, UNCHANGED feedVars,
         Task \/ \E w \in Workers : Unheard(w)
  PROVE  FeedGoal
<1>1. IInv /\ Exclusive /\ FeedTypeOK
  BY DEF FeedInv
<1>2. /\ Exclusive'
      /\ \A a \in Alerts : /\ Saved(a)' \subseteq Saved(a)
                           /\ Latest(a)' = Latest(a) \/ \E v \in Saved(a) : Abort(v)
  BY <1>1, UnheardKeeps, TaskKeeps
<1>3. FeedTypeOK'
  BY <1>1 DEF feedVars, FeedTypeOK, IInv, Silence
<1>4. ASSUME NEW a \in Alerts \ astray', live' PROVE Told(a)'
  <2>1. ~Stray(a) /\ (a \in astray => Repaired(a))
    BY <1>4 DEF FeedHistoryNext
  <2>2. Latest(a)' = Latest(a)
    BY <1>2, <1>4, <2>1 DEF Stray
  <2>3. ~Repaired(a)
    BY <1>2, <1>4 DEF Repaired
  <2>4. Told(a)
    BY <1>4, <2>1, <2>3 DEF FeedInv
  <2> QED
    BY <2>2, <2>4 DEF Told, feedVars
<1> QED
  BY <1>2, <1>3, <1>4 DEF FeedGoal

\* The socket opens or closes, or a comment is loaded or told.
LEMMA ScreenFeed ==
  ASSUME FeedInv, IInv', FeedHistoryNext, Screen, UNCHANGED vars
  PROVE  FeedGoal
<1>1. IInv /\ Exclusive /\ FeedTypeOK
  BY DEF FeedInv
<1>2. tx' = tx /\ alert' = alert
  BY DEF vars
<1>3. /\ Exclusive'
      /\ \A a \in Alerts : Saved(a)' = Saved(a) /\ Latest(a)' = Latest(a)
  <2>1. Exclusive' /\ \A a \in Alerts : Saved(a)' = Saved(a)
    BY <1>1, <1>2 DEF Exclusive, Saved
  <2>2. (IInv /\ Exclusive => LatestOK)'
    BY LatestKnown, PTL
  <2> QED
    BY <1>1, <1>2, <2>1, <2>2, LatestKnown, LatestStays
<1>4. \A a \in Alerts \ astray' : live' => Told(a)
  BY <1>3 DEF FeedHistoryNext, Repaired, FeedInv
<1>5. ASSUME UNCHANGED <<told, missed>>, live' \in BOOLEAN, live => live',
             comments' \subseteq [a : Alerts, status : Statuses]
      PROVE  FeedGoal
  <2>1. FeedTypeOK'
    BY <1>1, <1>5 DEF FeedTypeOK, IInv, Silence
  <2>2. \A a \in Alerts \ astray' : live' => Told(a)'
    BY <1>3, <1>4, <1>5 DEF Told
  <2> QED
    BY <1>3, <2>1, <2>2 DEF FeedGoal
<1>6. CASE Connect
  BY <1>1, <1>5, <1>6 DEF Connect, FeedTypeOK
<1>7. CASE Disconnect
  <2>1. FeedTypeOK'
    BY <1>1, <1>7 DEF Disconnect, Leave, FeedTypeOK, IInv, Silence
  <2> QED
    BY <1>3, <1>7, <2>1 DEF Disconnect, Leave, FeedGoal
<1>8. ASSUME NEW a \in Alerts, LoadComment(a) PROVE FeedGoal
  <2>1. PICK row \in Row : row = alert[a]
    BY <1>1, <1>8 DEF IInv, TypeOK
  <2>2. row.status \in Statuses
    BY DEF Row
  <2> QED
    BY <1>1, <1>5, <1>8, <2>1, <2>2 DEF LoadComment, FeedTypeOK
<1>9. ASSUME NEW c \in comments, TellComment(c) PROVE FeedGoal
  <2>1. c.a \in Alerts /\ c.status \in Statuses /\ Broadcast("commented", c.a, c.status)
        /\ comments' = comments \ {c}
    BY <1>1, <1>9 DEF FeedTypeOK, TellComment
  <2>2. /\ live' \in BOOLEAN /\ told' \in [Alerts -> Statuses \union {"none"}]
        /\ missed' \subseteq Alerts
        /\ ~live' => told' = Silence /\ missed' = {}
        /\ live' => /\ c.a \in missed' \/ told'[c.a] = c.status
                    /\ \A b \in Alerts : b # c.a =>
                         told'[b] = told[b] /\ (b \in missed' <=> b \in missed)
    BY <1>1, <2>1, BroadcastDoes
  <2>3. FeedTypeOK'
    BY <1>1, <2>1, <2>2 DEF FeedTypeOK, IInv
  <2>4. ASSUME NEW a \in Alerts \ astray', live' PROVE Told(a)'
    <3>1. a = c.a => c.status = Latest(a)
      <4>1. ~Stray(a)
        BY <2>4 DEF FeedHistoryNext
      <4> QED
        BY <1>9, <2>1, <4>1 DEF Stray
    <3>2. Told(a)
      BY <1>4, <2>4
    <3> QED
      BY <1>3, <2>1, <2>2, <2>4, <3>1, <3>2 DEF Told
  <2> QED
    BY <1>3, <2>3, <2>4 DEF FeedGoal
<1> QED
  BY <1>6, <1>7, <1>8, <1>9 DEF Screen

LEMMA FeedNextInvariant ==
  ASSUME FeedInv, [FeedHistoryNext]_<<vars, feedVars, astray>>
  PROVE  FeedInv'
<1>1. CASE FeedHistoryNext
  <2>1. FeedNext /\ IInv'
    BY <1>1, FeedSteps DEF FeedHistoryNext, FeedInv
  <2>2. FeedGoal
    BY <1>1, <2>1, SaveAndTellFeed, UnheardFeed, ScreenFeed DEF FeedNext
  <2> QED
    BY <2>1, <2>2, GoalSuffices
<1>2. CASE UNCHANGED <<vars, feedVars, astray>>
  <2>1. IInv /\ [Next]_vars
    BY <1>2 DEF FeedInv
  <2>2. IInv'
    BY <2>1, NextInvariant
  <2>3. tx' = tx /\ alert' = alert /\ UNCHANGED <<live, told, missed, comments, astray>>
    BY <1>2 DEF vars, feedVars
  <2>4. Exclusive' /\ \A a \in Alerts : Saved(a)' = Saved(a)
    BY <2>3 DEF FeedInv, Exclusive, Saved
  <2>5. (IInv /\ Exclusive => LatestOK)'
    BY LatestKnown, PTL
  <2>6. \A a \in Alerts : Latest(a)' = Latest(a)
    BY <2>2, <2>3, <2>4, <2>5, LatestKnown, LatestStays DEF FeedInv
  <2>7. FeedTypeOK'
    BY <2>2, <2>3 DEF FeedInv, FeedTypeOK, IInv, Silence
  <2> QED
    BY <2>2, <2>3, <2>4, <2>6, <2>7 DEF FeedInv, Told
<1> QED
  BY <1>1, <1>2

LEMMA FeedInitInvariant ==
  ASSUME FeedHistoryInit
  PROVE  FeedInv
<1>1. IInv /\ \A w \in Workers : tx[w] = Idle
  BY InitInvariant DEF FeedHistoryInit, FeedInit, Init
<1>2. Exclusive
  BY <1>1, IdleFits DEF Exclusive
<1>3. FeedTypeOK
  BY <1>1 DEF FeedHistoryInit, FeedInit, FeedTypeOK, Silence, IInv
<1> QED
  BY <1>1, <1>2, <1>3 DEF FeedInv, FeedHistoryInit, FeedInit, Told, Silence

\* Whatever events are lost and whenever the screen comes and goes, on each alert that
\* is not astray the screen was told last what the row will say.
THEOREM FeedInvariantHolds == FeedHistorySpec => []FeedInv
<1>1. FeedHistoryInit => FeedInv
  BY FeedInitInvariant
<1>2. FeedInv /\ [FeedHistoryNext]_<<vars, feedVars, astray>> => FeedInv'
  BY FeedNextInvariant
<1> QED
  BY <1>1, <1>2, PTL DEF FeedHistorySpec

\* The types of what a screen knows; one that is away knows nothing.
THEOREM FeedTypeCorrect == FeedHistorySpec => []FeedTypeOK
<1>1. FeedInv => FeedTypeOK
  BY DEF FeedInv
<1> QED
  BY <1>1, FeedInvariantHolds, PTL

\* Although every event goes out before its commit, a screen that lost none was told
\* last what the committed row says, of each alert about which no comment, escalation
\* or rolled back request misled it.
THEOREM ScreenFollows == FeedHistorySpec => []FollowsUnlessAstray
<1>1. FeedInv => FollowsUnlessAstray
  BY LatestKnown DEF FeedInv, FollowsUnlessAstray, Follows, Told, LatestOK
<1> QED
  BY <1>1, FeedInvariantHolds, PTL
=============================================================================
