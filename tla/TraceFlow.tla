------------------------------ MODULE TraceFlow ------------------------------
(***************************************************************************)
(* Who made what (apps/accounts, apps/package, apps/reclamation,           *)
(* apps/quality).  Logging in and out keeps the table of shifts; a bag and *)
(* a client's complaint copy out of it, for good, who was at the machine.  *)
(* Complaints and non-conformities are cases: numbered, edited, closed.    *)
(*                                                                         *)
(* A request loads rows, works on the objects and saves whole rows when it *)
(* commits (ATOMIC_REQUESTS, READ COMMITTED).                              *)
(***************************************************************************)
EXTENDS Integers, FiniteSets

CONSTANTS Users, Machines, Bags, Cases, Workers,
          Named,        \* users a complaint names: MAINTENANCE, CONTROLLER, OPERATOR
          NoMachine, NoBag,
          ByHand,       \* rows of ShiftAssignment that the RH page sends
          MaxTime,      \* bound on the clock
          MaxShifts     \* bound on the rows of ShiftAssignment

ASSUME NullAssumption == NoMachine \notin Machines /\ NoBag \notin Bags
ASSUME NamedAssumption == Named \subseteq Users
ASSUME BoundAssumption == MaxTime \in Nat /\ MaxShifts \in Nat

VARIABLES now,
          at,           \* where each user is since they logged in
          was,          \* who was where, for every instant gone by
          shifts,       \* rows of ShiftAssignment
          gone,         \* machines that were deleted
          bag,          \* rows of Package
          case,         \* rows of Reclamation and NonConformity
          events,       \* "package.shipped" and "package.verified" of each bag
          tx            \* the request of each worker

vars == <<now, at, was, shifts, gone, bag, case, events, tx>>

Open == MaxTime + 1     \* the end of what has none

Shift == [user : Users, machine : Machines \union {NoMachine}, starts : 0 .. MaxTime,
          ends : 0 .. Open]

ASSUME ByHandAssumption == ByHand \subseteq Shift

NewBag == [number |-> 0, machine |-> NoMachine, start |-> 0, end |-> Open,
           people |-> {}, shipped |-> FALSE, verified |-> FALSE]

\* A non-conformity has no bag and nobody's name.
NewCase == [kind |-> "none", number |-> 0, closed |-> FALSE, bag |-> NoBag,
            machine |-> NoMachine, start |-> 0, people |-> {}]

Idle == [act |-> "idle"]

Init == /\ now = 0
        /\ at = [u \in Users |-> NoMachine]
        /\ was = {}
        /\ shifts = {}
        /\ gone = {}
        /\ bag = [b \in Bags |-> NewBag]
        /\ case = [c \in Cases |-> NewCase]
        /\ events = [b \in Bags |-> [shipped |-> 0, verified |-> 0]]
        /\ tx = [w \in Workers |-> Idle]

Begin(w, r) == tx[w] = Idle /\ tx' = [tx EXCEPT ![w] = r]
End(w) == tx' = [tx EXCEPT ![w] = Idle]

\* Requests are short: the clock moves between them.
Tick == /\ now < MaxTime /\ \A w \in Workers : tx[w] = Idle
        /\ now' = now + 1
        /\ was' = was \union {<<u, at[u], now>> : u \in {x \in Users : at[x] # NoMachine}}
        /\ UNCHANGED <<at, shifts, gone, bag, case, events, tx>>
-----------------------------------------------------------------------------
(* Shifts.                                                                 *)

\* The open rows a request has found, and those of them it holds.
Found(w) == IF tx[w].act \in {"login", "logout"} THEN tx[w].rows ELSE {}
Held(w) == IF tx[w].act \in {"login", "logout"} /\ tx[w].held THEN tx[w].rows ELSE {}

\* Mutant: a row left open by a missed logout stays open.
OpenRowsForgotten(u) == {}

\* The UPDATE's rows.
OpenRows(u) == {r \in shifts : r.user = u /\ r.ends = Open}

\* clock_in and clock_out begin with an UPDATE of the user's open rows.  One user's
\* stamps differ.
LoadClock(w, act) ==
  \E u \in Users, m \in Machines :
    /\ \A r \in shifts : r.user = u => r.starts < now
    /\ IF act = "logout" THEN m = at[u] ELSE m \notin gone
    /\ Begin(w, [act |-> act, user |-> u, machine |-> m, rows |-> OpenRows(u),
                 held |-> FALSE])
    /\ UNCHANGED <<now, at, was, shifts, gone, bag, case, events>>

\* It waits for rows another one holds, and then closes those still open; a row made
\* meanwhile it has not found.
CloseShifts(w) ==
  /\ tx[w].act \in {"login", "logout"} /\ ~tx[w].held
  /\ \A v \in Workers : Held(v) \intersect tx[w].rows = {}
  /\ tx' = [tx EXCEPT ![w].rows = @ \intersect shifts, ![w].held = TRUE]
  /\ UNCHANGED <<now, at, was, shifts, gone, bag, case, events>>

\* The rows closed now, and for a login a new one.
CommitClock(w) ==
  /\ tx[w].act \in {"login", "logout"} /\ tx[w].held
  /\ tx[w].act = "login" => tx[w].machine \notin gone
  /\ LET u == tx[w].user
         m == IF tx[w].act = "login" THEN tx[w].machine ELSE NoMachine
     IN /\ at' = [at EXCEPT ![u] = m]
        /\ shifts' = (shifts \ tx[w].rows)
                       \union {[r EXCEPT !.ends = now] : r \in tx[w].rows}
                       \union {[user |-> u, machine |-> x, starts |-> now, ends |-> Open] :
                                 x \in {m} \ {NoMachine}}
        /\ Cardinality(shifts') <= MaxShifts
  /\ End(w)
  /\ UNCHANGED <<now, was, gone, bag, case, events>>

\* A row that a request has found is changed by others once that one is done; where
\* they need not wait for it, it comes to the same.
Let(rows) == \A v \in Workers : Found(v) \intersect rows = {}

\* The RH page's requests: a row made, changed or taken away by hand.  Nothing
\* compares its two dates.
EditShifts ==
  /\ \E old \in {{}} \union {{r} : r \in shifts},
        new \in {{}} \union {{r} : r \in {x \in ByHand : x.machine \notin gone}} :
       /\ Let(old)
       /\ shifts' = (shifts \ old) \union new
  /\ Cardinality(shifts') <= MaxShifts
  /\ UNCHANGED <<now, at, was, gone, bag, case, events, tx>>

\* An account is deleted, and its shifts with it.
RemoveUser(u) ==
  LET rows == {r \in shifts : r.user = u}
  IN /\ at[u] = NoMachine
     /\ rows # {} /\ Let(rows)
     /\ shifts' = shifts \ rows
     /\ UNCHANGED <<now, at, was, gone, bag, case, events, tx>>

\* A machine is deleted, unless there is a bag of it; shifts and complaints keep no
\* machine then.
Unplaced(row, m) == IF row.machine = m THEN [row EXCEPT !.machine = NoMachine] ELSE row

RemoveMachine(m) ==
  /\ m \notin gone
  /\ \A b \in Bags : bag[b].machine # m
  /\ Let({r \in shifts : r.machine = m})
  /\ gone' = gone \union {m}
  /\ shifts' = {Unplaced(r, m) : r \in shifts}
  /\ case' = [c \in Cases |-> Unplaced(case[c], m)]
  /\ UNCHANGED <<now, at, was, bag, events, tx>>

WorkingBetween(start, end, m) ==
  {r \in shifts : r.machine = m /\ r.starts < end /\ r.ends > start}

WorkingAt(when, m) ==
  {r \in shifts : r.machine = m /\ r.starts <= when /\ r.ends >= when}

\* resolve_personnel of a bag: each person once.
Personnel(m, start, end) ==
  {r.user : r \in IF end = Open \/ end <= start THEN WorkingAt(start, m)
                  ELSE WorkingBetween(start, end, m)}
-----------------------------------------------------------------------------
(* Numbers, made from the rows there are.                                  *)

\* Mutant: complaints can be deleted too.
DeletableAny == {"NC", "REC"}

Deletable == {"NC"}

BagNumbers == {bag[b].number : b \in Bags} \ {0}
CaseNumbers(kind) == {case[c].number : c \in {x \in Cases : case[x].kind = kind}}

\* count() + 1.
NextNumber(numbers) == Cardinality(numbers) + 1

\* The unique column: the INSERT waits for another one with its number, and
\* fails if that one committed.
InFlight(w, act, number) ==
  \E v \in Workers \ {w} : tx[v].act = act /\ tx[v].row.number = number
-----------------------------------------------------------------------------
(* Bags.                                                                   *)

\* The fields of a bag its people are looked up by.
Dated == {"machine", "start", "end"}

\* A bag is recorded once its production has begun; a client may or may not
\* know when it ended.
LoadCreateBag(w) ==
  \E b \in {x \in Bags : bag[x].number = 0}, m \in Machines \ gone, start \in 0 .. now - 1,
     end \in (0 .. now) \union {Open} :
    LET n == NextNumber(BagNumbers) IN
    /\ start <= end
    /\ \A v \in Workers : tx[v].act = "new bag" => tx[v].bag # b
    /\ ~InFlight(w, "new bag", n)
    /\ Begin(w, [act |-> "new bag", bag |-> b,
                 row |-> [NewBag EXCEPT !.number = n, !.machine = m, !.start = start,
                                        !.end = end, !.people = Personnel(m, start, end)]])
    /\ UNCHANGED <<now, at, was, shifts, gone, bag, case, events>>

\* What a client sends of a field, and what is left as it is.
Sendable == [machine |-> Machines \ gone, start |-> 0 .. now - 1,
             end |-> (0 .. now) \union {Open}]

Values(b, f, sent) == IF f \in sent THEN Sendable[f] ELSE {bag[b][f]}

EditedRow(b, m, start, end) == [bag[b] EXCEPT !.machine = m, !.start = start, !.end = end]

\* Mutant: the two dates are compared only if a client sends both.
LoadEditBagUnchecked(w) ==
  /\ tx[w] = Idle
  /\ \E b \in {x \in Bags : bag[x].number # 0}, sent \in SUBSET Dated :
       \E m \in Values(b, "machine", sent), start \in Values(b, "start", sent),
          end \in Values(b, "end", sent) :
         /\ {"start", "end"} \subseteq sent => start <= end
         /\ Begin(w, [act |-> "compare", bag |-> b, row |-> EditedRow(b, m, start, end),
                      sent |-> sent])
  /\ UNCHANGED <<now, at, was, shifts, gone, bag, case, events>>

\* PATCH and PUT: the object the serializer was given, with the fields sent put in.
LoadEditBag(w) ==
  /\ tx[w] = Idle
  /\ \E b \in {x \in Bags : bag[x].number # 0}, sent \in SUBSET Dated :
       \E m \in Values(b, "machine", sent), start \in Values(b, "start", sent),
          end \in Values(b, "end", sent) :
         /\ start <= end
         /\ Begin(w, [act |-> "compare", bag |-> b, row |-> EditedRow(b, m, start, end),
                      sent |-> sent])
  /\ UNCHANGED <<now, at, was, shifts, gone, bag, case, events>>

\* perform_update: get_object() again, to compare; the people are looked up anew
\* only if what was sent differs from this second object.
Compared(w) ==
  LET row == tx[w].row
      again == bag[tx[w].bag]
      asked == [f \in Dated |-> IF f \in tx[w].sent THEN row[f] ELSE again[f]]
  IN IF \E f \in Dated : asked[f] # again[f]
     THEN [row EXCEPT !.people = Personnel(asked.machine, asked.start, asked.end)]
     ELSE row

CompareBag(w) ==
  /\ tx[w].act = "compare"
  /\ tx' = [tx EXCEPT ![w] = [act |-> "save bag", bag |-> tx[w].bag, row |-> Compared(w)]]
  /\ UNCHANGED <<now, at, was, shifts, gone, bag, case, events>>

\* ship() and verify().
LoadStamp(w, act) ==
  \E b \in Bags :
    /\ bag[b].number # 0 /\ ~bag[b][act]
    /\ Begin(w, [act |-> act, bag |-> b])
    /\ UNCHANGED <<now, at, was, shifts, gone, bag, case, events>>

\* Mutant: the stamps are fields of the form, empty when it is sent.
SavedRowStampless(w) == [tx[w].row EXCEPT !.shipped = FALSE, !.verified = FALSE]

\* The whole row, the stamps as they were loaded.
SavedRow(w) == tx[w].row

CommitBag(w) ==
  /\ \/ tx[w].act = "save bag"
     \/ tx[w].act = "new bag" /\ tx[w].row.number \notin BagNumbers
  /\ tx[w].row.machine \notin gone
  /\ bag' = [bag EXCEPT ![tx[w].bag] = SavedRow(w)]
  /\ End(w)
  /\ UNCHANGED <<now, at, was, shifts, gone, case, events>>

\* update_fields: the stamp alone.
CommitStamp(w) ==
  /\ tx[w].act \in {"shipped", "verified"}
  /\ bag' = [bag EXCEPT ![tx[w].bag][tx[w].act] = TRUE]
  /\ events' = [events EXCEPT ![tx[w].bag][tx[w].act] = @ + 1]
  /\ End(w)
  /\ UNCHANGED <<now, at, was, shifts, gone, case>>
-----------------------------------------------------------------------------
(* Cases.                                                                  *)

\* Mutant: everybody on shift is named.
AboutBagAll(row, b) ==
  IF b = NoBag THEN [row EXCEPT !.bag = b, !.machine = NoMachine, !.start = 0, !.people = {}]
  ELSE [row EXCEPT !.bag = b, !.machine = bag[b].machine, !.start = bag[b].start,
                   !.people = {r.user : r \in WorkingAt(bag[b].start, bag[b].machine)}]

\* The machine and the date of a complaint are its bag's, the people those on shift
\* then who have one of three roles.
AboutBag(row, b) ==
  IF b = NoBag THEN [row EXCEPT !.bag = b, !.machine = NoMachine, !.start = 0, !.people = {}]
  ELSE [row EXCEPT !.bag = b, !.machine = bag[b].machine, !.start = bag[b].start,
                   !.people = {r.user : r \in WorkingAt(bag[b].start, bag[b].machine)}
                                \intersect Named]

Recorded == {b \in Bags : bag[b].number # 0} \union {NoBag}

LoadCreateCase(w) ==
  \E c \in Cases, kind \in {"REC", "NC"}, b \in Recorded :
    LET n == NextNumber(CaseNumbers(kind)) IN
    /\ case[c].kind = "none"
    /\ \A v \in Workers : tx[v].act \in {"REC", "NC"} => tx[v].case # c
    /\ kind = "NC" => b = NoBag
    /\ ~InFlight(w, kind, n)
    /\ Begin(w, [act |-> kind, case |-> c,
                 row |-> [AboutBag(NewCase, b) EXCEPT !.kind = kind, !.number = n]])
    /\ UNCHANGED <<now, at, was, shifts, gone, bag, case, events>>

\* An edit, sent with the bag as the form shows it or another one.
LoadEditCase(w) ==
  \E c \in Cases, b \in Recorded :
    /\ case[c].number # 0
    /\ case[c].kind = "NC" => b = NoBag
    /\ Begin(w, [act |-> "compare case", case |-> c, row |-> case[c], bag |-> b])
    /\ UNCHANGED <<now, at, was, shifts, gone, bag, case, events>>

\* As for a bag, what was sent is compared with a second object.
CompareCase(w) ==
  /\ tx[w].act = "compare case" /\ case[tx[w].case].number # 0
  /\ tx' = [tx EXCEPT ![w] =
       [act |-> "save case", case |-> tx[w].case,
        row |-> IF tx[w].bag = case[tx[w].case].bag
                THEN [tx[w].row EXCEPT !.bag = tx[w].bag]
                ELSE AboutBag(tx[w].row, tx[w].bag)]]
  /\ UNCHANGED <<now, at, was, shifts, gone, bag, case, events>>

LoadClose(w) ==
  \E c \in Cases :
    /\ case[c].number # 0 /\ ~case[c].closed
    /\ Begin(w, [act |-> "save case", case |-> c, row |-> [case[c] EXCEPT !.closed = TRUE]])
    /\ UNCHANGED <<now, at, was, shifts, gone, bag, case, events>>

\* Mutant: the status is a field of the form.
SavedCaseOpen(w) == [tx[w].row EXCEPT !.closed = @ /\ ~case[tx[w].case].closed]

\* save(): the whole row, the status as it was loaded.
SavedCase(w) == tx[w].row

\* A row deleted meanwhile is inserted again, a machine deleted meanwhile refused.
CommitCase(w) ==
  /\ tx[w].act \in {"save case", "REC", "NC"}
  /\ tx[w].row.machine \notin gone
  /\ \A c \in Cases \ {tx[w].case} :
       ~(case[c].kind = tx[w].row.kind /\ case[c].number = tx[w].row.number)
  /\ case' = [case EXCEPT ![tx[w].case] = SavedCase(w)]
  /\ End(w)
  /\ UNCHANGED <<now, at, was, shifts, gone, bag, events>>

\* The row is gone for good and its number can be given again.
DeleteCase(c) ==
  /\ case[c].kind \in Deletable /\ case[c].number # 0
  /\ case' = [case EXCEPT ![c] = [NewCase EXCEPT !.kind = "gone"]]
  /\ UNCHANGED <<now, at, was, shifts, gone, bag, events, tx>>

\* A number that is taken, a crash: the request is rolled back.
Abort(w) == /\ tx[w] # Idle
            /\ End(w)
            /\ UNCHANGED <<now, at, was, shifts, gone, bag, case, events>>

Next ==
  \/ \E w \in Workers :
       \/ LoadClock(w, "login") \/ LoadClock(w, "logout") \/ CloseShifts(w)
       \/ CommitClock(w)
       \/ LoadCreateBag(w) \/ LoadEditBag(w) \/ CompareBag(w) \/ CommitBag(w)
       \/ LoadStamp(w, "shipped") \/ LoadStamp(w, "verified") \/ CommitStamp(w)
       \/ LoadCreateCase(w) \/ LoadEditCase(w) \/ CompareCase(w) \/ LoadClose(w)
       \/ CommitCase(w)
       \/ Abort(w)
  \/ \E u \in Users : RemoveUser(u)
  \/ \E m \in Machines : RemoveMachine(m)
  \/ \E c \in Cases : DeleteCase(c)
  \/ EditShifts \/ Tick

Spec == Init /\ [][Next]_vars
-----------------------------------------------------------------------------
(* Properties.                                                             *)

BagRow == [number : Nat, machine : Machines \union {NoMachine}, start : 0 .. MaxTime,
           end : 0 .. Open, people : SUBSET Users, shipped : BOOLEAN, verified : BOOLEAN]

CaseRow == [kind : {"none", "REC", "NC", "gone"}, number : Nat, closed : BOOLEAN,
            bag : Bags \union {NoBag}, machine : Machines \union {NoMachine},
            start : 0 .. MaxTime, people : SUBSET Users]

\* The types; a recorded bag has a machine that is there and was not finished before
\* it was begun, whichever of its dates are edited.
TypeOK ==
  /\ now \in 0 .. MaxTime
  /\ at \in [Users -> Machines \union {NoMachine}]
  /\ was \subseteq Users \X Machines \X (0 .. MaxTime)
  /\ shifts \subseteq Shift /\ gone \subseteq Machines
  /\ bag \in [Bags -> BagRow]
  /\ \A b \in Bags : bag[b].number # 0 =>
       bag[b].machine \in Machines \ gone /\ bag[b].start <= bag[b].end
  /\ case \in [Cases -> CaseRow]
  /\ events \in [Bags -> [shipped : Nat, verified : Nat]]

There(m, from, to) == {u \in Users : \E t \in from .. to : <<u, m, t>> \in was}

\* A bag whose production had ended when it was recorded or corrected names
\* exactly the people who were at its machine meanwhile, however long after it
\* is looked at, whoever came and went since; one whose end is not known or is
\* its start names those who were there when it began and nobody who was not there
\* just before; and so does a complaint about it, of the three roles, as long as its
\* machine is there (resolve_personnel, "never guesses").
PeopleWereThere ==
  /\ \A b \in Bags :
       LET r == bag[b] IN
       r.number # 0 =>
         IF r.end \in {Open, r.start}
         THEN /\ There(r.machine, r.start, r.start) \subseteq r.people
              /\ r.people \subseteq There(r.machine, r.start - 1, r.start)
         ELSE r.people = There(r.machine, r.start, r.end - 1)
  /\ \A c \in Cases :
       LET r == case[c] IN
       r.machine # NoMachine =>
         /\ There(r.machine, r.start, r.start) \intersect Named \subseteq r.people
         /\ r.people \subseteq There(r.machine, r.start - 1, r.start) \intersect Named

\* A session is one row: nobody is on two shifts at once (clock_in, "never more
\* than one open row per user"), and who is at a machine has an open row there.
OneShiftAtATime ==
  /\ \A r, q \in shifts : r.user = q.user /\ r # q => r.ends <= q.starts \/ q.ends <= r.starts
  /\ \A u \in Users : at[u] # NoMachine =>
       \E r \in shifts : /\ r.user = u /\ r.ends = Open
                         /\ r.machine = IF at[u] \in gone THEN NoMachine ELSE at[u]

\* "A bag leaves once" and is verified once (apps/package/models.py): however it
\* is edited in between, the log has one line of each at most, and the bag still
\* bears the stamp.
LeavesOnce ==
  \A b \in Bags : \A e \in {"shipped", "verified"} :
    events[b][e] = IF bag[b][e] THEN 1 ELSE 0

\* Bags and complaints cannot be deleted, so that their numbers have no gap and
\* the next one is free, whatever requests count the same rows at once; the
\* numbers of non-conformities are only unique.
NumbersAreDense ==
  /\ BagNumbers = 1 .. Cardinality(BagNumbers)
  /\ CaseNumbers("REC") = 1 .. Cardinality({c \in Cases : case[c].kind = "REC"})
  /\ Cardinality(CaseNumbers("NC")) = Cardinality({c \in Cases : case[c].kind = "NC"})

\* A case that was closed stays closed, through every later edit.
ClosedStaysClosed ==
  \A c \in Cases : case[c].closed /\ case'[c].number # 0 => case'[c].closed
=============================================================================
