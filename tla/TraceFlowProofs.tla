--------------------------- MODULE TraceFlowProofs ---------------------------
(***************************************************************************)
(* Theorems of TraceFlow, for any users, machines, bags, cases and workers *)
(* and any bounds on the clock and the rows.                               *)
(*                                                                         *)
(* What always holds (IInv), what holds besides as long as requests come   *)
(* one at a time (Serial), and as long as nobody touches the shifts by     *)
(* hand either (Watched).                                                  *)
(***************************************************************************)
EXTENDS TraceFlowMC, FiniteSetTheorems, TLAPS

\* A request, by its shape.
RequestOK(r) ==
  \/ r = Idle
  \/ \E a \in {"login", "logout"}, u \in Users, m \in Machines, rows \in SUBSET Shift,
        held \in BOOLEAN :
       r = [act |-> a, user |-> u, machine |-> m, rows |-> rows, held |-> held]
  \/ \E a \in {"new bag", "save bag"}, b \in Bags, row \in BagRow :
       r = [act |-> a, bag |-> b, row |-> row]
  \/ \E b \in Bags, row \in BagRow, sent \in SUBSET Dated :
       r = [act |-> "compare", bag |-> b, row |-> row, sent |-> sent]
  \/ \E a \in {"shipped", "verified"}, b \in Bags : r = [act |-> a, bag |-> b]
  \/ \E a \in {"REC", "NC", "save case"}, c \in Cases, row \in CaseRow :
       r = [act |-> a, case |-> c, row |-> row]
  \/ \E c \in Cases, row \in CaseRow, b \in Bags \union {NoBag} :
       r = [act |-> "compare case", case |-> c, row |-> row, bag |-> b]

\* A bag is somebody's at a machine and does not end before it begins.
BagOK(row) == /\ row.number # 0 /\ row.machine # NoMachine
              /\ row.start <= row.end /\ row.start < now

\* A case has a number.
CaseOK(row) == row.kind \in {"REC", "NC"} /\ row.number # 0

\* What a request has loaded is still the same row, if it has not been deleted.
Fits(r) ==
  /\ r.act \in {"login", "logout"} => \A x \in r.rows : x.starts < now
  /\ r.act = "new bag" => /\ bag[r.bag].number = 0 /\ BagOK(r.row)
                          /\ r.row.number = NextNumber(BagNumbers)
                          /\ ~r.row.shipped /\ ~r.row.verified
  /\ r.act \in {"compare", "save bag"} => /\ BagOK(r.row)
                                          /\ r.row.number = bag[r.bag].number
  /\ r.act \in {"shipped", "verified"} => bag[r.bag].number # 0
  /\ r.act \in {"REC", "NC"} => /\ case[r.case] = NewCase /\ CaseOK(r.row) /\ r.row.kind = r.act
                                /\ ~r.row.closed
  /\ r.act = "REC" => r.row.number = NextNumber(CaseNumbers("REC"))
  /\ r.act \in {"compare case", "save case"} =>
       /\ CaseOK(r.row)
       /\ \/ case[r.case].kind = r.row.kind /\ case[r.case].number = r.row.number
          \/ case[r.case].kind = "gone" /\ r.row.kind = "NC"
  /\ r.act = "compare case" => r.bag \in Recorded

\* What two requests under way have to do with each other.
Pair(r, q) ==
  /\ ~(r.act = "new bag" /\ q.act = "new bag")
  /\ ~(r.act = "REC" /\ q.act = "REC")
  /\ r.act \in {"REC", "NC"} /\ q.act \in {"REC", "NC"} => r.case # q.case
  /\ r.act \in {"compare case", "save case"} /\ q.act \in {"compare case", "save case"} =>
       (r.case = q.case => r.row.kind = q.row.kind /\ r.row.number = q.row.number)

OfKind(kind) == {c \in Cases : case[c].kind = kind}

RequestsOK ==
  /\ DOMAIN tx = Workers
  /\ \A w \in Workers : RequestOK(tx[w]) /\ Fits(tx[w])
  /\ \A v, w \in Workers : v # w => Pair(tx[v], tx[w])
  /\ IsFiniteSet(Busy)

RowsOK ==
  /\ \A b \in Bags : IF bag[b].number = 0 THEN bag[b] = NewBag ELSE BagOK(bag[b])
  /\ \A c \in Cases : IF case[c].kind \in {"REC", "NC"} THEN CaseOK(case[c])
                      ELSE case[c] = [NewCase EXCEPT !.kind = case[c].kind]
  /\ \A c, d \in Cases : case[c].kind = case[d].kind /\ case[c].number = case[d].number
                         /\ case[c].number # 0 => c = d

NumbersOK ==
  /\ BagNumbers = 1 .. Cardinality(BagNumbers) /\ IsFiniteSet(BagNumbers)
  /\ CaseNumbers("REC") = 1 .. Cardinality(CaseNumbers("REC")) /\ IsFiniteSet(CaseNumbers("REC"))
  /\ IsFiniteSet(OfKind("REC")) /\ IsFiniteSet(OfKind("NC"))

IInv == TypeOK /\ RequestsOK /\ RowsOK /\ NumbersOK

\* Requests come one at a time: what one has loaded is what there is.
Alone == \A v, w \in Workers : tx[v] # Idle /\ tx[w] # Idle => v = w

Unsent(row, old, sent) == /\ "machine" \notin sent => row.machine = old.machine
                          /\ "start" \notin sent => row.start = old.start
                          /\ "end" \notin sent => row.end = old.end

Loaded(r) ==
  /\ r.act = "shipped" => ~bag[r.bag].shipped
  /\ r.act = "verified" => ~bag[r.bag].verified
  /\ r.act \in {"compare", "save bag"} => /\ r.row.shipped = bag[r.bag].shipped
                                          /\ r.row.verified = bag[r.bag].verified
  /\ r.act = "compare" => /\ r.row.people = bag[r.bag].people
                          /\ Unsent(r.row, bag[r.bag], r.sent)
  /\ r.act \in {"compare case", "save case"} => (case[r.case].closed => r.row.closed)

Serial == /\ Alone
          /\ \A w \in Workers : Loaded(tx[w])
          /\ LeavesOnce

\* The shifts tell who is and was at the machines that are still there.
Session(r, m, t) == r.machine = m /\ r.starts <= t /\ t < r.ends

Sessions ==
  /\ \A r \in shifts : r.starts <= now /\ (r.ends = Open \/ (r.starts < r.ends /\ r.ends <= now))
  /\ \A r, q \in shifts : r.user = q.user /\ r # q => r.ends <= q.starts \/ q.ends <= r.starts
  /\ \A u \in Users, m \in Machines \ gone :
       at[u] = m <=> \E r \in shifts : r.user = u /\ r.machine = m /\ r.ends = Open
  /\ \A u \in Users : at[u] \in gone =>
       \E r \in shifts : r.user = u /\ r.machine = NoMachine /\ r.ends = Open
  /\ \A u \in Users, m \in Machines \ gone, t \in 0 .. MaxTime :
       <<u, m, t>> \in was <=> t < now /\ \E r \in shifts : r.user = u /\ Session(r, m, t)

\* Who was there when it began.
AtStart(row) ==
  /\ There(row.machine, row.start, row.start) \subseteq row.people
  /\ row.people \subseteq There(row.machine, row.start - 1, row.start)

BagPeople(row) ==
  /\ row.end = Open \/ row.end <= now
  /\ IF row.end \in {Open, row.start} THEN AtStart(row)
     ELSE row.people = There(row.machine, row.start, row.end - 1)

\* Of those who were there a complaint names the ones who have one of its roles.
CaseStart(row) ==
  /\ There(row.machine, row.start, row.start) \intersect Named \subseteq row.people
  /\ row.people \subseteq There(row.machine, row.start - 1, row.start) \intersect Named

CasePeople(row) == row.machine # NoMachine => row.start < now /\ CaseStart(row)

Watching(r) ==
  /\ r.act \in {"login", "logout"} => /\ r.rows = OpenRows(r.user)
                                      /\ \A x \in shifts : x.user = r.user => x.starts < now
  /\ r.act \in {"new bag", "save bag"} => r.row.machine \in gone \/ BagPeople(r.row)
  /\ r.act = "compare" => r.row.end = Open \/ r.row.end <= now
  /\ r.act \in {"REC", "NC", "compare case", "save case"} => CasePeople(r.row)

Watched == /\ Sessions
           /\ \A w \in Workers : Watching(tx[w])
           /\ \A b \in Bags : bag[b].number # 0 => BagPeople(bag[b])
           /\ \A c \in Cases : CasePeople(case[c])

History == /\ "overlap" \notin marred => Serial
           /\ marred = {} => Watched
-----------------------------------------------------------------------------
(* Rows and requests.                                                      *)

BagActs == {"new bag", "save bag", "compare"}
CaseActs == {"REC", "NC", "save case", "compare case"}

LEMMA RequestFacts ==
  ASSUME NEW r, RequestOK(r)
  PROVE  /\ r.act \in {"idle", "login", "logout", "new bag", "save bag", "compare", "shipped",
                       "verified", "REC", "NC", "save case", "compare case"}
         /\ r.act = "idle" => r = Idle
         /\ r.act \in {"login", "logout"} =>
              /\ r.user \in Users /\ r.machine \in Machines /\ r.rows \in SUBSET Shift
              /\ r.held \in BOOLEAN
         /\ r.act \in BagActs => r.bag \in Bags /\ r.row \in BagRow
         /\ r.act = "compare" => r.sent \in SUBSET Dated
         /\ r.act \in {"shipped", "verified"} => r.bag \in Bags
         /\ r.act \in CaseActs => r.case \in Cases /\ r.row \in CaseRow
         /\ r.act = "compare case" => r.bag \in Bags \union {NoBag}
<1>1. CASE r = Idle
  BY <1>1 DEF Idle, BagActs, CaseActs
<1>2. CASE \E a \in {"login", "logout"}, u \in Users, m \in Machines, rows \in SUBSET Shift,
                held \in BOOLEAN :
             r = [act |-> a, user |-> u, machine |-> m, rows |-> rows, held |-> held]
  <2>1. PICK a \in {"login", "logout"}, u \in Users, m \in Machines, rows \in SUBSET Shift,
                held \in BOOLEAN :
             r = [act |-> a, user |-> u, machine |-> m, rows |-> rows, held |-> held]
    BY <1>2
  <2>2. r.act = a /\ r.user = u /\ r.machine = m /\ r.rows = rows /\ r.held = held
    BY <2>1
  <2> QED
    BY <2>2 DEF BagActs, CaseActs
<1>3. CASE \E a \in {"new bag", "save bag"}, b \in Bags, row \in BagRow :
             r = [act |-> a, bag |-> b, row |-> row]
  <2>1. PICK a \in {"new bag", "save bag"}, b \in Bags, row \in BagRow :
             r = [act |-> a, bag |-> b, row |-> row]
    BY <1>3
  <2>2. r.act = a /\ r.bag = b /\ r.row = row
    BY <2>1
  <2> QED
    BY <2>2 DEF BagActs, CaseActs
<1>4. CASE \E b \in Bags, row \in BagRow, sent \in SUBSET Dated :
             r = [act |-> "compare", bag |-> b, row |-> row, sent |-> sent]
  <2>1. PICK b \in Bags, row \in BagRow, sent \in SUBSET Dated :
             r = [act |-> "compare", bag |-> b, row |-> row, sent |-> sent]
    BY <1>4
  <2>2. r.act = "compare" /\ r.bag = b /\ r.row = row /\ r.sent = sent
    BY <2>1
  <2> QED
    BY <2>2 DEF BagActs, CaseActs
<1>5. CASE \E a \in {"shipped", "verified"}, b \in Bags :
             r = [act |-> a, bag |-> b]
  <2>1. PICK a \in {"shipped", "verified"}, b \in Bags :
             r = [act |-> a, bag |-> b]
    BY <1>5
  <2>2. r.act = a /\ r.bag = b
    BY <2>1
  <2> QED
    BY <2>2 DEF BagActs, CaseActs
<1>6. CASE \E a \in {"REC", "NC", "save case"}, c \in Cases, row \in CaseRow :
             r = [act |-> a, case |-> c, row |-> row]
  <2>1. PICK a \in {"REC", "NC", "save case"}, c \in Cases, row \in CaseRow :
             r = [act |-> a, case |-> c, row |-> row]
    BY <1>6
  <2>2. r.act = a /\ r.case = c /\ r.row = row
    BY <2>1
  <2> QED
    BY <2>2 DEF BagActs, CaseActs
<1>7. CASE \E c \in Cases, row \in CaseRow, b \in Bags \union {NoBag} :
             r = [act |-> "compare case", case |-> c, row |-> row, bag |-> b]
  <2>1. PICK c \in Cases, row \in CaseRow, b \in Bags \union {NoBag} :
             r = [act |-> "compare case", case |-> c, row |-> row, bag |-> b]
    BY <1>7
  <2>2. /\ r.act = "compare case" /\ r.case = c /\ r.row = row
        /\ r.bag = b
    BY <2>1
  <2> QED
    BY <2>2 DEF BagActs, CaseActs
<1> QED
  BY <1>1, <1>2, <1>3, <1>4, <1>5, <1>6, <1>7 DEF RequestOK

LEMMA IdleOK == RequestOK(Idle) /\ Idle.act = "idle" /\ Fits(Idle)
BY DEF RequestOK, Idle, Fits

\* Two requests that have nothing to do with each other.
LEMMA IdlePair == \A r : Pair(r, Idle) /\ Pair(Idle, r)
BY DEF Idle, Pair

LEMMA PairBoth ==
  ASSUME NEW r, NEW q, Pair(r, q)
  PROVE  Pair(q, r)
BY DEF Pair

\* The rows of a bag and of a case, field by field.
LEMMA BagFields ==
  ASSUME NEW n \in Nat, NEW m \in Machines \union {NoMachine}, NEW start \in 0 .. MaxTime,
         NEW end \in 0 .. Open, NEW people \in SUBSET Users, NEW s \in BOOLEAN, NEW v \in BOOLEAN,
         NEW row,
         row = [number |-> n, machine |-> m, start |-> start, end |-> end, people |-> people,
                shipped |-> s, verified |-> v]
  PROVE  /\ row \in BagRow
         /\ row.number = n /\ row.machine = m /\ row.start = start /\ row.end = end
         /\ row.people = people /\ row.shipped = s /\ row.verified = v
<1>1. row \in BagRow
  BY DEF BagRow
<1>2. row.number = n /\ row.machine = m /\ row.start = start /\ row.end = end
  OBVIOUS
<1>3. row.people = people /\ row.shipped = s /\ row.verified = v
  OBVIOUS
<1> QED
  BY <1>1, <1>2, <1>3

LEMMA CaseFields ==
  ASSUME NEW kind \in {"none", "REC", "NC", "gone"}, NEW n \in Nat, NEW closed \in BOOLEAN,
         NEW b \in Bags \union {NoBag}, NEW m \in Machines \union {NoMachine},
         NEW start \in 0 .. MaxTime, NEW people \in SUBSET Users, NEW row,
         row = [kind |-> kind, number |-> n, closed |-> closed, bag |-> b, machine |-> m,
                start |-> start, people |-> people]
  PROVE  /\ row \in CaseRow
         /\ row.kind = kind /\ row.number = n /\ row.bag = b /\ row.machine = m
         /\ row.start = start /\ row.people = people /\ row.closed = closed
<1>1. row \in CaseRow
  BY DEF CaseRow
<1>2. row.kind = kind /\ row.number = n /\ row.bag = b /\ row.machine = m
  OBVIOUS
<1>3. row.start = start /\ row.people = people /\ row.closed = closed
  OBVIOUS
<1> QED
  BY <1>1, <1>2, <1>3

\* The row of a new bag.
NewRow(n, m, start, end, people) ==
  [NewBag EXCEPT !.number = n, !.machine = m, !.start = start, !.end = end, !.people = people]

LEMMA NewBagRow ==
  ASSUME NEW n \in Nat, NEW m \in Machines, NEW start \in 0 .. MaxTime, NEW end \in 0 .. Open,
         NEW people \in SUBSET Users
  PROVE  \E row \in BagRow :
           /\ row = NewRow(n, m, start, end, people)
           /\ row.number = n /\ row.machine = m /\ row.start = start /\ row.end = end
           /\ row.people = people /\ ~row.shipped /\ ~row.verified
<1>1. PICK row : row = NewRow(n, m, start, end, people)
  OBVIOUS
<1>2. row = [number |-> n, machine |-> m, start |-> start, end |-> end, people |-> people,
             shipped |-> FALSE, verified |-> FALSE]
  BY <1>1 DEF NewRow, NewBag
<1>3. row \in BagRow
  BY <1>2 DEF BagRow
<1>4. row.number = n /\ row.machine = m /\ row.start = start /\ row.end = end
  BY <1>2
<1>5. row.people = people /\ ~row.shipped /\ ~row.verified
  BY <1>2
<1> QED
  BY <1>1, <1>3, <1>4, <1>5

LEMMA NewBagOK == NewBag \in BagRow /\ NewBag.number = 0
BY BoundAssumption DEF NewBag, BagRow, Open

\* The row of a bag that was edited.
ChangedRow(old, m, start, end, people) ==
  [old EXCEPT !.machine = m, !.start = start, !.end = end, !.people = people]

LEMMA ChangedBagRow ==
  ASSUME NEW old \in BagRow, NEW m \in Machines \union {NoMachine}, NEW start \in 0 .. MaxTime,
         NEW end \in 0 .. Open, NEW people \in SUBSET Users
  PROVE  \E row \in BagRow :
           /\ row = ChangedRow(old, m, start, end, people)
           /\ row.machine = m /\ row.start = start /\ row.end = end /\ row.people = people
           /\ row.number = old.number
           /\ row.shipped = old.shipped /\ row.verified = old.verified
<1>1. PICK row : row = ChangedRow(old, m, start, end, people)
  OBVIOUS
<1>2. row = [number |-> old.number, machine |-> m, start |-> start, end |-> end,
             people |-> people, shipped |-> old.shipped, verified |-> old.verified]
  BY <1>1 DEF ChangedRow, BagRow
<1>3. old.number \in Nat /\ old.shipped \in BOOLEAN /\ old.verified \in BOOLEAN
  BY DEF BagRow
<1>4. /\ row \in BagRow
      /\ row.machine = m /\ row.start = start /\ row.end = end /\ row.people = people
      /\ row.number = old.number
      /\ row.shipped = old.shipped /\ row.verified = old.verified
  BY <1>2, <1>3, BagFields
<1> QED
  BY <1>1, <1>4

LEMMA NewCaseOK ==
  /\ NewCase \in CaseRow /\ NewCase.kind = "none" /\ NewCase.number = 0
  /\ ~NewCase.closed /\ NewCase.machine = NoMachine /\ NewCase.people = {}
<1>1. 0 \in 0 .. MaxTime /\ 0 \in Nat
  BY BoundAssumption
<1>2. PICK row : row = NewCase
  OBVIOUS
<1>3. row = [kind |-> "none", number |-> 0, closed |-> FALSE, bag |-> NoBag,
             machine |-> NoMachine, start |-> 0, people |-> {}]
  BY <1>2 DEF NewCase
<1>4. row \in CaseRow
  BY <1>1, <1>3 DEF CaseRow
<1>5. row.kind = "none" /\ row.number = 0 /\ row.machine = NoMachine
  BY <1>3
<1>6. ~row.closed /\ row.people = {}
  BY <1>3
<1> QED
  BY <1>2, <1>4, <1>5, <1>6

LEMMA GoneCase ==
  \E row \in CaseRow :
    /\ row = [NewCase EXCEPT !.kind = "gone"]
    /\ row.kind = "gone" /\ row.number = 0 /\ ~row.closed
    /\ row.machine = NoMachine /\ row.people = {}
<1>1. 0 \in 0 .. MaxTime /\ 0 \in Nat
  BY BoundAssumption
<1>2. PICK row : row = [NewCase EXCEPT !.kind = "gone"]
  OBVIOUS
<1>3. row = [kind |-> "gone", number |-> 0, closed |-> FALSE, bag |-> NoBag,
             machine |-> NoMachine, start |-> 0, people |-> {}]
  BY <1>2 DEF NewCase
<1>4. row \in CaseRow
  BY <1>1, <1>3 DEF CaseRow
<1>5. row.kind = "gone" /\ row.number = 0 /\ row.machine = NoMachine
  BY <1>3
<1>6. ~row.closed /\ row.people = {}
  BY <1>3
<1> QED
  BY <1>2, <1>4, <1>5, <1>6

\* What a step of one request does to the others.
LEMMA Others ==
  ASSUME DOMAIN tx = Workers, NEW w \in Workers, NEW r, tx' = [tx EXCEPT ![w] = r]
  PROVE  /\ DOMAIN tx' = Workers /\ tx'[w] = r
         /\ \A v \in Workers : v # w => tx'[v] = tx[v]
OBVIOUS

LEMMA BusyStep ==
  ASSUME DOMAIN tx = Workers, NEW w \in Workers, NEW r, tx' = [tx EXCEPT ![w] = r],
         IsFiniteSet(Busy)
  PROVE  IsFiniteSet(Busy')
<1>1. IsFiniteSet(Busy \union {w})
  BY FS_AddElement
<1>2. Busy' \in SUBSET (Busy \union {w})
  BY DEF Busy
<1> QED
  BY <1>1, <1>2, FS_Subset

\* A case with another number, bag or status.
MadeCase(old, kind, n) == [old EXCEPT !.kind = kind, !.number = n]

LEMMA CaseMade ==
  ASSUME NEW old \in CaseRow, NEW kind \in {"REC", "NC"}, NEW n \in Nat
  PROVE  \E row \in CaseRow :
           /\ row = MadeCase(old, kind, n)
           /\ row.kind = kind /\ row.number = n /\ row.closed = old.closed
           /\ row.machine = old.machine /\ row.start = old.start /\ row.people = old.people
<1>1. PICK row : row = MadeCase(old, kind, n)
  OBVIOUS
<1>2. row = [kind |-> kind, number |-> n, closed |-> old.closed, bag |-> old.bag,
             machine |-> old.machine, start |-> old.start, people |-> old.people]
  BY <1>1 DEF MadeCase, CaseRow
<1>3. /\ old.closed \in BOOLEAN /\ old.bag \in Bags \union {NoBag}
      /\ old.machine \in Machines \union {NoMachine} /\ old.start \in 0 .. MaxTime
      /\ old.people \in SUBSET Users
  BY DEF CaseRow
<1>4. row \in CaseRow
  BY <1>2, <1>3 DEF CaseRow
<1>5. /\ row.kind = kind /\ row.number = n /\ row.closed = old.closed
      /\ row.machine = old.machine /\ row.start = old.start /\ row.people = old.people
  BY <1>2
<1> QED
  BY <1>1, <1>4, <1>5

MovedCase(old, b, m, start, people) ==
  [old EXCEPT !.bag = b, !.machine = m, !.start = start, !.people = people]

LEMMA CaseMoved ==
  ASSUME NEW old \in CaseRow, NEW b \in Bags \union {NoBag}, NEW m \in Machines \union {NoMachine},
         NEW start \in 0 .. MaxTime, NEW people \in SUBSET Users
  PROVE  \E row \in CaseRow :
           /\ row = MovedCase(old, b, m, start, people)
           /\ row.kind = old.kind /\ row.number = old.number /\ row.closed = old.closed
           /\ row.machine = m /\ row.start = start /\ row.people = people
<1>1. PICK row : row = MovedCase(old, b, m, start, people)
  OBVIOUS
<1>2. row = [kind |-> old.kind, number |-> old.number, closed |-> old.closed, bag |-> b,
             machine |-> m, start |-> start, people |-> people]
  BY <1>1 DEF MovedCase, CaseRow
<1>3. /\ old.closed \in BOOLEAN /\ old.kind \in {"none", "REC", "NC", "gone"}
      /\ old.number \in Nat
  BY DEF CaseRow
<1>4. row \in CaseRow
  BY <1>2, <1>3 DEF CaseRow
<1>5. /\ row.kind = old.kind /\ row.number = old.number /\ row.closed = old.closed
      /\ row.machine = m /\ row.start = start /\ row.people = people
  BY <1>2
<1> QED
  BY <1>1, <1>4, <1>5

SameBagCase(old, b) == [old EXCEPT !.bag = b]

LEMMA CaseSameBag ==
  ASSUME NEW old \in CaseRow, NEW b \in Bags \union {NoBag}
  PROVE  \E row \in CaseRow :
           /\ row = SameBagCase(old, b)
           /\ row.kind = old.kind /\ row.number = old.number /\ row.closed = old.closed
           /\ row.machine = old.machine /\ row.start = old.start /\ row.people = old.people
<1>1. PICK row : row = SameBagCase(old, b)
  OBVIOUS
<1>2. row = [kind |-> old.kind, number |-> old.number, closed |-> old.closed, bag |-> b,
             machine |-> old.machine, start |-> old.start, people |-> old.people]
  BY <1>1 DEF SameBagCase, CaseRow
<1>3. /\ old.closed \in BOOLEAN /\ old.kind \in {"none", "REC", "NC", "gone"}
      /\ old.number \in Nat /\ old.machine \in Machines \union {NoMachine}
      /\ old.start \in 0 .. MaxTime /\ old.people \in SUBSET Users
  BY DEF CaseRow
<1>4. row \in CaseRow
  BY <1>2, <1>3 DEF CaseRow
<1>5. /\ row.kind = old.kind /\ row.number = old.number /\ row.closed = old.closed
      /\ row.machine = old.machine /\ row.start = old.start /\ row.people = old.people
  BY <1>2
<1> QED
  BY <1>1, <1>4, <1>5

ShutCase(old) == [old EXCEPT !.closed = TRUE]

LEMMA CaseShut ==
  ASSUME NEW old \in CaseRow
  PROVE  \E row \in CaseRow :
           /\ row = ShutCase(old)
           /\ row.kind = old.kind /\ row.number = old.number /\ row.closed
           /\ row.machine = old.machine /\ row.start = old.start /\ row.people = old.people
<1>1. PICK row : row = ShutCase(old)
  OBVIOUS
<1>2. row = [kind |-> old.kind, number |-> old.number, closed |-> TRUE, bag |-> old.bag,
             machine |-> old.machine, start |-> old.start, people |-> old.people]
  BY <1>1 DEF ShutCase, CaseRow
<1>3. row \in CaseRow
  BY <1>2 DEF CaseRow
<1>4. row.kind = old.kind /\ row.number = old.number /\ row.machine = old.machine
  BY <1>2
<1>5. row.start = old.start /\ row.people = old.people /\ row.closed
  BY <1>2
<1> QED
  BY <1>1, <1>3, <1>4, <1>5
-----------------------------------------------------------------------------
(* Who was there.                                                          *)

LEMMA ShiftFields ==
  ASSUME NEW r \in Shift
  PROVE  /\ r.user \in Users /\ r.machine \in Machines \union {NoMachine}
         /\ r.starts \in 0 .. MaxTime /\ r.ends \in 0 .. Open
BY DEF Shift

LEMMA PeopleAreUsers ==
  ASSUME IInv, NEW m, NEW start, NEW end
  PROVE  /\ {r.user : r \in WorkingAt(start, m)} \in SUBSET Users
         /\ Personnel(m, start, end) \in SUBSET Users
<1>1. \A r \in shifts : r.user \in Users
  BY ShiftFields DEF IInv, TypeOK
<1> QED
  BY <1>1 DEF WorkingAt, WorkingBetween, Personnel

\* The shifts of an instant gone by.
LEMMA AtStartFromShifts ==
  ASSUME IInv, Sessions, NEW m \in Machines \ gone, NEW start \in 0 .. now - 1, NEW row,
         row.machine = m, row.start = start,
         row.people = {r.user : r \in WorkingAt(start, m)}
  PROVE  AtStart(row)
<1>1. now \in 0 .. MaxTime /\ MaxTime \in Nat /\ Open = MaxTime + 1
  BY BoundAssumption DEF IInv, TypeOK, Open
<1>2. ASSUME NEW u \in Users, <<u, m, start>> \in was
      PROVE  u \in row.people
  <2>1. PICK r \in shifts : r.user = u /\ Session(r, m, start)
    BY <1>1, <1>2 DEF Sessions
  <2>2. r.starts \in 0 .. MaxTime /\ r.ends \in 0 .. Open
    BY ShiftFields DEF IInv, TypeOK
  <2>3. r \in WorkingAt(start, m)
    BY <1>1, <2>1, <2>2 DEF Session, WorkingAt
  <2> QED
    BY <2>1, <2>3
<1>3. ASSUME NEW r \in WorkingAt(start, m)
      PROVE  \E t \in start - 1 .. start : <<r.user, m, t>> \in was
  <2>1. /\ r \in shifts /\ r.machine = m /\ r.starts <= start /\ r.ends >= start
        /\ r.user \in Users /\ r.starts \in 0 .. MaxTime /\ r.ends \in 0 .. Open
    BY ShiftFields DEF IInv, TypeOK, WorkingAt
  <2>2. CASE start < r.ends
    <3>1. Session(r, m, start)
      BY <2>1, <2>2 DEF Session
    <3>2. <<r.user, m, start>> \in was
      BY <1>1, <2>1, <3>1 DEF Sessions
    <3> QED
      BY <3>2
  <2>3. CASE r.ends = start
    <3>1. r.starts < r.ends
      BY <1>1, <2>1, <2>3 DEF Sessions
    <3>2. Session(r, m, start - 1) /\ start - 1 \in 0 .. MaxTime /\ start - 1 < now
      BY <1>1, <2>1, <2>3, <3>1 DEF Session
    <3>3. <<r.user, m, start - 1>> \in was
      BY <2>1, <3>2 DEF Sessions
    <3> QED
      BY <3>3
  <2> QED
    BY <1>1, <2>1, <2>2, <2>3
<1>4. \A t \in start .. start : t = start
  OBVIOUS
<1>5. There(m, start, start) \subseteq row.people
  BY <1>2, <1>4 DEF There
<1>6. row.people \subseteq There(m, start - 1, start)
  <2>1. \A r \in WorkingAt(start, m) : r.user \in Users
    BY ShiftFields DEF IInv, TypeOK, WorkingAt
  <2> QED
    BY <1>3, <2>1 DEF There
<1> QED
  BY <1>5, <1>6 DEF AtStart

LEMMA CaseStartFromShifts ==
  ASSUME IInv, Sessions, NEW m \in Machines \ gone, NEW start \in 0 .. now - 1, NEW row,
         row.machine = m, row.start = start,
         row.people = {r.user : r \in WorkingAt(start, m)} \intersect Named
  PROVE  CaseStart(row)
<1>1. PICK all : all = [machine |-> m, start |-> start,
                        people |-> {r.user : r \in WorkingAt(start, m)}]
  OBVIOUS
<1>2. /\ all.machine = m /\ all.start = start
      /\ all.people = {r.user : r \in WorkingAt(start, m)}
  BY <1>1
<1>3. AtStart(all)
  BY <1>2, AtStartFromShifts
<1> QED
  BY <1>2, <1>3 DEF AtStart, CaseStart

\* resolve_personnel tells who was there.
LEMMA PersonnelWereThere ==
  ASSUME IInv, Sessions, NEW m \in Machines \ gone, NEW start \in 0 .. now - 1,
         NEW end \in (0 .. now) \union {Open}, start <= end, NEW row,
         row.machine = m, row.start = start, row.end = end,
         row.people = Personnel(m, start, end)
  PROVE  BagPeople(row)
<1>1. now \in 0 .. MaxTime /\ MaxTime \in Nat /\ Open = MaxTime + 1
  BY BoundAssumption DEF IInv, TypeOK, Open
<1>2. end = Open \/ end <= now
  BY <1>1
<1>3. CASE end = Open \/ end = start
  <2>1. row.people = {r.user : r \in WorkingAt(start, m)}
    BY <1>1, <1>3 DEF Personnel
  <2> QED
    BY <1>2, <1>3, <2>1, AtStartFromShifts DEF BagPeople
<1>4. CASE end # Open /\ end # start
  <2>2. end \in 0 .. now /\ start < end
    BY <1>1, <1>2, <1>4
  <2>1. row.people = {r.user : r \in WorkingBetween(start, end, m)}
    BY <1>1, <1>4, <2>2 DEF Personnel
  <2>3. ASSUME NEW r \in WorkingBetween(start, end, m)
        PROVE  r.user \in There(m, start, end - 1)
    <3>1. /\ r \in shifts /\ r.machine = m /\ r.starts < end /\ r.ends > start
          /\ r.user \in Users /\ r.starts \in 0 .. MaxTime /\ r.ends \in 0 .. Open
      BY ShiftFields DEF IInv, TypeOK, WorkingBetween
    <3>2. r.starts < r.ends
      BY <1>1, <3>1 DEF Sessions
    <3>3. PICK t \in start .. end - 1 : r.starts <= t /\ t < r.ends
      <4>1. CASE start <= r.starts
        <5>1. r.starts \in start .. end - 1 /\ r.starts <= r.starts
          BY <1>1, <2>2, <3>1, <4>1
        <5> QED
          BY <3>2, <5>1
      <4>2. CASE r.starts < start
        <5>1. start \in start .. end - 1 /\ r.starts <= start
          BY <1>1, <2>2, <3>1, <4>2
        <5> QED
          BY <3>1, <5>1
      <4> QED
        BY <1>1, <3>1, <4>1, <4>2
    <3>4. Session(r, m, t) /\ t \in 0 .. MaxTime /\ t < now
      BY <1>1, <2>2, <3>1, <3>3 DEF Session
    <3>5. <<r.user, m, t>> \in was
      BY <3>1, <3>4 DEF Sessions
    <3> QED
      BY <3>1, <3>5 DEF There
  <2>4. ASSUME NEW u \in There(m, start, end - 1)
        PROVE  \E r \in WorkingBetween(start, end, m) : r.user = u
    <3>1. u \in Users
      BY DEF There
    <3>2. PICK t \in start .. end - 1 : <<u, m, t>> \in was
      BY DEF There
    <3>3. t \in 0 .. MaxTime
      BY <1>1, <2>2
    <3>4. PICK r \in shifts : r.user = u /\ Session(r, m, t)
      BY <3>1, <3>2, <3>3 DEF Sessions
    <3>5. r.starts \in 0 .. MaxTime /\ r.ends \in 0 .. Open
      BY ShiftFields DEF IInv, TypeOK
    <3>6. r \in WorkingBetween(start, end, m)
      BY <1>1, <2>2, <3>4, <3>5 DEF Session, WorkingBetween
    <3> QED
      BY <3>4, <3>6
  <2>5. row.people = There(m, start, end - 1)
    BY <2>1, <2>3, <2>4
  <2> QED
    BY <1>2, <1>4, <2>5 DEF BagPeople
<1> QED
  BY <1>3, <1>4
-----------------------------------------------------------------------------
(* Steps that only move one request.                                       *)

LEMMA Instants ==
  ASSUME IInv
  PROVE  now \in 0 .. MaxTime /\ MaxTime \in Nat /\ Open = MaxTime + 1
BY BoundAssumption DEF IInv, TypeOK, Open

LEMMA TypeFacts ==
  ASSUME IInv
  PROVE  /\ bag \in [Bags -> BagRow] /\ case \in [Cases -> CaseRow]
         /\ \A b \in Bags : bag[b].number # 0 => BagOK(bag[b])
         /\ \A b \in Bags : bag[b].number = 0 => bag[b] = NewBag
         /\ \A c \in Cases : case[c].number # 0 => CaseOK(case[c])
         /\ \A c \in Cases : case[c].kind \in {"REC", "NC"} => CaseOK(case[c])
         /\ DOMAIN tx = Workers
<1>1. ASSUME NEW c \in Cases, case[c].number # 0 PROVE CaseOK(case[c])
  <2>1. CASE case[c].kind \in {"REC", "NC"}
    BY <2>1 DEF IInv, RowsOK
  <2>2. CASE case[c].kind \notin {"REC", "NC"}
    <3>1. case[c] = [NewCase EXCEPT !.kind = case[c].kind]
      BY <2>2 DEF IInv, RowsOK
    <3>2. case[c].kind = "none" \/ case[c].kind = "gone"
      BY <2>2 DEF IInv, TypeOK, CaseRow
    <3>3. case[c].number = 0
      BY <3>1, <3>2 DEF NewCase
    <3> QED
      BY <1>1, <3>3
  <2> QED
    BY <2>1, <2>2
<1> QED
  BY <1>1 DEF IInv, RequestsOK, RowsOK, TypeOK

\* What a request becomes, and nothing else.
Moves(w, r) ==
  /\ tx' = [tx EXCEPT ![w] = r] /\ RequestOK(r) /\ Fits(r)
  /\ \A v \in Workers : v # w => Pair(r, tx[v])
  /\ UNCHANGED <<now, at, was, shifts, gone, bag, case, events>>
  /\ Serial => Loaded(r)
  /\ Sessions /\ Serial /\ Watched => Watching(r)

LEMMA LoadClockFacts ==
  ASSUME IInv, NEW w \in Workers, NEW act, act = "login" \/ act = "logout", LoadClock(w, act)
  PROVE  \E r : Moves(w, r)
<1>1. PICK u \in Users, m \in Machines :
        /\ \A r \in shifts : r.user = u => r.starts < now
        /\ Begin(w, [act |-> act, user |-> u, machine |-> m, rows |-> OpenRows(u),
                     held |-> FALSE])
        /\ UNCHANGED <<now, at, was, shifts, gone, bag, case, events>>
  BY DEF LoadClock
<1>2. OpenRows(u) \in SUBSET Shift
  BY DEF IInv, TypeOK, OpenRows
<1> DEFINE r == [act |-> act, user |-> u, machine |-> m, rows |-> OpenRows(u), held |-> FALSE]
<1>3. r.act = act /\ r.user = u /\ r.rows = OpenRows(u) /\ tx' = [tx EXCEPT ![w] = r]
  BY <1>1 DEF Begin
<1>4. RequestOK(r)
  BY <1>2 DEF RequestOK
<1> HIDE DEF r
<1>5. \A x \in OpenRows(u) : x.starts < now
  BY <1>1 DEF OpenRows
<1>6. Fits(r) /\ Loaded(r) /\ \A v \in Workers : Pair(r, tx[v])
  BY <1>3, <1>5 DEF Fits, Loaded, Pair
<1>7. Watching(r)
  BY <1>1, <1>3 DEF Watching
<1> QED
  BY <1>1, <1>3, <1>4, <1>6, <1>7 DEF Moves

HeldRequest(q, rows) == [q EXCEPT !.rows = rows, !.held = TRUE]

LEMMA RequestHeld ==
  ASSUME NEW a \in {"login", "logout"}, NEW u \in Users, NEW m \in Machines,
         NEW rows \in SUBSET Shift, NEW held \in BOOLEAN, NEW left \in SUBSET Shift, NEW q,
         q = [act |-> a, user |-> u, machine |-> m, rows |-> rows, held |-> held]
  PROVE  \E r : /\ r = HeldRequest(q, left)
                /\ r = [act |-> a, user |-> u, machine |-> m, rows |-> left, held |-> TRUE]
                /\ r.act = a /\ r.user = u /\ r.rows = left
<1>1. PICK r : r = HeldRequest(q, left)
  OBVIOUS
<1>2. q \in [act : {"login", "logout"}, user : Users, machine : Machines, rows : SUBSET Shift,
            held : BOOLEAN]
  OBVIOUS
<1>3. q.act = a /\ q.user = u /\ q.machine = m
  OBVIOUS
<1>4. r = [act |-> q.act, user |-> q.user, machine |-> q.machine, rows |-> left, held |-> TRUE]
  BY <1>1, <1>2 DEF HeldRequest
<1>5. r.act = a /\ r.user = u /\ r.rows = left
  BY <1>3, <1>4
<1> QED
  BY <1>1, <1>3, <1>4, <1>5

LEMMA CloseShiftsFacts ==
  ASSUME IInv, NEW w \in Workers, CloseShifts(w)
  PROVE  \E r : Moves(w, r)
<1>1. PICK q : q = tx[w]
  OBVIOUS
<1>2. RequestOK(q) /\ Fits(q)
  BY <1>1 DEF IInv, RequestsOK
<1>3. q.act = "login" \/ q.act = "logout"
  BY <1>1 DEF CloseShifts
<1>4. PICK a \in {"login", "logout"}, u \in Users, m \in Machines, rows \in SUBSET Shift,
           held \in BOOLEAN :
        q = [act |-> a, user |-> u, machine |-> m, rows |-> rows, held |-> held]
  <2>1. q # Idle
    BY <1>3 DEF Idle
  <2>2. ASSUME NEW x \in {"new bag", "save bag"}, NEW b \in Bags, NEW row \in BagRow,
               q = [act |-> x, bag |-> b, row |-> row]
        PROVE  FALSE
    <3>1. q.act = x
      BY <2>2
    <3> QED
      BY <1>3, <3>1
  <2>3. ~(\E b \in Bags, row \in BagRow, sent \in SUBSET Dated :
            q = [act |-> "compare", bag |-> b, row |-> row, sent |-> sent])
    BY <1>3
  <2>4. ~(\E x \in {"shipped", "verified"}, b \in Bags : q = [act |-> x, bag |-> b])
    BY <1>3
  <2>5. ASSUME NEW x \in {"REC", "NC", "save case"}, NEW c \in Cases, NEW row \in CaseRow,
               q = [act |-> x, case |-> c, row |-> row]
        PROVE  FALSE
    <3>1. q.act = x
      BY <2>5
    <3> QED
      BY <1>3, <3>1
  <2>6. ASSUME NEW c \in Cases, NEW row \in CaseRow, NEW b \in Bags \union {NoBag},
               q = [act |-> "compare case", case |-> c, row |-> row, bag |-> b]
        PROVE  FALSE
    <3>1. q.act = "compare case"
      BY <2>6
    <3> QED
      BY <1>3, <3>1
  <2> QED
    BY <1>2, <2>1, <2>2, <2>3, <2>4, <2>5, <2>6 DEF RequestOK
<1>5. PICK left \in SUBSET Shift : left = rows \intersect shifts
  OBVIOUS
<1>6. q.act = a /\ q.user = u /\ q.rows = rows
  BY <1>4
<1>7. PICK r : /\ r = HeldRequest(q, left)
               /\ r = [act |-> a, user |-> u, machine |-> m, rows |-> left, held |-> TRUE]
               /\ r.act = a /\ r.user = u /\ r.rows = left
  BY <1>4, RequestHeld
<1>8. tx' = [tx EXCEPT ![w] = r]
  BY <1>1, <1>5, <1>6, <1>7, TypeFacts DEF CloseShifts, HeldRequest
<1>9. RequestOK(r)
  BY <1>7 DEF RequestOK
<1>10. Fits(r) /\ Loaded(r) /\ \A v \in Workers : Pair(r, tx[v])
  BY <1>2, <1>5, <1>6, <1>7 DEF Fits, Loaded, Pair
<1>11. Watched => Watching(r)
  <2>1. SUFFICES ASSUME Watched PROVE Watching(r)
    OBVIOUS
  <2>2. Watching(q)
    BY <1>1, <2>1 DEF Watched
  <2>3. rows = OpenRows(u) /\ \A x \in shifts : x.user = u => x.starts < now
    BY <1>3, <1>6, <2>2 DEF Watching
  <2>4. left = OpenRows(u)
    BY <1>5, <2>3 DEF OpenRows
  <2> QED
    BY <1>7, <2>3, <2>4 DEF Watching
<1>12. UNCHANGED <<now, at, was, shifts, gone, bag, case, events>>
  BY DEF CloseShifts
<1> QED
  BY <1>8, <1>9, <1>10, <1>11, <1>12 DEF Moves

LEMMA LoadCreateBagFacts ==
  ASSUME IInv, NEW w \in Workers, LoadCreateBag(w)
  PROVE  \E r : Moves(w, r)
<1>1. PICK b \in Bags, m \in Machines \ gone, start \in 0 .. now - 1,
           end \in (0 .. now) \union {Open} :
        /\ bag[b].number = 0 /\ start <= end
        /\ ~InFlight(w, "new bag", NextNumber(BagNumbers))
        /\ Begin(w, [act |-> "new bag", bag |-> b,
                     row |-> [NewBag EXCEPT !.number = NextNumber(BagNumbers), !.machine = m,
                                !.start = start, !.end = end,
                                !.people = Personnel(m, start, end)]])
        /\ UNCHANGED <<now, at, was, shifts, gone, bag, case, events>>
  BY DEF LoadCreateBag
<1>2. PICK n : n = NextNumber(BagNumbers)
  OBVIOUS
<1>3. n \in Nat /\ n # 0
  BY <1>2, FS_CardinalityType DEF NextNumber, IInv, NumbersOK
<1>4. start \in 0 .. MaxTime /\ end \in 0 .. Open
  BY Instants
<1>5. PICK people \in SUBSET Users : people = Personnel(m, start, end)
  BY PeopleAreUsers
<1>6. PICK row \in BagRow :
        /\ row = NewRow(n, m, start, end, people)
        /\ row.number = n /\ row.machine = m /\ row.start = start /\ row.end = end
        /\ row.people = people /\ ~row.shipped /\ ~row.verified
  BY <1>3, <1>4, <1>5, NewBagRow
<1> DEFINE r == [act |-> "new bag", bag |-> b, row |-> row]
<1>7. r.act = "new bag" /\ r.bag = b /\ r.row = row
  OBVIOUS
<1>8. tx' = [tx EXCEPT ![w] = r]
  BY <1>1, <1>2, <1>5, <1>6 DEF Begin, NewRow
<1>9. RequestOK(r)
  BY DEF RequestOK
<1> HIDE DEF r
<1>10. m # NoMachine /\ start < now
  BY Instants, NullAssumption
<1>11. BagOK(row)
  BY <1>1, <1>3, <1>6, <1>10 DEF BagOK
<1>12. Fits(r)
  BY <1>1, <1>2, <1>6, <1>7, <1>11 DEF Fits
<1>13. Loaded(r)
  BY <1>7 DEF Loaded
<1>14. ASSUME NEW v \in Workers, v # w PROVE Pair(r, tx[v])
  <2>1. PICK q : q = tx[v]
    OBVIOUS
  <2>2. q.act # "new bag"
    <3>1. q.act = "new bag" => q.row.number = n
      BY <1>2, <2>1 DEF IInv, RequestsOK, Fits
    <3> QED
      BY <1>1, <1>2, <1>14, <2>1, <3>1 DEF InFlight
  <2> QED
    BY <1>7, <2>1, <2>2 DEF Pair
<1>15. Sessions => BagPeople(row)
  BY <1>1, <1>5, <1>6, PersonnelWereThere
<1>16. Sessions => Watching(r)
  BY <1>7, <1>15 DEF Watching
<1> QED
  BY <1>1, <1>8, <1>9, <1>12, <1>13, <1>14, <1>16 DEF Moves

LEMMA LoadEditBagFacts ==
  ASSUME IInv, NEW w \in Workers, LoadEditBag(w)
  PROVE  \E r : Moves(w, r)
<1>1. PICK b \in Bags, sent \in SUBSET Dated :
        /\ bag[b].number # 0
        /\ \E m \in Values(b, "machine", sent), start \in Values(b, "start", sent),
              end \in Values(b, "end", sent) :
             /\ start <= end
             /\ Begin(w, [act |-> "compare", bag |-> b, row |-> EditedRow(b, m, start, end),
                          sent |-> sent])
  BY DEF LoadEditBag
<1>2. PICK old \in BagRow : old = bag[b]
  BY TypeFacts
<1>3. /\ BagOK(old) /\ old.machine \in Machines /\ old.start \in 0 .. MaxTime
      /\ old.end \in 0 .. Open /\ old.people \in SUBSET Users
  BY <1>1, <1>2, TypeFacts DEF BagOK, BagRow
<1>20. PICK m \in Values(b, "machine", sent), start \in Values(b, "start", sent),
           end \in Values(b, "end", sent) :
         /\ start <= end
         /\ Begin(w, [act |-> "compare", bag |-> b, row |-> EditedRow(b, m, start, end),
                      sent |-> sent])
  BY <1>1
<1>4. /\ m \in IF "machine" \in sent THEN Machines \ gone ELSE {old.machine}
      /\ start \in IF "start" \in sent THEN 0 .. now - 1 ELSE {old.start}
      /\ end \in IF "end" \in sent THEN (0 .. now) \union {Open} ELSE {old.end}
  BY <1>2, <1>20 DEF Values, Sendable
<1>5. m \in Machines /\ m # NoMachine
  BY <1>3, <1>4, NullAssumption
<1>6. start \in 0 .. MaxTime /\ start < now
  BY <1>3, <1>4, Instants DEF BagOK
<1>7. end \in 0 .. Open
  BY <1>3, <1>4, Instants
<1>8. PICK row \in BagRow :
        /\ row = ChangedRow(old, m, start, end, old.people)
        /\ row.machine = m /\ row.start = start /\ row.end = end /\ row.people = old.people
        /\ row.number = old.number
        /\ row.shipped = old.shipped /\ row.verified = old.verified
  BY <1>3, <1>5, <1>6, <1>7, ChangedBagRow
<1>9. row = EditedRow(b, m, start, end)
  BY <1>2, <1>8 DEF ChangedRow, EditedRow, BagRow
<1> DEFINE r == [act |-> "compare", bag |-> b, row |-> row, sent |-> sent]
<1>10. r.act = "compare" /\ r.bag = b /\ r.row = row /\ r.sent = sent
  OBVIOUS
<1>11. tx' = [tx EXCEPT ![w] = r] /\ row.start <= row.end
  BY <1>8, <1>9, <1>20 DEF Begin
<1>12. RequestOK(r)
  BY DEF RequestOK
<1> HIDE DEF r
<1>13. BagOK(row)
  BY <1>3, <1>5, <1>6, <1>8, <1>11 DEF BagOK
<1>14. Fits(r)
  BY <1>2, <1>8, <1>10, <1>13 DEF Fits
<1>15. Unsent(row, old, sent)
  BY <1>4, <1>8 DEF Unsent
<1>16. Loaded(r) /\ \A v \in Workers : Pair(r, tx[v])
  BY <1>2, <1>8, <1>10, <1>15 DEF Loaded, Pair
<1>17. Watched => end = Open \/ end <= now
  <2>1. Watched => old.end = Open \/ old.end <= now
    BY <1>1, <1>2 DEF Watched, BagPeople
  <2> QED
    BY <1>4, <2>1, Instants
<1>18. Watched => Watching(r)
  BY <1>8, <1>10, <1>17 DEF Watching
<1>19. UNCHANGED <<now, at, was, shifts, gone, bag, case, events>>
  BY DEF LoadEditBag
<1> QED
  BY <1>11, <1>12, <1>14, <1>16, <1>18, <1>19 DEF Moves

LEMMA LoadStampFacts ==
  ASSUME IInv, NEW w \in Workers, NEW act, act = "shipped" \/ act = "verified",
         LoadStamp(w, act)
  PROVE  \E r : Moves(w, r)
<1>1. PICK b \in Bags :
        /\ bag[b].number # 0 /\ ~bag[b][act]
        /\ Begin(w, [act |-> act, bag |-> b])
        /\ UNCHANGED <<now, at, was, shifts, gone, bag, case, events>>
  BY DEF LoadStamp
<1> DEFINE r == [act |-> act, bag |-> b]
<1>2. r.act = act /\ r.bag = b /\ tx' = [tx EXCEPT ![w] = r]
  BY <1>1 DEF Begin
<1>3. RequestOK(r)
  BY DEF RequestOK
<1> HIDE DEF r
<1>4. act = "shipped" => ~bag[b].shipped
  BY <1>1
<1>5. act = "verified" => ~bag[b].verified
  BY <1>1
<1>6. Fits(r) /\ Loaded(r) /\ Watching(r)
  BY <1>1, <1>2, <1>4, <1>5 DEF Fits, Loaded, Watching
<1>7. \A v \in Workers : Pair(r, tx[v])
  BY <1>2 DEF Pair
<1> QED
  BY <1>1, <1>2, <1>3, <1>6, <1>7 DEF Moves

\* Two requests that have loaded the same case.
LEMMA SameCase ==
  ASSUME IInv, NEW r, NEW c \in Cases, r.act \in {"compare case", "save case"}, r.case = c,
         case[c].number # 0, r.row.kind = case[c].kind, r.row.number = case[c].number,
         NEW v \in Workers
  PROVE  Pair(r, tx[v])
<1>1. PICK q : q = tx[v]
  OBVIOUS
<1>2. q.act \in {"compare case", "save case"} /\ q.case = c =>
        q.row.kind = case[c].kind /\ q.row.number = case[c].number
  <2>1. case[c].kind # "gone"
    BY TypeFacts DEF CaseOK
  <2>2. Fits(q)
    BY <1>1 DEF IInv, RequestsOK
  <2> QED
    BY <2>1, <2>2 DEF Fits
<1> QED
  BY <1>1, <1>2 DEF Pair

\* The numbers of the cases of a kind.
LEMMA NumbersFinite ==
  ASSUME NEW kind, IsFiniteSet(OfKind(kind))
  PROVE  /\ CaseNumbers(kind) = {case[c].number : c \in OfKind(kind)}
         /\ IsFiniteSet(CaseNumbers(kind))
<1>1. CaseNumbers(kind) = {case[c].number : c \in OfKind(kind)}
  BY DEF CaseNumbers, OfKind
<1> DEFINE f == [c \in OfKind(kind) |-> case[c].number]
<1>2. f \in Surjection(OfKind(kind), CaseNumbers(kind))
  BY <1>1 DEF Surjection
<1> HIDE DEF f
<1>3. IsFiniteSet(CaseNumbers(kind))
  BY <1>2, FS_Surjection
<1> QED
  BY <1>1, <1>3

\* What a case takes over from a bag.
LEMMA AboutFacts ==
  ASSUME IInv, NEW old \in CaseRow, NEW b \in Recorded
  PROVE  \E row \in CaseRow :
           /\ row = AboutBag(old, b)
           /\ row.kind = old.kind /\ row.number = old.number /\ row.closed = old.closed
           /\ Sessions => CasePeople(row)
<1>1. CASE b = NoBag
  <2>1. AboutBag(old, b) = MovedCase(old, b, NoMachine, 0, {})
    BY <1>1 DEF AboutBag, MovedCase
  <2>2. 0 \in 0 .. MaxTime /\ {} \in SUBSET Users /\ NoMachine \in Machines \union {NoMachine}
        /\ b \in Bags \union {NoBag}
    BY <1>1, Instants
  <2>3. PICK row \in CaseRow :
          /\ row = MovedCase(old, b, NoMachine, 0, {})
          /\ row.kind = old.kind /\ row.number = old.number /\ row.closed = old.closed
          /\ row.machine = NoMachine /\ row.start = 0 /\ row.people = {}
    BY <2>2, CaseMoved
  <2>4. CasePeople(row)
    BY <2>3 DEF CasePeople
  <2> QED
    BY <2>1, <2>3, <2>4
<1>2. CASE b # NoBag
  <2>1. b \in Bags /\ bag[b].number # 0
    BY <1>2 DEF Recorded
  <2>2. PICK r \in BagRow : r = bag[b]
    BY <2>1, TypeFacts
  <2>3. BagOK(r)
    BY <2>1, <2>2, TypeFacts
  <2>4. r.machine \in Machines /\ r.start \in 0 .. MaxTime /\ r.start \in 0 .. now - 1
    BY <2>3, Instants DEF BagOK, BagRow
  <2>11. r.machine \in Machines \ gone
    BY <2>1, <2>2 DEF IInv, TypeOK
  <2>5. PICK people \in SUBSET Users :
          people = {x.user : x \in WorkingAt(r.start, r.machine)} \intersect Named
    BY PeopleAreUsers
  <2>6. AboutBag(old, b) = MovedCase(old, b, r.machine, r.start, people)
    BY <1>2, <2>2, <2>5 DEF AboutBag, MovedCase
  <2>7. b \in Bags \union {NoBag} /\ r.machine \in Machines \union {NoMachine}
    BY <2>1, <2>4
  <2>8. PICK row \in CaseRow :
          /\ row = MovedCase(old, b, r.machine, r.start, people)
          /\ row.kind = old.kind /\ row.number = old.number /\ row.closed = old.closed
          /\ row.machine = r.machine /\ row.start = r.start /\ row.people = people
    BY <2>4, <2>7, CaseMoved
  <2>9. Sessions => CaseStart(row)
    BY <2>4, <2>5, <2>8, <2>11, CaseStartFromShifts
  <2>10. Sessions => CasePeople(row)
    BY <2>3, <2>8, <2>9 DEF CasePeople, BagOK
  <2> QED
    BY <2>3, <2>6, <2>8, <2>10 DEF BagOK
<1> QED
  BY <1>1, <1>2

LEMMA LoadCreateCaseFacts ==
  ASSUME IInv, NEW w \in Workers, LoadCreateCase(w)
  PROVE  \E r : Moves(w, r)
<1>1. PICK c \in Cases, kind \in {"REC", "NC"}, b \in Recorded :
        /\ case[c].kind = "none"
        /\ \A v \in Workers : tx[v].act \in {"REC", "NC"} => tx[v].case # c
        /\ ~InFlight(w, kind, NextNumber(CaseNumbers(kind)))
        /\ Begin(w, [act |-> kind, case |-> c,
                     row |-> [AboutBag(NewCase, b) EXCEPT !.kind = kind,
                                !.number = NextNumber(CaseNumbers(kind))]])
        /\ UNCHANGED <<now, at, was, shifts, gone, bag, case, events>>
  BY DEF LoadCreateCase
<1>2. PICK n : n = NextNumber(CaseNumbers(kind))
  OBVIOUS
<1>3. n \in Nat /\ n # 0
  <2>1. IsFiniteSet(CaseNumbers(kind))
    BY NumbersFinite DEF IInv, NumbersOK
  <2> QED
    BY <1>2, <2>1, FS_CardinalityType DEF NextNumber
<1>4. PICK old \in CaseRow :
        /\ old = AboutBag(NewCase, b)
        /\ old.closed = NewCase.closed
        /\ Sessions => CasePeople(old)
  BY NewCaseOK, AboutFacts
<1>5. PICK row \in CaseRow :
        /\ row = MadeCase(old, kind, n)
        /\ row.kind = kind /\ row.number = n /\ row.closed = old.closed
        /\ row.machine = old.machine /\ row.start = old.start /\ row.people = old.people
  BY <1>3, CaseMade
<1> DEFINE r == [act |-> kind, case |-> c, row |-> row]
<1>6. r.act = kind /\ r.case = c /\ r.row = row
  OBVIOUS
<1>7. tx' = [tx EXCEPT ![w] = r]
  BY <1>1, <1>2, <1>4, <1>5 DEF Begin, MadeCase
<1>8. RequestOK(r)
  BY DEF RequestOK
<1> HIDE DEF r
<1>9. case[c] = NewCase
  <2>1. case[c] = [NewCase EXCEPT !.kind = "none"]
    BY <1>1 DEF IInv, RowsOK
  <2> QED
    BY <2>1 DEF NewCase
<1>10. CaseOK(row)
  BY <1>3, <1>4, <1>5 DEF CaseOK
<1>11. ~row.closed
  BY <1>4, <1>5, NewCaseOK
<1>12. Fits(r)
  BY <1>2, <1>5, <1>6, <1>9, <1>10, <1>11 DEF Fits
<1>13. Loaded(r)
  BY <1>6 DEF Loaded
<1>14. ASSUME NEW v \in Workers, v # w PROVE Pair(r, tx[v])
  <2>1. PICK q : q = tx[v]
    OBVIOUS
  <2>2. q.act = "REC" => q.row.number = NextNumber(CaseNumbers("REC"))
    BY <2>1 DEF IInv, RequestsOK, Fits
  <2>3. ~(q.act = "REC" /\ kind = "REC")
    BY <1>1, <1>14, <2>1, <2>2 DEF InFlight
  <2>4. q.act \in {"REC", "NC"} => q.case # c
    BY <1>1, <2>1
  <2> QED
    BY <1>6, <2>1, <2>3, <2>4 DEF Pair
<1>15. Sessions => CasePeople(row)
  BY <1>4, <1>5 DEF CasePeople, CaseStart
<1>16. Sessions => Watching(r)
  BY <1>6, <1>15 DEF Watching
<1> QED
  BY <1>1, <1>7, <1>8, <1>12, <1>13, <1>14, <1>16 DEF Moves

LEMMA LoadEditCaseFacts ==
  ASSUME IInv, NEW w \in Workers, LoadEditCase(w)
  PROVE  \E r : Moves(w, r)
<1>1. PICK c \in Cases, b \in Recorded :
        /\ case[c].number # 0
        /\ Begin(w, [act |-> "compare case", case |-> c, row |-> case[c], bag |-> b])
        /\ UNCHANGED <<now, at, was, shifts, gone, bag, case, events>>
  BY DEF LoadEditCase
<1>2. PICK row \in CaseRow : row = case[c]
  BY TypeFacts
<1> DEFINE r == [act |-> "compare case", case |-> c, row |-> row, bag |-> b]
<1>3. r.act = "compare case" /\ r.case = c /\ r.row = row /\ r.bag = b
  OBVIOUS
<1>4. tx' = [tx EXCEPT ![w] = r]
  BY <1>1, <1>2 DEF Begin
<1>5. RequestOK(r)
  BY DEF RequestOK, Recorded
<1> HIDE DEF r
<1>6. CaseOK(row)
  BY <1>1, <1>2, TypeFacts
<1>7. Fits(r)
  BY <1>1, <1>2, <1>3, <1>6 DEF Fits
<1>8. Loaded(r)
  BY <1>2, <1>3 DEF Loaded
<1>9. \A v \in Workers : Pair(r, tx[v])
  BY <1>1, <1>2, <1>3, SameCase
<1>10. Watched => Watching(r)
  BY <1>2, <1>3 DEF Watched, Watching
<1> QED
  BY <1>1, <1>4, <1>5, <1>7, <1>8, <1>9, <1>10 DEF Moves

LEMMA LoadCloseFacts ==
  ASSUME IInv, NEW w \in Workers, LoadClose(w)
  PROVE  \E r : Moves(w, r)
<1>1. PICK c \in Cases :
        /\ case[c].number # 0
        /\ Begin(w, [act |-> "save case", case |-> c, row |-> [case[c] EXCEPT !.closed = TRUE]])
        /\ UNCHANGED <<now, at, was, shifts, gone, bag, case, events>>
  BY DEF LoadClose
<1>2. PICK old \in CaseRow : old = case[c]
  BY TypeFacts
<1>3. PICK row \in CaseRow :
           /\ row = ShutCase(old)
           /\ row.kind = old.kind /\ row.number = old.number /\ row.closed
           /\ row.machine = old.machine /\ row.start = old.start /\ row.people = old.people
  BY CaseShut
<1> DEFINE r == [act |-> "save case", case |-> c, row |-> row]
<1>4. r.act = "save case" /\ r.case = c /\ r.row = row
  OBVIOUS
<1>5. tx' = [tx EXCEPT ![w] = r]
  BY <1>1, <1>2, <1>3 DEF Begin, ShutCase
<1>6. RequestOK(r)
  BY DEF RequestOK
<1> HIDE DEF r
<1>7. CaseOK(row)
  <2>1. CaseOK(old)
    BY <1>1, <1>2, TypeFacts
  <2> QED
    BY <1>3, <2>1 DEF CaseOK
<1>8. Fits(r)
  BY <1>1, <1>2, <1>3, <1>4, <1>7 DEF Fits
<1>9. Loaded(r)
  BY <1>3, <1>4 DEF Loaded
<1>10. \A v \in Workers : Pair(r, tx[v])
  BY <1>1, <1>2, <1>3, <1>4, SameCase
<1>11. Watched => Watching(r)
  <2>1. CasePeople(old) => CasePeople(row)
    BY <1>3 DEF CasePeople, CaseStart
  <2> QED
    BY <1>2, <1>4, <2>1 DEF Watched, Watching
<1> QED
  BY <1>1, <1>5, <1>6, <1>8, <1>9, <1>10, <1>11 DEF Moves

LEMMA CompareCaseFacts ==
  ASSUME IInv, NEW w \in Workers, CompareCase(w)
  PROVE  \E r : Moves(w, r)
<1>1. PICK q : q = tx[w]
  OBVIOUS
<1>2. q.act = "compare case" /\ RequestOK(q) /\ Fits(q)
  BY <1>1 DEF CompareCase, IInv, RequestsOK
<1>3. q.case \in Cases /\ q.row \in CaseRow /\ q.bag \in Bags \union {NoBag} /\ q.bag \in Recorded
  BY <1>2, RequestFacts DEF CaseActs, Fits
<1>4. PICK row \in CaseRow :
        /\ row = IF q.bag = case[q.case].bag THEN [q.row EXCEPT !.bag = q.bag]
                 ELSE AboutBag(q.row, q.bag)
        /\ row.kind = q.row.kind /\ row.number = q.row.number /\ row.closed = q.row.closed
        /\ CaseOK(row)
        /\ Sessions /\ CasePeople(q.row) => CasePeople(row)
  <2>1. CaseOK(q.row)
    BY <1>2 DEF Fits
  <2>2. PICK old \in CaseRow : old = q.row
    BY <1>3
  <2>3. CASE q.bag = case[q.case].bag
    <3>1. PICK row \in CaseRow :
           /\ row = SameBagCase(old, q.bag)
           /\ row.kind = old.kind /\ row.number = old.number /\ row.closed = old.closed
           /\ row.machine = old.machine /\ row.start = old.start /\ row.people = old.people
      BY <1>3, CaseSameBag
    <3>2. row = [q.row EXCEPT !.bag = q.bag]
      BY <2>2, <3>1 DEF SameBagCase
    <3>3. CaseOK(row) /\ (CasePeople(q.row) => CasePeople(row))
      BY <2>1, <2>2, <3>1 DEF CaseOK, CasePeople, CaseStart
    <3> QED
      BY <2>2, <2>3, <3>1, <3>2, <3>3
  <2>4. CASE q.bag # case[q.case].bag
    <3>1. PICK row \in CaseRow :
           /\ row = AboutBag(old, q.bag)
           /\ row.kind = old.kind /\ row.number = old.number /\ row.closed = old.closed
           /\ Sessions => CasePeople(row)
      BY <1>3, AboutFacts
    <3>2. CaseOK(row)
      BY <2>1, <2>2, <3>1 DEF CaseOK
    <3> QED
      BY <2>2, <2>4, <3>1, <3>2
  <2> QED
    BY <2>3, <2>4
<1> DEFINE r == [act |-> "save case", case |-> q.case, row |-> row]
<1>5. r.act = "save case" /\ r.case = q.case /\ r.row = row
  OBVIOUS
<1>6. tx' = [tx EXCEPT ![w] = r] /\ UNCHANGED <<now, at, was, shifts, gone, bag, case, events>>
  BY <1>1, <1>4 DEF CompareCase
<1>7. RequestOK(r)
  BY <1>3 DEF RequestOK
<1> HIDE DEF r
<1>8. Fits(r)
  BY <1>2, <1>4, <1>5 DEF Fits
<1>9. Serial => Loaded(r)
  BY <1>1, <1>2, <1>4, <1>5 DEF Serial, Loaded
<1>10. ASSUME NEW v \in Workers, v # w PROVE Pair(r, tx[v])
  <2>1. Pair(q, tx[v])
    BY <1>1, <1>10 DEF IInv, RequestsOK, RowsOK
  <2> QED
    BY <1>2, <1>4, <1>5, <2>1 DEF Pair
<1>11. Sessions /\ Watched => Watching(r)
  BY <1>1, <1>2, <1>4, <1>5 DEF Watched, Watching
<1> QED
  BY <1>6, <1>7, <1>8, <1>9, <1>10, <1>11 DEF Moves

LEMMA CompareBagFacts ==
  ASSUME IInv, NEW w \in Workers, CompareBag(w)
  PROVE  \E r : Moves(w, r)
<1>1. PICK q : q = tx[w]
  OBVIOUS
<1>2. q.act = "compare" /\ RequestOK(q) /\ Fits(q)
  BY <1>1 DEF CompareBag, IInv, RequestsOK
<1>3. q.bag \in Bags /\ q.row \in BagRow
  BY <1>2, RequestFacts DEF BagActs
<1>4. PICK old \in BagRow, again \in BagRow : old = q.row /\ again = bag[q.bag]
  BY <1>3, TypeFacts
<1>5. BagOK(old) /\ old.number = again.number
  BY <1>2, <1>4 DEF Fits
<1>6. PICK asked : asked = [f \in Dated |-> IF f \in q.sent THEN old[f] ELSE again[f]]
  OBVIOUS
<1>7. /\ asked.machine = IF "machine" \in q.sent THEN old.machine ELSE again.machine
      /\ asked.start = IF "start" \in q.sent THEN old.start ELSE again.start
      /\ asked.end = IF "end" \in q.sent THEN old.end ELSE again.end
  BY <1>6 DEF Dated
<1>8. PICK people \in SUBSET Users :
        people = IF \E f \in Dated : asked[f] # again[f]
                 THEN Personnel(asked.machine, asked.start, asked.end) ELSE old.people
  <2>1. old.people \in SUBSET Users
    BY DEF BagRow
  <2> QED
    BY <2>1, PeopleAreUsers
<1>9. /\ old.machine \in Machines \union {NoMachine} /\ old.start \in 0 .. MaxTime
      /\ old.end \in 0 .. Open
  BY DEF BagRow
<1>10. PICK row \in BagRow :
           /\ row = ChangedRow(old, old.machine, old.start, old.end, people)
           /\ row.machine = old.machine /\ row.start = old.start /\ row.end = old.end
           /\ row.people = people /\ row.number = old.number
           /\ row.shipped = old.shipped /\ row.verified = old.verified
  BY <1>8, <1>9, ChangedBagRow
<1>11. row = [old EXCEPT !.people = people]
  BY <1>10 DEF ChangedRow, BagRow
<1>12. Compared(w) = row
  <2>1. Compared(w) = IF \E f \in Dated : asked[f] # again[f]
                      THEN [old EXCEPT !.people = Personnel(asked.machine, asked.start, asked.end)]
                      ELSE old
    BY <1>1, <1>4, <1>6 DEF Compared
  <2>2. old = [old EXCEPT !.people = old.people]
    BY DEF BagRow
  <2> QED
    BY <1>8, <1>11, <2>1, <2>2
<1> DEFINE r == [act |-> "save bag", bag |-> q.bag, row |-> row]
<1>13. r.act = "save bag" /\ r.bag = q.bag /\ r.row = row
  OBVIOUS
<1>14. tx' = [tx EXCEPT ![w] = r] /\ UNCHANGED <<now, at, was, shifts, gone, bag, case, events>>
  BY <1>1, <1>12 DEF CompareBag
<1>15. RequestOK(r)
  BY <1>3 DEF RequestOK
<1> HIDE DEF r
<1>16. BagOK(row)
  BY <1>5, <1>10 DEF BagOK
<1>17. Fits(r)
  BY <1>4, <1>5, <1>10, <1>13, <1>16 DEF Fits
<1>18. Serial => /\ old.shipped = again.shipped /\ old.verified = again.verified
                 /\ old.people = again.people /\ Unsent(old, again, q.sent)
  BY <1>1, <1>2, <1>4 DEF Serial, Loaded
<1>19. Serial => Loaded(r)
  BY <1>4, <1>10, <1>13, <1>18 DEF Loaded
<1>20. \A v \in Workers : Pair(r, tx[v])
  BY <1>13 DEF Pair
<1>21. ASSUME Sessions, Serial, Watched, old.machine \notin gone PROVE BagPeople(row)
  <2>1. old.end = Open \/ old.end <= now
    BY <1>1, <1>2, <1>4, <1>21 DEF Watched, Watching
  <2>2. asked.machine = old.machine /\ asked.start = old.start /\ asked.end = old.end
    BY <1>7, <1>18, <1>21 DEF Unsent
  <2>3. CASE \E f \in Dated : asked[f] # again[f]
    <3>1. people = Personnel(old.machine, old.start, old.end)
      BY <1>8, <2>2, <2>3
    <3>2. /\ old.start \in 0 .. now - 1 /\ old.end \in (0 .. now) \union {Open}
          /\ old.start <= old.end
      BY <1>5, <1>9, <2>1, Instants DEF BagOK
    <3>3. old.machine \in Machines \ gone
      BY <1>5, <1>9, <1>21 DEF BagOK
    <3> QED
      BY <1>10, <1>21, <3>1, <3>2, <3>3, PersonnelWereThere
  <2>4. CASE \A f \in Dated : asked[f] = again[f]
    <3>1. again.machine = old.machine /\ again.start = old.start /\ again.end = old.end
      BY <2>2, <2>4 DEF Dated
    <3>2. people = again.people
      BY <1>8, <1>18, <1>21, <2>4
    <3>3. BagPeople(again)
      BY <1>3, <1>4, <1>5, <1>21 DEF Watched, BagOK
    <3> QED
      BY <1>10, <3>1, <3>2, <3>3 DEF BagPeople, AtStart
  <2> QED
    BY <2>3, <2>4
<1>22. Sessions /\ Serial /\ Watched => Watching(r)
  BY <1>10, <1>13, <1>21 DEF Watching
<1> QED
  BY <1>14, <1>15, <1>17, <1>19, <1>20, <1>22 DEF Moves

LEMMA AbortFacts ==
  ASSUME IInv, NEW w \in Workers, Abort(w)
  PROVE  \E r : Moves(w, r)
<1>1. tx' = [tx EXCEPT ![w] = Idle] /\ UNCHANGED <<now, at, was, shifts, gone, bag, case, events>>
  BY DEF Abort, End
<1>2. Loaded(Idle) /\ Watching(Idle)
  BY DEF Loaded, Watching, Idle
<1>3. Moves(w, Idle)
  BY <1>1, <1>2, IdleOK, IdlePair DEF Moves
<1> QED
  BY <1>3

LEMMA MoveFacts ==
  ASSUME IInv, NEW w \in Workers,
         LoadClock(w, "login") \/ LoadClock(w, "logout") \/ LoadCreateBag(w)
         \/ LoadEditBag(w) \/ CompareBag(w) \/ LoadStamp(w, "shipped")
         \/ LoadStamp(w, "verified") \/ LoadCreateCase(w) \/ LoadEditCase(w)
         \/ CompareCase(w) \/ LoadClose(w) \/ Abort(w) \/ CloseShifts(w)
  PROVE  \E r : Moves(w, r)
<1>1. "login" = "login" \/ "login" = "logout"
  OBVIOUS
<1>2. "logout" = "login" \/ "logout" = "logout"
  OBVIOUS
<1>3. "shipped" = "shipped" \/ "shipped" = "verified"
  OBVIOUS
<1>4. "verified" = "shipped" \/ "verified" = "verified"
  OBVIOUS
<1>5. CASE LoadClock(w, "login")
  BY <1>1, <1>5, LoadClockFacts
<1>6. CASE LoadClock(w, "logout")
  BY <1>2, <1>6, LoadClockFacts
<1>7. CASE LoadStamp(w, "shipped")
  BY <1>3, <1>7, LoadStampFacts
<1>8. CASE LoadStamp(w, "verified")
  BY <1>4, <1>8, LoadStampFacts
<1> QED
  BY <1>5, <1>6, <1>7, <1>8, CloseShiftsFacts, LoadCreateBagFacts, LoadEditBagFacts, CompareBagFacts,
     LoadCreateCaseFacts, LoadEditCaseFacts, CompareCaseFacts, LoadCloseFacts, AbortFacts
-----------------------------------------------------------------------------
(* What always holds.                                                      *)

LEMMA RowsUntouched ==
  ASSUME RowsOK, NumbersOK, UNCHANGED <<now, bag, case>>
  PROVE  /\ RowsOK' /\ NumbersOK'
         /\ \A r : Fits(r) => Fits(r)'
<1>1. RowsOK'
  BY DEF RowsOK, BagOK, CaseOK
<1>2. BagNumbers' = BagNumbers /\ \A kind : CaseNumbers(kind)' = CaseNumbers(kind)
  BY DEF BagNumbers, CaseNumbers
<1>3. \A kind : OfKind(kind)' = OfKind(kind)
  BY DEF OfKind
<1>4. NumbersOK'
  BY <1>2, <1>3 DEF NumbersOK
<1>5. Recorded' = Recorded
  BY DEF Recorded
<1>6. ASSUME NEW r, Fits(r) PROVE Fits(r)'
  <2>1. /\ NextNumber(BagNumbers)' = NextNumber(BagNumbers)
        /\ NextNumber(CaseNumbers("REC"))' = NextNumber(CaseNumbers("REC"))
    BY <1>2 DEF NextNumber
  <2>2. (BagOK(r.row)' <=> BagOK(r.row)) /\ (CaseOK(r.row)' <=> CaseOK(r.row))
    BY DEF BagOK, CaseOK
  <2> QED
    BY <1>5, <1>6, <2>1, <2>2 DEF Fits
<1> QED
  BY <1>1, <1>4, <1>6

LEMMA MoveInvariant ==
  ASSUME IInv, NEW w \in Workers, NEW r, Moves(w, r)
  PROVE  IInv'
<1>1. UNCHANGED <<now, at, was, shifts, gone, bag, case, events>> /\ tx' = [tx EXCEPT ![w] = r]
  BY DEF Moves
<1>2. TypeOK'
  BY <1>1 DEF IInv, TypeOK
<1>3. RowsOK' /\ NumbersOK' /\ \A q : Fits(q) => Fits(q)'
  BY <1>1, RowsUntouched DEF IInv
<1>4. /\ DOMAIN tx' = Workers /\ tx'[w] = r
      /\ \A v \in Workers : v # w => tx'[v] = tx[v]
  BY <1>1, Others DEF IInv, RequestsOK
<1>5. ASSUME NEW v \in Workers PROVE RequestOK(tx[v])' /\ Fits(tx[v])'
  <2>1. PICK q : q = tx'[v]
    OBVIOUS
  <2>2. RequestOK(q) /\ Fits(q)
    BY <1>4, <2>1 DEF Moves, IInv, RequestsOK
  <2>3. RequestOK(q)' /\ Fits(q)'
    BY <1>3, <2>2 DEF RequestOK
  <2> QED
    BY <2>1, <2>3
<1>6. ASSUME NEW u \in Workers, NEW v \in Workers, u # v PROVE Pair(tx'[u], tx'[v])
  <2>1. CASE u # w /\ v # w
    BY <1>4, <1>6, <2>1 DEF IInv, RequestsOK
  <2>2. CASE u = w
    BY <1>4, <1>6, <2>2 DEF Moves
  <2>3. CASE v = w
    <3>1. Pair(r, tx[u])
      BY <1>6, <2>3 DEF Moves
    <3> QED
      BY <1>4, <1>6, <2>3, <3>1, PairBoth
  <2> QED
    BY <2>1, <2>2, <2>3
<1>7. IsFiniteSet(Busy')
  BY <1>1, BusyStep DEF IInv, RequestsOK
<1> QED
  BY <1>2, <1>3, <1>4, <1>5, <1>6, <1>7 DEF IInv, RequestsOK

\* The requests that are left when one ends.
LEMMA EndRequests ==
  ASSUME IInv, NEW w \in Workers, tx' = [tx EXCEPT ![w] = Idle],
         \A r : RequestOK(r) /\ Fits(r) /\ (\E v \in Workers : v # w /\ tx[v] = r) => Fits(r)'
  PROVE  RequestsOK'
<1>1. /\ DOMAIN tx' = Workers /\ tx'[w] = Idle
      /\ \A v \in Workers : v # w => tx'[v] = tx[v]
  BY Others DEF IInv, RequestsOK
<1>2. ASSUME NEW v \in Workers PROVE RequestOK(tx[v])' /\ Fits(tx[v])'
  <2>1. PICK q : q = tx'[v]
    OBVIOUS
  <2>2. CASE v # w
    <3>1. q = tx[v] /\ RequestOK(q) /\ Fits(q)
      BY <1>1, <2>1, <2>2 DEF IInv, RequestsOK
    <3>2. Fits(q)' /\ RequestOK(q)'
      BY <2>2, <3>1 DEF RequestOK
    <3> QED
      BY <2>1, <3>2
  <2>3. CASE v = w
    <3>1. q = Idle /\ RequestOK(q)'
      BY <1>1, <2>1, <2>3, IdleOK DEF RequestOK
    <3>2. Fits(q)'
      BY <3>1 DEF Fits, Idle
    <3> QED
      BY <2>1, <3>1, <3>2
  <2> QED
    BY <2>2, <2>3
<1>3. ASSUME NEW u \in Workers, NEW v \in Workers, u # v PROVE Pair(tx'[u], tx'[v])
  BY <1>1, <1>3, IdlePair DEF IInv, RequestsOK
<1>4. IsFiniteSet(Busy')
  BY BusyStep DEF IInv, RequestsOK
<1> QED
  BY <1>1, <1>2, <1>3, <1>4 DEF RequestsOK

\* Numbers without a gap, and the next one.
LEMMA AddNext ==
  ASSUME NEW S, IsFiniteSet(S), S = 1 .. Cardinality(S), NEW T, T = S \union {Cardinality(S) + 1}
  PROVE  T = 1 .. Cardinality(T) /\ IsFiniteSet(T)
<1>1. Cardinality(S) \in Nat
  BY FS_CardinalityType
<1>2. Cardinality(S) + 1 \notin S
  BY <1>1
<1>3. IsFiniteSet(T) /\ Cardinality(T) = Cardinality(S) + 1
  BY <1>2, FS_AddElement
<1>4. 1 .. Cardinality(S) + 1 = (1 .. Cardinality(S)) \union {Cardinality(S) + 1}
  BY <1>1
<1> QED
  BY <1>3, <1>4

\* A bag is recorded, or a recorded one keeps its number.
BagMove(b, row) ==
  /\ bag' = [bag EXCEPT ![b] = row] /\ BagOK(row) /\ row.machine \notin gone
  /\ UNCHANGED <<now, gone, case>>
  /\ \/ bag[b].number = row.number
     \/ bag[b].number = 0 /\ row.number = NextNumber(BagNumbers)

LEMMA BagMoveRows ==
  ASSUME IInv, NEW b \in Bags, NEW row \in BagRow, BagMove(b, row)
  PROVE  /\ bag' \in [Bags -> BagRow] /\ RowsOK' /\ NumbersOK'
         /\ \A x \in Bags : bag'[x].number # 0 => bag'[x].machine \notin gone'
<1>1. /\ bag' \in [Bags -> BagRow] /\ bag'[b] = row
      /\ \A x \in Bags : x # b => bag'[x] = bag[x]
  BY TypeFacts DEF BagMove
<1>2. UNCHANGED <<now, case>> /\ BagOK(row) /\ row.number # 0
  BY DEF BagMove, BagOK
<1>3. RowsOK'
  <2>1. ASSUME NEW x \in Bags
        PROVE  IF bag'[x].number = 0 THEN bag'[x] = NewBag ELSE BagOK(bag[x])'
    <3>1. PICK y \in BagRow : y = bag'[x]
      BY <1>1
    <3>2. IF y.number = 0 THEN y = NewBag ELSE BagOK(y)
      <4>1. CASE x = b
        BY <1>1, <1>2, <3>1, <4>1
      <4>2. CASE x # b
        BY <1>1, <3>1, <4>2 DEF IInv, RowsOK
      <4> QED
        BY <4>1, <4>2
    <3>3. BagOK(y)' <=> BagOK(y)
      BY <1>2 DEF BagOK
    <3> QED
      BY <3>1, <3>2, <3>3 DEF BagOK
  <2> QED
    BY <1>2, <2>1 DEF IInv, RowsOK, CaseOK
<1>4. BagNumbers' = 1 .. Cardinality(BagNumbers') /\ IsFiniteSet(BagNumbers')
  <2>1. CASE bag[b].number = row.number
    <3>1. \A x \in Bags : bag'[x].number = bag[x].number
      BY <1>1, <2>1
    <3>2. BagNumbers' = BagNumbers
      BY <3>1 DEF BagNumbers
    <3> QED
      BY <3>2 DEF IInv, NumbersOK
  <2>2. CASE bag[b].number = 0 /\ row.number = NextNumber(BagNumbers)
    <3>1. PICK n : n = Cardinality(BagNumbers) + 1
      OBVIOUS
    <3>2. row.number = n
      BY <2>2, <3>1 DEF NextNumber
    <3>3. BagNumbers' = BagNumbers \union {n}
      BY <1>1, <1>2, <2>2, <3>2 DEF BagNumbers
    <3> QED
      BY <3>1, <3>3, AddNext DEF IInv, NumbersOK
  <2> QED
    BY <2>1, <2>2 DEF BagMove
<1>5. \A kind : CaseNumbers(kind)' = CaseNumbers(kind) /\ OfKind(kind)' = OfKind(kind)
  BY <1>2 DEF CaseNumbers, OfKind
<1>6. \A x \in Bags : bag'[x].number # 0 => bag'[x].machine \notin gone'
  <2>1. row.machine \notin gone /\ gone' = gone
    BY DEF BagMove
  <2>2. \A x \in Bags : bag[x].number # 0 => bag[x].machine \notin gone
    BY DEF IInv, TypeOK
  <2> QED
    BY <1>1, <2>1, <2>2
<1> QED
  BY <1>1, <1>3, <1>4, <1>5, <1>6 DEF IInv, NumbersOK

LEMMA BagMoveFits ==
  ASSUME IInv, NEW b \in Bags, NEW row \in BagRow, BagMove(b, row),
         NEW r, RequestOK(r), Fits(r), bag[b].number = 0 => r.act # "new bag"
  PROVE  Fits(r)'
<1>1. bag'[b] = row /\ \A x \in Bags : x # b => bag'[x] = bag[x]
  BY TypeFacts DEF BagMove
<1>2. UNCHANGED <<now, case>> /\ BagOK(row) /\ row.number # 0
  BY DEF BagMove, BagOK
<1>3. (BagOK(r.row)' <=> BagOK(r.row)) /\ (CaseOK(r.row)' <=> CaseOK(r.row))
  BY <1>2 DEF BagOK, CaseOK
<1>4. CASE bag[b].number = 0
  <2>1. r.act \in {"compare", "save bag", "shipped", "verified"} => r.bag \in Bags /\ r.bag # b
    <3>1. r.act \in {"compare", "save bag"} => bag[r.bag].number # 0
      BY DEF Fits, BagOK
    <3>2. r.act \in {"shipped", "verified"} => bag[r.bag].number # 0
      BY DEF Fits
    <3>3. r.act \in {"compare", "save bag", "shipped", "verified"} => r.bag \in Bags
      BY RequestFacts DEF BagActs
    <3> QED
      BY <1>4, <3>1, <3>2, <3>3
  <2>2. r.act # "new bag"
    BY <1>4
  <2>3. NextNumber(CaseNumbers("REC"))' = NextNumber(CaseNumbers("REC"))
    BY <1>2 DEF NextNumber, CaseNumbers
  <2>4. r.act = "compare case" => r.bag \in Recorded'
    BY <1>1, <1>2 DEF Fits, Recorded
  <2> QED
    BY <1>1, <1>2, <1>3, <2>1, <2>2, <2>3, <2>4 DEF Fits
<1>5. CASE bag[b].number # 0
  <2>1. \A x \in Bags : bag'[x].number = bag[x].number
    BY <1>1, <1>5 DEF BagMove
  <2>2. BagNumbers' = BagNumbers
    BY <2>1 DEF BagNumbers
  <2>3. /\ NextNumber(CaseNumbers("REC"))' = NextNumber(CaseNumbers("REC"))
        /\ NextNumber(BagNumbers)' = NextNumber(BagNumbers)
    BY <1>2, <2>2 DEF NextNumber, CaseNumbers
  <2>4. r.act = "compare case" => r.bag \in Recorded'
    BY <2>1 DEF Fits, Recorded
  <2>5. r.act \in {"new bag", "compare", "save bag", "shipped", "verified"} => r.bag \in Bags
    BY RequestFacts DEF BagActs
  <2> QED
    BY <1>2, <1>3, <2>1, <2>3, <2>4, <2>5 DEF Fits
<1> QED
  BY <1>4, <1>5

\* A case is recorded, keeps its kind and number, is deleted, or comes back.
CaseMove(c, row) ==
  /\ case' = [case EXCEPT ![c] = row] /\ UNCHANGED <<now, bag>>
  /\ \A d \in Cases : d # c /\ row.number # 0 =>
       ~(case[d].kind = row.kind /\ case[d].number = row.number)
  /\ \/ CaseOK(row) /\ case[c].kind = row.kind /\ case[c].number = row.number
     \/ CaseOK(row) /\ case[c] = NewCase
        /\ (row.kind = "REC" => row.number = NextNumber(CaseNumbers("REC")))
     \/ CaseOK(row) /\ case[c].kind = "gone" /\ row.kind = "NC"
     \/ case[c].kind = "NC" /\ row = [NewCase EXCEPT !.kind = "gone"]

LEMMA CaseMoveRows ==
  ASSUME IInv, NEW c \in Cases, NEW row \in CaseRow, CaseMove(c, row)
  PROVE  case' \in [Cases -> CaseRow] /\ RowsOK' /\ NumbersOK'
<1>1. /\ case' \in [Cases -> CaseRow] /\ case'[c] = row
      /\ \A d \in Cases : d # c => case'[d] = case[d]
  BY TypeFacts DEF CaseMove
<1>2. UNCHANGED <<now, bag>>
  BY DEF CaseMove
<1>3. CaseOK(row) \/ row = [NewCase EXCEPT !.kind = "gone"]
  BY DEF CaseMove
<1>4. ASSUME NEW d \in Cases
      PROVE  IF case'[d].kind \in {"REC", "NC"} THEN CaseOK(case[d])'
             ELSE case'[d] = [NewCase EXCEPT !.kind = case'[d].kind]
  <2>1. PICK y \in CaseRow : y = case'[d]
    BY <1>1
  <2>2. IF y.kind \in {"REC", "NC"} THEN CaseOK(y) ELSE y = [NewCase EXCEPT !.kind = y.kind]
    <3>1. CASE d = c
      <4>1. CASE CaseOK(row)
        BY <1>1, <2>1, <3>1, <4>1 DEF CaseOK
      <4>2. CASE row = [NewCase EXCEPT !.kind = "gone"]
        <5>1. row.kind = "gone"
          BY <4>2, GoneCase
        <5> QED
          BY <1>1, <2>1, <3>1, <4>2, <5>1
      <4> QED
        BY <1>3, <4>1, <4>2
    <3>2. CASE d # c
      BY <1>1, <2>1, <3>2 DEF IInv, RowsOK
    <3> QED
      BY <3>1, <3>2
  <2>3. CaseOK(y)' <=> CaseOK(y)
    BY DEF CaseOK
  <2> QED
    BY <2>1, <2>2, <2>3 DEF CaseOK
<1>5. ASSUME NEW d \in Cases, NEW e \in Cases, case'[d].kind = case'[e].kind,
             case'[d].number = case'[e].number, case'[d].number # 0
      PROVE  d = e
  <2>1. CASE d = c /\ e # c
    BY <1>1, <1>5, <2>1 DEF CaseMove
  <2>2. CASE e = c /\ d # c
    BY <1>1, <1>5, <2>2 DEF CaseMove
  <2>3. CASE d # c /\ e # c
    BY <1>1, <1>5, <2>3 DEF IInv, RowsOK
  <2> QED
    BY <2>1, <2>2, <2>3
<1>6. RowsOK'
  <2>1. \A b \in Bags : IF bag'[b].number = 0 THEN bag'[b] = NewBag ELSE BagOK(bag[b])'
    BY <1>2 DEF IInv, RowsOK, BagOK
  <2> QED
    BY <1>4, <1>5, <2>1 DEF RowsOK
<1>7. \A kind : OfKind(kind)' \in SUBSET (OfKind(kind) \union {c})
  BY <1>1 DEF OfKind
<1>8. \A kind : IsFiniteSet(OfKind(kind)) => IsFiniteSet(OfKind(kind)')
  <2> TAKE kind
  <2> HAVE IsFiniteSet(OfKind(kind))
  <2>1. IsFiniteSet(OfKind(kind) \union {c})
    BY FS_AddElement
  <2> QED
    BY <1>7, <2>1, FS_Subset
<1>9. /\ CaseNumbers("REC")' = 1 .. Cardinality(CaseNumbers("REC")')
      /\ IsFiniteSet(CaseNumbers("REC")')
  <2>1. CASE case[c] = NewCase /\ row.kind = "REC"
    <3>1. PICK n : n = Cardinality(CaseNumbers("REC")) + 1
      OBVIOUS
    <3>2. row.number = n
      <4>1. case[c].kind = "none"
        BY <2>1, NewCaseOK
      <4> QED
        BY <2>1, <3>1, <4>1 DEF CaseMove, NextNumber
    <3>3. case[c].kind # "REC"
      BY <2>1, NewCaseOK
    <3>4. CaseNumbers("REC")' = CaseNumbers("REC") \union {n}
      BY <1>1, <2>1, <3>2, <3>3 DEF CaseNumbers
    <3> QED
      BY <3>1, <3>4, AddNext DEF IInv, NumbersOK
  <2>2. CASE ~(case[c] = NewCase /\ row.kind = "REC")
    <3>1. \/ case[c].kind = row.kind /\ case[c].number = row.number
          \/ case[c].kind # "REC" /\ row.kind # "REC"
      BY <2>2, NewCaseOK, GoneCase DEF CaseMove
    <3>2. \A d \in Cases : (case'[d].kind = "REC" <=> case[d].kind = "REC")
                           /\ (case[d].kind = "REC" => case'[d].number = case[d].number)
      BY <1>1, <3>1
    <3>3. CaseNumbers("REC")' = CaseNumbers("REC")
      BY <3>2 DEF CaseNumbers
    <3> QED
      BY <3>3 DEF IInv, NumbersOK
  <2> QED
    BY <2>1, <2>2
<1>10. BagNumbers' = BagNumbers
  BY <1>2 DEF BagNumbers
<1>11. NumbersOK'
  BY <1>8, <1>9, <1>10 DEF IInv, NumbersOK
<1> QED
  BY <1>1, <1>6, <1>11

LEMMA CaseMoveFits ==
  ASSUME IInv, NEW c \in Cases, NEW row \in CaseRow, CaseMove(c, row),
         NEW r, RequestOK(r), Fits(r),
         case[c] = NewCase => /\ r.act \in {"REC", "NC"} => r.case # c
                              /\ row.kind = "REC" => r.act # "REC",
         case[c].kind = "gone" /\ r.act \in {"compare case", "save case"} /\ r.case = c =>
           r.row.kind = row.kind /\ r.row.number = row.number
  PROVE  Fits(r)'
<1>1. case'[c] = row /\ \A d \in Cases : d # c => case'[d] = case[d]
  BY TypeFacts DEF CaseMove
<1>2. UNCHANGED <<now, bag>>
  BY DEF CaseMove
<1>3. (BagOK(r.row)' <=> BagOK(r.row)) /\ (CaseOK(r.row)' <=> CaseOK(r.row))
  BY <1>2 DEF BagOK, CaseOK
<1>4. BagNumbers' = BagNumbers /\ Recorded' = Recorded
      /\ NextNumber(BagNumbers)' = NextNumber(BagNumbers)
  BY <1>2 DEF BagNumbers, Recorded, NextNumber
<1>5. r.act \in CaseActs => r.case \in Cases
  BY RequestFacts
<1>6. r.act \in {"REC", "NC"} => case[r.case] = NewCase /\ case'[r.case] = NewCase
  <2> SUFFICES ASSUME r.act \in {"REC", "NC"}
               PROVE  case[r.case] = NewCase /\ case'[r.case] = NewCase
    OBVIOUS
  <2>1. case[r.case] = NewCase /\ r.case \in Cases
    BY <1>5 DEF Fits, CaseActs
  <2>2. r.case # c
    BY <2>1
  <2> QED
    BY <1>1, <2>1, <2>2
<1>7. r.act = "REC" => NextNumber(CaseNumbers("REC"))' = NextNumber(CaseNumbers("REC"))
  <2> SUFFICES ASSUME r.act = "REC"
               PROVE  CaseNumbers("REC")' = CaseNumbers("REC")
    BY DEF NextNumber
  <2>1. \/ case[c].kind = row.kind /\ case[c].number = row.number
        \/ case[c].kind # "REC" /\ row.kind # "REC"
    BY NewCaseOK, GoneCase DEF CaseMove
  <2>2. \A d \in Cases : (case'[d].kind = "REC" <=> case[d].kind = "REC")
                         /\ (case[d].kind = "REC" => case'[d].number = case[d].number)
    BY <1>1, <2>1
  <2> QED
    BY <2>2 DEF CaseNumbers
<1>8. r.act \in {"compare case", "save case"} =>
        \/ case'[r.case].kind = r.row.kind /\ case'[r.case].number = r.row.number
        \/ case'[r.case].kind = "gone" /\ r.row.kind = "NC"
  <2> SUFFICES ASSUME r.act \in {"compare case", "save case"}
               PROVE  \/ /\ case'[r.case].kind = r.row.kind
                         /\ case'[r.case].number = r.row.number
                      \/ case'[r.case].kind = "gone" /\ r.row.kind = "NC"
    OBVIOUS
  <2>1. /\ CaseOK(r.row)
        /\ \/ case[r.case].kind = r.row.kind /\ case[r.case].number = r.row.number
           \/ case[r.case].kind = "gone" /\ r.row.kind = "NC"
    BY DEF Fits
  <2>2. CASE r.case = c
    <3>1. case[c] # NewCase
      BY <2>1, <2>2, NewCaseOK DEF CaseOK
    <3>2. CASE case[c].kind = row.kind /\ case[c].number = row.number
      BY <1>1, <2>1, <2>2, <3>2
    <3>3. CASE case[c].kind = "gone"
      BY <1>1, <2>2, <3>3
    <3>4. CASE case[c].kind = "NC" /\ row = [NewCase EXCEPT !.kind = "gone"]
      <4>1. row.kind = "gone" /\ r.row.kind = "NC"
        BY <2>1, <2>2, <3>4, GoneCase
      <4> QED
        BY <1>1, <2>2, <4>1
    <3> QED
      BY <3>1, <3>2, <3>3, <3>4 DEF CaseMove
  <2>3. CASE r.case # c
    BY <1>1, <1>5, <2>1, <2>3 DEF CaseActs
  <2> QED
    BY <2>2, <2>3
<1> QED
  BY <1>2, <1>3, <1>4, <1>6, <1>7, <1>8 DEF Fits
-----------------------------------------------------------------------------
(* Commits.                                                                *)

ClosedNow(r) == [r EXCEPT !.ends = now]
NewShift(u, m) == [user |-> u, machine |-> m, starts |-> now, ends |-> Open]

LEMMA ClosedShift ==
  ASSUME IInv, NEW r \in Shift
  PROVE  /\ ClosedNow(r) \in Shift
         /\ ClosedNow(r).user = r.user /\ ClosedNow(r).machine = r.machine
         /\ ClosedNow(r).starts = r.starts /\ ClosedNow(r).ends = now
<1>1. now \in 0 .. Open
  BY Instants
<1>2. PICK z : z = ClosedNow(r)
  OBVIOUS
<1>3. z = [user |-> r.user, machine |-> r.machine, starts |-> r.starts, ends |-> now]
  BY <1>2 DEF ClosedNow, Shift
<1>4. /\ z \in Shift /\ z.user = r.user /\ z.machine = r.machine
      /\ z.starts = r.starts /\ z.ends = now
  BY <1>1, <1>3, ShiftFields DEF Shift
<1> QED
  BY <1>2, <1>4

LEMMA OpenedShift ==
  ASSUME IInv, NEW u \in Users, NEW m \in Machines
  PROVE  /\ NewShift(u, m) \in Shift
         /\ NewShift(u, m).user = u /\ NewShift(u, m).machine = m
         /\ NewShift(u, m).starts = now /\ NewShift(u, m).ends = Open
<1>1. now \in 0 .. MaxTime /\ Open \in 0 .. Open
  BY Instants
<1> QED
  BY <1>1 DEF NewShift, Shift

\* What clock_in and clock_out do to the shifts.
Clocked(w, act, u, m, rows) ==
  /\ act = "login" \/ act = "logout"
  /\ tx[w].act = act /\ tx[w].user = u /\ tx[w].rows = rows
  /\ at' = [at EXCEPT ![u] = IF act = "login" THEN m ELSE NoMachine]
  /\ \A z : z \in shifts' <=> \/ z \in shifts /\ z \notin rows
                              \/ \E r \in rows : z = ClosedNow(r)
                              \/ act = "login" /\ z = NewShift(u, m)
  /\ \A x \in rows : x.starts < now
  /\ act = "login" => m \notin gone
  /\ tx' = [tx EXCEPT ![w] = Idle] /\ UNCHANGED <<now, was, gone, bag, case, events>>

LEMMA ClockFacts ==
  ASSUME IInv, NEW w \in Workers, CommitClock(w)
  PROVE  \E act \in {"login", "logout"}, u \in Users, m \in Machines, rows \in SUBSET Shift :
           Clocked(w, act, u, m, rows)
<1>1. PICK q : q = tx[w]
  OBVIOUS
<1>2. (q.act = "login" \/ q.act = "logout") /\ RequestOK(q) /\ Fits(q)
  BY <1>1 DEF CommitClock, IInv, RequestsOK
<1>3. q.user \in Users /\ q.machine \in Machines /\ q.rows \in SUBSET Shift
  BY <1>2, RequestFacts
<1>4. \A x \in q.rows : x.starts < now
  BY <1>2 DEF Fits
<1>5. /\ at' = [at EXCEPT ![q.user] = IF q.act = "login" THEN q.machine ELSE NoMachine]
      /\ tx' = [tx EXCEPT ![w] = Idle] /\ UNCHANGED <<now, was, gone, bag, case, events>>
  BY <1>1 DEF CommitClock, End
<1> DEFINE m == IF q.act = "login" THEN q.machine ELSE NoMachine
<1>6. shifts' = (shifts \ q.rows) \union {ClosedNow(r) : r \in q.rows}
                \union {[user |-> q.user, machine |-> x, starts |-> now, ends |-> Open] :
                          x \in {m} \ {NoMachine}}
  BY <1>1 DEF CommitClock, ClosedNow
<1>7. m = NoMachine <=> q.act # "login"
  BY <1>2, <1>3, NullAssumption
<1>8. q.act = "login" => m = q.machine
  OBVIOUS
<1> HIDE DEF m
<1>9. \A z : z \in shifts' <=> \/ z \in shifts /\ z \notin q.rows
                               \/ \E r \in q.rows : z = ClosedNow(r)
                               \/ q.act = "login" /\ z = NewShift(q.user, q.machine)
  BY <1>6, <1>7, <1>8 DEF NewShift
<1>10. Clocked(w, q.act, q.user, q.machine, q.rows)
  <2>1. q.act = "login" => q.machine \notin gone
    BY <1>1 DEF CommitClock
  <2> QED
    BY <1>1, <1>2, <1>4, <1>5, <1>9, <2>1 DEF Clocked
<1>11. PICK act \in {"login", "logout"} : act = q.act
  BY <1>2
<1>12. PICK u \in Users : u = q.user
  BY <1>3
<1>13. PICK n \in Machines : n = q.machine
  BY <1>3
<1>14. PICK rows \in SUBSET Shift : rows = q.rows
  BY <1>3
<1>15. Clocked(w, act, u, n, rows)
  BY <1>10, <1>11, <1>12, <1>13, <1>14
<1> QED
  BY <1>15

\* Stamping a row.
LEMMA ShippedRow ==
  ASSUME NEW old \in BagRow, NEW row, row = [old EXCEPT !.shipped = TRUE]
  PROVE  /\ row \in BagRow /\ row.shipped /\ row.verified = old.verified
         /\ row.machine = old.machine /\ row.end = old.end /\ row.people = old.people
         /\ row.number = old.number /\ row.start = old.start
<1>1. row = [number |-> old.number, machine |-> old.machine, start |-> old.start,
             end |-> old.end, people |-> old.people, shipped |-> TRUE,
             verified |-> old.verified]
  BY DEF BagRow
<1>2. row \in BagRow
  BY <1>1 DEF BagRow
<1>3. row.shipped = TRUE /\ row.verified = old.verified
  BY <1>1
<1>4. /\ row.machine = old.machine /\ row.end = old.end /\ row.people = old.people
      /\ row.number = old.number /\ row.start = old.start
  BY <1>1
<1> QED
  BY <1>2, <1>3, <1>4

LEMMA VerifiedRow ==
  ASSUME NEW old \in BagRow, NEW row, row = [old EXCEPT !.verified = TRUE]
  PROVE  /\ row \in BagRow /\ row.verified /\ row.shipped = old.shipped
         /\ row.machine = old.machine /\ row.end = old.end /\ row.people = old.people
         /\ row.number = old.number /\ row.start = old.start
<1>1. row = [number |-> old.number, machine |-> old.machine, start |-> old.start,
             end |-> old.end, people |-> old.people, shipped |-> old.shipped,
             verified |-> TRUE]
  BY DEF BagRow
<1>2. row \in BagRow
  BY <1>1 DEF BagRow
<1>3. row.verified = TRUE /\ row.shipped = old.shipped
  BY <1>1
<1>4. /\ row.machine = old.machine /\ row.end = old.end /\ row.people = old.people
      /\ row.number = old.number /\ row.start = old.start
  BY <1>1
<1> QED
  BY <1>2, <1>3, <1>4

Counts == [shipped : Nat, verified : Nat]

LEMMA StampFacts ==
  ASSUME IInv, NEW w \in Workers, CommitStamp(w)
  PROVE  \E b \in Bags, row \in BagRow, n \in Counts :
           /\ tx[w].bag = b /\ bag[b].number # 0
           /\ BagMove(b, row)
           /\ row.machine = bag[b].machine /\ row.end = bag[b].end
           /\ row.people = bag[b].people /\ row.start = bag[b].start
           /\ \/ /\ tx[w].act = "shipped" /\ row.shipped /\ row.verified = bag[b].verified
                 /\ n.shipped = events[b].shipped + 1 /\ n.verified = events[b].verified
              \/ /\ tx[w].act = "verified" /\ row.verified /\ row.shipped = bag[b].shipped
                 /\ n.verified = events[b].verified + 1 /\ n.shipped = events[b].shipped
           /\ events' = [events EXCEPT ![b] = n]
           /\ tx' = [tx EXCEPT ![w] = Idle] /\ UNCHANGED <<at, was, shifts, gone>>
<1>1. PICK q : q = tx[w]
  OBVIOUS
<1>2. (q.act = "shipped" \/ q.act = "verified") /\ RequestOK(q) /\ Fits(q)
  BY <1>1 DEF CommitStamp, IInv, RequestsOK
<1>3. q.bag \in Bags /\ bag[q.bag].number # 0
  BY <1>2, RequestFacts DEF Fits
<1>4. PICK old \in BagRow : old = bag[q.bag]
  BY <1>3, TypeFacts
<1>5. PICK e \in Counts : e = events[q.bag]
  BY <1>3 DEF IInv, TypeOK, Counts
<1>6. /\ bag' = [bag EXCEPT ![q.bag][q.act] = TRUE]
      /\ events' = [events EXCEPT ![q.bag][q.act] = @ + 1]
      /\ tx' = [tx EXCEPT ![w] = Idle] /\ UNCHANGED <<now, at, was, shifts, gone, case>>
  BY <1>1 DEF CommitStamp, End
<1>7. BagOK(old) /\ old.machine \notin gone
  BY <1>3, <1>4, TypeFacts DEF IInv, TypeOK
<1>8. CASE q.act = "shipped"
  <2>1. PICK row : row = [old EXCEPT !.shipped = TRUE]
    OBVIOUS
  <2>2. /\ row \in BagRow /\ row.shipped /\ row.verified = old.verified
        /\ row.machine = old.machine /\ row.end = old.end /\ row.people = old.people
        /\ row.number = old.number /\ row.start = old.start
    BY <2>1, ShippedRow
  <2>3. bag' = [bag EXCEPT ![q.bag] = row]
    BY <1>4, <1>6, <1>8, <2>1
  <2>4. PICK n : n = [e EXCEPT !.shipped = @ + 1]
    OBVIOUS
  <2>5. n \in Counts /\ n.shipped = e.shipped + 1 /\ n.verified = e.verified
    BY <2>4 DEF Counts
  <2>6. events' = [events EXCEPT ![q.bag] = n]
    BY <1>5, <1>6, <1>8, <2>4
  <2>7. BagMove(q.bag, row)
    BY <1>4, <1>6, <1>7, <2>2, <2>3 DEF BagMove, BagOK
  <2> QED
    BY <1>1, <1>3, <1>4, <1>5, <1>6, <1>8, <2>2, <2>5, <2>6, <2>7
<1>9. CASE q.act = "verified"
  <2>1. PICK row : row = [old EXCEPT !.verified = TRUE]
    OBVIOUS
  <2>2. /\ row \in BagRow /\ row.verified /\ row.shipped = old.shipped
        /\ row.machine = old.machine /\ row.end = old.end /\ row.people = old.people
        /\ row.number = old.number /\ row.start = old.start
    BY <2>1, VerifiedRow
  <2>3. bag' = [bag EXCEPT ![q.bag] = row]
    BY <1>4, <1>6, <1>9, <2>1
  <2>4. PICK n : n = [e EXCEPT !.verified = @ + 1]
    OBVIOUS
  <2>5. n \in Counts /\ n.verified = e.verified + 1 /\ n.shipped = e.shipped
    BY <2>4 DEF Counts
  <2>6. events' = [events EXCEPT ![q.bag] = n]
    BY <1>5, <1>6, <1>9, <2>4
  <2>7. BagMove(q.bag, row)
    BY <1>4, <1>6, <1>7, <2>2, <2>3 DEF BagMove, BagOK
  <2> QED
    BY <1>1, <1>3, <1>4, <1>5, <1>6, <1>9, <2>2, <2>5, <2>6, <2>7
<1> QED
  BY <1>2, <1>8, <1>9

LEMMA CommitBagFacts ==
  ASSUME IInv, NEW w \in Workers, CommitBag(w)
  PROVE  \E b \in Bags, row \in BagRow :
           /\ tx[w].act = "save bag" \/ tx[w].act = "new bag"
           /\ tx[w].bag = b /\ tx[w].row = row
           /\ BagMove(b, row)
           /\ tx[w].act = "save bag" => bag[b].number # 0
           /\ tx[w].act = "new bag" => bag[b].number = 0 /\ ~row.shipped /\ ~row.verified
           /\ tx' = [tx EXCEPT ![w] = Idle] /\ UNCHANGED <<at, was, shifts, gone, events>>
<1>1. PICK q : q = tx[w]
  OBVIOUS
<1>2. (q.act = "save bag" \/ q.act = "new bag") /\ RequestOK(q) /\ Fits(q)
  BY <1>1 DEF CommitBag, IInv, RequestsOK
<1>3. q.bag \in Bags /\ q.row \in BagRow
  BY <1>2, RequestFacts DEF BagActs
<1>4. /\ bag' = [bag EXCEPT ![q.bag] = q.row]
      /\ tx' = [tx EXCEPT ![w] = Idle] /\ UNCHANGED <<now, at, was, shifts, gone, case, events>>
  BY <1>1 DEF CommitBag, SavedRow, End
<1>6. q.row.machine \notin gone
  BY <1>1 DEF CommitBag
<1>5. /\ BagMove(q.bag, q.row)
      /\ q.act = "save bag" => bag[q.bag].number # 0
      /\ q.act = "new bag" => bag[q.bag].number = 0 /\ ~q.row.shipped /\ ~q.row.verified
  BY <1>2, <1>4, <1>6 DEF Fits, BagMove, BagOK
<1> QED
  BY <1>1, <1>2, <1>3, <1>4, <1>5

LEMMA CommitCaseFacts ==
  ASSUME IInv, NEW w \in Workers, CommitCase(w)
  PROVE  \E c \in Cases, row \in CaseRow :
           /\ tx[w].act = "save case" \/ tx[w].act = "REC" \/ tx[w].act = "NC"
           /\ tx[w].case = c /\ tx[w].row = row
           /\ CaseMove(c, row)
           /\ tx[w].act = "save case" => case[c] # NewCase
           /\ tx[w].act # "save case" => case[c] = NewCase /\ row.kind = tx[w].act
           /\ tx' = [tx EXCEPT ![w] = Idle] /\ UNCHANGED <<at, was, shifts, gone, events>>
<1>1. PICK q : q = tx[w]
  OBVIOUS
<1>2. /\ q.act = "save case" \/ q.act = "REC" \/ q.act = "NC"
      /\ RequestOK(q) /\ Fits(q)
  BY <1>1 DEF CommitCase, IInv, RequestsOK
<1>3. q.case \in Cases /\ q.row \in CaseRow
  BY <1>2, RequestFacts DEF CaseActs
<1>4. /\ case' = [case EXCEPT ![q.case] = q.row]
      /\ \A d \in Cases \ {q.case} :
           ~(case[d].kind = q.row.kind /\ case[d].number = q.row.number)
      /\ tx' = [tx EXCEPT ![w] = Idle] /\ UNCHANGED <<now, at, was, shifts, gone, bag, events>>
  BY <1>1 DEF CommitCase, SavedCase, End
<1>5. CaseOK(q.row)
  BY <1>2 DEF Fits
<1>6. CASE q.act = "save case"
  <2>1. \/ case[q.case].kind = q.row.kind /\ case[q.case].number = q.row.number
        \/ case[q.case].kind = "gone" /\ q.row.kind = "NC"
    BY <1>2, <1>6 DEF Fits
  <2>2. case[q.case] # NewCase
    BY <1>5, <2>1, NewCaseOK DEF CaseOK
  <2>3. CaseMove(q.case, q.row)
    BY <1>4, <1>5, <2>1 DEF CaseMove
  <2> QED
    BY <1>1, <1>2, <1>3, <1>4, <1>6, <2>2, <2>3
<1>7. CASE q.act = "REC" \/ q.act = "NC"
  <2>1. /\ case[q.case] = NewCase /\ q.row.kind = q.act
        /\ q.act = "REC" => q.row.number = NextNumber(CaseNumbers("REC"))
    BY <1>2, <1>7 DEF Fits
  <2>2. CaseMove(q.case, q.row)
    BY <1>4, <1>5, <2>1 DEF CaseMove
  <2> QED
    BY <1>1, <1>2, <1>3, <1>4, <1>7, <2>1, <2>2
<1> QED
  BY <1>2, <1>6, <1>7

LEMMA DeleteCaseFacts ==
  ASSUME IInv, NEW c \in Cases, DeleteCase(c)
  PROVE  \E row \in CaseRow :
           /\ CaseMove(c, row) /\ case[c].kind = "NC"
           /\ row.number = 0 /\ ~row.closed /\ row.machine = NoMachine
           /\ UNCHANGED <<now, at, was, shifts, gone, bag, events, tx>>
<1>1. PICK row \in CaseRow :
    /\ row = [NewCase EXCEPT !.kind = "gone"]
    /\ row.kind = "gone" /\ row.number = 0 /\ ~row.closed
    /\ row.machine = NoMachine /\ row.people = {}
  BY GoneCase
<1>2. /\ case[c].kind = "NC" /\ case' = [case EXCEPT ![c] = row]
      /\ UNCHANGED <<now, at, was, shifts, gone, bag, events, tx>>
  BY <1>1 DEF DeleteCase, Deletable
<1> QED
  BY <1>1, <1>2 DEF CaseMove
-----------------------------------------------------------------------------
(* The invariant.                                                          *)

LEMMA ClockInvariant ==
  ASSUME IInv, NEW w \in Workers, CommitClock(w)
  PROVE  IInv'
<1>1. PICK act \in {"login", "logout"}, u \in Users, m \in Machines, rows \in SUBSET Shift :
        Clocked(w, act, u, m, rows)
  BY ClockFacts
<1>2. UNCHANGED <<now, was, gone, bag, case, events>> /\ tx' = [tx EXCEPT ![w] = Idle]
  BY <1>1 DEF Clocked
<1>3. ASSUME NEW z \in shifts' PROVE z \in Shift
  <2>1. CASE z \in shifts
    BY <2>1 DEF IInv, TypeOK
  <2>2. CASE \E r \in rows : z = ClosedNow(r)
    <3>1. PICK r \in rows : z = ClosedNow(r)
      BY <2>2
    <3>2. r \in Shift /\ r.starts < now
      BY <1>1, <3>1 DEF Clocked
    <3> QED
      BY <3>1, <3>2, ClosedShift
  <2>3. CASE z = NewShift(u, m)
    BY <2>3, OpenedShift
  <2> QED
    BY <1>1, <2>1, <2>2, <2>3 DEF Clocked
<1>4. at' \in [Users -> Machines \union {NoMachine}]
  BY <1>1 DEF Clocked, IInv, TypeOK
<1>5. TypeOK'
  BY <1>2, <1>3, <1>4 DEF IInv, TypeOK
<1>6. RowsOK' /\ NumbersOK' /\ \A r : Fits(r) => Fits(r)'
  BY <1>2, RowsUntouched DEF IInv
<1>7. RequestsOK'
  BY <1>2, <1>6, EndRequests
<1> QED
  BY <1>5, <1>6, <1>7 DEF IInv

\* TypeOK of what changes rows.
LEMMA RowsType ==
  ASSUME IInv, UNCHANGED <<now, at, was, shifts, gone>>,
         bag' \in [Bags -> BagRow], case' \in [Cases -> CaseRow],
         events' \in [Bags -> Counts], RowsOK',
         \A x \in Bags : bag'[x].number # 0 => bag'[x].machine \notin gone'
  PROVE  TypeOK'
<1>1. ASSUME NEW b \in Bags, bag'[b].number # 0
      PROVE  bag'[b].machine \in Machines \ gone' /\ bag'[b].start <= bag'[b].end
  <2>1. bag'[b].machine # NoMachine /\ bag'[b].start <= bag'[b].end
    BY <1>1 DEF RowsOK, BagOK
  <2>2. bag'[b].machine \in Machines \union {NoMachine}
    BY DEF BagRow
  <2> QED
    BY <1>1, <2>1, <2>2
<1> QED
  BY <1>1 DEF IInv, TypeOK, Counts

\* The bags nobody writes on are of machines that are there.
LEMMA BagsPlaced ==
  ASSUME IInv, UNCHANGED <<gone, bag>>
  PROVE  \A x \in Bags : bag'[x].number # 0 => bag'[x].machine \notin gone'
BY DEF IInv, TypeOK

LEMMA CountsType ==
  ASSUME IInv
  PROVE  events \in [Bags -> Counts]
BY DEF IInv, TypeOK, Counts

LEMMA CommitBagInvariant ==
  ASSUME IInv, NEW w \in Workers, CommitBag(w)
  PROVE  IInv'
<1>1. PICK b \in Bags, row \in BagRow :
           /\ tx[w].act = "save bag" \/ tx[w].act = "new bag"
           /\ tx[w].bag = b /\ tx[w].row = row
           /\ BagMove(b, row)
           /\ tx[w].act = "save bag" => bag[b].number # 0
           /\ tx[w].act = "new bag" => bag[b].number = 0 /\ ~row.shipped /\ ~row.verified
           /\ tx' = [tx EXCEPT ![w] = Idle] /\ UNCHANGED <<at, was, shifts, gone, events>>
  BY CommitBagFacts
<1>2. /\ bag' \in [Bags -> BagRow] /\ RowsOK' /\ NumbersOK'
      /\ \A x \in Bags : bag'[x].number # 0 => bag'[x].machine \notin gone'
  BY <1>1, BagMoveRows
<1>3. UNCHANGED <<now, case>>
  BY <1>1 DEF BagMove
<1>4. TypeOK'
  BY <1>1, <1>2, <1>3, RowsType, CountsType, TypeFacts
<1>5. ASSUME NEW r, RequestOK(r), Fits(r), NEW v \in Workers, v # w, tx[v] = r
      PROVE  Fits(r)'
  <2>1. Pair(tx[w], r)
    BY <1>5 DEF IInv, RequestsOK
  <2>2. bag[b].number = 0 => r.act # "new bag"
    BY <1>1, <2>1 DEF Pair
  <2> QED
    BY <1>1, <1>5, <2>2, BagMoveFits
<1>6. RequestsOK'
  BY <1>1, <1>5, EndRequests
<1> QED
  BY <1>2, <1>4, <1>6 DEF IInv

LEMMA CommitStampInvariant ==
  ASSUME IInv, NEW w \in Workers, CommitStamp(w)
  PROVE  IInv'
<1>1. PICK b \in Bags, row \in BagRow, n \in Counts :
           /\ bag[b].number # 0
           /\ BagMove(b, row)
           /\ events' = [events EXCEPT ![b] = n]
           /\ tx' = [tx EXCEPT ![w] = Idle] /\ UNCHANGED <<at, was, shifts, gone>>
  BY StampFacts
<1>2. /\ bag' \in [Bags -> BagRow] /\ RowsOK' /\ NumbersOK'
      /\ \A x \in Bags : bag'[x].number # 0 => bag'[x].machine \notin gone'
  BY <1>1, BagMoveRows
<1>3. UNCHANGED <<now, case>> /\ events' \in [Bags -> Counts]
  BY <1>1, CountsType DEF BagMove
<1>4. TypeOK'
  BY <1>1, <1>2, <1>3, RowsType, TypeFacts
<1>5. ASSUME NEW r, RequestOK(r), Fits(r) PROVE Fits(r)'
  BY <1>1, <1>5, BagMoveFits
<1>6. RequestsOK'
  BY <1>1, <1>5, EndRequests
<1> QED
  BY <1>2, <1>4, <1>6 DEF IInv

LEMMA CommitCaseInvariant ==
  ASSUME IInv, NEW w \in Workers, CommitCase(w)
  PROVE  IInv'
<1>1. PICK c \in Cases, row \in CaseRow :
           /\ tx[w].act = "save case" \/ tx[w].act = "REC" \/ tx[w].act = "NC"
           /\ tx[w].case = c /\ tx[w].row = row
           /\ CaseMove(c, row)
           /\ tx[w].act = "save case" => case[c] # NewCase
           /\ tx[w].act # "save case" => case[c] = NewCase /\ row.kind = tx[w].act
           /\ tx' = [tx EXCEPT ![w] = Idle] /\ UNCHANGED <<at, was, shifts, gone, events>>
  BY CommitCaseFacts
<1>2. case' \in [Cases -> CaseRow] /\ RowsOK' /\ NumbersOK'
  BY <1>1, CaseMoveRows
<1>3. UNCHANGED <<now, bag>>
  BY <1>1 DEF CaseMove
<1>4. TypeOK'
  BY <1>1, <1>2, <1>3, RowsType, CountsType, TypeFacts, BagsPlaced
<1>5. ASSUME NEW r, RequestOK(r), Fits(r), NEW v \in Workers, v # w, tx[v] = r
      PROVE  Fits(r)'
  <2>1. PICK q : q = tx[w]
    OBVIOUS
  <2>2. Pair(q, r)
    BY <1>5, <2>1 DEF IInv, RequestsOK
  <2>3. case[c] = NewCase => /\ r.act \in {"REC", "NC"} => r.case # c
                             /\ row.kind = "REC" => r.act # "REC"
    BY <1>1, <2>1, <2>2 DEF Pair
  <2>4. case[c].kind = "gone" /\ r.act \in {"compare case", "save case"} /\ r.case = c =>
           r.row.kind = row.kind /\ r.row.number = row.number
    <3>1. case[c].kind = "gone" => q.act = "save case"
      BY <1>1, <2>1, NewCaseOK
    <3> QED
      BY <1>1, <2>1, <2>2, <3>1 DEF Pair
  <2> QED
    BY <1>1, <1>5, <2>3, <2>4, CaseMoveFits
<1>6. RequestsOK'
  BY <1>1, <1>5, EndRequests
<1> QED
  BY <1>2, <1>4, <1>6 DEF IInv

\* The requests under way when something else happens.
LEMMA RequestsStay ==
  ASSUME IInv, tx' = tx,
         \A r : RequestOK(r) /\ Fits(r) /\ (\E v \in Workers : tx[v] = r) => Fits(r)'
  PROVE  RequestsOK'
<1>1. ASSUME NEW v \in Workers PROVE RequestOK(tx[v])' /\ Fits(tx[v])'
  <2>1. PICK q : q = tx[v]
    OBVIOUS
  <2>2. RequestOK(q) /\ Fits(q)
    BY <2>1 DEF IInv, RequestsOK
  <2>3. RequestOK(q)' /\ Fits(q)'
    BY <2>1, <2>2 DEF RequestOK
  <2> QED
    BY <2>1, <2>3
<1>2. Busy' = Busy
  BY DEF Busy
<1> QED
  BY <1>1, <1>2 DEF IInv, RequestsOK

LEMMA DeleteCaseInvariant ==
  ASSUME IInv, NEW c \in Cases, DeleteCase(c)
  PROVE  IInv'
<1>1. PICK row \in CaseRow :
           /\ CaseMove(c, row) /\ case[c].kind = "NC"
           /\ row.number = 0 /\ ~row.closed /\ row.machine = NoMachine
           /\ UNCHANGED <<now, at, was, shifts, gone, bag, events, tx>>
  BY DeleteCaseFacts
<1>2. case' \in [Cases -> CaseRow] /\ RowsOK' /\ NumbersOK'
  BY <1>1, CaseMoveRows
<1>3. TypeOK'
  BY <1>1, <1>2, RowsType, CountsType, TypeFacts, BagsPlaced
<1>4. case[c] # NewCase /\ case[c].kind # "gone"
  BY <1>1, NewCaseOK
<1>5. \A r : RequestOK(r) /\ Fits(r) => Fits(r)'
  BY <1>1, <1>4, CaseMoveFits
<1>6. RequestsOK'
  BY <1>1, <1>5, RequestsStay
<1> QED
  BY <1>2, <1>3, <1>6 DEF IInv

LEMMA ShiftsByHandInvariant ==
  ASSUME IInv, shifts' \subseteq Shift,
         UNCHANGED <<now, at, was, gone, bag, case, events, tx>>
  PROVE  IInv'
<1>1. TypeOK'
  BY DEF IInv, TypeOK
<1>2. RowsOK' /\ NumbersOK' /\ \A r : Fits(r) => Fits(r)'
  BY RowsUntouched DEF IInv
<1>3. RequestsOK'
  BY <1>2, RequestsStay
<1> QED
  BY <1>1, <1>2, <1>3 DEF IInv

\* A row that loses its machine.
LEMMA UnplacedShift ==
  ASSUME NEW r \in Shift, NEW m \in Machines
  PROVE  /\ Unplaced(r, m) \in Shift
         /\ Unplaced(r, m).user = r.user /\ Unplaced(r, m).starts = r.starts
         /\ Unplaced(r, m).ends = r.ends
         /\ Unplaced(r, m).machine = IF r.machine = m THEN NoMachine ELSE r.machine
<1>1. PICK z : z = Unplaced(r, m)
  OBVIOUS
<1>2. CASE r.machine = m
  <2>1. z = [user |-> r.user, machine |-> NoMachine, starts |-> r.starts, ends |-> r.ends]
    BY <1>1, <1>2 DEF Unplaced, Shift
  <2>2. /\ z \in Shift /\ z.user = r.user /\ z.machine = NoMachine
        /\ z.starts = r.starts /\ z.ends = r.ends
    BY <2>1, ShiftFields DEF Shift
  <2> QED
    BY <1>1, <1>2, <2>2
<1>3. CASE r.machine # m
  BY <1>3 DEF Unplaced
<1> QED
  BY <1>2, <1>3

LEMMA UnplacedCase ==
  ASSUME NEW row \in CaseRow, NEW m \in Machines
  PROVE  /\ Unplaced(row, m) \in CaseRow
         /\ Unplaced(row, m).kind = row.kind /\ Unplaced(row, m).number = row.number
         /\ Unplaced(row, m).closed = row.closed /\ Unplaced(row, m).bag = row.bag
         /\ row.machine = m => Unplaced(row, m).machine = NoMachine
         /\ row.machine # m => Unplaced(row, m) = row
<1>1. PICK z : z = Unplaced(row, m)
  OBVIOUS
<1>2. CASE row.machine = m
  <2>1. z = [kind |-> row.kind, number |-> row.number, closed |-> row.closed, bag |-> row.bag,
             machine |-> NoMachine, start |-> row.start, people |-> row.people]
    BY <1>1, <1>2 DEF Unplaced, CaseRow
  <2>2. /\ row.kind \in {"none", "REC", "NC", "gone"} /\ row.number \in Nat
        /\ row.closed \in BOOLEAN /\ row.bag \in Bags \union {NoBag}
        /\ row.start \in 0 .. MaxTime /\ row.people \in SUBSET Users
    BY DEF CaseRow
  <2>3. z \in CaseRow
    BY <2>1, <2>2 DEF CaseRow
  <2>4. z.kind = row.kind /\ z.number = row.number /\ z.machine = NoMachine
    BY <2>1
  <2>5. z.closed = row.closed /\ z.bag = row.bag
    BY <2>1
  <2> QED
    BY <1>1, <1>2, <2>3, <2>4, <2>5
<1>3. CASE row.machine # m
  BY <1>3 DEF Unplaced
<1> QED
  BY <1>2, <1>3

LEMMA RemoveMachineFacts ==
  ASSUME IInv, NEW m \in Machines, RemoveMachine(m)
  PROVE  /\ case' \in [Cases -> CaseRow]
         /\ \A c \in Cases : /\ case'[c].kind = case[c].kind /\ case'[c].number = case[c].number
                             /\ case'[c].closed = case[c].closed /\ case'[c].bag = case[c].bag
                             /\ case[c].machine = m => case'[c].machine = NoMachine
                             /\ case[c].machine # m => case'[c] = case[c]
         /\ \A z : z \in shifts' <=> \E r \in shifts : z = Unplaced(r, m)
         /\ shifts' \subseteq Shift
         /\ gone' = gone \union {m} /\ UNCHANGED <<now, at, was, bag, events, tx>>
<1>1. /\ case' = [c \in Cases |-> Unplaced(case[c], m)]
      /\ shifts' = {Unplaced(r, m) : r \in shifts}
      /\ gone' = gone \union {m} /\ UNCHANGED <<now, at, was, bag, events, tx>>
  BY DEF RemoveMachine
<1>2. ASSUME NEW c \in Cases
      PROVE  /\ case'[c] \in CaseRow
             /\ case'[c].kind = case[c].kind /\ case'[c].number = case[c].number
             /\ case'[c].closed = case[c].closed /\ case'[c].bag = case[c].bag
             /\ case[c].machine = m => case'[c].machine = NoMachine
             /\ case[c].machine # m => case'[c] = case[c]
  <2>1. PICK row \in CaseRow : row = case[c]
    BY TypeFacts
  <2>2. case'[c] = Unplaced(row, m)
    BY <1>1, <2>1
  <2> QED
    BY <2>1, <2>2, UnplacedCase
<1>3. case' \in [Cases -> CaseRow]
  BY <1>1, <1>2
<1>4. \A r \in shifts : r \in Shift
  BY DEF IInv, TypeOK
<1>5. shifts' \subseteq Shift
  BY <1>1, <1>4, UnplacedShift
<1>6. \A z : z \in shifts' <=> \E r \in shifts : z = Unplaced(r, m)
  BY <1>1
<1> QED
  BY <1>1, <1>2, <1>3, <1>5, <1>6

LEMMA RemoveMachineInvariant ==
  ASSUME IInv, NEW m \in Machines, RemoveMachine(m)
  PROVE  IInv'
<1>1. /\ case' \in [Cases -> CaseRow]
      /\ \A c \in Cases : case'[c].kind = case[c].kind /\ case'[c].number = case[c].number
      /\ \A c \in Cases : case[c].machine # m => case'[c] = case[c]
      /\ shifts' \subseteq Shift
      /\ gone' = gone \union {m} /\ UNCHANGED <<now, at, was, bag, events, tx>>
  BY RemoveMachineFacts
<1>2. ASSUME NEW c \in Cases, case[c] = [NewCase EXCEPT !.kind = case[c].kind]
      PROVE  case'[c] = case[c]
  <2>1. case[c].machine = NoMachine
    BY <1>2 DEF NewCase
  <2> QED
    BY <1>1, <2>1, NullAssumption
<1>3. ASSUME NEW c \in Cases, case[c] = NewCase PROVE case'[c] = NewCase
  BY <1>1, <1>3, NewCaseOK, NullAssumption
<1>4. TypeOK'
  <2>1. \A b \in Bags : bag[b].machine # m
    BY DEF RemoveMachine
  <2> QED
    BY <1>1, <2>1 DEF IInv, TypeOK
<1>5. RowsOK'
  <2>1. \A b \in Bags : IF bag'[b].number = 0 THEN bag'[b] = NewBag ELSE BagOK(bag[b])'
    BY <1>1 DEF IInv, RowsOK, BagOK
  <2>2. \A c \in Cases : IF case'[c].kind \in {"REC", "NC"} THEN CaseOK(case[c])'
                         ELSE case'[c] = [NewCase EXCEPT !.kind = case'[c].kind]
    BY <1>1, <1>2 DEF IInv, RowsOK, CaseOK
  <2> QED
    BY <1>1, <2>1, <2>2 DEF IInv, RowsOK
<1>6. /\ BagNumbers' = BagNumbers /\ \A kind : OfKind(kind)' = OfKind(kind)
      /\ \A kind : CaseNumbers(kind)' = CaseNumbers(kind)
  BY <1>1 DEF BagNumbers, OfKind, CaseNumbers
<1>7. NumbersOK'
  BY <1>6 DEF IInv, NumbersOK
<1>8. ASSUME NEW r, RequestOK(r), Fits(r) PROVE Fits(r)'
  <2>1. /\ NextNumber(BagNumbers)' = NextNumber(BagNumbers)
        /\ NextNumber(CaseNumbers("REC"))' = NextNumber(CaseNumbers("REC"))
    BY <1>6 DEF NextNumber
  <2>2. (BagOK(r.row)' <=> BagOK(r.row)) /\ (CaseOK(r.row)' <=> CaseOK(r.row))
    BY <1>1 DEF BagOK, CaseOK
  <2>3. Recorded' = Recorded
    BY <1>1 DEF Recorded
  <2>4. r.act \in CaseActs => r.case \in Cases
    BY <1>8, RequestFacts
  <2>5. r.act \in {"REC", "NC"} => case[r.case] = NewCase /\ case'[r.case] = NewCase
    BY <1>3, <1>8, <2>4 DEF Fits, CaseActs
  <2>6. r.act \in {"compare case", "save case"} =>
          case'[r.case].kind = case[r.case].kind /\ case'[r.case].number = case[r.case].number
    BY <1>1, <2>4 DEF CaseActs
  <2> QED
    BY <1>1, <1>8, <2>1, <2>2, <2>3, <2>5, <2>6 DEF Fits
<1>9. RequestsOK'
  BY <1>1, <1>8, RequestsStay
<1> QED
  BY <1>4, <1>5, <1>7, <1>9 DEF IInv

LEMMA TickInvariant ==
  ASSUME IInv, Tick
  PROVE  IInv'
<1>1. /\ now' = now + 1 /\ now < MaxTime /\ \A w \in Workers : tx[w] = Idle
      /\ was' = was \union {<<u, at[u], now>> : u \in {x \in Users : at[x] # NoMachine}}
      /\ UNCHANGED <<at, shifts, gone, bag, case, events, tx>>
  BY DEF Tick
<1>2. was' \subseteq Users \X Machines \X (0 .. MaxTime)
  <2>1. \A u \in Users : at[u] # NoMachine => at[u] \in Machines
    BY DEF IInv, TypeOK
  <2> QED
    BY <1>1, <2>1, Instants DEF IInv, TypeOK
<1>3. now' \in 0 .. MaxTime
  BY <1>1, Instants
<1>4. TypeOK'
  BY <1>1, <1>2, <1>3 DEF IInv, TypeOK
<1>5. \A row \in BagRow : BagOK(row) => BagOK(row)'
  BY <1>1, Instants DEF BagOK, BagRow
<1>6. RowsOK'
  <2>1. ASSUME NEW b \in Bags
        PROVE  IF bag'[b].number = 0 THEN bag'[b] = NewBag ELSE BagOK(bag[b])'
    <3>1. PICK y \in BagRow : y = bag[b]
      BY TypeFacts
    <3>2. IF y.number = 0 THEN y = NewBag ELSE BagOK(y)'
      BY <1>5, <3>1 DEF IInv, RowsOK
    <3> QED
      BY <1>1, <3>1, <3>2
  <2> QED
    BY <1>1, <2>1 DEF IInv, RowsOK, CaseOK
<1>7. NumbersOK'
  <2>1. BagNumbers' = BagNumbers /\ \A kind : CaseNumbers(kind)' = CaseNumbers(kind)
    BY <1>1 DEF BagNumbers, CaseNumbers
  <2>2. \A kind : OfKind(kind)' = OfKind(kind)
    BY <1>1 DEF OfKind
  <2> QED
    BY <2>1, <2>2 DEF IInv, NumbersOK
<1>8. ASSUME NEW r, \E v \in Workers : tx[v] = r PROVE Fits(r)'
  <2>1. r = Idle
    BY <1>1, <1>8
  <2> QED
    BY <2>1 DEF Fits, Idle
<1>9. RequestsOK'
  BY <1>1, <1>8, RequestsStay
<1> QED
  BY <1>4, <1>6, <1>7, <1>9 DEF IInv

LEMMA InitInvariant ==
  ASSUME Init
  PROVE  IInv
<1>1. /\ \A w \in Workers : tx[w] = Idle
      /\ \A b \in Bags : bag[b] = NewBag
      /\ \A c \in Cases : case[c] = NewCase
  BY DEF Init
<1>2. BagNumbers = {}
  BY <1>1, NewBagOK DEF BagNumbers
<1>3. \A kind : kind # "none" => CaseNumbers(kind) = {} /\ OfKind(kind) = {}
  BY <1>1, NewCaseOK DEF CaseNumbers, OfKind
<1>4. NumbersOK
  <2>1. IsFiniteSet({}) /\ Cardinality({}) = 0
    BY FS_EmptySet
  <2>2. {} = 1 .. 0
    OBVIOUS
  <2>3. BagNumbers = 1 .. Cardinality(BagNumbers) /\ IsFiniteSet(BagNumbers)
    BY <1>2, <2>1, <2>2
  <2>4. /\ CaseNumbers("REC") = {} /\ OfKind("REC") = {} /\ OfKind("NC") = {}
    BY <1>3
  <2>5. /\ CaseNumbers("REC") = 1 .. Cardinality(CaseNumbers("REC"))
        /\ IsFiniteSet(CaseNumbers("REC"))
    BY <2>1, <2>2, <2>4
  <2> QED
    BY <2>1, <2>3, <2>4, <2>5 DEF NumbersOK
<1>5. RowsOK
  <2>1. NewCase = [NewCase EXCEPT !.kind = "none"]
    <3>1. PICK row : row = [NewCase EXCEPT !.kind = "none"]
      OBVIOUS
    <3>2. row = [kind |-> "none", number |-> 0, closed |-> FALSE, bag |-> NoBag,
                 machine |-> NoMachine, start |-> 0, people |-> {}]
      BY <3>1 DEF NewCase
    <3>3. row = NewCase
      BY <3>2 DEF NewCase
    <3> QED
      BY <3>1, <3>3
  <2> QED
    BY <1>1, <2>1, NewBagOK, NewCaseOK DEF RowsOK
<1>6. RequestsOK
  <2>1. Busy = {}
    BY <1>1 DEF Busy
  <2>2. IsFiniteSet(Busy)
    BY <2>1, FS_EmptySet
  <2>3. DOMAIN tx = Workers
    BY DEF Init
  <2> QED
    BY <1>1, <2>2, <2>3, IdleOK, IdlePair DEF RequestsOK
<1>7. TypeOK
  <2>1. now \in 0 .. MaxTime
    BY BoundAssumption DEF Init
  <2>2. bag \in [Bags -> BagRow] /\ case \in [Cases -> CaseRow]
    BY NewBagOK, NewCaseOK DEF Init
  <2>3. /\ at \in [Users -> Machines \union {NoMachine}]
        /\ was = {} /\ shifts = {} /\ gone = {}
        /\ events \in [Bags -> [shipped : Nat, verified : Nat]]
    BY DEF Init
  <2> QED
    BY <1>1, <2>1, <2>2, <2>3, NewBagOK, NewCaseOK DEF TypeOK
<1> QED
  BY <1>4, <1>5, <1>6, <1>7 DEF IInv

LEMMA NextInvariant ==
  ASSUME IInv, [Next]_vars
  PROVE  IInv'
<1>1. ASSUME NEW w \in Workers,
             LoadClock(w, "login") \/ LoadClock(w, "logout") \/ LoadCreateBag(w)
             \/ LoadEditBag(w) \/ CompareBag(w) \/ LoadStamp(w, "shipped")
             \/ LoadStamp(w, "verified") \/ LoadCreateCase(w) \/ LoadEditCase(w)
             \/ CompareCase(w) \/ LoadClose(w) \/ Abort(w) \/ CloseShifts(w)
      PROVE  IInv'
  BY <1>1, MoveFacts, MoveInvariant
<1>2. CASE EditShifts
  <2>1. shifts' \subseteq Shift
    <3>1. PICK old \in {{}} \union {{r} : r \in shifts},
               new \in {{}} \union {{r} : r \in {x \in ByHand : x.machine \notin gone}} :
            shifts' = (shifts \ old) \union new
      BY <1>2 DEF EditShifts
    <3>2. new \subseteq Shift
      BY ByHandAssumption
    <3>3. shifts \subseteq Shift
      BY DEF IInv, TypeOK
    <3> QED
      BY <3>1, <3>2, <3>3
  <2> QED
    BY <1>2, <2>1, ShiftsByHandInvariant DEF EditShifts
<1>3. ASSUME NEW u \in Users, RemoveUser(u) PROVE IInv'
  <2>1. shifts' \subseteq Shift
    BY <1>3 DEF RemoveUser, IInv, TypeOK
  <2> QED
    BY <1>3, <2>1, ShiftsByHandInvariant DEF RemoveUser
<1>4. CASE UNCHANGED vars
  <2>1. shifts' \subseteq Shift
    BY <1>4 DEF vars, IInv, TypeOK
  <2> QED
    BY <1>4, <2>1, ShiftsByHandInvariant DEF vars
<1> QED
  BY <1>1, <1>2, <1>3, <1>4, ClockInvariant, CommitBagInvariant, CommitStampInvariant,
     CommitCaseInvariant, DeleteCaseInvariant, RemoveMachineInvariant, TickInvariant DEF Next

\* Whatever requests are interleaved: what each has loaded is still of the row it is about,
\* no two are given the same number, and the numbers that were given have no gap.
THEOREM InvariantHolds == Spec => []IInv
<1>1. Init => IInv
  BY InitInvariant
<1>2. IInv /\ [Next]_vars => IInv'
  BY NextInvariant
<1> QED
  BY <1>1, <1>2, PTL DEF Spec

\* The types: a recorded bag has a machine and was not finished before it was begun,
\* whatever edits race.
THEOREM TypeCorrect == Spec => []TypeOK
<1>1. IInv => TypeOK
  BY DEF IInv
<1> QED
  BY <1>1, InvariantHolds, PTL

\* As many numbers as rows.
LEMMA NumbersCount ==
  ASSUME IInv, NEW kind, kind = "REC" \/ kind = "NC"
  PROVE  Cardinality(CaseNumbers(kind)) = Cardinality(OfKind(kind))
<1>1. IsFiniteSet(OfKind(kind))
  BY DEF IInv, NumbersOK
<1>2. CaseNumbers(kind) = {case[c].number : c \in OfKind(kind)}
  BY <1>1, NumbersFinite
<1>3. ASSUME NEW c \in OfKind(kind), NEW d \in OfKind(kind), case[c].number = case[d].number
      PROVE  c = d
  <2>1. c \in Cases /\ d \in Cases /\ case[c].kind = kind /\ case[d].kind = kind
    BY DEF OfKind
  <2>2. case[c].number # 0
    BY <2>1, TypeFacts DEF CaseOK
  <2> QED
    BY <1>3, <2>1, <2>2 DEF IInv, RowsOK
<1> DEFINE f == [c \in OfKind(kind) |-> case[c].number]
<1>4. f \in Bijection(OfKind(kind), CaseNumbers(kind))
  <2>1. f \in [OfKind(kind) -> CaseNumbers(kind)]
    BY <1>2
  <2>2. \A c, d \in OfKind(kind) : f[c] = f[d] => c = d
    BY <1>3
  <2>3. \A n \in CaseNumbers(kind) : \E c \in OfKind(kind) : f[c] = n
    BY <1>2
  <2> HIDE DEF f
  <2> QED
    BY <2>1, <2>2, <2>3 DEF Bijection, Injection, Surjection, IsInjective
<1> HIDE DEF f
<1>5. ExistsBijection(OfKind(kind), CaseNumbers(kind))
  BY <1>4 DEF ExistsBijection
<1> QED
  BY <1>1, <1>5, FS_Bijection

\* The numbers of bags and of complaints have no gap, and those of non-conformities are
\* unique, however many requests count the same rows at once.
THEOREM NumbersHaveNoGap == Spec => []NumbersAreDense
<1>1. IInv => NumbersAreDense
  <2> SUFFICES ASSUME IInv PROVE NumbersAreDense
    OBVIOUS
  <2>1. \A kind : OfKind(kind) = {c \in Cases : case[c].kind = kind}
    BY DEF OfKind
  <2>2. /\ Cardinality(CaseNumbers("REC")) = Cardinality(OfKind("REC"))
        /\ Cardinality(CaseNumbers("NC")) = Cardinality(OfKind("NC"))
    BY NumbersCount
  <2> QED
    BY <2>1, <2>2 DEF IInv, NumbersOK, NumbersAreDense
<1> QED
  BY <1>1, InvariantHolds, PTL
-----------------------------------------------------------------------------
(* Requests one at a time.                                                 *)

LEMMA OneAtATime ==
  ASSUME IsFiniteSet(Busy), Cardinality(Busy) <= 1
  PROVE  Alone
<1> SUFFICES ASSUME NEW v \in Workers, NEW w \in Workers,
                    tx[v] # Idle, tx[w] # Idle, v # w
             PROVE  FALSE
  BY DEF Alone
<1>1. {v, w} \subseteq Busy
  BY DEF Busy
<1>2. Cardinality({v, w}) <= Cardinality(Busy)
  BY <1>1, FS_Subset
<1>3. IsFiniteSet({w}) /\ Cardinality({w}) = 1
  BY FS_Singleton
<1>4. Cardinality({w} \union {v}) = Cardinality({w}) + 1
  BY <1>3, FS_AddElement
<1>5. {w} \union {v} = {v, w}
  OBVIOUS
<1>6. Cardinality({v, w}) = 2
  BY <1>3, <1>4, <1>5
<1>7. Cardinality(Busy) \in Nat
  BY FS_CardinalityType
<1> QED
  BY <1>2, <1>6, <1>7

\* A bag and what the log says of it.
Once(row, n) ==
  /\ row.shipped => n.shipped = 1
  /\ ~row.shipped => n.shipped = 0
  /\ row.verified => n.verified = 1
  /\ ~row.verified => n.verified = 0

EachOnce == \A b \in Bags : Once(bag[b], events[b])

LEMMA OnceEach == LeavesOnce <=> EachOnce
BY DEF LeavesOnce, EachOnce, Once

LEMMA LoadedIdle == Loaded(Idle) /\ Loaded(Idle)'
BY DEF Loaded, Idle

LEMMA SerialMove ==
  ASSUME IInv, Serial, NEW w \in Workers, NEW r, Moves(w, r), Alone'
  PROVE  Serial'
<1>1. /\ tx' = [tx EXCEPT ![w] = r] /\ Loaded(r)
      /\ UNCHANGED <<now, at, was, shifts, gone, bag, case, events>>
  BY DEF Moves
<1>2. tx'[w] = r /\ \A v \in Workers : v # w => tx'[v] = tx[v]
  BY <1>1, TypeFacts, Others
<1>3. ASSUME NEW v \in Workers PROVE Loaded(tx[v])'
  <2>1. PICK q : q = tx'[v]
    OBVIOUS
  <2>2. Loaded(q)
    BY <1>1, <1>2, <2>1 DEF Serial
  <2>3. Loaded(q)'
    BY <1>1, <2>2 DEF Loaded
  <2> QED
    BY <2>1, <2>3
<1>4. LeavesOnce'
  BY <1>1 DEF Serial, LeavesOnce
<1> QED
  BY <1>3, <1>4 DEF Serial

LEMMA SerialEnd ==
  ASSUME IInv, Serial, NEW w \in Workers, tx[w] # Idle, tx' = [tx EXCEPT ![w] = Idle], LeavesOnce'
  PROVE  Serial'
<1>1. \A v \in Workers : tx'[v] = Idle
  BY TypeFacts, Others DEF Serial, Alone
<1> QED
  BY <1>1, LoadedIdle DEF Serial, Alone

LEMMA SerialStay ==
  ASSUME IInv, Serial, UNCHANGED <<tx, bag, events>>,
         \A c \in Cases : case'[c].closed => case[c].closed
  PROVE  Serial'
<1>1. ASSUME NEW v \in Workers PROVE Loaded(tx[v])'
  <2>1. PICK q : q = tx[v]
    OBVIOUS
  <2>2. Loaded(q) /\ RequestOK(q)
    BY <2>1 DEF Serial, IInv, RequestsOK
  <2>3. q.act \in {"compare case", "save case"} => q.case \in Cases
    BY <2>2, RequestFacts DEF CaseActs
  <2>4. Loaded(q)'
    BY <2>2, <2>3 DEF Loaded
  <2> QED
    BY <2>1, <2>4
<1>2. LeavesOnce'
  BY DEF Serial, LeavesOnce
<1> QED
  BY <1>1, <1>2 DEF Serial, Alone

LEMMA SerialClock ==
  ASSUME IInv, Serial, NEW w \in Workers, CommitClock(w)
  PROVE  Serial'
<1>1. tx' = [tx EXCEPT ![w] = Idle] /\ tx[w] # Idle /\ UNCHANGED <<bag, events>>
  BY DEF CommitClock, End, Idle
<1>2. LeavesOnce'
  BY <1>1 DEF Serial, LeavesOnce
<1> QED
  BY <1>1, <1>2, SerialEnd

LEMMA SerialBag ==
  ASSUME IInv, Serial, NEW w \in Workers, CommitBag(w)
  PROVE  Serial'
<1>1. PICK b \in Bags, row \in BagRow :
           /\ tx[w].act = "save bag" \/ tx[w].act = "new bag"
           /\ tx[w].bag = b /\ tx[w].row = row
           /\ BagMove(b, row)
           /\ tx[w].act = "save bag" => bag[b].number # 0
           /\ tx[w].act = "new bag" => bag[b].number = 0 /\ ~row.shipped /\ ~row.verified
           /\ tx' = [tx EXCEPT ![w] = Idle] /\ UNCHANGED <<at, was, shifts, gone, events>>
  BY CommitBagFacts
<1>2. \A a \in Bags : bag'[a] = IF a = b THEN row ELSE bag[a]
  BY <1>1, TypeFacts DEF BagMove
<1>3. Once(bag[b], events[b]) /\ Loaded(tx[w])
  BY <1>1, OnceEach DEF Serial, EachOnce
<1>4. Once(row, events[b])
  <2>1. CASE tx[w].act = "save bag"
    <3>1. row.shipped = bag[b].shipped /\ row.verified = bag[b].verified
      BY <1>1, <1>3, <2>1 DEF Loaded
    <3> QED
      BY <1>3, <3>1 DEF Once
  <2>2. CASE tx[w].act = "new bag"
    <3>1. bag[b] = NewBag
      BY <1>1, <2>2, TypeFacts
    <3>2. ~NewBag.shipped /\ ~NewBag.verified
      BY DEF NewBag
    <3> QED
      BY <1>1, <1>3, <2>2, <3>1, <3>2 DEF Once
  <2> QED
    BY <1>1, <2>1, <2>2
<1>5. EachOnce'
  <2>1. EachOnce
    BY OnceEach DEF Serial
  <2> QED
    BY <1>1, <1>2, <1>4, <2>1 DEF Once, EachOnce
<1>6. LeavesOnce'
  BY <1>5, OnceEach, PTL
<1>7. tx[w] # Idle
  <2>1. Idle.act = "idle"
    BY IdleOK
  <2> QED
    BY <1>1, <2>1
<1> QED
  BY <1>1, <1>6, <1>7, SerialEnd

LEMMA SerialStamp ==
  ASSUME IInv, Serial, NEW w \in Workers, CommitStamp(w)
  PROVE  Serial'
<1>1. PICK b \in Bags, row \in BagRow, n \in Counts :
           /\ tx[w].bag = b /\ bag[b].number # 0
           /\ BagMove(b, row)
           /\ row.machine = bag[b].machine /\ row.end = bag[b].end
           /\ row.people = bag[b].people /\ row.start = bag[b].start
           /\ \/ /\ tx[w].act = "shipped" /\ row.shipped /\ row.verified = bag[b].verified
                 /\ n.shipped = events[b].shipped + 1 /\ n.verified = events[b].verified
              \/ /\ tx[w].act = "verified" /\ row.verified /\ row.shipped = bag[b].shipped
                 /\ n.verified = events[b].verified + 1 /\ n.shipped = events[b].shipped
           /\ events' = [events EXCEPT ![b] = n]
           /\ tx' = [tx EXCEPT ![w] = Idle] /\ UNCHANGED <<at, was, shifts, gone>>
  BY StampFacts
<1>2. \A a \in Bags : bag'[a] = IF a = b THEN row ELSE bag[a]
  BY <1>1, TypeFacts DEF BagMove
<1>3. \A a \in Bags : events'[a] = IF a = b THEN n ELSE events[a]
  BY <1>1 DEF IInv, TypeOK
<1>4. Once(bag[b], events[b]) /\ Loaded(tx[w])
  BY <1>1, OnceEach DEF Serial, EachOnce
<1>5. Once(row, n)
  <2>1. CASE tx[w].act = "shipped"
    <3>1. ~bag[b].shipped /\ row.shipped /\ row.verified = bag[b].verified
      BY <1>1, <1>4, <2>1 DEF Loaded
    <3>2. events[b].shipped = 0
      BY <1>4, <3>1 DEF Once
    <3>3. n.shipped = 1 /\ n.verified = events[b].verified
      BY <1>1, <2>1, <3>2
    <3> QED
      BY <1>4, <3>1, <3>3 DEF Once
  <2>2. CASE tx[w].act = "verified"
    <3>1. ~bag[b].verified /\ row.verified /\ row.shipped = bag[b].shipped
      BY <1>1, <1>4, <2>2 DEF Loaded
    <3>2. events[b].verified = 0
      BY <1>4, <3>1 DEF Once
    <3>3. n.verified = 1 /\ n.shipped = events[b].shipped
      BY <1>1, <2>2, <3>2
    <3> QED
      BY <1>4, <3>1, <3>3 DEF Once
  <2> QED
    BY <1>1, <2>1, <2>2
<1>6. EachOnce'
  <2>1. EachOnce
    BY OnceEach DEF Serial
  <2> QED
    BY <1>2, <1>3, <1>5, <2>1 DEF Once, EachOnce
<1>7. LeavesOnce'
  BY <1>6, OnceEach, PTL
<1>8. tx[w] # Idle
  BY <1>1 DEF Idle
<1> QED
  BY <1>1, <1>7, <1>8, SerialEnd

LEMMA SerialCase ==
  ASSUME IInv, Serial, NEW w \in Workers, CommitCase(w)
  PROVE  Serial'
<1>1. tx' = [tx EXCEPT ![w] = Idle] /\ tx[w].act # "idle" /\ UNCHANGED <<bag, events>>
  BY DEF CommitCase, End
<1>2. LeavesOnce'
  BY <1>1 DEF Serial, LeavesOnce
<1>3. tx[w] # Idle
  BY <1>1, IdleOK
<1> QED
  BY <1>1, <1>2, <1>3, SerialEnd

LEMMA SerialDelete ==
  ASSUME IInv, Serial, NEW c \in Cases, DeleteCase(c)
  PROVE  Serial'
<1>1. PICK row \in CaseRow :
           /\ CaseMove(c, row) /\ case[c].kind = "NC"
           /\ row.number = 0 /\ ~row.closed /\ row.machine = NoMachine
           /\ UNCHANGED <<now, at, was, shifts, gone, bag, events, tx>>
  BY DeleteCaseFacts
<1>2. \A d \in Cases : case'[d] = IF d = c THEN row ELSE case[d]
  BY <1>1, TypeFacts DEF CaseMove
<1>3. \A d \in Cases : case'[d].closed => case[d].closed
  BY <1>1, <1>2
<1> QED
  BY <1>1, <1>3, SerialStay

LEMMA SerialNext ==
  ASSUME IInv, Serial, [Next]_vars, Alone'
  PROVE  Serial'
<1>1. ASSUME NEW w \in Workers,
             LoadClock(w, "login") \/ LoadClock(w, "logout") \/ LoadCreateBag(w)
             \/ LoadEditBag(w) \/ CompareBag(w) \/ LoadStamp(w, "shipped")
             \/ LoadStamp(w, "verified") \/ LoadCreateCase(w) \/ LoadEditCase(w)
             \/ CompareCase(w) \/ LoadClose(w) \/ Abort(w) \/ CloseShifts(w)
      PROVE  Serial'
  BY <1>1, MoveFacts, SerialMove
<1>2. ASSUME UNCHANGED <<tx, bag, events, case>> PROVE Serial'
  BY <1>2, SerialStay
<1>3. EditShifts \/ Tick \/ UNCHANGED vars => UNCHANGED <<tx, bag, events, case>>
  BY DEF EditShifts, Tick, vars
<1>4. \A u \in Users : RemoveUser(u) => UNCHANGED <<tx, bag, events, case>>
  BY DEF RemoveUser
<1>5. ASSUME NEW m \in Machines, RemoveMachine(m) PROVE Serial'
  <2>1. /\ \A c \in Cases : case'[c].closed = case[c].closed
        /\ UNCHANGED <<tx, bag, events>>
    BY <1>5, RemoveMachineFacts
  <2> QED
    BY <2>1, SerialStay
<1> QED
  BY <1>1, <1>2, <1>3, <1>4, <1>5, SerialClock, SerialBag, SerialStamp, SerialCase,
     SerialDelete DEF Next
-----------------------------------------------------------------------------
(* Nobody touches the shifts by hand.                                      *)

LEMMA PeopleStay ==
  ASSUME UNCHANGED <<now, was>>
  PROVE  /\ \A row : BagPeople(row)' <=> BagPeople(row)
         /\ \A row : CasePeople(row)' <=> CasePeople(row)
<1>1. \A m, from, to : There(m, from, to)' = There(m, from, to)
  BY DEF There
<1>2. \A row : AtStart(row)' <=> AtStart(row)
  BY <1>1 DEF AtStart
<1>3. \A row : CaseStart(row)' <=> CaseStart(row)
  BY <1>1 DEF CaseStart
<1> QED
  BY <1>1, <1>2, <1>3 DEF BagPeople, CasePeople

LEMMA SessionsStay ==
  ASSUME Sessions, UNCHANGED <<now, at, was, shifts, gone>>
  PROVE  Sessions'
BY DEF Sessions, Session

LEMMA WatchingStays ==
  ASSUME UNCHANGED <<now, was, shifts, gone>>, NEW r, Watching(r)
  PROVE  Watching(r)'
<1>1. /\ r.act \in {"login", "logout"} => r.rows = OpenRows(r.user)
      /\ r.act \in {"login", "logout"} => \A x \in shifts : x.user = r.user => x.starts < now
      /\ r.act \in {"new bag", "save bag"} => r.row.machine \in gone \/ BagPeople(r.row)
      /\ r.act = "compare" => r.row.end = Open \/ r.row.end <= now
      /\ r.act \in {"REC", "NC", "compare case", "save case"} => CasePeople(r.row)
  BY DEF Watching
<1>2. OpenRows(r.user)' = OpenRows(r.user)
  BY DEF OpenRows
<1>3. (BagPeople(r.row)' <=> BagPeople(r.row)) /\ (CasePeople(r.row)' <=> CasePeople(r.row))
  BY PeopleStay
<1> QED
  BY <1>1, <1>2, <1>3 DEF Watching

LEMMA WatchingIdle == Watching(Idle) /\ Watching(Idle)'
BY DEF Watching, Idle

LEMMA WatchedMove ==
  ASSUME IInv, Serial, Watched, NEW w \in Workers, NEW r, Moves(w, r)
  PROVE  Watched'
<1>1. /\ tx' = [tx EXCEPT ![w] = r] /\ Watching(r)
      /\ UNCHANGED <<now, at, was, shifts, gone, bag, case, events>>
  BY DEF Moves, Watched
<1>2. tx'[w] = r /\ \A v \in Workers : v # w => tx'[v] = tx[v]
  BY <1>1, TypeFacts, Others
<1>3. ASSUME NEW v \in Workers PROVE Watching(tx[v])'
  <2>1. PICK q : q = tx'[v]
    OBVIOUS
  <2>2. Watching(q)
    BY <1>1, <1>2, <2>1 DEF Watched
  <2>3. Watching(q)'
    BY <1>1, <2>2, WatchingStays
  <2> QED
    BY <2>1, <2>3
<1>4. Sessions'
  BY <1>1, SessionsStay DEF Watched
<1> QED
  BY <1>1, <1>3, <1>4, PeopleStay DEF Watched

\* A request ends, and it was the only one.
LEMMA WatchedEnd ==
  ASSUME IInv, Serial, Watched, NEW w \in Workers, tx[w] # Idle, tx' = [tx EXCEPT ![w] = Idle],
         UNCHANGED <<now, was>>, Sessions',
         \A b \in Bags : bag'[b].number # 0 => BagPeople(bag'[b]),
         \A c \in Cases : CasePeople(case'[c])
  PROVE  Watched'
<1>1. \A v \in Workers : tx'[v] = Idle
  BY TypeFacts, Others DEF Serial, Alone
<1>2. \A v \in Workers : Watching(tx[v])'
  BY <1>1, WatchingIdle
<1>3. \A b \in Bags : bag'[b].number # 0 => BagPeople(bag[b])'
  <2>1. ASSUME NEW b \in Bags, bag'[b].number # 0 PROVE BagPeople(bag[b])'
    <3>1. PICK q : q = bag'[b]
      OBVIOUS
    <3>2. BagPeople(q)'
      BY <2>1, <3>1, PeopleStay
    <3> QED
      BY <3>1, <3>2
  <2> QED
    BY <2>1
<1>4. \A c \in Cases : CasePeople(case[c])'
  <2>1. ASSUME NEW c \in Cases PROVE CasePeople(case[c])'
    <3>1. PICK q : q = case'[c]
      OBVIOUS
    <3>2. CasePeople(q)'
      BY <2>1, <3>1, PeopleStay
    <3> QED
      BY <3>1, <3>2
  <2> QED
    BY <2>1
<1> QED
  BY <1>2, <1>3, <1>4 DEF Watched

LEMMA WatchedBag ==
  ASSUME IInv, Serial, Watched, NEW w \in Workers, CommitBag(w)
  PROVE  Watched'
<1>1. PICK b \in Bags, row \in BagRow :
           /\ tx[w].act = "save bag" \/ tx[w].act = "new bag"
           /\ tx[w].bag = b /\ tx[w].row = row
           /\ BagMove(b, row)
           /\ tx[w].act = "save bag" => bag[b].number # 0
           /\ tx[w].act = "new bag" => bag[b].number = 0 /\ ~row.shipped /\ ~row.verified
           /\ tx' = [tx EXCEPT ![w] = Idle] /\ UNCHANGED <<at, was, shifts, gone, events>>
  BY CommitBagFacts
<1>2. \A a \in Bags : bag'[a] = IF a = b THEN row ELSE bag[a]
  BY <1>1, TypeFacts DEF BagMove
<1>3. BagPeople(row)
  <2>1. Watching(tx[w])
    BY DEF Watched
  <2>2. row.machine \notin gone
    BY <1>1 DEF BagMove
  <2> QED
    BY <1>1, <2>1, <2>2 DEF Watching
<1>4. \A a \in Bags : bag'[a].number # 0 => BagPeople(bag'[a])
  BY <1>2, <1>3 DEF Watched
<1>5. UNCHANGED <<now, case>>
  BY <1>1 DEF BagMove
<1>6. Sessions'
  BY <1>1, <1>5, SessionsStay DEF Watched
<1>7. tx[w] # Idle
  BY <1>1, IdleOK
<1>8. \A c \in Cases : CasePeople(case'[c])
  BY <1>5 DEF Watched
<1> QED
  BY <1>1, <1>4, <1>5, <1>6, <1>7, <1>8, WatchedEnd

LEMMA WatchedStamp ==
  ASSUME IInv, Serial, Watched, NEW w \in Workers, CommitStamp(w)
  PROVE  Watched'
<1>1. PICK b \in Bags, row \in BagRow, n \in Counts :
           /\ tx[w].bag = b /\ bag[b].number # 0
           /\ BagMove(b, row)
           /\ row.machine = bag[b].machine /\ row.end = bag[b].end
           /\ row.people = bag[b].people /\ row.start = bag[b].start
           /\ \/ /\ tx[w].act = "shipped" /\ row.shipped /\ row.verified = bag[b].verified
                 /\ n.shipped = events[b].shipped + 1 /\ n.verified = events[b].verified
              \/ /\ tx[w].act = "verified" /\ row.verified /\ row.shipped = bag[b].shipped
                 /\ n.verified = events[b].verified + 1 /\ n.shipped = events[b].shipped
           /\ events' = [events EXCEPT ![b] = n]
           /\ tx' = [tx EXCEPT ![w] = Idle] /\ UNCHANGED <<at, was, shifts, gone>>
  BY StampFacts
<1>2. \A a \in Bags : bag'[a] = IF a = b THEN row ELSE bag[a]
  BY <1>1, TypeFacts DEF BagMove
<1>3. BagPeople(row)
  <2>1. PICK old : old = bag[b]
    OBVIOUS
  <2>2. BagPeople(old)
    BY <1>1, <2>1 DEF Watched
  <2>3. /\ row.machine = old.machine /\ row.end = old.end
        /\ row.people = old.people /\ row.start = old.start
    BY <1>1, <2>1
  <2> QED
    BY <2>2, <2>3 DEF BagPeople, AtStart
<1>4. \A a \in Bags : bag'[a].number # 0 => BagPeople(bag'[a])
  BY <1>2, <1>3 DEF Watched
<1>5. UNCHANGED <<now, case>>
  BY <1>1 DEF BagMove
<1>6. Sessions'
  BY <1>1, <1>5, SessionsStay DEF Watched
<1>7. tx[w] # Idle
  BY <1>1, IdleOK
<1>8. \A c \in Cases : CasePeople(case'[c])
  BY <1>5 DEF Watched
<1> QED
  BY <1>1, <1>4, <1>5, <1>6, <1>7, <1>8, WatchedEnd

LEMMA WatchedCase ==
  ASSUME IInv, Serial, Watched, NEW w \in Workers, CommitCase(w)
  PROVE  Watched'
<1>1. PICK c \in Cases, row \in CaseRow :
           /\ tx[w].act = "save case" \/ tx[w].act = "REC" \/ tx[w].act = "NC"
           /\ tx[w].case = c /\ tx[w].row = row
           /\ CaseMove(c, row)
           /\ tx[w].act = "save case" => case[c] # NewCase
           /\ tx[w].act # "save case" => case[c] = NewCase /\ row.kind = tx[w].act
           /\ tx' = [tx EXCEPT ![w] = Idle] /\ UNCHANGED <<at, was, shifts, gone, events>>
  BY CommitCaseFacts
<1>2. \A d \in Cases : case'[d] = IF d = c THEN row ELSE case[d]
  BY <1>1, TypeFacts DEF CaseMove
<1>3. CasePeople(row)
  <2>1. Watching(tx[w])
    BY DEF Watched
  <2> QED
    BY <1>1, <2>1 DEF Watching
<1>4. \A d \in Cases : CasePeople(case'[d])
  BY <1>2, <1>3 DEF Watched
<1>5. UNCHANGED <<now, bag>>
  BY <1>1 DEF CaseMove
<1>6. Sessions'
  BY <1>1, <1>5, SessionsStay DEF Watched
<1>7. tx[w] # Idle
  BY <1>1, IdleOK
<1>8. \A b \in Bags : bag'[b].number # 0 => BagPeople(bag'[b])
  BY <1>5 DEF Watched
<1> QED
  BY <1>1, <1>4, <1>5, <1>6, <1>7, <1>8, WatchedEnd

\* Nothing happens to the shifts, the clock or a request.
LEMMA WatchedStay ==
  ASSUME Watched, UNCHANGED <<now, at, was, shifts, gone, bag, tx>>,
         \A c \in Cases : CasePeople(case'[c])
  PROVE  Watched'
<1>1. ASSUME NEW v \in Workers PROVE Watching(tx[v])'
  <2>1. PICK q : q = tx[v]
    OBVIOUS
  <2>2. Watching(q)'
    BY <2>1, WatchingStays DEF Watched
  <2> QED
    BY <2>1, <2>2
<1>2. ASSUME NEW c \in Cases PROVE CasePeople(case[c])'
  <2>1. PICK q : q = case'[c]
    OBVIOUS
  <2>2. CasePeople(q)'
    BY <2>1, PeopleStay
  <2> QED
    BY <2>1, <2>2
<1>3. Sessions'
  BY SessionsStay DEF Watched
<1> QED
  BY <1>1, <1>2, <1>3, PeopleStay DEF Watched

LEMMA WatchedDelete ==
  ASSUME IInv, Watched, NEW c \in Cases, DeleteCase(c)
  PROVE  Watched'
<1>1. PICK row \in CaseRow :
           /\ CaseMove(c, row) /\ case[c].kind = "NC"
           /\ row.number = 0 /\ ~row.closed /\ row.machine = NoMachine
           /\ UNCHANGED <<now, at, was, shifts, gone, bag, events, tx>>
  BY DeleteCaseFacts
<1>2. \A d \in Cases : case'[d] = IF d = c THEN row ELSE case[d]
  BY <1>1, TypeFacts DEF CaseMove
<1>3. \A d \in Cases : CasePeople(case'[d])
  BY <1>1, <1>2 DEF Watched, CasePeople
<1> QED
  BY <1>1, <1>3, WatchedStay

\* What was so at an instant gone by is so for good.
LEMMA PastStays ==
  ASSUME IInv, now' = now + 1, NEW new, was' = was \union new,
         \A z \in new : z[3] = now
  PROVE  /\ \A row \in BagRow : BagOK(row) /\ BagPeople(row) => BagPeople(row)'
         /\ \A row \in CaseRow : CasePeople(row) => CasePeople(row)'
<1>1. ASSUME NEW m, NEW from \in Int, NEW to \in Int, to < now
      PROVE  There(m, from, to)' = There(m, from, to)
  <2>1. ASSUME NEW u, NEW t \in from .. to PROVE <<u, m, t>> \in was' <=> <<u, m, t>> \in was
    <3>1. t < now
      BY <1>1, Instants
    <3>2. <<u, m, t>> \notin new
      BY <3>1, Instants
    <3> QED
      BY <3>2
  <2> QED
    BY <2>1 DEF There
<1>2. ASSUME NEW row, row.start \in Nat, row.start < now
      PROVE  AtStart(row)' <=> AtStart(row)
  <2>1. row.start - 1 < now /\ row.start - 1 \in Int /\ row.start \in Int /\ now \in Int
    BY <1>2, Instants
  <2> QED
    BY <1>1, <1>2, <2>1 DEF AtStart
\* The same of the ones a complaint names.
<1>5. ASSUME NEW row, row.start \in Nat, row.start < now
      PROVE  CaseStart(row)' <=> CaseStart(row)
  <2>1. row.start - 1 < now /\ row.start - 1 \in Int /\ row.start \in Int /\ now \in Int
    BY <1>5, Instants
  <2> QED
    BY <1>1, <1>5, <2>1 DEF CaseStart
<1>3. ASSUME NEW row \in BagRow, BagOK(row), BagPeople(row) PROVE BagPeople(row)'
  <2>1. row.start \in Nat /\ row.start < now /\ row.end \in 0 .. Open
    BY <1>3 DEF BagOK, BagRow
  <2>2. AtStart(row)' <=> AtStart(row)
    BY <1>2, <2>1
  <2>3. row.end = Open \/ row.end <= now
    BY <1>3 DEF BagPeople
  <2>4. row.end = Open \/ row.end <= now'
    BY <2>1, <2>3, Instants
  <2>5. row.end # Open => There(row.machine, row.start, row.end - 1)'
                            = There(row.machine, row.start, row.end - 1)
    BY <1>1, <2>1, <2>3, Instants
  <2> QED
    BY <1>3, <2>2, <2>4, <2>5 DEF BagPeople
<1>4. ASSUME NEW row \in CaseRow, CasePeople(row) PROVE CasePeople(row)'
  <2>1. row.start \in Nat
    BY <1>4 DEF CaseRow
  <2>2. row.machine # NoMachine => row.start < now /\ CaseStart(row)
    BY <1>4 DEF CasePeople
  <2>3. row.start < now => row.start < now'
    BY <2>1, Instants
  <2> QED
    BY <1>5, <2>1, <2>2, <2>3 DEF CasePeople
<1> QED
  BY <1>3, <1>4

LEMMA WatchedTick ==
  ASSUME IInv, Watched, Tick
  PROVE  Watched'
<1> DEFINE new == {<<u, at[u], now>> : u \in {x \in Users : at[x] # NoMachine}}
<1>1. /\ now' = now + 1 /\ now < MaxTime /\ \A w \in Workers : tx[w] = Idle
      /\ was' = was \union new
      /\ UNCHANGED <<at, shifts, gone, bag, case, events, tx>>
  BY DEF Tick
<1>2. \A u, m, t : <<u, m, t>> \in new <=> u \in Users /\ at[u] # NoMachine /\ m = at[u] /\ t = now
  OBVIOUS
<1>3. \A z \in new : z[3] = now
  OBVIOUS
<1> HIDE DEF new
<1>4. \A w \in Workers : Watching(tx[w])'
  BY <1>1, WatchingIdle
<1>5. ASSUME NEW b \in Bags, bag'[b].number # 0 PROVE BagPeople(bag[b])'
  <2>1. PICK row \in BagRow : row = bag[b]
    BY TypeFacts
  <2>2. BagOK(row) /\ BagPeople(row)
    BY <1>1, <1>5, <2>1, TypeFacts DEF Watched
  <2>3. BagPeople(row)'
    BY <1>1, <1>3, <2>2, PastStays
  <2> QED
    BY <1>1, <2>1, <2>3
<1>6. ASSUME NEW c \in Cases PROVE CasePeople(case[c])'
  <2>1. PICK row \in CaseRow : row = case[c]
    BY TypeFacts
  <2>2. CasePeople(row)'
    BY <1>1, <1>3, <2>1, PastStays DEF Watched
  <2> QED
    BY <1>1, <2>1, <2>2
<1>7. Sessions'
  <2>1. /\ now \in Nat /\ now \in 0 .. MaxTime /\ Open = MaxTime + 1 /\ MaxTime \in Nat
        /\ \A r \in shifts : r.starts \in 0 .. MaxTime /\ r.ends \in 0 .. Open
    BY Instants, ShiftFields DEF IInv, TypeOK
  <2>2. \A r \in shifts : r.starts <= now'
                          /\ (r.ends = Open \/ (r.starts < r.ends /\ r.ends <= now'))
    BY <1>1, <2>1 DEF Watched, Sessions
  <2>3. \A r, q \in shifts : r.user = q.user /\ r # q => r.ends <= q.starts \/ q.ends <= r.starts
    BY DEF Watched, Sessions
  <2>4. \A u \in Users, m \in Machines \ gone :
          at[u] = m <=> \E r \in shifts : r.user = u /\ r.machine = m /\ r.ends = Open
    BY DEF Watched, Sessions
  <2>6. \A u \in Users : at[u] \in gone =>
          \E r \in shifts : r.user = u /\ r.machine = NoMachine /\ r.ends = Open
    BY DEF Watched, Sessions
  <2>5. ASSUME NEW u \in Users, NEW m \in Machines \ gone, NEW t \in 0 .. MaxTime
        PROVE  <<u, m, t>> \in was' <=>
                 t < now' /\ \E r \in shifts : r.user = u /\ Session(r, m, t)
    <3>1. <<u, m, t>> \in was <=> t < now /\ \E r \in shifts : r.user = u /\ Session(r, m, t)
      BY DEF Watched, Sessions
    <3>2. m # NoMachine
      BY NullAssumption
    <3>3. CASE t = now
      <4>1. <<u, m, t>> \in was' <=> at[u] = m
        <5>1. <<u, m, t>> \notin was
          BY <2>1, <3>1, <3>3
        <5>2. <<u, m, t>> \in new <=> at[u] = m
          BY <1>2, <3>2, <3>3
        <5> QED
          BY <1>1, <5>1, <5>2
      <4>2. \A r \in shifts : Session(r, m, t) <=> r.machine = m /\ r.ends = Open
        BY <2>1, <3>3 DEF Session, Watched, Sessions
      <4>3. (\E r \in shifts : r.user = u /\ Session(r, m, t)) <=> at[u] = m
        BY <2>4, <4>2
      <4>4. t < now'
        BY <1>1, <2>1, <3>3
      <4> QED
        BY <4>1, <4>3, <4>4
    <3>4. CASE t # now
      <4>1. <<u, m, t>> \in was' <=> <<u, m, t>> \in was
        BY <1>1, <1>2, <3>4
      <4>2. t < now' <=> t < now
        BY <1>1, <2>1, <3>4
      <4> QED
        BY <3>1, <4>1, <4>2
    <3> QED
      BY <3>3, <3>4
  <2> QED
    BY <1>1, <2>2, <2>3, <2>4, <2>5, <2>6 DEF Sessions, Session
<1> QED
  BY <1>1, <1>4, <1>5, <1>6, <1>7 DEF Watched

\* What becomes of a user's shifts when they log in or out.
LEMMA ClockedRows ==
  ASSUME IInv, Watched, NEW w \in Workers, NEW act \in {"login", "logout"}, NEW u \in Users,
         NEW m \in Machines, NEW rows \in SUBSET Shift, Clocked(w, act, u, m, rows)
  PROVE  /\ rows = OpenRows(u)
         /\ \A x \in shifts : x.user = u => x.starts < now
         /\ \A z \in shifts' : \/ z \in shifts /\ z \notin rows
                               \/ \E x \in rows : z = ClosedNow(x)
                               \/ act = "login" /\ z = NewShift(u, m)
         /\ \A z \in shifts : z \notin rows => z \in shifts'
         /\ \A x \in rows : /\ x \in shifts /\ x.user = u /\ x.ends = Open
                            /\ ClosedNow(x) \in shifts'
                            /\ ClosedNow(x).user = x.user /\ ClosedNow(x).machine = x.machine
                            /\ ClosedNow(x).starts = x.starts /\ ClosedNow(x).ends = now
         /\ act = "login" => NewShift(u, m) \in shifts'
<1>1. Watching(tx[w]) /\ tx[w].act = act /\ tx[w].user = u /\ tx[w].rows = rows
  BY DEF Watched, Clocked
<1>2. rows = OpenRows(u) /\ \A x \in shifts : x.user = u => x.starts < now
  BY <1>1 DEF Watching
<1>3. \A z : z \in shifts' <=> \/ z \in shifts /\ z \notin rows
                               \/ \E r \in rows : z = ClosedNow(r)
                               \/ act = "login" /\ z = NewShift(u, m)
  BY DEF Clocked
<1>4. ASSUME NEW x \in rows
      PROVE  /\ x \in shifts /\ x.user = u /\ x.ends = Open
             /\ ClosedNow(x) \in shifts'
             /\ ClosedNow(x).user = x.user /\ ClosedNow(x).machine = x.machine
             /\ ClosedNow(x).starts = x.starts /\ ClosedNow(x).ends = now
  <2>1. x \in shifts /\ x.user = u /\ x.ends = Open
    BY <1>2 DEF OpenRows
  <2>2. ClosedNow(x) \in shifts'
    BY <1>3
  <2> QED
    BY <2>1, <2>2, ClosedShift
<1> QED
  BY <1>2, <1>3, <1>4

LEMMA SessionsClocked ==
  ASSUME IInv, Watched, NEW w \in Workers, NEW act \in {"login", "logout"}, NEW u \in Users,
         NEW m \in Machines, NEW rows \in SUBSET Shift, Clocked(w, act, u, m, rows)
  PROVE  Sessions'
<1>1. /\ now \in Nat /\ now \in 0 .. MaxTime /\ Open = MaxTime + 1 /\ MaxTime \in Nat
      /\ \A r \in shifts : r.starts \in 0 .. MaxTime /\ r.ends \in 0 .. Open
  BY Instants, ShiftFields DEF IInv, TypeOK
<1>2. /\ \A r \in shifts : r.starts <= now
                           /\ (r.ends = Open \/ (r.starts < r.ends /\ r.ends <= now))
      /\ \A r, q \in shifts : r.user = q.user /\ r # q => r.ends <= q.starts \/ q.ends <= r.starts
      /\ \A v \in Users, n \in Machines \ gone :
           at[v] = n <=> \E r \in shifts : r.user = v /\ r.machine = n /\ r.ends = Open
      /\ \A v \in Users : at[v] \in gone =>
           \E r \in shifts : r.user = v /\ r.machine = NoMachine /\ r.ends = Open
      /\ \A v \in Users, n \in Machines \ gone, t \in 0 .. MaxTime :
           <<v, n, t>> \in was <=> t < now /\ \E r \in shifts : r.user = v /\ Session(r, n, t)
  BY DEF Watched, Sessions
<1>3. /\ rows = OpenRows(u)
      /\ \A x \in shifts : x.user = u => x.starts < now
      /\ \A z \in shifts' : \/ z \in shifts /\ z \notin rows
                            \/ \E x \in rows : z = ClosedNow(x)
                            \/ act = "login" /\ z = NewShift(u, m)
      /\ \A z \in shifts : z \notin rows => z \in shifts'
      /\ \A x \in rows : /\ x \in shifts /\ x.user = u /\ x.ends = Open
                         /\ ClosedNow(x) \in shifts'
                         /\ ClosedNow(x).user = x.user /\ ClosedNow(x).machine = x.machine
                         /\ ClosedNow(x).starts = x.starts /\ ClosedNow(x).ends = now
      /\ act = "login" => NewShift(u, m) \in shifts'
  BY ClockedRows
<1>4. PICK fresh : fresh = NewShift(u, m)
  OBVIOUS
<1>5. fresh.user = u /\ fresh.machine = m /\ fresh.starts = now /\ fresh.ends = Open
  BY <1>4, OpenedShift
<1>6. /\ now' = now /\ was' = was /\ gone' = gone
      /\ at' = [at EXCEPT ![u] = IF act = "login" THEN m ELSE NoMachine]
  BY DEF Clocked
<1>7. ASSUME NEW r \in shifts'
      PROVE  r.starts <= now /\ (r.ends = Open \/ (r.starts < r.ends /\ r.ends <= now))
  <2>1. CASE r \in shifts
    BY <1>2, <2>1
  <2>2. ASSUME NEW x \in rows, r = ClosedNow(x)
        PROVE  r.starts < r.ends /\ r.ends <= now /\ r.starts <= now
    <3>1. x.starts < now /\ r.starts = x.starts /\ r.ends = now /\ x.starts \in Nat
      BY <1>1, <1>3, <2>2
    <3> QED
      BY <1>1, <3>1
  <2>3. CASE r = fresh
    BY <1>1, <1>5, <2>3
  <2> QED
    BY <1>3, <1>4, <2>1, <2>2, <2>3
\* Of one user's shifts only the last is open.
<1>8. ASSUME NEW r \in shifts', NEW q \in shifts', r.user = q.user, r # q
      PROVE  r.ends <= q.starts \/ q.ends <= r.starts
  <2>1. ASSUME NEW x \in shifts', x.user = u, x # fresh
        PROVE  x.ends <= now
    <3>1. CASE x \in shifts /\ x \notin rows
      <4>1. x.ends # Open
        BY <1>3, <2>1, <3>1 DEF OpenRows
      <4> QED
        BY <1>2, <3>1, <4>1
    <3>2. ASSUME NEW y \in rows, x = ClosedNow(y) PROVE x.ends <= now
      BY <1>1, <1>3, <3>2
    <3> QED
      BY <1>3, <1>4, <2>1, <3>1, <3>2
  <2>2. CASE r = fresh \/ q = fresh
    BY <1>5, <1>8, <2>1, <2>2
  <2>3. ASSUME NEW x \in rows, NEW y \in shifts, x # y, y.user = u
        PROVE  y.ends <= x.starts
    <3>1. x \in shifts /\ x.user = y.user /\ x.ends = Open
      BY <1>3, <2>3
    <3>2. x.ends <= y.starts \/ y.ends <= x.starts
      BY <1>2, <2>3, <3>1
    <3> QED
      BY <1>1, <3>1, <3>2
  <2>4. \A x, y \in rows : x = y
    <3> SUFFICES ASSUME NEW x \in rows, NEW y \in rows, x # y PROVE FALSE
      OBVIOUS
    <3>1. y \in shifts /\ y.user = u /\ y.ends = Open /\ x \in shifts
      BY <1>3
    <3>2. y.ends <= x.starts
      BY <2>3, <3>1
    <3> QED
      BY <1>1, <3>1, <3>2
  <2>5. ASSUME NEW x \in rows, NEW a \in shifts', NEW b \in shifts', a = ClosedNow(x),
               b \in shifts, b \notin rows, a.user = b.user
        PROVE  b.ends <= a.starts
    <3>1. b.user = u /\ a.starts = x.starts
      BY <1>3, <2>5
    <3>2. b.ends <= x.starts
      BY <2>3, <2>5, <3>1
    <3> QED
      BY <3>1, <3>2
  <2>6. ASSUME r # fresh, q # fresh, NEW x \in rows, r = ClosedNow(x)
        PROVE  q.ends <= r.starts
    <3>1. CASE q \in shifts /\ q \notin rows
      BY <1>8, <2>5, <2>6, <3>1
    <3>2. ASSUME NEW y \in rows, q = ClosedNow(y) PROVE FALSE
      BY <1>8, <2>4, <2>6, <3>2
    <3> QED
      BY <1>3, <1>4, <2>6, <3>1, <3>2
  <2>7. ASSUME r # fresh, q # fresh, NEW x \in rows, q = ClosedNow(x)
        PROVE  r.ends <= q.starts
    <3>1. CASE r \in shifts /\ r \notin rows
      BY <1>8, <2>5, <2>7, <3>1
    <3>2. ASSUME NEW y \in rows, r = ClosedNow(y) PROVE FALSE
      BY <1>8, <2>4, <2>7, <3>2
    <3> QED
      BY <1>3, <1>4, <2>7, <3>1, <3>2
  <2>8. CASE r \in shifts /\ q \in shifts
    BY <1>2, <1>8, <2>8
  <2> QED
    BY <1>3, <1>4, <2>2, <2>6, <2>7, <2>8
\* Others' shifts are the same.
<1>9. \A z : z.user # u => (z \in shifts' <=> z \in shifts)
  <2>1. ASSUME NEW z \in shifts', z.user # u PROVE z \in shifts
    BY <1>3, <1>4, <1>5, <2>1
  <2>2. ASSUME NEW z \in shifts, z.user # u PROVE z \in shifts'
    BY <1>3, <2>2
  <2> QED
    BY <2>1, <2>2
<1>10. ASSUME NEW v \in Users, NEW n \in Machines \ gone
       PROVE  at'[v] = n <=> \E r \in shifts' : r.user = v /\ r.machine = n /\ r.ends = Open
  <2>1. CASE v # u
    <3>1. at'[v] = at[v]
      BY <1>6, <2>1 DEF IInv, TypeOK
    <3> QED
      BY <1>2, <1>9, <2>1, <3>1
  <2>2. CASE v = u
    <3>1. at'[u] = IF act = "login" THEN m ELSE NoMachine
      BY <1>6 DEF IInv, TypeOK
    <3>2. at'[u] = n <=> act = "login" /\ n = m
      BY <3>1, NullAssumption
    <3>3. ASSUME NEW r \in shifts', r.user = u, r.ends = Open
          PROVE  r = fresh /\ act = "login"
      <4>1. ~(r \in shifts /\ r \notin rows)
        BY <1>3, <3>3 DEF OpenRows
      <4>2. \A x \in rows : r # ClosedNow(x)
        BY <1>1, <1>3, <3>3
      <4> QED
        BY <1>3, <1>4, <4>1, <4>2
    <3>4. act = "login" => fresh \in shifts'
      BY <1>3, <1>4
    <3> QED
      BY <1>5, <2>2, <3>2, <3>3, <3>4
  <2> QED
    BY <2>1, <2>2
<1>11. ASSUME NEW v \in Users, NEW n \in Machines \ gone, NEW t \in 0 .. MaxTime
       PROVE  <<v, n, t>> \in was <=> t < now /\ \E r \in shifts' : r.user = v /\ Session(r, n, t)
  <2>1. ASSUME t < now, NEW r \in shifts, r.user = v, Session(r, n, t)
        PROVE  \E z \in shifts' : z.user = v /\ Session(z, n, t)
    <3>1. CASE r \in rows
      <4>1. PICK z \in shifts' : /\ z.user = r.user /\ z.machine = r.machine
                                 /\ z.starts = r.starts /\ z.ends = now
        BY <1>3, <3>1
      <4>2. Session(z, n, t)
        BY <2>1, <4>1 DEF Session
      <4> QED
        BY <2>1, <4>1, <4>2
    <3>2. CASE r \notin rows
      BY <1>3, <2>1, <3>2
    <3> QED
      BY <3>1, <3>2
  <2>2. ASSUME t < now, NEW z \in shifts', z.user = v, Session(z, n, t)
        PROVE  \E r \in shifts : r.user = v /\ Session(r, n, t)
    <3>1. CASE z \in shifts
      BY <2>2, <3>1
    <3>2. ASSUME NEW x \in rows, z = ClosedNow(x)
          PROVE  \E r \in shifts : r.user = v /\ Session(r, n, t)
      <4>1. /\ x \in shifts /\ x.ends = Open /\ x.user = z.user /\ x.machine = z.machine
            /\ x.starts = z.starts
        BY <1>3, <3>2
      <4>2. Session(x, n, t)
        BY <1>1, <2>2, <4>1 DEF Session
      <4> QED
        BY <2>2, <4>1, <4>2
    <3>3. z # fresh
      BY <1>1, <1>5, <2>2 DEF Session
    <3> QED
      BY <1>3, <1>4, <3>1, <3>2, <3>3
  <2> QED
    BY <1>2, <2>1, <2>2
<1>12. ASSUME NEW v \in Users, at'[v] \in gone
       PROVE  \E r \in shifts' : r.user = v /\ r.machine = NoMachine /\ r.ends = Open
  <2>1. CASE v # u
    <3>1. at'[v] = at[v]
      BY <1>6, <2>1 DEF IInv, TypeOK
    <3> QED
      BY <1>2, <1>9, <1>12, <2>1, <3>1
  <2>2. CASE v = u
    <3>1. at'[u] = IF act = "login" THEN m ELSE NoMachine
      BY <1>6 DEF IInv, TypeOK
    <3>2. NoMachine \notin gone
      BY NullAssumption DEF IInv, TypeOK
    <3>3. act = "login" => m \notin gone
      BY DEF Clocked
    <3> QED
      BY <1>12, <2>2, <3>1, <3>2, <3>3
  <2> QED
    BY <2>1, <2>2
<1> QED
  BY <1>6, <1>7, <1>8, <1>10, <1>11, <1>12 DEF Sessions, Session

LEMMA WatchedClock ==
  ASSUME IInv, Serial, Watched, NEW w \in Workers, CommitClock(w)
  PROVE  Watched'
<1>1. PICK act \in {"login", "logout"}, u \in Users, m \in Machines, rows \in SUBSET Shift :
        Clocked(w, act, u, m, rows)
  BY ClockFacts
<1>2. /\ tx' = [tx EXCEPT ![w] = Idle] /\ UNCHANGED <<now, was, gone, bag, case, events>>
      /\ tx[w].act = act
  BY <1>1 DEF Clocked
<1>3. tx[w] # Idle
  BY <1>2, IdleOK
<1>4. Sessions'
  BY <1>1, SessionsClocked
<1>5. /\ \A b \in Bags : bag'[b].number # 0 => BagPeople(bag'[b])
      /\ \A c \in Cases : CasePeople(case'[c])
  BY <1>2 DEF Watched
<1> QED
  BY <1>2, <1>3, <1>4, <1>5, WatchedEnd

\* A machine is deleted.
LEMMA WatchedRemove ==
  ASSUME IInv, Watched, NEW m \in Machines, RemoveMachine(m)
  PROVE  Watched'
<1>1. /\ \A c \in Cases : /\ case[c].machine = m => case'[c].machine = NoMachine
                          /\ case[c].machine # m => case'[c] = case[c]
      /\ \A z : z \in shifts' <=> \E r \in shifts : z = Unplaced(r, m)
      /\ gone' = gone \union {m} /\ UNCHANGED <<now, at, was, bag, events, tx>>
  BY RemoveMachineFacts
<1>2. m \notin gone /\ \A w \in Workers : \A r \in Found(w) : ~(r \in shifts /\ r.machine = m)
  BY DEF RemoveMachine, Let
<1>3. \A r \in shifts : /\ Unplaced(r, m).user = r.user /\ Unplaced(r, m).starts = r.starts
                        /\ Unplaced(r, m).ends = r.ends
                        /\ Unplaced(r, m).machine = IF r.machine = m THEN NoMachine
                                                    ELSE r.machine
  BY UnplacedShift DEF IInv, TypeOK
<1>4. \A z \in shifts' : \E r \in shifts :
        /\ z = Unplaced(r, m) /\ z.user = r.user /\ z.starts = r.starts /\ z.ends = r.ends
        /\ z.machine = IF r.machine = m THEN NoMachine ELSE r.machine
  BY <1>1, <1>3
<1>5. \A r \in shifts : \E z \in shifts' :
        /\ z.user = r.user /\ z.starts = r.starts /\ z.ends = r.ends
        /\ z.machine = IF r.machine = m THEN NoMachine ELSE r.machine
  BY <1>1, <1>3
<1>6. Sessions'
  <2>1. \A z \in shifts' : z.starts <= now /\ (z.ends = Open \/ (z.starts < z.ends /\ z.ends <= now))
    BY <1>4 DEF Watched, Sessions
  <2>2. ASSUME NEW z \in shifts', NEW y \in shifts', z.user = y.user, z # y
        PROVE  z.ends <= y.starts \/ y.ends <= z.starts
    <3>1. PICK r \in shifts : z = Unplaced(r, m) /\ z.user = r.user /\ z.starts = r.starts
                              /\ z.ends = r.ends
      BY <1>4
    <3>2. PICK q \in shifts : y = Unplaced(q, m) /\ y.user = q.user /\ y.starts = q.starts
                              /\ y.ends = q.ends
      BY <1>4
    <3>3. r # q /\ r.user = q.user
      BY <2>2, <3>1, <3>2
    <3>4. r.ends <= q.starts \/ q.ends <= r.starts
      BY <3>3 DEF Watched, Sessions
    <3> QED
      BY <3>1, <3>2, <3>4
  <2>3. ASSUME NEW n \in Machines \ gone', NEW u \in Users
        PROVE  at[u] = n <=> \E z \in shifts' : z.user = u /\ z.machine = n /\ z.ends = Open
    <3>1. n \in Machines \ gone /\ n # m /\ n # NoMachine
      BY <1>1, NullAssumption
    <3>2. at[u] = n <=> \E r \in shifts : r.user = u /\ r.machine = n /\ r.ends = Open
      BY <3>1 DEF Watched, Sessions
    <3> QED
      BY <1>4, <1>5, <3>1, <3>2
  <2>4. ASSUME NEW u \in Users, at[u] \in gone'
        PROVE  \E z \in shifts' : z.user = u /\ z.machine = NoMachine /\ z.ends = Open
    <3>1. m # NoMachine
      BY NullAssumption
    <3>2. CASE at[u] = m
      <4>1. \E r \in shifts : r.user = u /\ r.machine = m /\ r.ends = Open
        BY <1>2, <3>2 DEF Watched, Sessions
      <4> QED
        BY <1>5, <4>1
    <3>3. CASE at[u] \in gone
      <4>1. \E r \in shifts : r.user = u /\ r.machine = NoMachine /\ r.ends = Open
        BY <3>3 DEF Watched, Sessions
      <4> QED
        BY <1>5, <3>1, <4>1
    <3> QED
      BY <1>1, <2>4, <3>2, <3>3
  <2>5. ASSUME NEW u \in Users, NEW n \in Machines \ gone', NEW t \in 0 .. MaxTime
        PROVE  <<u, n, t>> \in was <=>
                 t < now /\ \E z \in shifts' : z.user = u /\ Session(z, n, t)
    <3>1. n \in Machines \ gone /\ n # m /\ n # NoMachine
      BY <1>1, NullAssumption
    <3>2. <<u, n, t>> \in was <=> t < now /\ \E r \in shifts : r.user = u /\ Session(r, n, t)
      BY <3>1 DEF Watched, Sessions
    <3>3. (\E z \in shifts' : z.user = u /\ Session(z, n, t))
            <=> \E r \in shifts : r.user = u /\ Session(r, n, t)
      BY <1>4, <1>5, <3>1 DEF Session
    <3> QED
      BY <3>2, <3>3
  <2> QED
    BY <1>1, <2>1, <2>2, <2>3, <2>4, <2>5 DEF Sessions, Session
<1>7. ASSUME NEW w \in Workers PROVE Watching(tx[w])'
  <2>1. PICK q : q = tx[w]
    OBVIOUS
  <2>2. Watching(q)
    BY <2>1 DEF Watched
  <2>3. (BagPeople(q.row)' <=> BagPeople(q.row)) /\ (CasePeople(q.row)' <=> CasePeople(q.row))
    BY <1>1, PeopleStay
  <2>4. ASSUME q.act \in {"login", "logout"}
        PROVE  q.rows = OpenRows(q.user)' /\ \A z \in shifts' : z.user = q.user => z.starts < now
    <3>1. q.rows = OpenRows(q.user) /\ \A x \in shifts : x.user = q.user => x.starts < now
      BY <2>2, <2>4 DEF Watching
    <3>2. \A r \in shifts : r.user = q.user /\ r.ends = Open => Unplaced(r, m) = r
      <4>1. Found(w) = q.rows
        BY <2>1, <2>4 DEF Found
      <4> QED
        BY <1>2, <3>1, <4>1 DEF OpenRows, Unplaced
    <3>3. \A z : z \in shifts' /\ z.user = q.user /\ z.ends = Open
                  <=> z \in shifts /\ z.user = q.user /\ z.ends = Open
      BY <1>1, <1>4, <3>2
    <3>4. OpenRows(q.user)' = OpenRows(q.user)
      BY <3>3 DEF OpenRows
    <3>5. \A z \in shifts' : z.user = q.user => z.starts < now
      BY <1>4, <3>1
    <3> QED
      BY <3>1, <3>4, <3>5
  <2>5. Watching(q)'
    BY <1>1, <2>2, <2>3, <2>4 DEF Watching
  <2> QED
    BY <1>1, <2>1, <2>5
<1>8. ASSUME NEW c \in Cases PROVE CasePeople(case[c])'
  <2>1. PICK q : q = case'[c]
    OBVIOUS
  <2>2. CasePeople(q)
    <3>1. CASE case[c].machine = m
      BY <1>1, <2>1, <3>1 DEF CasePeople
    <3>2. CASE case[c].machine # m
      <4>1. CasePeople(case[c]) /\ case'[c] = case[c]
        BY <1>1, <3>2 DEF Watched
      <4> QED
        BY <2>1, <4>1
    <3> QED
      BY <3>1, <3>2
  <2>3. CasePeople(q)'
    BY <1>1, <2>2, PeopleStay
  <2> QED
    BY <2>1, <2>3
<1> QED
  BY <1>1, <1>6, <1>7, <1>8, PeopleStay DEF Watched

LEMMA WatchedNext ==
  ASSUME IInv, Serial, Watched, [Next]_vars, shifts' = shifts \/ tx' # tx \/ gone' # gone
  PROVE  Watched'
<1>1. ASSUME NEW w \in Workers,
             LoadClock(w, "login") \/ LoadClock(w, "logout") \/ LoadCreateBag(w)
             \/ LoadEditBag(w) \/ CompareBag(w) \/ LoadStamp(w, "shipped")
             \/ LoadStamp(w, "verified") \/ LoadCreateCase(w) \/ LoadEditCase(w)
             \/ CompareCase(w) \/ LoadClose(w) \/ Abort(w) \/ CloseShifts(w)
      PROVE  Watched'
  BY <1>1, MoveFacts, WatchedMove
<1>2. ASSUME UNCHANGED <<now, at, was, shifts, gone, bag, case, tx>> PROVE Watched'
  <2>1. \A c \in Cases : CasePeople(case'[c])
    BY <1>2 DEF Watched
  <2> QED
    BY <1>2, <2>1, WatchedStay
<1>3. EditShifts \/ UNCHANGED vars => UNCHANGED <<now, at, was, shifts, gone, bag, case, tx>>
  BY DEF EditShifts, vars
<1>4. \A u \in Users : RemoveUser(u) => UNCHANGED <<now, at, was, shifts, gone, bag, case, tx>>
  BY DEF RemoveUser
<1> QED
  BY <1>1, <1>2, <1>3, <1>4, WatchedClock, WatchedBag, WatchedStamp, WatchedCase,
     WatchedDelete, WatchedRemove, WatchedTick DEF Next
-----------------------------------------------------------------------------
(* The specification with its history.                                     *)

LEMMA HistoryInit ==
  ASSUME MCInit
  PROVE  IInv /\ History
<1>1. Init
  BY DEF MCInit
<1>2. /\ \A w \in Workers : tx[w] = Idle
      /\ \A b \in Bags : bag[b] = NewBag
      /\ \A c \in Cases : case[c] = NewCase
      /\ now = 0 /\ was = {} /\ shifts = {} /\ gone = {} /\ \A u \in Users : at[u] = NoMachine
  BY <1>1 DEF Init
<1>3. LeavesOnce
  BY <1>1 DEF Init, LeavesOnce, NewBag
<1>4. Serial
  BY <1>2, <1>3, LoadedIdle DEF Serial, Alone
<1>5. Sessions
  <2>1. \A m \in Machines : m # NoMachine
    BY NullAssumption
  <2> QED
    BY <1>2, <2>1 DEF Sessions
<1>6. Watched
  BY <1>2, <1>5, WatchingIdle, NewBagOK, NewCaseOK DEF Watched, CasePeople
<1> QED
  BY <1>1, <1>4, <1>6, InitInvariant DEF History

LEMMA HistoryStep ==
  ASSUME IInv, History, [HistoryNext]_<<vars, begun, marred>>
  PROVE  IInv' /\ History'
<1>1. CASE UNCHANGED <<vars, begun, marred>>
  <2>1. [Next]_vars /\ IInv' /\ marred' = marred /\ UNCHANGED <<tx, shifts, gone>>
    BY <1>1, NextInvariant DEF vars
  <2>2. Serial => Serial'
    BY <1>1, SerialStay DEF vars
  <2>3. Serial /\ Watched => Watched'
    BY <2>1, WatchedNext
  <2> QED
    BY <2>1, <2>2, <2>3 DEF History
<1>2. CASE HistoryNext
  <2>1. [Next]_vars /\ IInv'
    BY <1>2, NextInvariant DEF HistoryNext
  <2>2. /\ marred \subseteq marred'
        /\ Cardinality(Busy') > 1 => "overlap" \in marred'
        /\ shifts' # shifts /\ tx' = tx /\ gone' = gone => "hand" \in marred'
    BY <1>2 DEF HistoryNext
  <2>3. ASSUME "overlap" \notin marred' PROVE Alone'
    <3>1. IsFiniteSet(Busy') /\ Cardinality(Busy') \in Nat
      BY <2>1, FS_CardinalityType DEF IInv, RequestsOK
    <3>2. Cardinality(Busy') <= 1
      BY <2>2, <2>3, <3>1
    <3>3. (IsFiniteSet(Busy) /\ Cardinality(Busy) <= 1 => Alone)'
      BY OneAtATime, PTL
    <3> QED
      BY <3>1, <3>2, <3>3
  <2>4. "overlap" \notin marred' => Serial'
    BY <2>1, <2>2, <2>3, SerialNext DEF History
  <2>5. marred' = {} => Watched'
    <3>1. marred' = {} => Serial /\ Watched
      BY <2>2 DEF History
    <3>2. marred' = {} => shifts' = shifts \/ tx' # tx \/ gone' # gone
      BY <2>2
    <3> QED
      BY <2>1, <3>1, <3>2, WatchedNext
  <2> QED
    BY <2>1, <2>4, <2>5 DEF History
<1> QED
  BY <1>1, <1>2

LEMMA HistoryHolds == HistorySpec => [](IInv /\ History)
<1>1. MCInit => IInv /\ History
  BY HistoryInit
<1>2. (IInv /\ History) /\ [HistoryNext]_<<vars, begun, marred>> => (IInv /\ History)'
  BY HistoryStep
<1> QED
  BY <1>1, <1>2, PTL DEF HistorySpec

\* As long as requests come one at a time, the log of a bag has one line of each stamp at
\* most, and the bag still bears the stamp, however it was edited in between.
THEOREM LeavesOnceOnly == HistorySpec => []LeavesOnceSerially
<1>1. IInv /\ History => LeavesOnceSerially
  BY DEF History, Serial, LeavesOnceSerially
<1> QED
  BY <1>1, HistoryHolds, PTL

\* As long as besides nobody touches the shifts by hand, a bag and a complaint name those
\* who were at the machine, whoever came and went since, and nobody is on two shifts.
THEOREM PeopleAreKnown == HistorySpec => []PeopleKnown
<1>1. ASSUME IInv, Watched PROVE PeopleWereThere
  <2>1. ASSUME NEW b \in Bags, bag[b].number # 0 PROVE BagPeople(bag[b])
    BY <1>1, <2>1 DEF Watched
  <2>2. \A c \in Cases : CasePeople(case[c])
    BY <1>1 DEF Watched
  <2> QED
    BY <2>1, <2>2 DEF PeopleWereThere, BagPeople, CasePeople, AtStart, CaseStart
<1>2. ASSUME IInv, Watched PROVE OneShiftAtATime
  <2>1. ASSUME NEW u \in Users, at[u] # NoMachine
        PROVE  \E r \in shifts : /\ r.user = u /\ r.ends = Open
                                 /\ r.machine = IF at[u] \in gone THEN NoMachine ELSE at[u]
    <3>1. PICK m \in Machines : at[u] = m
      BY <1>2, <2>1 DEF IInv, TypeOK
    <3>2. CASE m \in gone
      BY <1>2, <3>1, <3>2 DEF Watched, Sessions
    <3>3. CASE m \notin gone
      BY <1>2, <3>1, <3>3 DEF Watched, Sessions
    <3> QED
      BY <3>2, <3>3
  <2> QED
    BY <1>2, <2>1 DEF Watched, Sessions, OneShiftAtATime
<1>3. IInv /\ History => PeopleKnown
  BY <1>1, <1>2 DEF History, PeopleKnown
<1> QED
  BY <1>3, HistoryHolds, PTL

\* As long as requests come one at a time, a case that was closed stays closed, through
\* every later edit.
THEOREM ClosedIsFinal == HistorySpec => ClosedForGood
<1>1. ASSUME IInv, Serial, [Next]_vars PROVE ClosedStaysClosed
  <2>1. ASSUME case' = case PROVE ClosedStaysClosed
    BY <2>1 DEF ClosedStaysClosed
  <2>2. ASSUME NEW w \in Workers, CommitCase(w) PROVE ClosedStaysClosed
    <3>1. PICK c \in Cases, row \in CaseRow :
           /\ tx[w].act = "save case" \/ tx[w].act = "REC" \/ tx[w].act = "NC"
           /\ tx[w].case = c /\ tx[w].row = row
           /\ CaseMove(c, row)
           /\ tx[w].act = "save case" => case[c] # NewCase
           /\ tx[w].act # "save case" => case[c] = NewCase /\ row.kind = tx[w].act
           /\ tx' = [tx EXCEPT ![w] = Idle] /\ UNCHANGED <<at, was, shifts, gone, events>>
      BY <1>1, <2>2, CommitCaseFacts
    <3>2. \A d \in Cases : case'[d] = IF d = c THEN row ELSE case[d]
      BY <1>1, <3>1, TypeFacts DEF CaseMove
    <3>3. Loaded(tx[w])
      BY <1>1 DEF Serial
    <3>4. case[c].closed => row.closed
      <4>1. CASE tx[w].act = "save case"
        BY <3>1, <3>3, <4>1 DEF Loaded
      <4>2. CASE tx[w].act # "save case"
        BY <3>1, <4>2, NewCaseOK
      <4> QED
        BY <4>1, <4>2
    <3> QED
      BY <3>2, <3>4 DEF ClosedStaysClosed
  <2>3. ASSUME NEW c \in Cases, DeleteCase(c) PROVE ClosedStaysClosed
    <3>1. PICK row \in CaseRow :
           /\ CaseMove(c, row) /\ case[c].kind = "NC"
           /\ row.number = 0 /\ ~row.closed /\ row.machine = NoMachine
           /\ UNCHANGED <<now, at, was, shifts, gone, bag, events, tx>>
      BY <1>1, <2>3, DeleteCaseFacts
    <3>2. \A d \in Cases : case'[d] = IF d = c THEN row ELSE case[d]
      BY <1>1, <3>1, TypeFacts DEF CaseMove
    <3> QED
      BY <3>1, <3>2 DEF ClosedStaysClosed
  <2>4. ASSUME NEW w \in Workers,
             LoadClock(w, "login") \/ LoadClock(w, "logout") \/ LoadCreateBag(w)
             \/ LoadEditBag(w) \/ CompareBag(w) \/ LoadStamp(w, "shipped")
             \/ LoadStamp(w, "verified") \/ LoadCreateCase(w) \/ LoadEditCase(w)
             \/ CompareCase(w) \/ LoadClose(w) \/ Abort(w) \/ CloseShifts(w)
        PROVE  case' = case
    BY <1>1, <2>4, MoveFacts DEF Moves
  <2>5. \A w \in Workers : CommitClock(w) \/ CommitBag(w) \/ CommitStamp(w) => case' = case
    BY DEF CommitClock, CommitBag, CommitStamp
  <2>6. EditShifts \/ Tick \/ UNCHANGED vars => case' = case
    BY DEF EditShifts, Tick, vars
  <2>7. \A u \in Users : RemoveUser(u) => case' = case
    BY DEF RemoveUser
  <2>8. ASSUME NEW m \in Machines, RemoveMachine(m) PROVE ClosedStaysClosed
    <3>1. \A c \in Cases : case'[c].closed = case[c].closed
      BY <1>1, <2>8, RemoveMachineFacts
    <3> QED
      BY <3>1 DEF ClosedStaysClosed
  <2> QED
    BY <1>1, <2>1, <2>2, <2>3, <2>4, <2>5, <2>6, <2>7, <2>8 DEF Next
<1>2. IInv /\ History /\ [HistoryNext]_<<vars, begun, marred>>
        => ["overlap" \notin marred' => ClosedStaysClosed]_<<vars, marred>>
  <2> SUFFICES ASSUME IInv, History, HistoryNext, "overlap" \notin marred'
               PROVE  ClosedStaysClosed
    OBVIOUS
  <2>1. [Next]_vars /\ marred \subseteq marred'
    BY DEF HistoryNext
  <2> QED
    BY <1>1, <2>1 DEF History
<1> QED
  BY <1>2, HistoryHolds, PTL DEF HistorySpec, ClosedForGood
=============================================================================
