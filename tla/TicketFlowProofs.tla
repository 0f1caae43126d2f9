-------------------------- MODULE TicketFlowProofs --------------------------
(***************************************************************************)
(* Theorems of TicketFlow, for any tickets, suppliers and workers.         *)
(*                                                                         *)
(* What is committed is right because of what the requests under way have  *)
(* looked at and hold: the invariant says of each how far it is, which     *)
(* status it loaded, whom it has told, and what its uncommitted rows keep  *)
(* the others from inserting.                                              *)
(***************************************************************************)
EXTENDS TicketFlowMC, SequenceTheorems, SumTheorems

Numbered == {t \in Tickets : Exists(t)}

\* The statements of each act, left and run.
Progress(w) ==
  \/ tx[w] = Idle
  \/ /\ tx[w].act = "create"
     /\ \/ tx[w].todo = <<"insert", "announce">> /\ tx[w].done = {}
        \/ tx[w].todo = <<"announce">> /\ tx[w].done = {"insert"}
        \/ tx[w].todo = <<>> /\ tx[w].done = {"insert", "announce"}
  \/ /\ tx[w].act \in {"diagnose", "propose", "validate"}
     /\ \/ tx[w].todo = <<"status", "announce">> /\ tx[w].done = {}
        \/ tx[w].todo = <<"announce">> /\ tx[w].done = {"status"}
        \/ tx[w].todo = <<>> /\ tx[w].done = {"status", "announce"}
  \/ /\ tx[w].act = "close"
     /\ \/ tx[w].todo = <<"closure", "status", "announce">> /\ tx[w].done = {}
        \/ tx[w].todo = <<"status", "announce">> /\ tx[w].done = {"closure"}
        \/ tx[w].todo = <<"announce">> /\ tx[w].done = {"closure", "status"}
        \/ tx[w].todo = <<>> /\ tx[w].done = {"closure", "status", "announce"}
  \/ /\ tx[w].act = "remark"
     /\ \/ tx[w].todo = <<"announce">> /\ tx[w].done = {}
        \/ tx[w].todo = <<>> /\ tx[w].done = {"announce"}

\* A ticket being declared has a key of its own, is not there yet, has told its own
\* supplier at most, and has a number not above the next free one; once its row is
\* inserted no committed ticket has that number.
Declares(w) ==
  tx[w].act = "create" =>
    /\ tx[w].t \in issued /\ ~Exists(tx[w].t)
    /\ tx[w].to = "AWAITING_SUPPLIER" /\ tx[w].row.status = "NEW"
    /\ tx[w].row.supplier \in Suppliers
    /\ tx[w].by = Factory
    /\ tx[w].row.number \in 1 .. NextNumber
    /\ "insert" \in tx[w].done => ~NumberTaken(w)
    /\ \A s \in Suppliers : tx[w].t \in heard[s] => s = tx[w].row.supplier

\* Who acts on a ticket is its supplier, as long as that account is there.
Acts(w) ==
  tx[w].act \notin {"none", "create"} =>
    /\ tx[w].t \in Tickets /\ Exists(tx[w].t)
    /\ tx[w].by # Factory => ticket[tx[w].t].supplier \in {tx[w].by, NoSupplier}
    /\ tx[w].act = "propose" => tx[w].by # Factory

\* A move goes from a status the ticket has had to one that may follow it.
MovesOn(w) ==
  tx[w].act \in {"diagnose", "propose", "validate", "close"} =>
    /\ tx[w].row.status \in Life!Past(tx[w].t) \ {"CLOSED"}
    /\ tx[w].row.status \in DOMAIN Life!Follows
    /\ tx[w].to \in Life!Follows[tx[w].row.status]
    /\ tx[w].to = "CLOSED" <=> tx[w].act = "close"
    /\ tx[w].to = "SOLUTION_PROPOSED" <=> tx[w].act = "propose"

\* A closure row that is inserted is the only one.
ClosesOnce(w) == "closure" \in tx[w].done => ~closure[tx[w].t]

RequestOK(w) == Progress(w) /\ Declares(w) /\ Acts(w) /\ MovesOn(w) /\ ClosesOnce(w)

\* Requests that are under way at the same time keep out of each other's keys.
Apart(v, w) ==
  /\ tx[v].act = "create" /\ tx[w].act = "create" => tx[v].t # tx[w].t
  /\ "insert" \in tx[v].done /\ "insert" \in tx[w].done =>
       tx[v].row.number # tx[w].row.number
  /\ "closure" \in tx[v].done /\ "closure" \in tx[w].done => tx[v].t # tx[w].t

\* A ticket that is not there has no rows; one that is has its status from a line.
RowsOK(t) ==
  /\ Exists(t) => t \in issued /\ ticket[t].status \in Life!Past(t)
  /\ ~Exists(t) => trail[t] = <<>> /\ voices[t] = {} /\ ticket[t] = Blank
  /\ \A s \in Suppliers : t \in heard[s] => t \in issued

IInv ==
  /\ TypeOK
  /\ trail \in [Tickets -> Seq([from : Statuses, to : Statuses])]
  /\ \A w \in Workers : RequestOK(w)
  /\ \A v, w \in Workers : v # w => Apart(v, w)
  /\ \A t \in Tickets : RowsOK(t)
  /\ IsFiniteSet(Numbered)
  /\ TrailTellsRows
  /\ OwnTicketsOnly
  /\ NumbersAreDense
-----------------------------------------------------------------------------
\* The statuses, spelled out.
LEMMA StatusFacts ==
  /\ Statuses = {"NEW", "AWAITING_SUPPLIER", "DIAGNOSING", "SOLUTION_PROPOSED",
                 "INTERVENING", "CLOSED", "none"}
  /\ Life!Follows["AWAITING_SUPPLIER"] = {"DIAGNOSING", "SOLUTION_PROPOSED"}
  /\ Life!Follows["DIAGNOSING"] = {"SOLUTION_PROPOSED"}
  /\ Life!Follows["SOLUTION_PROPOSED"] = {"DIAGNOSING", "INTERVENING"}
  /\ Life!Follows["INTERVENING"] = {"CLOSED"}
BY DEF Statuses, Life!Follows

LEMMA IdleTypes == Idle \in Request /\ Blank.status = "none" /\ Idle.act = "none"
<1>1. "none" \in Statuses
  BY DEF Statuses
<1> QED
  BY <1>1 DEF Idle, Blank, Request, Authors

\* What a statement of a request changes in tx.
LEMMA StepFrame ==
  ASSUME TypeOK, NEW w \in Workers, NEW stmt, Progress(w), Step(w, stmt)
  PROVE  /\ Progress(w)'
         /\ tx' \in [Workers -> Request]
         /\ \A v \in Workers \ {w} : tx'[v] = tx[v]
         /\ tx'[w].act = tx[w].act /\ tx'[w].act # "none"
         /\ tx'[w].t = tx[w].t
         /\ tx'[w].by = tx[w].by
         /\ tx'[w].row = tx[w].row
         /\ tx'[w].to = tx[w].to
         /\ tx'[w].done = tx[w].done \cup {stmt}
         /\ stmt \in {"insert", "closure", "status", "announce"}
         /\ stmt = "insert" => tx[w].act = "create"
         /\ stmt = "closure" => tx[w].act = "close"
         /\ stmt = "status" => tx[w].act \in {"diagnose", "propose", "validate", "close"}
<1>1. tx[w] \in Request /\ tx \in [Workers -> Request]
  BY DEF TypeOK
<1>2. tx' = [tx EXCEPT ![w] = [tx[w] EXCEPT !.todo = Tail(tx[w].todo),
                                            !.done = tx[w].done \cup {stmt}]]
  BY <1>1 DEF Step
<1>3. /\ tx'[w].act = tx[w].act
      /\ tx'[w].t = tx[w].t
      /\ tx'[w].by = tx[w].by
      /\ tx'[w].row = tx[w].row
      /\ tx'[w].to = tx[w].to
      /\ tx'[w].todo = Tail(tx[w].todo)
      /\ tx'[w].done = tx[w].done \cup {stmt}
      /\ \A v \in Workers \ {w} : tx'[v] = tx[v]
  BY <1>1, <1>2 DEF Request
<1>4. tx[w].todo # <<>> /\ Head(tx[w].todo) = stmt
  BY DEF Step
<1>5. tx[w] # Idle
  BY <1>4 DEF Idle
<1>6. /\ Head(<<"announce">>) = "announce" /\ Tail(<<"announce">>) = <<>>
      /\ Head(<<"insert", "announce">>) = "insert"
      /\ Tail(<<"insert", "announce">>) = <<"announce">>
      /\ Head(<<"status", "announce">>) = "status"
      /\ Tail(<<"status", "announce">>) = <<"announce">>
      /\ Head(<<"closure", "status", "announce">>) = "closure"
      /\ Tail(<<"closure", "status", "announce">>) = <<"status", "announce">>
  OBVIOUS
<1>7. /\ Progress(w)'
      /\ tx'[w].act # "none"
      /\ stmt \in {"insert", "closure", "status", "announce"}
      /\ stmt = "insert" => tx[w].act = "create"
      /\ stmt = "closure" => tx[w].act = "close"
      /\ stmt = "status" => tx[w].act \in {"diagnose", "propose", "validate", "close"}
  <2> DEFINE a == tx[w].act
             todo == tx[w].todo
             done == tx[w].done
  <2>1. ASSUME a = "create", todo = <<"insert", "announce">>, done = {}
        PROVE  stmt = "insert" /\ tx'[w].todo = <<"announce">> /\ tx'[w].done = {"insert"}
    BY <1>3, <1>4, <1>6, <2>1
  <2>2. ASSUME todo = <<"announce">>
        PROVE  stmt = "announce" /\ tx'[w].todo = <<>> /\ tx'[w].done = done \cup {"announce"}
    BY <1>3, <1>4, <1>6, <2>2
  <2>3. ASSUME todo = <<"status", "announce">>
        PROVE  stmt = "status" /\ tx'[w].todo = <<"announce">> /\ tx'[w].done = done \cup {"status"}
    BY <1>3, <1>4, <1>6, <2>3
  <2>4. ASSUME todo = <<"closure", "status", "announce">>, done = {}
        PROVE  /\ stmt = "closure" /\ tx'[w].done = {"closure"}
               /\ tx'[w].todo = <<"status", "announce">>
    BY <1>3, <1>4, <1>6, <2>4
  <2>5. /\ {"insert"} \cup {"announce"} = {"insert", "announce"}
        /\ {"status"} \cup {"announce"} = {"status", "announce"}
        /\ {"closure"} \cup {"status"} = {"closure", "status"}
        /\ {"closure", "status"} \cup {"announce"} = {"closure", "status", "announce"}
        /\ {} \cup {"status"} = {"status"}
        /\ {} \cup {"announce"} = {"announce"}
    OBVIOUS
  <2>6. tx'[w].act = a /\ todo # <<>>
    BY <1>3, <1>4
  <2>7. CASE a = "create"
    BY <1>5, <2>1, <2>2, <2>5, <2>6, <2>7 DEF Progress
  <2>8. CASE a \in {"diagnose", "propose", "validate"}
    BY <1>5, <2>2, <2>3, <2>5, <2>6, <2>8 DEF Progress
  <2>9. CASE a = "close"
    BY <1>5, <2>2, <2>3, <2>4, <2>5, <2>6, <2>9 DEF Progress
  <2>10. CASE a = "remark"
    BY <1>5, <2>2, <2>5, <2>6, <2>10 DEF Progress
  <2> QED
    BY <1>5, <2>7, <2>8, <2>9, <2>10 DEF Progress
<1>8. tx' \in [Workers -> Request]
  <2>1. Tail(tx[w].todo) \in Seq({"insert", "closure", "status", "announce"})
    BY <1>1, <1>4 DEF Request
  <2>2. tx[w].done \cup {stmt} \subseteq {"insert", "closure", "status", "announce"}
    BY <1>1, <1>7 DEF Request
  <2>3. [tx[w] EXCEPT !.todo = Tail(tx[w].todo), !.done = tx[w].done \cup {stmt}] \in Request
    BY <1>1, <2>1, <2>2 DEF Request
  <2> QED
    BY <1>1, <1>2, <2>3
<1> QED
  BY <1>3, <1>7, <1>8

\* What a request that ends changes in tx.
LEMMA EndFrame ==
  ASSUME TypeOK, NEW w \in Workers, tx' = [tx EXCEPT ![w] = Idle]
  PROVE  /\ tx' \in [Workers -> Request]
         /\ tx'[w] = Idle
         /\ RequestOK(w)'
         /\ \A v \in Workers \ {w} : tx'[v] = tx[v]
<1>1. /\ tx' \in [Workers -> Request]
      /\ tx'[w] = Idle
      /\ \A v \in Workers \ {w} : tx'[v] = tx[v]
  BY IdleTypes DEF TypeOK
<1>2. tx'[w].act = "none" /\ tx'[w].done = {}
  BY <1>1 DEF Idle
<1>3. RequestOK(w)'
  BY <1>1, <1>2 DEF RequestOK, Progress, Declares, Acts, MovesOn, ClosesOnce
<1> QED
  BY <1>1, <1>3
-----------------------------------------------------------------------------
\* What is said of a request stays true while it, the rows it speaks of and what was
\* heard are as they were.
LEMMA RequestStays ==
  ASSUME NEW v \in Workers, RequestOK(v), tx'[v] = tx[v],
         UNCHANGED <<ticket, trail, closure, heard>>, issued \subseteq issued'
  PROVE  RequestOK(v)'
<1>2. Progress(v)'
  BY DEF RequestOK, Progress
<1>3. Declares(v)'
  BY DEF RequestOK, Declares, Exists, NextNumber, NumberTaken
<1>4. Acts(v)' /\ ClosesOnce(v)'
  BY DEF RequestOK, Acts, ClosesOnce, Exists
<1>5. MovesOn(v)'
  BY DEF RequestOK, MovesOn, Life!Past
<1> QED
  BY <1>2, <1>3, <1>4, <1>5 DEF RequestOK

\* Two requests neither of which has moved are as far apart as they were.
LEMMA ApartStays ==
  ASSUME NEW v, NEW w, Apart(v, w), tx'[v] = tx[v], tx'[w] = tx[w]
  PROVE  Apart(v, w)'
BY DEF Apart

\* A step of one request that commits nothing and tells nobody keeps the invariant
\* if that request is in order afterwards and apart from the others.
LEMMA QuietStep ==
  ASSUME IInv, NEW w \in Workers, UNCHANGED <<rows, heard>>, suppliers' \subseteq Suppliers,
         issued \subseteq issued', issued' \subseteq Tickets,
         tx' \in [Workers -> Request], \A v \in Workers \ {w} : tx'[v] = tx[v],
         RequestOK(w)', \A v \in Workers \ {w} : Apart(v, w)'
  PROVE  IInv'
<1>1. UNCHANGED <<ticket, trail, solutions, closure, voices, heard>>
  BY DEF rows
<1>2. TypeOK' /\ trail' \in [Tickets -> Seq([from : Statuses, to : Statuses])]
  BY <1>1 DEF IInv, TypeOK
<1>3. \A v \in Workers : RequestOK(v)'
  BY <1>1, RequestStays DEF IInv
<1>4. ASSUME NEW u \in Workers, NEW v \in Workers, u # v PROVE Apart(u, v)'
  <2>1. CASE u # w /\ v # w
    BY <1>4, <2>1, ApartStays DEF IInv
  <2>2. CASE v = w
    BY <1>4, <2>2
  <2>3. CASE u = w
    <3>1. Apart(v, w)'
      BY <1>4, <2>3
    <3> QED
      BY <2>3, <3>1 DEF Apart
  <2> QED
    BY <2>1, <2>2, <2>3
<1>5. \A t \in Tickets : RowsOK(t)'
  BY <1>1 DEF IInv, RowsOK, Exists, Life!Past
<1>6. Numbered' = Numbered
  BY <1>1 DEF Numbered, Exists
<1>7. TrailTellsRows' /\ OwnTicketsOnly'
  BY <1>1 DEF IInv, TrailTellsRows, Moves, OwnTicketsOnly
<1>8. NumbersAreDense'
  BY <1>1 DEF IInv, NumbersAreDense, Exists
<1> QED
  BY <1>2, <1>3, <1>4, <1>5, <1>6, <1>7, <1>8 DEF IInv

\* What the number of a new ticket is counted from.
LEMMA CountType == IInv => NextNumber \in Nat \ {0}
<1> SUFFICES ASSUME IInv PROVE NextNumber \in Nat \ {0}
  OBVIOUS
<1>1. NextNumber = Cardinality(Numbered) + 1
  BY DEF NextNumber, Numbered
<1>2. Cardinality(Numbered) \in Nat
  BY FS_CardinalityType DEF IInv
<1> QED
  BY <1>1, <1>2

\* A request that ends without a commit keeps the invariant.
LEMMA UndoInvariant ==
  ASSUME IInv, NEW w \in Workers, Undo(w)
  PROVE  IInv'
<1>1. /\ UNCHANGED <<rows, suppliers, issued, heard>>
      /\ tx' = [tx EXCEPT ![w] = Idle]
  BY DEF Undo
<1>2. /\ tx' \in [Workers -> Request]
      /\ tx'[w] = Idle /\ RequestOK(w)'
      /\ \A v \in Workers \ {w} : tx'[v] = tx[v]
  BY <1>1, EndFrame DEF IInv
<1>3. \A v \in Workers \ {w} : Apart(v, w)'
  BY <1>2 DEF Apart, Idle
<1>4. issued \subseteq Tickets /\ suppliers \subseteq Suppliers
  BY DEF IInv, TypeOK
<1> QED
  BY <1>1, <1>2, <1>3, <1>4, QuietStep

\* What Begin leaves in tx.
LEMMA BeginFrame ==
  ASSUME TypeOK, NEW w \in Workers, NEW r \in Request, Begin(w, r)
  PROVE  /\ tx' \in [Workers -> Request]
         /\ tx'[w] = r
         /\ \A v \in Workers \ {w} : tx'[v] = tx[v]
         /\ UNCHANGED <<rows, suppliers, heard>>
BY DEF Begin, TypeOK

\* A ticket is declared under a key that was never handed out.
LEMMA CreateInvariant ==
  ASSUME IInv, NEW w \in Workers, LoadCreate(w)
  PROVE  IInv'
<1>1. PICK t \in Tickets \ issued, s \in suppliers :
        /\ Begin(w, [Idle EXCEPT !.act = "create", !.t = t,
                       !.row = [status |-> "NEW", supplier |-> s, number |-> NextNumber],
                       !.to = "AWAITING_SUPPLIER", !.todo = <<"insert", "announce">>])
        /\ issued' = issued \union {t}
  BY DEF LoadCreate
<1> DEFINE r == [Idle EXCEPT !.act = "create", !.t = t,
                   !.row = [status |-> "NEW", supplier |-> s, number |-> NextNumber],
                   !.to = "AWAITING_SUPPLIER", !.todo = <<"insert", "announce">>]
<1>2. /\ r.act = "create" /\ r.t = t /\ r.by = Factory
      /\ r.row = [status |-> "NEW", supplier |-> s, number |-> NextNumber]
      /\ r.to = "AWAITING_SUPPLIER"
      /\ r.todo = <<"insert", "announce">> /\ r.done = {}
  BY DEF Idle
<1>3. r \in Request /\ s \in Suppliers
  <2>1. s \in Suppliers
    BY DEF IInv, TypeOK
  <2>2. <<"insert", "announce">> \in Seq({"insert", "closure", "status", "announce"})
    OBVIOUS
  <2>3. [status |-> "NEW", supplier |-> s, number |-> NextNumber]
          \in [status : Statuses, supplier : Suppliers \union {NoSupplier}, number : Nat]
    BY <2>1, CountType, StatusFacts
  <2> QED
    BY <2>1, <2>2, <2>3, IdleTypes, StatusFacts DEF Request
<1>4. /\ tx' \in [Workers -> Request]
      /\ tx'[w] = r
      /\ \A v \in Workers \ {w} : tx'[v] = tx[v]
      /\ UNCHANGED <<rows, suppliers, heard>>
  BY <1>1, <1>3, BeginFrame DEF IInv
<1> HIDE DEF r
<1>5. /\ ~Exists(t)
      /\ \A s2 \in Suppliers : t \notin heard[s2]
  BY DEF IInv, RowsOK
<1>6. RequestOK(w)'
  <2>1. Progress(w)' /\ Acts(w)' /\ MovesOn(w)' /\ ClosesOnce(w)'
    BY <1>2, <1>4 DEF Progress, Acts, MovesOn, ClosesOnce
  <2>2. NextNumber \in 1 .. NextNumber
    BY CountType
  <2>3. ticket' = ticket /\ heard' = heard
    BY <1>4 DEF rows
  <2>4. ~Exists(t)' /\ NextNumber' = NextNumber
    BY <1>5, <2>3 DEF Exists, NextNumber
  <2>5. Declares(w)'
    BY <1>1, <1>2, <1>3, <1>4, <1>5, <2>2, <2>3, <2>4 DEF Declares
  <2> QED
    BY <2>1, <2>5 DEF RequestOK
<1>7. \A v \in Workers \ {w} : Apart(v, w)'
  <2>1. \A v \in Workers \ {w} : tx[v].act = "create" => tx[v].t # t
    BY DEF IInv, RequestOK, Declares
  <2> QED
    BY <1>2, <1>4, <2>1 DEF Apart
<1>8. issued \subseteq issued' /\ issued' \subseteq Tickets /\ suppliers' \subseteq Suppliers
  BY <1>1, <1>4 DEF IInv, TypeOK
<1> QED
  BY <1>4, <1>6, <1>7, <1>8, QuietStep

\* The other requests start from a committed ticket.
LEMMA LoadInvariant ==
  ASSUME IInv, NEW w \in Workers,
         NEW act \in {"diagnose", "propose", "validate", "close", "remark"},
         NEW t \in Tickets, NEW by \in Authors, NEW to \in Statuses, NEW todo,
         Load(w, act, t, by, to, todo), Exists(t),
         by # Factory => ticket[t].supplier = by,
         \/ /\ act \in {"diagnose", "propose", "validate"}
            /\ todo = <<"status", "announce">>
         \/ act = "close" /\ todo = <<"closure", "status", "announce">>
         \/ act = "remark" /\ todo = <<"announce">>,
         act # "remark" => /\ ticket[t].status # "CLOSED"
                           /\ to \in Life!Follows[ticket[t].status]
                           /\ to = "CLOSED" <=> act = "close"
                           /\ to = "SOLUTION_PROPOSED" <=> act = "propose",
         act = "propose" => by # Factory
  PROVE  IInv'
<1> DEFINE r == [Idle EXCEPT !.act = act, !.t = t, !.by = by, !.row = ticket[t],
                           !.to = to, !.todo = todo]
<1>1. Begin(w, r) /\ issued' = issued
  BY DEF Load
<1>8. /\ r.act = act /\ r.t = t /\ r.by = by /\ r.row = ticket[t]
      /\ r.to = to /\ r.todo = todo /\ r.done = {}
  BY DEF Idle
<1>2. r \in Request
  <2>1. /\ <<"announce">> \in Seq({"insert", "closure", "status", "announce"})
        /\ <<"status", "announce">> \in Seq({"insert", "closure", "status", "announce"})
        /\ <<"closure", "status", "announce">>
             \in Seq({"insert", "closure", "status", "announce"})
    OBVIOUS
  <2>2. ticket[t] \in [status : Statuses, supplier : Suppliers \union {NoSupplier},
                       number : Nat]
    BY DEF IInv, TypeOK
  <2> QED
    BY <2>1, <2>2, IdleTypes DEF Request
<1>3. /\ tx' \in [Workers -> Request]
      /\ tx'[w] = r
      /\ \A v \in Workers \ {w} : tx'[v] = tx[v]
      /\ UNCHANGED <<rows, suppliers, heard>>
  BY <1>1, <1>2, BeginFrame DEF IInv
<1> HIDE DEF r
<1>4. ticket' = ticket /\ trail' = trail
  BY <1>3 DEF rows
<1>5. RequestOK(w)'
  <2>1. Progress(w)' /\ Declares(w)' /\ ClosesOnce(w)'
    BY <1>3, <1>8 DEF Progress, Declares, ClosesOnce
  <2>2. Acts(w)'
    BY <1>3, <1>4, <1>8 DEF Acts, Exists
  <2>3. ticket[t].status \in Life!Past(t)
    BY DEF IInv, RowsOK
  <2>5. act # "remark" => ticket[t].status \in DOMAIN Life!Follows
    BY DEF IInv, TypeOK, Statuses, Exists
  <2>4. MovesOn(w)'
    BY <1>3, <1>4, <1>8, <2>3, <2>5 DEF MovesOn, Life!Past
  <2> QED
    BY <2>1, <2>2, <2>4 DEF RequestOK
<1>6. \A v \in Workers \ {w} : Apart(v, w)'
  BY <1>3, <1>8 DEF Apart
<1>7. issued' \subseteq Tickets /\ suppliers' \subseteq Suppliers
  BY <1>1, <1>3 DEF IInv, TypeOK
<1> QED
  BY <1>1, <1>3, <1>5, <1>6, <1>7, QuietStep

\* So all of them do.
LEMMA LoadsInvariant ==
  ASSUME IInv, NEW w \in Workers,
         \/ LoadDiagnose(w) \/ LoadPropose(w) \/ LoadValidate(w) \/ LoadClose(w)
         \/ LoadRemark(w)
  PROVE  IInv'
<1>1. suppliers \subseteq Suppliers
  BY DEF IInv, TypeOK
<1>2. \A t \in Tickets : ticket[t].status \in Statuses
  BY DEF IInv, TypeOK
<1>3. CASE LoadDiagnose(w)
  <2>1. PICK s \in suppliers, t \in Tickets :
          /\ VisibleTo(t, s)
          /\ ticket[t].status = "AWAITING_SUPPLIER"
          /\ Load(w, "diagnose", t, s, "DIAGNOSING", <<"status", "announce">>)
    BY <1>3 DEF LoadDiagnose
  <2> QED
    BY <1>1, <2>1, LoadInvariant, StatusFacts DEF VisibleTo, Authors
<1>4. CASE LoadPropose(w)
  <2>1. PICK s \in suppliers, t \in Tickets :
          /\ VisibleTo(t, s)
          /\ ticket[t].status \in {"AWAITING_SUPPLIER", "DIAGNOSING"}
          /\ Load(w, "propose", t, s, "SOLUTION_PROPOSED", <<"status", "announce">>)
    BY <1>4 DEF LoadPropose
  <2> QED
    BY <1>1, <2>1, NullAssumption, LoadInvariant, StatusFacts DEF VisibleTo, Authors
<1>5. CASE LoadValidate(w)
  <2>1. PICK t \in Tickets, to \in {"INTERVENING", "DIAGNOSING"} :
          /\ ticket[t].status = "SOLUTION_PROPOSED"
          /\ Load(w, "validate", t, Factory, to, <<"status", "announce">>)
    BY <1>5 DEF LoadValidate
  <2> QED
    BY <2>1, LoadInvariant, StatusFacts DEF Exists, Authors
<1>6. CASE LoadClose(w)
  <2>1. PICK t \in Tickets :
          /\ ticket[t].status = "INTERVENING"
          /\ Load(w, "close", t, Factory, "CLOSED", <<"closure", "status", "announce">>)
    BY <1>6 DEF LoadClose
  <2> QED
    BY <2>1, LoadInvariant, StatusFacts DEF Exists, Authors
<1>7. CASE LoadRemark(w)
  <2>1. PICK t \in Tickets, a \in suppliers \union {Factory} :
          /\ IF a = Factory THEN Exists(t) ELSE VisibleTo(t, a)
          /\ Load(w, "remark", t, a, ticket[t].status, <<"announce">>)
    BY <1>7 DEF LoadRemark
  <2>2. Exists(t) /\ (a # Factory => ticket[t].supplier = a) /\ a \in Authors
    BY <1>1, <2>1 DEF VisibleTo, Authors
  <2> QED
    BY <1>2, <2>1, <2>2, LoadInvariant
<1> QED
  BY <1>3, <1>4, <1>5, <1>6, <1>7
-----------------------------------------------------------------------------
\* The unique number and the one-to-one closure refuse what another request has
\* committed, and wait for what it has not.
LEMMA StatementInvariant ==
  ASSUME IInv, NEW w \in Workers, Insert(w) \/ InsertClosure(w) \/ SaveStatus(w)
  PROVE  IInv'
<1>1. UNCHANGED <<rows, suppliers, issued, heard>>
  BY DEF Insert, InsertClosure, SaveStatus
<1>2. PICK stmt : /\ Step(w, stmt)
                  /\ stmt = "insert" => ~NumberInFlight(w) /\ ~NumberTaken(w)
                  /\ stmt = "closure" => /\ ~closure[tx[w].t]
                                         /\ \A v \in Workers \ {w} : ~Did(v, tx[w].t, "closure")
  BY DEF Insert, InsertClosure, SaveStatus
<1>3. RequestOK(w) /\ TypeOK
  BY DEF IInv
<1>4. /\ Progress(w)'
      /\ tx' \in [Workers -> Request]
      /\ \A v \in Workers \ {w} : tx'[v] = tx[v]
      /\ tx'[w].act = tx[w].act
      /\ tx'[w].t = tx[w].t
      /\ tx'[w].by = tx[w].by
      /\ tx'[w].row = tx[w].row
      /\ tx'[w].to = tx[w].to
      /\ tx'[w].done = tx[w].done \cup {stmt}
  BY <1>2, <1>3, StepFrame DEF RequestOK
<1>5. UNCHANGED <<ticket, trail, closure, heard, issued>>
  BY <1>1 DEF rows
<1>6. RequestOK(w)'
  <2>1. Declares(w)'
    BY <1>2, <1>3, <1>4, <1>5 DEF RequestOK, Declares, Exists, NextNumber, NumberTaken
  <2>2. Acts(w)' /\ ClosesOnce(w)'
    BY <1>2, <1>3, <1>4, <1>5 DEF RequestOK, Acts, Exists, ClosesOnce
  <2>3. MovesOn(w)'
    BY <1>3, <1>4, <1>5 DEF RequestOK, MovesOn, Life!Past
  <2> QED
    BY <1>4, <2>1, <2>2, <2>3 DEF RequestOK
<1>7. ASSUME NEW v \in Workers \ {w} PROVE Apart(v, w)'
  <2>1. Apart(v, w)
    BY DEF IInv
  <2> QED
    BY <1>2, <1>4, <2>1 DEF Apart, NumberInFlight, Did
<1>8. issued' \subseteq Tickets /\ suppliers' \subseteq Suppliers
  BY <1>1 DEF IInv, TypeOK
<1> QED
  BY <1>1, <1>4, <1>6, <1>7, <1>8, QuietStep
-----------------------------------------------------------------------------
\* Whoever is told of a ticket by a request under way is its supplier.
LEMMA ToldIsAssigned ==
  ASSUME IInv, NEW w \in Workers,
         NEW told \in {Notified(w), Listeners(w), {}}, NEW s \in told
  PROVE  s \in Suppliers /\ s = Assigned(w)
<1>1. suppliers \subseteq Suppliers /\ Factory \notin Suppliers
  BY NullAssumption DEF IInv, TypeOK
<1>2. CASE s \in Recipients(w)
  BY <1>1, <1>2 DEF Recipients
<1>3. CASE s \in Listeners(w)
  BY <1>1, <1>2, <1>3 DEF Listeners, GroupOf, Groups
<1> QED
  BY <1>2, <1>3 DEF Notified

\* A step that tells the supplier of a ticket, and nobody else, about it.
LEMMA ToldInvariant ==
  ASSUME IInv, UNCHANGED <<rows, suppliers, issued>>,
         NEW t \in Tickets, t \in issued, NEW told \in SUBSET Suppliers,
         heard' = [s \in Suppliers |-> IF s \in told THEN heard[s] \union {t} ELSE heard[s]],
         \A s \in told : ticket[t].supplier \in {s, NoSupplier},
         tx' \in [Workers -> Request], \A w \in Workers : RequestOK(w)',
         \A v, w \in Workers : v # w => Apart(v, w)'
  PROVE  IInv'
<1>1. UNCHANGED <<ticket, trail, solutions, closure, voices>>
  BY DEF rows
<1>2. heard' \in [Suppliers -> SUBSET Tickets]
  BY DEF IInv, TypeOK
<1>3. TypeOK' /\ trail' \in [Tickets -> Seq([from : Statuses, to : Statuses])]
  BY <1>1, <1>2 DEF IInv, TypeOK
<1>4. \A t2 \in Tickets : RowsOK(t2)'
  BY <1>1 DEF IInv, RowsOK, Exists, Life!Past
<1>5. Numbered' = Numbered
  BY <1>1 DEF Numbered, Exists
<1>6. TrailTellsRows'
  BY <1>1 DEF IInv, TrailTellsRows, Moves
<1>7. OwnTicketsOnly'
  BY <1>1 DEF IInv, OwnTicketsOnly
<1>8. NumbersAreDense'
  BY <1>1 DEF IInv, NumbersAreDense, Exists
<1> QED
  BY <1>3, <1>4, <1>5, <1>6, <1>7, <1>8 DEF IInv

\* The sockets and the mailbox: a request tells the supplier of its own ticket.
LEMMA AnnounceInvariant ==
  ASSUME IInv, NEW w \in Workers, Announce(w)
  PROVE  IInv'
<1> DEFINE t == tx[w].t
<1>1. PICK told \in {Notified(w), Listeners(w), {}} :
        heard' = [s \in Suppliers |-> IF s \in told THEN heard[s] \union {t} ELSE heard[s]]
  BY DEF Announce
<1>2. /\ Step(w, "announce")
      /\ UNCHANGED <<rows, suppliers, issued>>
  BY DEF Announce
<1>3. UNCHANGED <<ticket, trail, solutions, closure, voices, suppliers, issued>>
  BY <1>2 DEF rows
<1>4. told \in SUBSET Suppliers /\ \A s \in told : s = Assigned(w)
  BY <1>1, ToldIsAssigned
<1>5. /\ Progress(w)'
      /\ tx' \in [Workers -> Request]
      /\ \A v \in Workers \ {w} : tx'[v] = tx[v]
      /\ tx'[w].act = tx[w].act /\ tx'[w].act # "none"
      /\ tx'[w].t = tx[w].t
      /\ tx'[w].by = tx[w].by
      /\ tx'[w].row = tx[w].row
      /\ tx'[w].to = tx[w].to
      /\ tx'[w].done = tx[w].done \cup {"announce"}
  BY <1>2, StepFrame DEF IInv, RequestOK
<1>6. RequestOK(w)
  BY DEF IInv
<1>7. /\ t \in Tickets
      /\ t \in issued
      /\ tx[w].act = "create" => ~Exists(t)
      /\ tx[w].act # "create" => Exists(t)
  BY <1>5, <1>6 DEF RequestOK, Declares, Acts, IInv, TypeOK, RowsOK
<1>8. \A s \in told : ticket[t].supplier \in {s, NoSupplier}
  <2>1. CASE tx[w].act = "create"
    BY <1>7, <2>1 DEF IInv, RowsOK, Blank
  <2>2. CASE tx[w].act # "create"
    BY <1>4, <2>2 DEF Assigned
  <2> QED
    BY <2>1, <2>2
<1>9. RequestOK(w)'
  <2>1. Declares(w)'
    <3>1. SUFFICES ASSUME tx[w].act = "create"
                   PROVE  \A s \in Suppliers : t \in heard'[s] => s = tx[w].row.supplier
      BY <1>3, <1>5, <1>6 DEF RequestOK, Declares, Exists, NextNumber, NumberTaken
    <3>2. \A s \in Suppliers : t \in heard[s] => s = tx[w].row.supplier
      BY <1>6, <3>1 DEF RequestOK, Declares
    <3>3. \A s \in told : s = tx[w].row.supplier
      BY <1>4, <3>1 DEF Assigned
    <3> QED
      BY <1>1, <3>2, <3>3
  <2>2. Acts(w)' /\ ClosesOnce(w)'
    BY <1>3, <1>5, <1>6 DEF RequestOK, Acts, Exists, ClosesOnce
  <2>3. MovesOn(w)'
    BY <1>3, <1>5, <1>6 DEF RequestOK, MovesOn, Life!Past
  <2> QED
    BY <1>5, <2>1, <2>2, <2>3 DEF RequestOK
<1>10. ASSUME NEW v \in Workers, v # w PROVE RequestOK(v)'
  <2>1. RequestOK(v) /\ Apart(v, w) /\ tx'[v] = tx[v]
    BY <1>5, <1>10 DEF IInv
  <2>2. tx[v].act = "create" => tx[v].t # t
    BY <1>7, <2>1 DEF RequestOK, Declares, Apart
  <2>3. Declares(v)'
    BY <1>1, <1>3, <2>1, <2>2 DEF RequestOK, Declares, Exists, NextNumber, NumberTaken
  <2>4. Progress(v)' /\ Acts(v)' /\ ClosesOnce(v)'
    BY <1>3, <2>1 DEF RequestOK, Progress, Acts, Exists, ClosesOnce
  <2>5. MovesOn(v)'
    BY <1>3, <2>1 DEF RequestOK, MovesOn, Life!Past
  <2> QED
    BY <2>3, <2>4, <2>5 DEF RequestOK
<1>11. \A u, v \in Workers : u # v => Apart(u, v)'
  BY <1>5 DEF IInv, Apart
<1> HIDE DEF t
<1>12. \A v \in Workers : RequestOK(v)'
  BY <1>9, <1>10
<1> QED
  BY <1>1, <1>2, <1>4, <1>5, <1>7, <1>8, <1>11, <1>12, ToldInvariant

\* The reminder goes to the supplier of a committed ticket.
LEMMA RemindInvariant ==
  ASSUME IInv, NEW t \in Tickets, Remind(t)
  PROVE  IInv'
<1>1. /\ ticket[t].status = "AWAITING_SUPPLIER"
      /\ ticket[t].supplier \in suppliers
      /\ heard' = [heard EXCEPT ![ticket[t].supplier] = @ \union {t}]
      /\ UNCHANGED <<rows, suppliers, issued, tx>>
  BY DEF Remind
<1>2. UNCHANGED <<ticket, trail, solutions, closure, voices>>
  BY <1>1 DEF rows
<1>3. ticket[t].supplier \in Suppliers /\ Exists(t) /\ t \in issued
  BY <1>1 DEF IInv, TypeOK, RowsOK, Exists
<1>4. heard' = [s \in Suppliers |-> IF s \in {ticket[t].supplier}
                                   THEN heard[s] \union {t} ELSE heard[s]]
  BY <1>1, <1>3 DEF IInv, TypeOK
<1>5. ASSUME NEW w \in Workers PROVE RequestOK(w)'
  <2>1. RequestOK(w)
    BY DEF IInv
  <2>2. Declares(w)'
    BY <1>1, <1>2, <1>3, <1>4, <2>1
       DEF RequestOK, Declares, Exists, NextNumber, NumberTaken
  <2>3. Progress(w)' /\ Acts(w)' /\ ClosesOnce(w)'
    BY <1>1, <1>2, <2>1 DEF RequestOK, Progress, Acts, Exists, ClosesOnce
  <2>4. MovesOn(w)'
    BY <1>1, <1>2, <2>1 DEF RequestOK, MovesOn, Life!Past
  <2> QED
    BY <2>2, <2>3, <2>4 DEF RequestOK
<1>6. tx' \in [Workers -> Request] /\ \A v, w \in Workers : v # w => Apart(v, w)'
  BY <1>1 DEF IInv, TypeOK, Apart
<1>7. {ticket[t].supplier} \in SUBSET Suppliers
  BY <1>3
<1> QED
  BY <1>1, <1>3, <1>4, <1>5, <1>6, <1>7, ToldInvariant
-----------------------------------------------------------------------------
\* A comment or a file leaves its author's name on the ticket.
LEMMA RemarkInvariant ==
  ASSUME IInv, NEW w \in Workers, CommitRemark(w)
  PROVE  IInv'
<1> DEFINE t == tx[w].t
           by == tx[w].by
<1>1. /\ tx[w].act = "remark"
      /\ voices' = [voices EXCEPT ![t] = @ \union ({by} \ {Factory})]
      /\ tx' = [tx EXCEPT ![w] = Idle]
      /\ UNCHANGED <<ticket, trail, solutions, closure, suppliers, issued, heard>>
  BY DEF CommitRemark
<1>2. /\ tx' \in [Workers -> Request]
      /\ tx'[w] = Idle
      /\ RequestOK(w)'
      /\ \A v \in Workers \ {w} : tx'[v] = tx[v]
  BY <1>1, EndFrame DEF IInv
<1>3. RequestOK(w) /\ tx[w] \in Request
  BY DEF IInv, TypeOK
<1>4. /\ t \in Tickets /\ Exists(t)
      /\ by # Factory => by \in Suppliers /\ ticket[t].supplier \in {by, NoSupplier}
  BY <1>1, <1>3 DEF RequestOK, Acts, Request, Authors
<1>5. /\ \A t2 \in Tickets \ {t} : voices'[t2] = voices[t2]
      /\ voices'[t] = voices[t] \union ({by} \ {Factory})
      /\ voices' \in [Tickets -> SUBSET Suppliers]
  BY <1>1, <1>4 DEF IInv, TypeOK
<1> HIDE DEF t, by
<1>6. TypeOK' /\ trail' \in [Tickets -> Seq([from : Statuses, to : Statuses])]
  BY <1>1, <1>2, <1>5 DEF IInv, TypeOK
<1>7. \A v \in Workers : RequestOK(v)'
  BY <1>1, <1>2, RequestStays DEF IInv
<1>8. \A u, v \in Workers : u # v => Apart(u, v)'
  <2>1. tx'[w].act = "none" /\ tx'[w].done = {}
    BY <1>2 DEF Idle
  <2> QED
    BY <1>2, <2>1 DEF IInv, Apart
<1>9. \A t2 \in Tickets : RowsOK(t2)'
  BY <1>1, <1>4, <1>5 DEF IInv, RowsOK, Exists, Life!Past
<1>10. Numbered' = Numbered
  BY <1>1 DEF Numbered, Exists
<1>11. TrailTellsRows' /\ NumbersAreDense'
  BY <1>1 DEF IInv, TrailTellsRows, Moves, NumbersAreDense, Exists
<1>12. OwnTicketsOnly'
  BY <1>1, <1>4, <1>5 DEF IInv, OwnTicketsOnly
<1> QED
  BY <1>6, <1>7, <1>8, <1>9, <1>10, <1>11, <1>12 DEF IInv

\* When an account goes, its tickets and its remarks have no author any more; no
\* ticket goes to another supplier.
LEMMA RemoveInvariant ==
  ASSUME IInv, NEW s \in Suppliers, RemoveSupplier(s)
  PROVE  IInv'
<1>1. /\ suppliers' = suppliers \ {s}
      /\ ticket' = [t \in Tickets |-> IF ticket[t].supplier = s
                      THEN [ticket[t] EXCEPT !.supplier = NoSupplier] ELSE ticket[t]]
      /\ voices' = [t \in Tickets |-> voices[t] \ {s}]
      /\ UNCHANGED <<trail, solutions, closure, issued, heard, tx>>
  BY DEF RemoveSupplier
<1>2. ticket' \in [Tickets -> [status : Statuses \ {"NEW"},
                               supplier : Suppliers \union {NoSupplier}, number : Nat]]
  <2> DEFINE Rows == [status : Statuses \ {"NEW"},
                      supplier : Suppliers \union {NoSupplier}, number : Nat]
  <2>1. ASSUME NEW r \in Rows PROVE [r EXCEPT !.supplier = NoSupplier] \in Rows
    BY <2>1
  <2>2. \A t \in Tickets : ticket[t] \in Rows
    BY DEF IInv, TypeOK
  <2> HIDE DEF Rows
  <2>3. \A t \in Tickets : (IF ticket[t].supplier = s
                           THEN [ticket[t] EXCEPT !.supplier = NoSupplier]
                           ELSE ticket[t]) \in Rows
    BY <2>1, <2>2
  <2> QED
    BY <1>1, <2>3 DEF Rows
<1>3. ASSUME NEW t \in Tickets
      PROVE  /\ ticket'[t].status = ticket[t].status
             /\ ticket'[t].number = ticket[t].number
             /\ ticket'[t].supplier \in {ticket[t].supplier, NoSupplier}
             /\ ticket[t].supplier # s => ticket'[t] = ticket[t]
             /\ ticket[t].supplier = s => ticket'[t].supplier = NoSupplier
             /\ Exists(t)' <=> Exists(t)
             /\ voices'[t] = voices[t] \ {s}
  BY <1>1 DEF IInv, TypeOK, Exists
<1>4. TypeOK' /\ trail' \in [Tickets -> Seq([from : Statuses, to : Statuses])]
  BY <1>1, <1>2 DEF IInv, TypeOK
<1>5. Numbered' = Numbered /\ NextNumber' = NextNumber
  <2>1. Numbered' = Numbered
    BY <1>3 DEF Numbered
  <2> QED
    BY <2>1 DEF NextNumber, Numbered
<1>6. ASSUME NEW w \in Workers PROVE RequestOK(w)'
  <2>1. RequestOK(w)
    BY DEF IInv
  <2>2. Progress(w)' /\ ClosesOnce(w)'
    BY <1>1, <2>1 DEF RequestOK, Progress, ClosesOnce
  <2>3. MovesOn(w)'
    BY <1>1, <2>1 DEF RequestOK, MovesOn, Life!Past
  <2>4. Acts(w)'
    BY <1>1, <1>3, <2>1 DEF RequestOK, Acts
  <2>5. tx[w].act = "create" => tx[w].t \in Tickets
    BY <2>1 DEF RequestOK, Declares, IInv, TypeOK
  <2>6. NumberTaken(w)' <=> NumberTaken(w)
    BY <1>1, <1>3 DEF NumberTaken
  <2>7. Declares(w)'
    BY <1>1, <1>3, <1>5, <2>1, <2>5, <2>6 DEF RequestOK, Declares
  <2> QED
    BY <2>2, <2>3, <2>4, <2>7 DEF RequestOK
<1>7. \A v, w \in Workers : v # w => Apart(v, w)'
  BY <1>1 DEF IInv, Apart
<1>8. ASSUME NEW t \in Tickets PROVE RowsOK(t)'
  <2>1. RowsOK(t)
    BY DEF IInv
  <2>2. Life!Past(t)' = Life!Past(t)
    BY <1>1 DEF Life!Past
  <2>3. ~Exists(t) => ticket'[t] = ticket[t]
    BY <1>3, <2>1, NullAssumption DEF RowsOK, Blank
  <2> QED
    BY <1>1, <1>3, <2>1, <2>2, <2>3 DEF RowsOK, Blank
<1>9. TrailTellsRows'
  BY <1>1 DEF IInv, TrailTellsRows, Moves
<1>10. OwnTicketsOnly'
  BY <1>1, <1>3 DEF IInv, OwnTicketsOnly
<1>11. NumbersAreDense'
  <2>1. {ticket'[t].number : t \in Numbered'} = {ticket[t].number : t \in Numbered}
    BY <1>3, <1>5 DEF Numbered
  <2> QED
    BY <1>5, <2>1 DEF IInv, NumbersAreDense, Numbered
<1> QED
  BY <1>4, <1>5, <1>6, <1>7, <1>8, <1>9, <1>10, <1>11 DEF IInv
-----------------------------------------------------------------------------
\* One more line in the history of a ticket.
LEMMA LineAdded ==
  ASSUME IInv, NEW t \in Tickets,
         NEW l \in [from : Statuses, to : Statuses],
         trail' = [trail EXCEPT ![t] = Append(@, l)]
  PROVE  /\ trail' \in [Tickets -> Seq([from : Statuses, to : Statuses])]
         /\ \A t2 \in Tickets \ {t} : trail'[t2] = trail[t2]
         /\ Len(trail'[t]) = Len(trail[t]) + 1 /\ Len(trail[t]) \in Nat
         /\ \A n \in 1 .. Len(trail[t]) : trail'[t][n] = trail[t][n]
         /\ trail'[t][Len(trail[t]) + 1] = l
         /\ Life!Past(t)' = Life!Past(t) \union {l.to}
<1> DEFINE Lines == [from : Statuses, to : Statuses]
           n == Len(trail[t])
<1>1. trail \in [Tickets -> Seq(Lines)]
  BY DEF IInv
<1>2. /\ trail[t] \in Seq(Lines) /\ trail'[t] = Append(trail[t], l)
      /\ Append(trail[t], l) \in Seq(Lines)
  <2> l \in Lines
    OBVIOUS
  <2> HIDE DEF Lines
  <2>1. trail[t] \in Seq(Lines) /\ trail'[t] = Append(trail[t], l)
    BY <1>1
  <2> QED
    BY <2>1
<1>3. /\ n \in Nat
      /\ Len(trail'[t]) = n + 1
      /\ \A m \in 1 .. n : trail'[t][m] = trail[t][m]
      /\ trail'[t][n + 1] = l
  BY <1>2
<1>4. /\ \A t2 \in Tickets \ {t} : trail'[t2] = trail[t2]
      /\ trail' \in [Tickets -> Seq(Lines)]
  <2> HIDE DEF Lines
  <2> QED
    BY <1>1, <1>2
<1>5. 1 .. (n + 1) = (1 .. n) \union {n + 1} /\ n + 1 \notin 1 .. n
  BY <1>3
<1> HIDE DEF n
<1>6. Life!Past(t)' = Life!Past(t) \union {l.to}
  BY <1>3, <1>5 DEF Life!Past, n
<1> QED
  BY <1>3, <1>4, <1>6 DEF n

\* A line is counted under the status it names and under no other.
LEMMA LineCounted ==
  ASSUME IInv, NEW t \in Tickets,
         NEW l \in [from : Statuses, to : Statuses],
         trail' = [trail EXCEPT ![t] = Append(@, l)],
         NEW st \in Statuses
  PROVE  /\ Moves(t, st) \in Nat
         /\ Moves(t, st)' = IF l.to = st THEN Moves(t, st) + 1 ELSE Moves(t, st)
<1>1. PICK n : n = Len(trail[t])
  OBVIOUS
<1>2. /\ n \in Nat
      /\ Len(trail'[t]) = n + 1
      /\ \A m \in 1 .. n : trail'[t][m] = trail[t][m]
      /\ trail'[t][n + 1] = l
  BY <1>1, LineAdded
<1>3. 1 .. (n + 1) = (1 .. n) \union {n + 1} /\ n + 1 \notin 1 .. n
  BY <1>2
<1> DEFINE S == {m \in 1 .. n : trail[t][m].to = st}
           T == {m \in 1 .. (n + 1) : trail'[t][m].to = st}
<1>4. T = IF l.to = st THEN S \union {n + 1} ELSE S
  BY <1>2, <1>3
<1>5. n + 1 \notin S /\ S \subseteq 1 .. n
  BY <1>3
<1>6. IsFiniteSet(S)
  <2>1. IsFiniteSet(1 .. n)
    BY <1>2, FS_Interval
  <2> QED
    BY <1>5, <2>1, FS_Subset
<1>7. Moves(t, st) = Cardinality(S) /\ Moves(t, st)' = Cardinality(T)
  BY <1>1, <1>2 DEF Moves
<1> HIDE DEF S, T
<1>8. Cardinality(S) \in Nat /\ Cardinality(S \union {n + 1}) = Cardinality(S) + 1
  BY <1>5, <1>6, FS_CardinalityType, FS_AddElement
<1> QED
  BY <1>4, <1>7, <1>8

\* What a move that commits has done, by its act.
LEMMA MoveFacts ==
  ASSUME IInv, NEW w \in Workers, CommitMove(w)
  PROVE  /\ tx[w].t \in Tickets /\ tx[w].t \in issued
         /\ tx[w].act \in {"create", "diagnose", "propose", "validate", "close"}
         /\ tx[w].act = "create" => "insert" \in tx[w].done /\ "closure" \notin tx[w].done
         /\ "closure" \in tx[w].done <=> tx[w].act = "close"
         /\ tx[w].to \in Statuses \ {"NEW", "none"}
         /\ tx[w].to = "CLOSED" <=> tx[w].act = "close"
         /\ tx[w].to = "SOLUTION_PROPOSED" <=> tx[w].act = "propose"
         /\ Saved(w).status = tx[w].to
         /\ Saved(w) \in [status : Statuses \ {"NEW"},
                          supplier : Suppliers \union {NoSupplier}, number : Nat]
         /\ tx[w].act = "create" => /\ Saved(w).supplier = tx[w].row.supplier
                                    /\ Saved(w).number = tx[w].row.number
         /\ tx[w].act # "create" => /\ Saved(w).supplier = ticket[tx[w].t].supplier
                                    /\ Saved(w).number = ticket[tx[w].t].number
         /\ Line(w) \in [from : Statuses, to : Statuses]
         /\ Line(w).to = tx[w].to /\ Line(w).from = tx[w].row.status
<1> DEFINE t == tx[w].t
<1>1. RequestOK(w) /\ tx[w] \in Request
  BY DEF IInv, TypeOK
<1>2. tx[w].act \notin {"none", "remark"} /\ tx[w].todo = <<>>
  BY DEF CommitMove
<1>3. tx[w].act \in {"create", "diagnose", "propose", "validate", "close"}
  BY <1>1, <1>2 DEF Request
<1>4. /\ t \in Tickets
      /\ t \in issued
  BY <1>1, <1>2 DEF RequestOK, Declares, Acts, IInv, TypeOK, RowsOK
<1>5. tx[w] # Idle
  BY <1>2 DEF Idle
<1>6. /\ <<>> # <<"announce">> /\ <<>> # <<"status", "announce">>
      /\ <<>> # <<"insert", "announce">> /\ <<>> # <<"closure", "status", "announce">>
  OBVIOUS
<1>7. tx[w].act = "create" => tx[w].done = {"insert", "announce"}
  BY <1>1, <1>2, <1>5, <1>6 DEF RequestOK, Progress
<1>8. tx[w].act = "close" => tx[w].done = {"closure", "status", "announce"}
  BY <1>1, <1>2, <1>5, <1>6 DEF RequestOK, Progress
<1>9. tx[w].act \in {"diagnose", "propose", "validate"} => tx[w].done = {"status", "announce"}
  BY <1>1, <1>2, <1>5, <1>6 DEF RequestOK, Progress
<1>10. /\ tx[w].to \in Statuses \ {"NEW", "none"}
       /\ tx[w].to = "CLOSED" <=> tx[w].act = "close"
       /\ tx[w].to = "SOLUTION_PROPOSED" <=> tx[w].act = "propose"
  <2>1. CASE tx[w].act = "create"
    BY <1>1, <2>1, StatusFacts DEF RequestOK, Declares
  <2>2. CASE tx[w].act # "create"
    <3>1. /\ tx[w].row.status \in DOMAIN Life!Follows
          /\ tx[w].to \in Life!Follows[tx[w].row.status]
          /\ tx[w].to = "CLOSED" <=> tx[w].act = "close"
          /\ tx[w].to = "SOLUTION_PROPOSED" <=> tx[w].act = "propose"
      BY <1>1, <1>3, <2>2 DEF RequestOK, MovesOn
    <3> QED
      BY <3>1, StatusFacts DEF Life!Follows
  <2> QED
    BY <2>1, <2>2
<1>11. /\ Saved(w).status = tx[w].to
       /\ Saved(w) \in [status : Statuses \ {"NEW"},
                        supplier : Suppliers \union {NoSupplier}, number : Nat]
       /\ tx[w].act = "create" => /\ Saved(w).supplier = tx[w].row.supplier
                                  /\ Saved(w).number = tx[w].row.number
       /\ tx[w].act # "create" => /\ Saved(w).supplier = ticket[tx[w].t].supplier
                                  /\ Saved(w).number = ticket[tx[w].t].number
  <2> DEFINE Rows == [status : Statuses, supplier : Suppliers \union {NoSupplier},
                      number : Nat]
  <2>1. ASSUME NEW r \in Rows, NEW to \in Statuses \ {"NEW", "none"}
        PROVE  LET n == [r EXCEPT !.status = to] IN
               /\ n.status = to /\ n.supplier = r.supplier /\ n.number = r.number
               /\ n \in [status : Statuses \ {"NEW"},
                         supplier : Suppliers \union {NoSupplier}, number : Nat]
    OBVIOUS
  <2>2. tx[w].row \in Rows /\ ticket[t] \in Rows
    BY <1>1, <1>4 DEF Request, IInv, TypeOK
  <2> HIDE DEF Rows
  <2>3. CASE tx[w].act = "create"
    BY <1>10, <2>1, <2>2, <2>3 DEF Saved
  <2>4. CASE tx[w].act # "create"
    BY <1>10, <2>1, <2>2, <2>4 DEF Saved
  <2> QED
    BY <2>3, <2>4
<1>12. /\ Line(w) \in [from : Statuses, to : Statuses]
       /\ Line(w).to = tx[w].to /\ Line(w).from = tx[w].row.status
  BY <1>1, <1>10 DEF Line, Request
<1> QED
  BY <1>3, <1>4, <1>7, <1>8, <1>9, <1>10, <1>11, <1>12

\* What a commit leaves of the rows.
LEMMA MoveFrame ==
  ASSUME IInv, NEW w \in Workers, CommitMove(w),
         NEW t, t = tx[w].t
  PROVE  /\ ticket'[t] = Saved(w)
         /\ trail' = [trail EXCEPT ![t] = Append(@, Line(w))]
         /\ solutions'[t] = IF tx[w].act = "propose" THEN solutions[t] + 1 ELSE solutions[t]
         /\ closure'[t] = (closure[t] \/ tx[w].act = "close")
         /\ voices'[t] = IF tx[w].act = "propose" THEN voices[t] \union {tx[w].by}
                                                 ELSE voices[t]
         /\ \A t2 \in Tickets \ {t} : /\ ticket'[t2] = ticket[t2]
                                      /\ solutions'[t2] = solutions[t2]
                                      /\ closure'[t2] = closure[t2]
                                      /\ voices'[t2] = voices[t2]
         /\ UNCHANGED <<suppliers, issued, heard>>
         /\ tx' \in [Workers -> Request] /\ tx'[w] = Idle /\ RequestOK(w)'
         /\ \A v \in Workers \ {w} : tx'[v] = tx[v]
         /\ TypeOK'
<1>1. /\ ticket' = [ticket EXCEPT ![t] = Saved(w)]
      /\ trail' = [trail EXCEPT ![t] = Append(@, Line(w))]
      /\ solutions' = [solutions EXCEPT ![t] = IF tx[w].act = "propose" THEN @ + 1 ELSE @]
      /\ closure' = [closure EXCEPT ![t] = @ \/ "closure" \in tx[w].done]
      /\ voices' = [voices EXCEPT ![t] = IF tx[w].act = "propose"
                                         THEN @ \union {tx[w].by} ELSE @]
      /\ tx' = [tx EXCEPT ![w] = Idle]
      /\ UNCHANGED <<suppliers, issued, heard>>
  BY DEF CommitMove
<1>2. /\ t \in Tickets
      /\ "closure" \in tx[w].done <=> tx[w].act = "close"
      /\ Saved(w) \in [status : Statuses \ {"NEW"},
                       supplier : Suppliers \union {NoSupplier}, number : Nat]
      /\ Line(w) \in [from : Statuses, to : Statuses]
  BY MoveFacts
<1>3. /\ tx' \in [Workers -> Request] /\ tx'[w] = Idle /\ RequestOK(w)'
      /\ \A v \in Workers \ {w} : tx'[v] = tx[v]
  BY <1>1, EndFrame DEF IInv
<1>4. tx[w].act = "propose" => tx[w].by \in Suppliers
  <2>1. tx[w] \in Request /\ Acts(w)
    BY DEF IInv, TypeOK, RequestOK
  <2> QED
    BY <2>1 DEF Request, Authors, Acts
<1>5. TypeOK
  BY DEF IInv
<1>6. ticket'[t] = Saved(w) /\ ticket' \in [Tickets -> [status : Statuses \ {"NEW"},
                       supplier : Suppliers \union {NoSupplier}, number : Nat]]
  BY <1>1, <1>2, <1>5 DEF TypeOK
<1>7. /\ solutions'[t] = IF tx[w].act = "propose" THEN solutions[t] + 1 ELSE solutions[t]
      /\ solutions' \in [Tickets -> Nat]
  BY <1>1, <1>2, <1>5 DEF TypeOK
<1>8. /\ closure'[t] = (closure[t] \/ tx[w].act = "close")
      /\ closure' \in [Tickets -> BOOLEAN]
  <2>1. closure'[t] = (closure[t] \/ "closure" \in tx[w].done)
    BY <1>1, <1>2, <1>5 DEF TypeOK
  <2>2. (closure[t] \/ "closure" \in tx[w].done) \in BOOLEAN
    OBVIOUS
  <2>3. closure' \in [Tickets -> BOOLEAN]
    BY <1>1, <2>2, <1>5 DEF TypeOK
  <2>4. closure'[t] = (closure[t] \/ tx[w].act = "close")
    BY <1>2, <2>1
  <2> QED
    BY <2>3, <2>4
<1>9. /\ voices'[t] = IF tx[w].act = "propose" THEN voices[t] \union {tx[w].by} ELSE voices[t]
      /\ voices' \in [Tickets -> SUBSET Suppliers]
  BY <1>1, <1>2, <1>4, <1>5 DEF TypeOK
<1>10. \A t2 \in Tickets \ {t} : /\ ticket'[t2] = ticket[t2]
                                 /\ solutions'[t2] = solutions[t2]
                                 /\ closure'[t2] = closure[t2]
                                 /\ voices'[t2] = voices[t2]
  BY <1>1, <1>5 DEF TypeOK
<1>11. trail' \in [Tickets -> Seq([from : Statuses, to : Statuses])]
  BY <1>1, <1>2, LineAdded
<1>12. \A t2 \in Tickets : \A n \in 1 .. Len(trail'[t2]) :
         trail'[t2][n] \in [from : Statuses, to : Statuses]
  <2> DEFINE Lines == [from : Statuses, to : Statuses]
  <2>1. trail' \in [Tickets -> Seq(Lines)]
    BY <1>11
  <2> HIDE DEF Lines
  <2>2. \A t2 \in Tickets : \A n \in 1 .. Len(trail'[t2]) : trail'[t2][n] \in Lines
    BY <2>1
  <2> QED
    BY <2>2 DEF Lines
<1>13. TypeOK'
  BY <1>1, <1>3, <1>5, <1>6, <1>7, <1>8, <1>9, <1>12 DEF TypeOK
<1> QED
  BY <1>1, <1>3, <1>6, <1>7, <1>8, <1>9, <1>10, <1>13

\* A number is taken by nobody else when its request commits, and is the next one.
LEMMA MoveNumbers ==
  ASSUME IInv, NEW w \in Workers, CommitMove(w)
  PROVE  /\ IsFiniteSet(Numbered')
         /\ NumbersAreDense'
         /\ Numbered' = Numbered \union {tx[w].t}
         /\ NextNumber' \in Nat
         /\ tx[w].act = "create" => NextNumber' = NextNumber + 1
         /\ tx[w].act # "create" => NextNumber' = NextNumber
<1>0. PICK t, n : t = tx[w].t /\ n = Saved(w).number
  OBVIOUS
<1>1. /\ t \in Tickets
      /\ Saved(w).status = tx[w].to /\ tx[w].to # "none"
      /\ tx[w].act = "create" => "insert" \in tx[w].done /\ n = tx[w].row.number
      /\ tx[w].act # "create" => n = ticket[t].number
      /\ tx[w].act \in {"create", "diagnose", "propose", "validate", "close"}
  BY <1>0, MoveFacts
<1>2. /\ ticket'[t] = Saved(w)
      /\ \A t2 \in Tickets \ {t} : ticket'[t2] = ticket[t2]
  BY <1>0, MoveFrame
<1>3. RequestOK(w)
  BY DEF IInv
<1>4. Numbered' = Numbered \union {t}
  BY <1>1, <1>2 DEF Numbered, Exists
<1>5. IsFiniteSet(Numbered) /\ Cardinality(Numbered) \in Nat
  BY FS_CardinalityType DEF IInv
<1>6. /\ IsFiniteSet(Numbered')
      /\ t \notin Numbered => Cardinality(Numbered') = Cardinality(Numbered) + 1
      /\ t \in Numbered => Cardinality(Numbered') = Cardinality(Numbered)
  BY <1>4, <1>5, FS_AddElement
<1>7. NextNumber = Cardinality(Numbered) + 1 /\ NextNumber' = Cardinality(Numbered') + 1
  BY DEF NextNumber, Numbered
<1>8. tx[w].act = "create" => t \notin Numbered
  BY <1>0, <1>3 DEF RequestOK, Declares, Numbered
<1>9. tx[w].act # "create" => t \in Numbered
  BY <1>0, <1>1, <1>3 DEF RequestOK, Acts, Numbered
<1>10. {ticket[t2].number : t2 \in Numbered} = 1 .. Cardinality(Numbered)
  BY DEF IInv, NumbersAreDense, Numbered
<1>11. {ticket'[t2].number : t2 \in Numbered'} = 1 .. Cardinality(Numbered')
  <2>1. CASE tx[w].act = "create"
    <3>1. n \in 1 .. NextNumber /\ \A t2 \in Tickets : ticket[t2].number # n
      BY <1>1, <1>3, <2>1 DEF RequestOK, Declares, NumberTaken
    <3>2. \A t2 \in Numbered : t2 \in Tickets
      BY DEF Numbered
    <3>3. n \notin 1 .. Cardinality(Numbered)
      BY <1>10, <3>1, <3>2
    <3>4. n = Cardinality(Numbered) + 1
      BY <1>5, <1>7, <3>1, <3>3
    <3>5. {ticket'[t2].number : t2 \in Numbered'} =
            {ticket[t2].number : t2 \in Numbered} \union {n}
      BY <1>0, <1>2, <1>4, <1>8, <2>1, <3>2
    <3>6. Cardinality(Numbered') = Cardinality(Numbered) + 1
      BY <1>6, <1>8, <2>1
    <3> QED
      BY <1>5, <1>10, <3>4, <3>5, <3>6
  <2>2. CASE tx[w].act # "create"
    <3>1. Numbered' = Numbered /\ ticket'[t].number = ticket[t].number
      BY <1>0, <1>1, <1>2, <1>4, <1>9, <2>2
    <3>2. \A t2 \in Numbered : ticket'[t2].number = ticket[t2].number
      BY <1>2, <3>1 DEF Numbered
    <3>3. {ticket'[t2].number : t2 \in Numbered'} = {ticket[t2].number : t2 \in Numbered}
      BY <3>1, <3>2
    <3> QED
      BY <1>10, <3>1, <3>3
  <2> QED
    BY <2>1, <2>2
<1>12. NumbersAreDense'
  BY <1>11 DEF NumbersAreDense, Numbered
<1> QED
  BY <1>0, <1>4, <1>5, <1>6, <1>7, <1>8, <1>9, <1>12

\* The rows of a ticket and the lines of its history come together.
LEMMA MoveRows ==
  ASSUME IInv, NEW w \in Workers, CommitMove(w)
  PROVE  TrailTellsRows' /\ OwnTicketsOnly' /\ \A t \in Tickets : RowsOK(t)'
<1>0. PICK t, by : t = tx[w].t /\ by = tx[w].by
  OBVIOUS
<1>1. /\ t \in Tickets /\ t \in issued
      /\ Saved(w).status = tx[w].to /\ tx[w].to \in Statuses \ {"NEW", "none"}
      /\ tx[w].to = "CLOSED" <=> tx[w].act = "close"
      /\ "closure" \in tx[w].done <=> tx[w].act = "close"
      /\ tx[w].to = "SOLUTION_PROPOSED" <=> tx[w].act = "propose"
      /\ tx[w].act = "create" => Saved(w).supplier = tx[w].row.supplier
      /\ tx[w].act # "create" => Saved(w).supplier = ticket[t].supplier
      /\ tx[w].act \in {"create", "diagnose", "propose", "validate", "close"}
      /\ Line(w) \in [from : Statuses, to : Statuses] /\ Line(w).to = tx[w].to
  BY <1>0, MoveFacts
<1>2. /\ ticket'[t] = Saved(w)
      /\ solutions'[t] = IF tx[w].act = "propose" THEN solutions[t] + 1 ELSE solutions[t]
      /\ closure'[t] = (closure[t] \/ tx[w].act = "close")
      /\ voices'[t] = IF tx[w].act = "propose" THEN voices[t] \union {by} ELSE voices[t]
      /\ \A t2 \in Tickets \ {t} : /\ ticket'[t2] = ticket[t2]
                                   /\ solutions'[t2] = solutions[t2]
                                   /\ closure'[t2] = closure[t2]
                                   /\ voices'[t2] = voices[t2]
      /\ issued' = issued /\ heard' = heard
  <2>1. voices'[t] = IF tx[w].act = "propose" THEN voices[t] \union {tx[w].by} ELSE voices[t]
    BY <1>0, MoveFrame
  <2>2. voices'[t] = IF tx[w].act = "propose" THEN voices[t] \union {by} ELSE voices[t]
    BY <1>0, <2>1
  <2>3. ticket'[t] = Saved(w)
    BY <1>0, MoveFrame
  <2>4. solutions'[t] = IF tx[w].act = "propose" THEN solutions[t] + 1 ELSE solutions[t]
    BY <1>0, MoveFrame, ZenonT(30)
  <2>5. closure'[t] = (closure[t] \/ tx[w].act = "close")
    BY <1>0, MoveFrame, ZenonT(30)
  <2>6. ASSUME NEW t2 \in Tickets \ {t}
        PROVE  /\ ticket'[t2] = ticket[t2]
               /\ solutions'[t2] = solutions[t2]
               /\ closure'[t2] = closure[t2]
               /\ voices'[t2] = voices[t2]
    <3>1. ticket'[t2] = ticket[t2]
      BY <1>0, MoveFrame
    <3>2. solutions'[t2] = solutions[t2]
      BY <1>0, MoveFrame
    <3>3. closure'[t2] = closure[t2]
      BY <1>0, MoveFrame
    <3>4. voices'[t2] = voices[t2]
      BY <1>0, MoveFrame
    <3> QED
      BY <3>1, <3>2, <3>3, <3>4
  <2>7. issued' = issued /\ heard' = heard
    BY <1>0, MoveFrame
  <2> QED
    BY <2>2, <2>3, <2>4, <2>5, <2>6, <2>7
<1>3. RequestOK(w) /\ RowsOK(t)
  BY <1>1 DEF IInv
<1> DEFINE new == tx[w].act = "create"
<1>4. new => /\ ~Exists(t)
             /\ \A s \in Suppliers : t \in heard[s] => s = tx[w].row.supplier
  BY <1>0, <1>3 DEF RequestOK, Declares
<1>5. ~new => /\ Exists(t)
              /\ by # Factory => ticket[t].supplier \in {by, NoSupplier}
              /\ tx[w].act = "propose" => by # Factory
  BY <1>0, <1>1, <1>3 DEF RequestOK, Acts
<1>6. tx[w].act = "close" => ~closure[t]
  BY <1>0, <1>1, <1>3 DEF RequestOK, ClosesOnce
<1>7. /\ \A t2 \in Tickets \ {t} : trail'[t2] = trail[t2]
      /\ Life!Past(t)' = Life!Past(t) \union {tx[w].to}
      /\ \A st \in Statuses :
           /\ Moves(t, st) \in Nat
           /\ Moves(t, st)' = IF tx[w].to = st THEN Moves(t, st) + 1 ELSE Moves(t, st)
  <2>1. PICK l \in [from : Statuses, to : Statuses] : l = Line(w)
    BY <1>1
  <2>2. trail' = [trail EXCEPT ![t] = Append(@, l)]
    BY <1>0, <2>1 DEF CommitMove
  <2>3. l.to = tx[w].to
    BY <1>1, <2>1
  <2>4. \A t2 \in Tickets \ {t} : trail'[t2] = trail[t2]
    BY <1>1, <2>2, LineAdded
  <2>5. Life!Past(t)' = Life!Past(t) \union {l.to}
    BY <1>1, <2>2, LineAdded
  <2>6. ASSUME NEW st \in Statuses
        PROVE  /\ Moves(t, st) \in Nat
               /\ Moves(t, st)' = IF l.to = st THEN Moves(t, st) + 1 ELSE Moves(t, st)
    <3>1. Moves(t, st) \in Nat
      BY <1>1, <2>2, LineCounted
    <3>2. Moves(t, st)' = IF l.to = st THEN Moves(t, st) + 1 ELSE Moves(t, st)
      BY <1>1, <2>2, LineCounted, ZenonT(60)
    <3> QED
      BY <3>1, <3>2
  <2> QED
    BY <2>3, <2>4, <2>5, <2>6
<1>8. TrailTellsRows'
  <2>1. ASSUME NEW t2 \in Tickets \ {t}
        PROVE  /\ Moves(t2, "SOLUTION_PROPOSED")' = Moves(t2, "SOLUTION_PROPOSED")
               /\ Moves(t2, "CLOSED")' = Moves(t2, "CLOSED")
    BY <1>7 DEF Moves
  <2>2. /\ solutions'[t] = Moves(t, "SOLUTION_PROPOSED")'
        /\ Moves(t, "CLOSED")' = IF closure'[t] THEN 1 ELSE 0
    <3>1. /\ solutions[t] = Moves(t, "SOLUTION_PROPOSED")
          /\ Moves(t, "CLOSED") = IF closure[t] THEN 1 ELSE 0
      BY <1>1 DEF IInv, TrailTellsRows
    <3>2. "CLOSED" \in Statuses /\ "SOLUTION_PROPOSED" \in Statuses
      BY StatusFacts
    <3>3. solutions'[t] = Moves(t, "SOLUTION_PROPOSED")'
      BY <1>1, <1>2, <1>7, <3>1, <3>2
    <3>4. CASE tx[w].act = "close"
      <4>1. closure'[t] /\ ~closure[t]
        BY <1>2, <1>6, <3>4
      <4>2. Moves(t, "CLOSED")' = 1
        BY <1>1, <1>7, <3>1, <3>2, <3>4, <4>1
      <4> QED
        BY <3>3, <4>1, <4>2
    <3>5. CASE tx[w].act # "close"
      <4>1. closure'[t] <=> closure[t]
        BY <1>2, <3>5
      <4>2. Moves(t, "CLOSED")' = Moves(t, "CLOSED")
        BY <1>1, <1>7, <3>2, <3>5
      <4> QED
        BY <3>1, <3>3, <4>1, <4>2
    <3> QED
      BY <3>4, <3>5
  <2>3. ASSUME NEW t2 \in Tickets \ {t}
        PROVE  /\ solutions'[t2] = Moves(t2, "SOLUTION_PROPOSED")'
               /\ Moves(t2, "CLOSED")' = IF closure'[t2] THEN 1 ELSE 0
    <3>1. /\ solutions[t2] = Moves(t2, "SOLUTION_PROPOSED")
          /\ Moves(t2, "CLOSED") = IF closure[t2] THEN 1 ELSE 0
      BY DEF IInv, TrailTellsRows
    <3>2. solutions'[t2] = solutions[t2] /\ closure'[t2] = closure[t2]
      BY <1>2
    <3> QED
      BY <2>1, <3>1, <3>2
  <2> QED
    BY <2>2, <2>3 DEF TrailTellsRows
<1>9. OwnTicketsOnly'
  <2> SUFFICES ASSUME NEW s \in Suppliers, NEW t2 \in Tickets,
                      t2 \in heard'[s] \/ s \in voices'[t2]
               PROVE  ticket'[t2].supplier \in {s, NoSupplier}
    BY DEF OwnTicketsOnly
  <2>1. t2 \in heard[s] \/ s \in voices[t2] => ticket[t2].supplier \in {s, NoSupplier}
    BY DEF IInv, OwnTicketsOnly
  <2>2. CASE t2 # t
    BY <1>2, <2>1, <2>2
  <2>3. CASE t2 = t /\ new
    <3>1. voices'[t] = voices[t] /\ voices[t] = {}
      BY <1>2, <1>3, <1>4, <2>3 DEF RowsOK
    <3>2. s = tx[w].row.supplier
      BY <1>2, <1>4, <2>3, <3>1
    <3> QED
      BY <1>1, <1>2, <2>3, <3>2
  <2>4. CASE t2 = t /\ ~new
    <3>1. s \in voices'[t] => s \in voices[t] \/ (s = by /\ by # Factory)
      BY <1>2, <1>5, <2>4
    <3> QED
      BY <1>1, <1>2, <1>5, <2>1, <2>4, <3>1
  <2> QED
    BY <2>2, <2>3, <2>4
<1>10. ASSUME NEW t2 \in Tickets PROVE RowsOK(t2)'
  <2>1. RowsOK(t2)
    BY DEF IInv
  <2>2. CASE t2 = t
    <3>1. Exists(t)' /\ ticket'[t].status = tx[w].to /\ tx[w].to \in Life!Past(t)'
      BY <1>1, <1>2, <1>7 DEF Exists
    <3> QED
      BY <1>1, <1>2, <2>2, <3>1 DEF RowsOK
  <2>3. CASE t2 # t
    <3>1. /\ Exists(t2)' <=> Exists(t2)
          /\ Life!Past(t2)' = Life!Past(t2)
          /\ ticket'[t2] = ticket[t2] /\ trail'[t2] = trail[t2] /\ voices'[t2] = voices[t2]
      BY <1>2, <1>7, <2>3 DEF Exists, Life!Past
    <3> QED
      BY <1>2, <2>1, <3>1 DEF RowsOK
  <2> QED
    BY <2>2, <2>3
<1> QED
  BY <1>8, <1>9, <1>10

\* Two requests in each other's way: the one that commits has kept the other from
\* its key, its number and its closure row.
LEMMA MoveOthers ==
  ASSUME IInv, NEW w \in Workers, CommitMove(w), NEW v \in Workers \ {w}
  PROVE  RequestOK(v)'
<1>0. PICK t, u, n, act : /\ t = tx[w].t /\ u = tx[v].t /\ act = tx[w].act
                          /\ n = Saved(w).number
  OBVIOUS
<1>1. /\ t \in Tickets
      /\ Saved(w).status = tx[w].to /\ tx[w].to # "none"
      /\ act = "create" => "insert" \in tx[w].done /\ n = tx[w].row.number
      /\ act # "create" => /\ Saved(w).supplier = ticket[t].supplier
                           /\ n = ticket[t].number
      /\ "closure" \in tx[w].done <=> act = "close"
      /\ Line(w) \in [from : Statuses, to : Statuses]
  BY <1>0, MoveFacts
<1>2. ticket'[t] = Saved(w)
  BY <1>0, MoveFrame
<1>3. closure'[t] = (closure[t] \/ act = "close")
  <2>1. closure'[t] = (closure[t] \/ tx[w].act = "close")
    BY <1>0, MoveFrame, ZenonT(30)
  <2> QED
    BY <1>0, <2>1, Zenon
<1>4. issued' = issued /\ heard' = heard
  BY <1>0, MoveFrame
<1>5. tx'[v] = tx[v]
  BY <1>0, MoveFrame
<1>6. ASSUME NEW t2 \in Tickets \ {t}
      PROVE  ticket'[t2] = ticket[t2] /\ closure'[t2] = closure[t2]
  <2>1. ticket'[t2] = ticket[t2]
    BY <1>0, MoveFrame
  <2>2. closure'[t2] = closure[t2]
    BY <1>0, MoveFrame
  <2> QED
    BY <2>1, <2>2
<1>7. RequestOK(v) /\ RequestOK(w) /\ Apart(v, w) /\ tx[v] \in Request
  BY DEF IInv, TypeOK
<1>8. Exists(t)'
  BY <1>1, <1>2 DEF Exists
<1>9. Progress(v)'
  BY <1>5, <1>7 DEF RequestOK, Progress
<1>10. Declares(v)'
  <2> SUFFICES ASSUME tx[v].act = "create" PROVE Declares(v)'
    BY <1>5 DEF Declares
  <2>1. /\ u \in issued /\ ~Exists(u)
        /\ tx[v].to = "AWAITING_SUPPLIER" /\ tx[v].row.status = "NEW"
        /\ tx[v].row.supplier \in Suppliers
        /\ tx[v].by = Factory
        /\ tx[v].row.number \in 1 .. NextNumber
        /\ "insert" \in tx[v].done => ~NumberTaken(v)
        /\ \A s \in Suppliers : u \in heard[s] => s = tx[v].row.supplier
    BY <1>0, <1>7 DEF RequestOK, Declares
  <2>2. u \in Tickets
    BY <2>1 DEF IInv, TypeOK
  <2>3. u # t
    BY <1>0, <1>1, <1>7, <2>1, MoveFacts DEF Apart, RequestOK, Acts
  <2>4. ~Exists(u)'
    BY <1>6, <2>1, <2>2, <2>3 DEF Exists
  <2>5. NextNumber \in Nat /\ NextNumber' \in Nat /\ NextNumber' >= NextNumber
    BY <1>0, MoveNumbers, CountType
  <2>6. tx[v].row.number \in 1 .. NextNumber'
    BY <2>1, <2>5
  <2>7. ASSUME "insert" \in tx[v].done PROVE ~NumberTaken(v)'
    <3>1. \A t2 \in Tickets : ticket[t2].number # tx[v].row.number
      BY <2>1, <2>7 DEF NumberTaken
    <3>2. n # tx[v].row.number
      BY <1>0, <1>1, <1>7, <2>7, <3>1 DEF Apart
    <3>3. \A t2 \in Tickets : ticket'[t2].number # tx[v].row.number
      BY <1>0, <1>2, <1>6, <3>1, <3>2
    <3> QED
      BY <1>5, <3>3 DEF NumberTaken
  <2> QED
    BY <1>0, <1>4, <1>5, <2>1, <2>4, <2>6, <2>7 DEF Declares
<1>11. Acts(v)'
  <2> SUFFICES ASSUME tx[v].act \notin {"none", "create"} PROVE Acts(v)'
    BY <1>5 DEF Acts
  <2>1. /\ u \in Tickets /\ Exists(u)
        /\ tx[v].by # Factory => ticket[u].supplier \in {tx[v].by, NoSupplier}
        /\ tx[v].act = "propose" => tx[v].by # Factory
    BY <1>0, <1>7 DEF RequestOK, Acts
  <2>2. Exists(u)' /\ ticket'[u].supplier = ticket[u].supplier
    <3>1. CASE u = t
      <4>1. act # "create"
        BY <1>0, <1>7, <2>1, <3>1 DEF RequestOK, Declares
      <4> QED
        BY <1>1, <1>2, <1>8, <3>1, <4>1
    <3>2. CASE u # t
      BY <1>6, <2>1, <3>2 DEF Exists
    <3> QED
      BY <3>1, <3>2
  <2> QED
    BY <1>0, <1>5, <2>1, <2>2 DEF Acts
<1>12. MovesOn(v)'
  <2> SUFFICES ASSUME tx[v].act \in {"diagnose", "propose", "validate", "close"}
               PROVE  MovesOn(v)'
    BY <1>5 DEF MovesOn
  <2>1. MovesOn(v) /\ u \in Tickets
    BY <1>0, <1>7 DEF RequestOK, Acts
  <2>2. Life!Past(u) \subseteq Life!Past(u)'
    <3>1. PICK l \in [from : Statuses, to : Statuses] : l = Line(w)
      BY <1>1
    <3>2. trail' = [trail EXCEPT ![t] = Append(@, l)]
      BY <1>0, <3>1 DEF CommitMove
    <3>3. CASE u = t
      <4>1. Life!Past(t)' = Life!Past(t) \union {l.to}
        BY <1>1, <3>2, LineAdded
      <4> QED
        BY <3>3, <4>1
    <3>4. CASE u # t
      <4>1. trail'[u] = trail[u]
        BY <1>1, <2>1, <3>2, <3>4, LineAdded
      <4> QED
        BY <4>1 DEF Life!Past
    <3> QED
      BY <3>3, <3>4
  <2>3. tx[v].row.status \in Life!Past(u)
    BY <1>0, <2>1 DEF MovesOn
  <2> QED
    BY <1>0, <1>5, <2>1, <2>2, <2>3 DEF MovesOn
<1>13. ClosesOnce(v)'
  <2> SUFFICES ASSUME "closure" \in tx[v].done PROVE ~closure'[u]
    BY <1>0, <1>5 DEF ClosesOnce
  <2>1. ~closure[u]
    BY <1>0, <1>7 DEF RequestOK, ClosesOnce
  <2>2. CASE u = t
    BY <1>0, <1>1, <1>3, <1>7, <2>1, <2>2 DEF Apart
  <2>3. CASE u # t
    <3>1. tx[v].act # "none"
      BY <1>7 DEF RequestOK, Progress, Idle
    <3>2. u \in Tickets
      <4>1. tx[v].act = "create" => u \in issued
        BY <1>0, <1>7 DEF RequestOK, Declares
      <4>2. tx[v].act # "create" => u \in Tickets
        BY <1>0, <1>7, <3>1 DEF RequestOK, Acts
      <4> QED
        BY <4>1, <4>2 DEF IInv, TypeOK
    <3> QED
      BY <1>6, <2>1, <2>3, <3>2
  <2> QED
    BY <2>2, <2>3
<1> QED
  BY <1>9, <1>10, <1>11, <1>12, <1>13 DEF RequestOK

\* A commit keeps the invariant.
LEMMA MoveInvariant ==
  ASSUME IInv, NEW w \in Workers, CommitMove(w)
  PROVE  IInv'
<1>0. PICK t : t = tx[w].t
  OBVIOUS
<1>1. tx'[w] = Idle /\ RequestOK(w)' /\ \A v \in Workers \ {w} : tx'[v] = tx[v]
  <2>1. tx'[w] = Idle
    BY <1>0, MoveFrame
  <2>2. RequestOK(w)'
    BY <1>0, MoveFrame
  <2>3. \A v \in Workers \ {w} : tx'[v] = tx[v]
    BY <1>0, MoveFrame
  <2> QED
    BY <2>1, <2>2, <2>3
<1>2. TypeOK'
  BY <1>0, MoveFrame
<1>3. trail' \in [Tickets -> Seq([from : Statuses, to : Statuses])]
  <2>1. PICK l \in [from : Statuses, to : Statuses] : l = Line(w)
    BY MoveFacts
  <2>2. trail' = [trail EXCEPT ![t] = Append(@, l)] /\ t \in Tickets
    BY <1>0, <2>1, MoveFacts DEF CommitMove
  <2> QED
    BY <2>2, LineAdded
<1>4. \A v \in Workers : RequestOK(v)'
  BY <1>1, MoveOthers
<1>5. ASSUME NEW u \in Workers, NEW v \in Workers, u # v PROVE Apart(u, v)'
  <2>1. CASE u = w \/ v = w
    <3>1. tx'[w].act = "none" /\ tx'[w].done = {}
      BY <1>1 DEF Idle
    <3> QED
      BY <2>1, <3>1 DEF Apart
  <2>2. CASE u # w /\ v # w
    BY <1>1, <1>5, <2>2, ApartStays DEF IInv
  <2> QED
    BY <2>1, <2>2
<1> QED
  BY <1>2, <1>3, <1>4, <1>5, MoveNumbers, MoveRows DEF IInv
-----------------------------------------------------------------------------
\* No ticket, no request.
LEMMA InitInvariant == Init => IInv
<1> SUFFICES ASSUME Init PROVE IInv
  OBVIOUS
<1>1. /\ ticket = [t \in Tickets |-> Blank]
      /\ trail = [t \in Tickets |-> <<>>]
      /\ solutions = [t \in Tickets |-> 0]
      /\ closure = [t \in Tickets |-> FALSE]
      /\ voices = [t \in Tickets |-> {}]
      /\ suppliers = Suppliers
      /\ issued = {}
      /\ heard = [s \in Suppliers |-> {}]
      /\ tx = [w \in Workers |-> Idle]
  BY DEF Init
<1>2. Blank \in [status : Statuses \ {"NEW"}, supplier : Suppliers \union {NoSupplier},
                 number : Nat]
  BY StatusFacts DEF Blank
<1>3. TypeOK
  BY <1>1, <1>2, IdleTypes DEF TypeOK
<1>4. trail \in [Tickets -> Seq([from : Statuses, to : Statuses])]
  BY <1>1
<1>5. ASSUME NEW w \in Workers
      PROVE  tx[w] = Idle /\ tx[w].act = "none" /\ tx[w].done = {} /\ RequestOK(w)
  BY <1>1 DEF Idle, RequestOK, Progress, Declares, Acts, MovesOn, ClosesOnce
<1>6. \A v, w \in Workers : v # w => Apart(v, w)
  BY <1>5 DEF Apart
<1>7. \A t \in Tickets : ~Exists(t) /\ ticket[t] = Blank /\ trail[t] = <<>> /\ voices[t] = {}
  BY <1>1 DEF Exists, Blank
<1>8. \A t \in Tickets : RowsOK(t)
  BY <1>1, <1>7 DEF RowsOK
<1>9. Numbered = {}
  BY <1>7 DEF Numbered
<1>10. IsFiniteSet(Numbered) /\ Cardinality(Numbered) = 0
  BY <1>9, FS_EmptySet
<1>11. NumbersAreDense
  <2>1. 1 .. 0 = {}
    OBVIOUS
  <2> QED
    BY <1>9, <1>10, <2>1 DEF NumbersAreDense, Numbered
<1>12. OwnTicketsOnly
  BY <1>1 DEF OwnTicketsOnly
<1>13. TrailTellsRows
  <2> SUFFICES ASSUME NEW t \in Tickets
               PROVE  /\ solutions[t] = Moves(t, "SOLUTION_PROPOSED")
                      /\ Moves(t, "CLOSED") = IF closure[t] THEN 1 ELSE 0
    BY DEF TrailTellsRows
  <2>1. 1 .. Len(trail[t]) = {}
    BY <1>7
  <2>2. Moves(t, "SOLUTION_PROPOSED") = 0 /\ Moves(t, "CLOSED") = 0
    BY <2>1, FS_EmptySet DEF Moves
  <2>3. solutions[t] = 0 /\ ~closure[t]
    BY <1>1
  <2> QED
    BY <2>2, <2>3
<1> QED
  BY <1>3, <1>4, <1>5, <1>6, <1>8, <1>10, <1>11, <1>12, <1>13 DEF IInv

\* One case for each action.
LEMMA NextInvariant == IInv /\ [Next]_vars => IInv'
<1> SUFFICES ASSUME IInv, [Next]_vars PROVE IInv'
  OBVIOUS
<1>1. CASE \E w \in Workers : LoadCreate(w)
  BY <1>1, CreateInvariant
<1>2. CASE \E w \in Workers : \/ LoadDiagnose(w) \/ LoadPropose(w) \/ LoadValidate(w)
                              \/ LoadClose(w) \/ LoadRemark(w)
  BY <1>2, LoadsInvariant
<1>3. CASE \E w \in Workers : Insert(w) \/ InsertClosure(w) \/ SaveStatus(w)
  BY <1>3, StatementInvariant
<1>4. CASE \E w \in Workers : InsertRefused(w) \/ ClosureRefused(w) \/ Abort(w)
  BY <1>4, UndoInvariant DEF InsertRefused, ClosureRefused, Abort
<1>5. CASE \E w \in Workers : Announce(w)
  BY <1>5, AnnounceInvariant
<1>6. CASE \E w \in Workers : CommitMove(w)
  BY <1>6, MoveInvariant
<1>7. CASE \E w \in Workers : CommitRemark(w)
  BY <1>7, RemarkInvariant
<1>8. CASE \E s \in Suppliers : RemoveSupplier(s)
  BY <1>8, RemoveInvariant
<1>9. CASE \E t \in Tickets : Remind(t)
  BY <1>9, RemindInvariant
<1>10. CASE UNCHANGED vars
  <2>1. UNCHANGED <<ticket, trail, solutions, closure, voices, suppliers, issued, heard, tx>>
    BY <1>10 DEF vars, rows
  <2>2. TypeOK' /\ trail' \in [Tickets -> Seq([from : Statuses, to : Statuses])]
    BY <2>1 DEF IInv, TypeOK
  <2>3. \A w \in Workers : RequestOK(w)'
    BY <2>1, RequestStays DEF IInv
  <2>4. \A v, w \in Workers : v # w => Apart(v, w)'
    BY <2>1, ApartStays DEF IInv
  <2>5. \A t \in Tickets : RowsOK(t)'
    BY <2>1 DEF IInv, RowsOK, Exists, Life!Past
  <2>6. Numbered' = Numbered
    BY <2>1 DEF Numbered, Exists
  <2>7. TrailTellsRows' /\ OwnTicketsOnly'
    BY <2>1 DEF IInv, TrailTellsRows, Moves, OwnTicketsOnly
  <2>8. NumbersAreDense'
    BY <2>1 DEF IInv, NumbersAreDense, Exists
  <2> QED
    BY <2>2, <2>3, <2>4, <2>5, <2>6, <2>7, <2>8 DEF IInv
<1> QED
  BY <1>1, <1>2, <1>3, <1>4, <1>5, <1>6, <1>7, <1>8, <1>9, <1>10 DEF Next

\* The invariant holds throughout.
THEOREM InvariantHolds == Spec => []IInv
BY InitInvariant, NextInvariant, PTL DEF Spec

\* The rows, requests and mailboxes have their types, and no committed ticket is NEW:
\* the request that inserts it moves it on in the same transaction
\* (TicketViewSet.perform_create).
THEOREM TypeCorrect == Spec => []TypeOK
<1>1. IInv => TypeOK
  BY DEF IInv
<1> QED
  BY <1>1, InvariantHolds, PTL

\* The solutions and the closure row of a ticket are those its history tells of: one
\* solution for each line that says proposed, a closure with the one line that says
\* closed (propose_solution, close).
THEOREM HistoryTellsRows == Spec => []TrailTellsRows
<1>1. IInv => TrailTellsRows
  BY DEF IInv
<1> QED
  BY <1>1, InvariantHolds, PTL

\* No supplier hears of another supplier's ticket, from requests that commit or not,
\* and none leaves a trace on one (broadcast_ticket_event, get_queryset).
THEOREM NobodyElsesTickets == Spec => []OwnTicketsOnly
<1>1. IInv => OwnTicketsOnly
  BY DEF IInv
<1> QED
  BY <1>1, InvariantHolds, PTL

\* Numbers made from a count leave no gap and are never given twice (Ticket.save).
THEOREM NumbersHaveNoGap == Spec => []NumbersAreDense
<1>1. IInv => NumbersAreDense
  BY DEF IInv
<1> QED
  BY <1>1, InvariantHolds, PTL
-----------------------------------------------------------------------------
(* The requests implement the history they promise.                        *)

\* No line says closed as long as there is no closure row.
LEMMA NotClosedYet ==
  ASSUME IInv, NEW t \in Tickets, ~closure[t]
  PROVE  "CLOSED" \notin Life!Past(t)
<1> DEFINE S == {n \in 1 .. Len(trail[t]) : trail[t][n].to = "CLOSED"}
<1>1. Cardinality(S) = 0
  BY DEF IInv, TrailTellsRows, Moves
<1>2. Len(trail[t]) \in Nat
  <2> DEFINE Lines == [from : Statuses, to : Statuses]
  <2>1. trail \in [Tickets -> Seq(Lines)]
    BY DEF IInv
  <2> HIDE DEF Lines
  <2> QED
    BY <2>1
<1>3. IsFiniteSet(S)
  <2>1. IsFiniteSet(1 .. Len(trail[t]))
    BY <1>2, FS_Interval
  <2> QED
    BY <2>1, FS_Subset
<1>4. S = {}
  BY <1>1, <1>3, FS_EmptySet
<1> QED
  BY <1>4 DEF Life!Past

\* A commit writes one line, and the status that the line says.
LEMMA MoveIsPromised ==
  ASSUME IInv, NEW w \in Workers, CommitMove(w)
  PROVE  Life!Next
<1>0. PICK t, l : t = tx[w].t /\ l = Line(w)
  OBVIOUS
<1>1. /\ t \in Tickets
      /\ Saved(w).status = tx[w].to
      /\ l.to = tx[w].to /\ l.from = tx[w].row.status
      /\ tx[w].to = "CLOSED" <=> tx[w].act = "close"
      /\ "closure" \in tx[w].done <=> tx[w].act = "close"
      /\ tx[w].act \in {"create", "diagnose", "propose", "validate", "close"}
  BY <1>0, MoveFacts
<1>2. /\ ticket' = [ticket EXCEPT ![t] = Saved(w)]
      /\ trail' = [trail EXCEPT ![t] = Append(@, l)]
  BY <1>0 DEF CommitMove
<1>3. RequestOK(w) /\ RowsOK(t)
  BY <1>1 DEF IInv
<1>4. l = [from |-> l.from, to |-> l.to]
  BY <1>0 DEF Line
<1>5. Life!Write(t, l.from, l.to)
  <2>1. ticket \in [Tickets -> [status : Statuses \ {"NEW"},
                                supplier : Suppliers \union {NoSupplier}, number : Nat]]
    BY DEF IInv, TypeOK
  <2>2. [t2 \in Tickets |-> ticket'[t2].status]
          = [[t2 \in Tickets |-> ticket[t2].status] EXCEPT ![t] = l.to]
    BY <1>1, <1>2, <2>1
  <2>3. trail' = [trail EXCEPT ![t] = Append(@, [from |-> l.from, to |-> l.to])]
    BY <1>2, <1>4
  <2> QED
    BY <2>2, <2>3 DEF Life!Write
<1>6. CASE tx[w].act = "create"
  <2>1. l.from = "NEW" /\ l.to = "AWAITING_SUPPLIER" /\ trail[t] = <<>>
    BY <1>0, <1>1, <1>3, <1>6 DEF RequestOK, Declares, RowsOK
  <2>2. Life!Declare(t)
    BY <1>5, <2>1 DEF Life!Declare
  <2> QED
    BY <1>1, <2>2 DEF Life!Next
<1>7. CASE tx[w].act # "create"
  <2>1. l.from \in Life!Past(t) \ {"CLOSED"} /\ l.to \in Life!Follows[l.from]
    BY <1>0, <1>1, <1>3, <1>7 DEF RequestOK, MovesOn
  <2>2. l.to = "CLOSED" => "CLOSED" \notin Life!Past(t)
    BY <1>0, <1>1, <1>3, NotClosedYet DEF RequestOK, ClosesOnce
  <2>3. Life!Move(t)
    BY <1>5, <2>1, <2>2 DEF Life!Move
  <2> QED
    BY <1>1, <2>3 DEF Life!Next
<1> QED
  BY <1>6, <1>7

\* Nothing else moves a ticket: an account that is removed leaves the statuses.
LEMMA OthersKeepStatus ==
  ASSUME IInv, [Next]_vars, \A w \in Workers : ~CommitMove(w)
  PROVE  UNCHANGED Life!vars
<1>1. CASE UNCHANGED <<ticket, trail>>
  BY <1>1 DEF Life!vars
<1>2. CASE \E s \in Suppliers : RemoveSupplier(s)
  <2>1. PICK s \in Suppliers : RemoveSupplier(s)
    BY <1>2
  <2>2. /\ ticket' = [t \in Tickets |-> IF ticket[t].supplier = s
                        THEN [ticket[t] EXCEPT !.supplier = NoSupplier] ELSE ticket[t]]
        /\ trail' = trail
    BY <2>1 DEF RemoveSupplier
  <2>3. ticket \in [Tickets -> [status : Statuses \ {"NEW"},
                                supplier : Suppliers \union {NoSupplier}, number : Nat]]
    BY DEF IInv, TypeOK
  <2>4. [t \in Tickets |-> ticket'[t].status] = [t \in Tickets |-> ticket[t].status]
    BY <2>2, <2>3
  <2> QED
    BY <2>2, <2>4 DEF Life!vars
<1>3. CASE ~UNCHANGED <<ticket, trail>>
  <2>1. ASSUME NEW w \in Workers PROVE ~LoadCreate(w)
    BY <1>3 DEF LoadCreate, Begin, rows
  <2>2. ASSUME NEW w \in Workers
        PROVE  /\ ~LoadDiagnose(w) /\ ~LoadPropose(w) /\ ~LoadValidate(w)
               /\ ~LoadClose(w) /\ ~LoadRemark(w)
    BY <1>3 DEF LoadDiagnose, LoadPropose, LoadValidate, LoadClose, LoadRemark, Load, Begin, rows
  <2>3. ASSUME NEW w \in Workers
        PROVE  /\ ~Insert(w) /\ ~InsertRefused(w) /\ ~InsertClosure(w)
               /\ ~ClosureRefused(w) /\ ~SaveStatus(w) /\ ~Announce(w)
               /\ ~CommitRemark(w) /\ ~Abort(w)
    BY <1>3 DEF Insert, InsertRefused, InsertClosure, ClosureRefused, SaveStatus, Announce,
                CommitRemark, Abort, Undo, rows
  <2>4. ASSUME NEW t \in Tickets PROVE ~Remind(t)
    BY <1>3 DEF Remind, rows
  <2>5. ~UNCHANGED vars
    BY <1>3 DEF vars, rows
  <2> QED
    BY <1>2, <2>1, <2>2, <2>3, <2>4, <2>5 DEF Next
<1> QED
  BY <1>1, <1>3

\* The history of a ticket is what AuditTrail promises, whatever overlaps: every
\* change of status has its line, with a status the ticket has had and one that may
\* follow it, and no ticket is closed twice (_transition, TicketStatusLog).
THEOREM TicketsAreAudited == Spec => Audited
<1>1. Init => Life!Init
  <2> SUFFICES ASSUME Init PROVE Life!Init
    OBVIOUS
  <2>1. ticket = [t \in Tickets |-> Blank] /\ trail = [t \in Tickets |-> <<>>]
    BY DEF Init
  <2>2. [t \in Tickets |-> ticket[t].status] = [t \in Tickets |-> "none"]
    BY <2>1 DEF Blank
  <2> QED
    BY <2>1, <2>2 DEF Life!Init
<1>2. IInv /\ [Next]_vars => [Life!Next]_(Life!vars)
  BY MoveIsPromised, OthersKeepStatus
<1> QED
  BY <1>1, <1>2, InvariantHolds, PTL DEF Spec, Audited, Life!Spec
-----------------------------------------------------------------------------
(* While no two moves of one ticket overlap.                               *)

Moving == {"diagnose", "propose", "validate", "close"}

\* A request moves its ticket from the status the ticket has.
Loaded(w) == tx[w].act \in Moving => tx[w].row.status = ticket[tx[w].t].status

\* What the closure row, the history and the solutions say of a ticket's status.
ClosureTells(t) == closure[t] <=> ticket[t].status = "CLOSED"

TrailEnds(t) == /\ trail[t] = <<>> <=> ~Exists(t)
                /\ trail[t] # <<>> => trail[t][Len(trail[t])].to = ticket[t].status

Chained(t) == \A n \in 1 .. Len(trail[t]) :
                trail[t][n].from = IF n = 1 THEN "NEW" ELSE trail[t][n - 1].to

Answered(t) == ticket[t].status \in {"SOLUTION_PROPOSED", "INTERVENING", "CLOSED"} =>
                 solutions[t] >= 1

InOrder(t) == ClosureTells(t) /\ TrailEnds(t) /\ Chained(t) /\ Answered(t)

Orderly == /\ ~TicketOverlap
           /\ \A w \in Workers : Loaded(w)
           /\ \A t \in Tickets : InOrder(t)

\* A ticket's supplier is an account that is there; nobody is needed to be alone.
HasAccount(t) == ticket[t].supplier \in suppliers \union {NoSupplier}

History == /\ \A t \in Tickets : HasAccount(t)
           /\ raced \/ Orderly

\* A step that leaves the statuses, the histories and the rows beside them alone.
Quiet ==
  /\ UNCHANGED <<trail, solutions, closure>>
  /\ \A t \in Tickets : ticket'[t].status = ticket[t].status
  /\ \A w \in Workers :
       tx'[w].act \in Moving =>
         \/ tx'[w].act = tx[w].act /\ tx'[w].t = tx[w].t /\ tx'[w].row = tx[w].row
         \/ tx'[w].t \in Tickets /\ tx'[w].row = ticket[tx'[w].t]

LEMMA QuietOrderly ==
  ASSUME IInv, Orderly, Quiet, ~TicketOverlap'
  PROVE  Orderly'
<1>1. ASSUME NEW w \in Workers, tx'[w].act \in Moving
      PROVE  tx'[w].row.status = ticket'[tx'[w].t].status
  <2>1. tx[w].act \in Moving => tx[w].t \in Tickets
    BY DEF IInv, RequestOK, Acts, Moving
  <2> QED
    BY <1>1, <2>1 DEF Orderly, Loaded, Quiet
<1>2. ASSUME NEW t \in Tickets PROVE InOrder(t)'
  <2>1. Exists(t)' <=> Exists(t)
    BY DEF Quiet, Exists
  <2>2. InOrder(t)
    BY DEF Orderly
  <2>3. TrailEnds(t)'
    BY <2>1, <2>2 DEF InOrder, TrailEnds, Quiet
  <2>4. ClosureTells(t)' /\ Chained(t)' /\ Answered(t)'
    BY <2>2 DEF InOrder, ClosureTells, Chained, Answered, Quiet
  <2> QED
    BY <2>3, <2>4 DEF InOrder
<1> QED
  BY <1>1, <1>2 DEF Orderly, Loaded

\* Whoever begins loads the ticket as it is.
LEMMA BeginsQuiet ==
  ASSUME IInv, NEW w \in Workers,
         \/ LoadCreate(w) \/ LoadDiagnose(w) \/ LoadPropose(w) \/ LoadValidate(w)
         \/ LoadClose(w) \/ LoadRemark(w)
  PROVE  Quiet /\ UNCHANGED <<ticket, suppliers>>
<1>0. tx \in [Workers -> Request]
  BY DEF IInv, TypeOK
<1>1. ASSUME NEW r, Begin(w, r), r.act \in Moving => r.t \in Tickets /\ r.row = ticket[r.t]
      PROVE  Quiet /\ UNCHANGED <<ticket, suppliers>>
  <2>1. tx'[w] = r /\ \A v \in Workers \ {w} : tx'[v] = tx[v]
    BY <1>0, <1>1 DEF Begin
  <2> QED
    BY <1>1, <2>1 DEF Begin, Quiet, rows
<1>2. ASSUME NEW act, NEW t \in Tickets, NEW by, NEW to, NEW todo, Load(w, act, t, by, to, todo)
      PROVE  Quiet /\ UNCHANGED <<ticket, suppliers>>
  <2>1. PICK r : r = [Idle EXCEPT !.act = act, !.t = t, !.by = by, !.row = ticket[t],
                                  !.to = to, !.todo = todo]
    OBVIOUS
  <2>2. Begin(w, r)
    BY <1>2, <2>1 DEF Load
  <2>3. r.t = t /\ r.row = ticket[t]
    BY <2>1 DEF Idle
  <2> QED
    BY <1>1, <2>2, <2>3
<1>3. ASSUME LoadCreate(w) PROVE Quiet /\ UNCHANGED <<ticket, suppliers>>
  <2>1. PICK t \in Tickets \ issued, s \in suppliers :
          Begin(w, [Idle EXCEPT !.act = "create", !.t = t,
                      !.row = [status |-> "NEW", supplier |-> s, number |-> NextNumber],
                      !.to = "AWAITING_SUPPLIER", !.todo = <<"insert", "announce">>])
    BY <1>3 DEF LoadCreate
  <2>2. PICK r : r = [Idle EXCEPT !.act = "create", !.t = t,
                      !.row = [status |-> "NEW", supplier |-> s, number |-> NextNumber],
                      !.to = "AWAITING_SUPPLIER", !.todo = <<"insert", "announce">>]
    OBVIOUS
  <2>3. r.act = "create"
    BY <2>2 DEF Idle
  <2> QED
    BY <1>1, <2>1, <2>2, <2>3 DEF Moving
<1> QED
  BY <1>2, <1>3 DEF LoadDiagnose, LoadPropose, LoadValidate, LoadClose, LoadRemark

\* Statements and ends without a commit of a move.
LEMMA StatementsQuiet ==
  ASSUME IInv, NEW w \in Workers,
         \/ Insert(w) \/ InsertRefused(w) \/ InsertClosure(w) \/ ClosureRefused(w)
         \/ SaveStatus(w) \/ Announce(w) \/ CommitRemark(w) \/ Abort(w)
  PROVE  Quiet /\ UNCHANGED <<ticket, suppliers>>
<1>0. TypeOK /\ Progress(w)
  BY DEF IInv, RequestOK
<1>1. ASSUME NEW stmt, Step(w, stmt), UNCHANGED <<rows, suppliers>>
      PROVE  Quiet /\ UNCHANGED <<ticket, suppliers>>
  <2>1. /\ tx'[w].act = tx[w].act /\ tx'[w].t = tx[w].t /\ tx'[w].row = tx[w].row
        /\ \A v \in Workers \ {w} : tx'[v] = tx[v]
    BY <1>0, <1>1, StepFrame
  <2> QED
    BY <1>1, <2>1 DEF Quiet, rows
<1>2. ASSUME tx' = [tx EXCEPT ![w] = Idle], UNCHANGED <<ticket, trail, solutions, closure, suppliers>>
      PROVE  Quiet /\ UNCHANGED <<ticket, suppliers>>
  <2>1. tx'[w] = Idle /\ \A v \in Workers \ {w} : tx'[v] = tx[v]
    BY <1>0, <1>2, EndFrame
  <2>2. Idle.act \notin Moving
    BY IdleTypes DEF Moving
  <2> QED
    BY <1>2, <2>1, <2>2 DEF Quiet
<1>3. ASSUME Insert(w) \/ InsertClosure(w) \/ SaveStatus(w) \/ Announce(w)
      PROVE  Quiet /\ UNCHANGED <<ticket, suppliers>>
  BY <1>1, <1>3 DEF Insert, InsertClosure, SaveStatus, Announce
<1>4. ASSUME InsertRefused(w) \/ ClosureRefused(w) \/ Abort(w) \/ CommitRemark(w)
      PROVE  Quiet /\ UNCHANGED <<ticket, suppliers>>
  BY <1>2, <1>4 DEF InsertRefused, ClosureRefused, Abort, CommitRemark, Undo, rows
<1> QED
  BY <1>3, <1>4

\* An account that is removed takes its name off its tickets.
LEMMA RemoveQuiet ==
  ASSUME IInv, \A t \in Tickets : HasAccount(t), NEW s \in Suppliers, RemoveSupplier(s)
  PROVE  Quiet /\ \A t \in Tickets : HasAccount(t)'
<1>1. /\ suppliers' = suppliers \ {s}
      /\ ticket' = [t \in Tickets |-> IF ticket[t].supplier = s
                      THEN [ticket[t] EXCEPT !.supplier = NoSupplier] ELSE ticket[t]]
      /\ UNCHANGED <<trail, solutions, closure, tx>>
  BY DEF RemoveSupplier
<1>2. ASSUME NEW t \in Tickets PROVE ticket'[t].status = ticket[t].status /\ HasAccount(t)'
  <2>1. ticket[t] \in [status : Statuses \ {"NEW"},
                       supplier : Suppliers \union {NoSupplier}, number : Nat]
    BY DEF IInv, TypeOK
  <2>2. PICK row, new : row = ticket[t] /\ new = ticket'[t]
    OBVIOUS
  <2>3. new = IF row.supplier = s THEN [row EXCEPT !.supplier = NoSupplier] ELSE row
    BY <1>1, <2>2
  <2>4. new.status = row.status /\ new.supplier = IF row.supplier = s THEN NoSupplier ELSE row.supplier
    BY <2>1, <2>2, <2>3
  <2>5. row.supplier \in suppliers \union {NoSupplier}
    BY <2>2 DEF HasAccount
  <2> QED
    BY <1>1, <2>2, <2>4, <2>5 DEF HasAccount
<1> QED
  BY <1>1, <1>2 DEF Quiet

\* A move takes its ticket from the status it has to the one its line names.
LEMMA MoveStarts ==
  ASSUME IInv, Orderly, NEW w \in Workers, CommitMove(w), NEW t, t = tx[w].t
  PROVE  /\ ~closure[t]
         /\ tx[w].act = "create" => trail[t] = <<>> /\ tx[w].row.status = "NEW"
                                    /\ tx[w].to = "AWAITING_SUPPLIER"
         /\ tx[w].act # "create" =>
              /\ trail[t] # <<>> /\ trail[t][Len(trail[t])].to = tx[w].row.status
              /\ tx[w].row.status = ticket[t].status
              /\ tx[w].to \in Life!Follows[ticket[t].status]
              /\ ticket[t].status \in DOMAIN Life!Follows
<1>1. /\ t \in Tickets
      /\ tx[w].act \in {"create", "diagnose", "propose", "validate", "close"}
  BY MoveFacts
<1>2. RequestOK(w) /\ InOrder(t) /\ Loaded(w) /\ RowsOK(t)
  BY <1>1 DEF IInv, Orderly
<1>3. CASE tx[w].act = "create"
  <2>1. ~Exists(t) /\ tx[w].to = "AWAITING_SUPPLIER" /\ tx[w].row.status = "NEW"
    BY <1>2, <1>3 DEF RequestOK, Declares
  <2>2. ticket[t].status # "CLOSED"
    BY <2>1 DEF Exists
  <2> QED
    BY <1>2, <1>3, <2>1, <2>2 DEF RowsOK, InOrder, ClosureTells
<1>4. CASE tx[w].act # "create"
  <2>1. tx[w].act \in Moving /\ tx[w].act \notin {"none", "create"}
    BY <1>1, <1>4 DEF Moving
  <2>2. Exists(t)
    BY <1>2, <2>1 DEF RequestOK, Acts
  <2>3. tx[w].row.status = ticket[t].status
    BY <1>2, <2>1 DEF Loaded
  <2>4. /\ ticket[t].status \in DOMAIN Life!Follows
        /\ tx[w].to \in Life!Follows[ticket[t].status]
    BY <1>2, <2>1, <2>3 DEF RequestOK, MovesOn, Moving
  <2>5. ticket[t].status # "CLOSED"
    BY <2>4 DEF Life!Follows
  <2> QED
    BY <1>2, <1>4, <2>2, <2>3, <2>4, <2>5 DEF InOrder, TrailEnds, ClosureTells
<1> QED
  BY <1>3, <1>4

\* The ticket of a move is in order when it commits.
LEMMA MovedInOrder ==
  ASSUME IInv, Orderly, NEW w \in Workers, CommitMove(w), NEW t, t = tx[w].t
  PROVE  InOrder(t)'
<1>0. PICK l : l = Line(w)
  OBVIOUS
<1>1. /\ t \in Tickets
      /\ Saved(w).status = tx[w].to
      /\ l \in [from : Statuses, to : Statuses]
      /\ l.to = tx[w].to /\ l.from = tx[w].row.status
      /\ tx[w].to = "CLOSED" <=> tx[w].act = "close"
      /\ tx[w].to = "SOLUTION_PROPOSED" <=> tx[w].act = "propose"
      /\ tx[w].to \in Statuses \ {"NEW", "none"}
      /\ tx[w].act \in {"create", "diagnose", "propose", "validate", "close"}
  BY <1>0, MoveFacts
<1>2. /\ ticket'[t] = Saved(w)
      /\ trail' = [trail EXCEPT ![t] = Append(@, l)]
      /\ solutions'[t] = IF tx[w].act = "propose" THEN solutions[t] + 1 ELSE solutions[t]
      /\ closure'[t] = (closure[t] \/ tx[w].act = "close")
  <2>1. ticket'[t] = Saved(w) /\ trail' = [trail EXCEPT ![t] = Append(@, Line(w))]
    BY MoveFrame
  <2>2. solutions'[t] = IF tx[w].act = "propose" THEN solutions[t] + 1 ELSE solutions[t]
    BY MoveFrame, ZenonT(30)
  <2>3. closure'[t] = (closure[t] \/ tx[w].act = "close")
    BY MoveFrame, ZenonT(30)
  <2> QED
    BY <1>0, <2>1, <2>2, <2>3
<1>3. PICK n : n = Len(trail[t])
  OBVIOUS
<1>4. /\ n \in Nat
      /\ Len(trail'[t]) = n + 1
      /\ \A m \in 1 .. n : trail'[t][m] = trail[t][m]
      /\ trail'[t][n + 1] = l
  BY <1>1, <1>2, <1>3, LineAdded
<1>5. /\ ~closure[t]
      /\ tx[w].act = "create" => trail[t] = <<>> /\ tx[w].row.status = "NEW"
                                 /\ tx[w].to = "AWAITING_SUPPLIER"
      /\ tx[w].act # "create" =>
           /\ trail[t] # <<>> /\ trail[t][n].to = tx[w].row.status
           /\ tx[w].row.status = ticket[t].status
           /\ tx[w].to \in Life!Follows[ticket[t].status]
           /\ ticket[t].status \in DOMAIN Life!Follows
  BY <1>3, MoveStarts
<1>6. InOrder(t)
  BY <1>1 DEF Orderly
<1>7. ClosureTells(t)'
  BY <1>1, <1>2, <1>5 DEF ClosureTells
<1>8. TrailEnds(t)'
  <2>1. trail'[t] # <<>>
    BY <1>4
  <2>2. Exists(t)'
    BY <1>1, <1>2 DEF Exists
  <2> QED
    BY <1>1, <1>2, <1>4, <2>1, <2>2 DEF TrailEnds
<1>9. Chained(t)'
  <2> SUFFICES ASSUME NEW m \in 1 .. (n + 1)
               PROVE  trail'[t][m].from = IF m = 1 THEN "NEW" ELSE trail'[t][m - 1].to
    BY <1>4 DEF Chained
  <2>1. CASE m \in 1 .. n
    <3>1. m # 1 => m - 1 \in 1 .. n
      BY <1>4, <2>1
    <3> QED
      BY <1>3, <1>4, <1>6, <2>1, <3>1 DEF InOrder, Chained
  <2>2. CASE m = n + 1
    <3>1. CASE tx[w].act = "create"
      <4>1. n = 0
        BY <1>3, <1>5, <3>1
      <4> QED
        BY <1>1, <1>4, <1>5, <2>2, <3>1, <4>1
    <3>2. CASE tx[w].act # "create"
      <4>1. n # 0
        <5>1. trail[t] \in Seq([from : Statuses, to : Statuses])
          BY <1>1 DEF IInv
        <5> QED
          BY <1>3, <1>5, <3>2, <5>1, EmptySeq
      <4>2. m # 1 /\ m - 1 = n /\ n \in 1 .. n
        BY <1>4, <2>2, <4>1
      <4> QED
        BY <1>1, <1>4, <1>5, <2>2, <3>2, <4>2
    <3> QED
      BY <3>1, <3>2
  <2> QED
    BY <1>4, <2>1, <2>2
<1>10. Answered(t)'
  <2>1. solutions[t] \in Nat /\ Answered(t)
    BY <1>1, <1>6 DEF IInv, TypeOK, InOrder
  <2>2. CASE tx[w].act = "propose"
    BY <1>2, <2>1, <2>2 DEF Answered
  <2>3. CASE tx[w].act # "propose"
    <3>1. solutions'[t] = solutions[t] /\ ticket'[t].status = tx[w].to
      BY <1>1, <1>2, <2>3
    <3>2. ASSUME tx[w].to \in {"INTERVENING", "CLOSED"}
          PROVE  ticket[t].status \in {"SOLUTION_PROPOSED", "INTERVENING"}
      <4>1. tx[w].act # "create"
        BY <1>5, <3>2
      <4> QED
        BY <1>5, <3>2, <4>1 DEF Life!Follows
    <3>3. tx[w].to # "SOLUTION_PROPOSED"
      BY <1>1, <2>3
    <3> QED
      BY <2>1, <3>1, <3>2, <3>3 DEF Answered
  <2> QED
    BY <2>2, <2>3
<1> QED
  BY <1>7, <1>8, <1>9, <1>10 DEF InOrder

\* Nobody else is at that ticket, and the other tickets are as they were.
LEMMA MoveOrderly ==
  ASSUME IInv, Orderly, NEW w \in Workers, CommitMove(w), ~TicketOverlap'
  PROVE  Orderly'
<1>0. PICK t : t = tx[w].t
  OBVIOUS
<1>1. /\ t \in Tickets
      /\ tx[w].act \in {"create", "diagnose", "propose", "validate", "close"}
  BY <1>0, MoveFacts
<1>2. /\ \A u \in Tickets \ {t} : /\ ticket'[u] = ticket[u]
                                  /\ solutions'[u] = solutions[u]
                                  /\ closure'[u] = closure[u]
      /\ tx'[w] = Idle
      /\ \A v \in Workers \ {w} : tx'[v] = tx[v]
      /\ trail' = [trail EXCEPT ![t] = Append(@, Line(w))]
  BY <1>0, MoveFrame
<1>3. \A u \in Tickets \ {t} : trail'[u] = trail[u]
  BY <1>2, MoveFacts, LineAdded, <1>0
<1>4. ASSUME NEW u \in Tickets PROVE InOrder(u)'
  <2>1. CASE u = t
    BY <1>0, <2>1, MovedInOrder
  <2>2. CASE u # t
    <3>1. InOrder(u)
      BY DEF Orderly
    <3> QED
      BY <1>2, <1>3, <2>2, <3>1
         DEF InOrder, ClosureTells, TrailEnds, Chained, Answered, Exists
  <2> QED
    BY <2>1, <2>2
<1>5. ASSUME NEW v \in Workers, tx'[v].act \in Moving
      PROVE  tx'[v].row.status = ticket'[tx'[v].t].status
  <2>1. v # w
    BY <1>2, <1>5, IdleTypes DEF Moving
  <2>2. tx'[v] = tx[v] /\ tx[v].act \in Moving
    BY <1>2, <1>5, <2>1
  <2>3. tx[v].t # t
    BY <1>0, <1>1, <2>1, <2>2 DEF Orderly, TicketOverlap, Moving
  <2>4. tx[v].t \in Tickets
    BY <2>2 DEF IInv, RequestOK, Acts, Moving
  <2> QED
    BY <1>2, <2>2, <2>3, <2>4 DEF Orderly, Loaded
<1> QED
  BY <1>4, <1>5 DEF Orderly, Loaded

\* A ticket is declared for an account that is there, and keeps its supplier.
LEMMA MoveAccounts ==
  ASSUME IInv, \A t \in Tickets : HasAccount(t), NEW w \in Workers, CommitMove(w)
  PROVE  \A t \in Tickets : HasAccount(t)'
<1>0. PICK t : t = tx[w].t
  OBVIOUS
<1>1. /\ t \in Tickets
      /\ tx[w].act = "create" => Saved(w).supplier = tx[w].row.supplier
      /\ tx[w].act # "create" => Saved(w).supplier = ticket[t].supplier
  BY <1>0, MoveFacts
<1>2. /\ ticket'[t] = Saved(w)
      /\ \A u \in Tickets \ {t} : ticket'[u] = ticket[u]
      /\ suppliers' = suppliers
  BY <1>0, MoveFrame
<1>3. tx[w].act = "create" => tx[w].row.supplier \in suppliers
  BY DEF CommitMove, KeysHold
<1> QED
  BY <1>1, <1>2, <1>3 DEF HasAccount
-----------------------------------------------------------------------------
LEMMA HistoryStart == HistoryInit => IInv /\ History
<1> SUFFICES ASSUME HistoryInit PROVE IInv /\ History
  OBVIOUS
<1>1. IInv
  BY InitInvariant DEF HistoryInit
<1>2. /\ \A t \in Tickets : /\ ticket[t].status = "none" /\ ticket[t].supplier = NoSupplier
                            /\ trail[t] = <<>> /\ ~closure[t]
      /\ \A w \in Workers : tx[w].act = "none"
  BY DEF HistoryInit, Init, Blank, Idle
<1>3. \A t \in Tickets : InOrder(t) /\ HasAccount(t)
  BY <1>2 DEF InOrder, ClosureTells, TrailEnds, Chained, Answered, Exists, HasAccount
<1>4. ~TicketOverlap /\ \A w \in Workers : Loaded(w)
  BY <1>2 DEF TicketOverlap, Loaded, Moving
<1> QED
  BY <1>1, <1>3, <1>4 DEF History, Orderly

LEMMA HistoryStep ==
  ASSUME IInv, History, [HistoryNext]_<<vars, raced>>
  PROVE  IInv' /\ History'
<1>1. [Next]_vars /\ (raced' = (raced \/ TicketOverlap') \/ UNCHANGED <<vars, raced>>)
  BY DEF HistoryNext, vars
<1>2. IInv'
  BY <1>1, NextInvariant
<1>3. raced => raced'
  BY <1>1
<1>4. Orderly /\ ~raced /\ ~raced' => ~TicketOverlap'
  <2>1. UNCHANGED <<vars, raced>> => (TicketOverlap' <=> TicketOverlap)
    BY DEF vars, TicketOverlap
  <2> QED
    BY <1>1, <2>1 DEF Orderly
<1> DEFINE Accounts == \A t \in Tickets : HasAccount(t)
           Kept == Accounts' /\ (Orderly /\ ~TicketOverlap' => Orderly')
<1>5. Accounts
  BY DEF History
<1>6. ASSUME UNCHANGED <<ticket, suppliers>>, Quiet PROVE Kept
  <2>1. Accounts'
    BY <1>5, <1>6 DEF HasAccount
  <2> HIDE DEF Accounts
  <2> QED
    BY <1>6, <2>1, QuietOrderly
<1>7. ASSUME NEW w \in Workers,
             \/ LoadCreate(w) \/ LoadDiagnose(w) \/ LoadPropose(w) \/ LoadValidate(w)
             \/ LoadClose(w) \/ LoadRemark(w)
      PROVE  Kept
  <2>1. Quiet /\ UNCHANGED <<ticket, suppliers>>
    BY <1>7, BeginsQuiet
  <2> HIDE DEF Kept
  <2> QED
    BY <1>6, <2>1
<1>8. ASSUME NEW w \in Workers,
             \/ Insert(w) \/ InsertRefused(w) \/ InsertClosure(w) \/ ClosureRefused(w)
             \/ SaveStatus(w) \/ Announce(w) \/ CommitRemark(w) \/ Abort(w)
      PROVE  Kept
  <2>1. Quiet /\ UNCHANGED <<ticket, suppliers>>
    BY <1>8, StatementsQuiet
  <2> HIDE DEF Kept
  <2> QED
    BY <1>6, <2>1
<1>9. ASSUME NEW w \in Workers, CommitMove(w) PROVE Kept
  BY <1>5, <1>9, MoveOrderly, MoveAccounts
<1>10. ASSUME NEW s \in Suppliers, RemoveSupplier(s) PROVE Kept
  BY <1>5, <1>10, RemoveQuiet, QuietOrderly
<1>11. ASSUME NEW t \in Tickets, Remind(t) PROVE Kept
  <2>1. Quiet /\ UNCHANGED <<ticket, suppliers>>
    BY <1>11 DEF Remind, rows, Quiet
  <2> HIDE DEF Kept
  <2> QED
    BY <1>6, <2>1
<1>12. ASSUME UNCHANGED vars PROVE Kept
  <2>1. Quiet /\ UNCHANGED <<ticket, suppliers>>
    BY <1>12 DEF vars, rows, Quiet
  <2> HIDE DEF Kept
  <2> QED
    BY <1>6, <2>1
<1>13. Kept
  <2> HIDE DEF Kept
  <2> QED
    BY <1>1, <1>7, <1>8, <1>9, <1>10, <1>11, <1>12 DEF Next
<1>14. Accounts' /\ (raced' \/ Orderly')
  BY <1>3, <1>4, <1>13 DEF History
<1> QED
  BY <1>2, <1>14 DEF History

\* The closings the history tells of are those the rows tell of.
Closings == {t \in Tickets : Moves(t, "CLOSED") > 0}

LEMMA ClosingsAreClosed ==
  ASSUME IInv, Orderly
  PROVE  ClosedTickets = Closings
<1>1. ASSUME NEW t \in Tickets
      PROVE  Moves(t, "CLOSED") > 0 <=> ticket[t].status = "CLOSED"
  <2>1. Moves(t, "CLOSED") = IF closure[t] THEN 1 ELSE 0
    BY DEF IInv, TrailTellsRows
  <2>2. closure[t] <=> ticket[t].status = "CLOSED"
    BY DEF Orderly, InOrder, ClosureTells
  <2> QED
    BY <2>1, <2>2
<1> QED
  BY <1>1 DEF ClosedTickets, Closings

\* The answers the report counts are the sum over the closed tickets.
LEMMA AnswersAre == Answers = SumFunctionOnSet(solutions, ClosedTickets)
BY DEF Answers, MapThenSumSet, MapThenFoldSet, SumFunctionOnSet, FoldFunctionOnSet

LEMMA ReportComplete ==
  ASSUME IInv, Orderly, \A t \in Tickets : HasAccount(t)
  PROVE  ReportIsComplete
<1>1. ClosedTickets = Closings
  BY ClosingsAreClosed
<1>2. UNION {BySupplier(s) : s \in suppliers}
        = {t \in Closings : ticket[t].supplier # NoSupplier}
  <2>1. ASSUME NEW t \in Tickets, ticket[t].supplier # NoSupplier
        PROVE  ticket[t].supplier \in suppliers
    BY <2>1 DEF HasAccount
  <2>2. NoSupplier \notin suppliers
    BY NullAssumption DEF IInv, TypeOK
  <2>3. ClosedTickets \subseteq Tickets
    BY DEF ClosedTickets
  <2> QED
    BY <1>1, <2>1, <2>2, <2>3 DEF BySupplier
<1>3. Answers >= Cardinality(Closings)
  <2>1. ClosedTickets \in SUBSET Numbered
    BY DEF ClosedTickets, Numbered, Exists
  <2>2. IsFiniteSet(ClosedTickets)
    BY <2>1, FS_Subset DEF IInv
  <2>3. \A t \in ClosedTickets : solutions[t] \in Nat /\ solutions[t] >= 1
    BY DEF ClosedTickets, IInv, TypeOK, Orderly, InOrder, Answered
  <2>4. SumFunctionOnSet(solutions, ClosedTickets) >= Cardinality(ClosedTickets)
    BY <2>2, <2>3, SumCounts
  <2> QED
    BY <1>1, <2>4, AnswersAre
<1> QED
  BY <1>1, <1>2, <1>3 DEF ReportIsComplete, Closings

\* As long as no two moves of one ticket overlap, whatever else does: a closed ticket
\* stays closed, the history is a chain, the closure report counts every closing once
\* and an answer to each, and no ticket is stuck while its supplier's account is there
\* (_transition, close, SupportKPIsView).
THEOREM OrderlyUntilRaced == HistorySpec => []OrderlyUnlessRaced
<1>1. HistoryInit => IInv /\ History
  BY HistoryStart
<1>2. IInv /\ History /\ [HistoryNext]_<<vars, raced>> => IInv' /\ History'
  BY HistoryStep
<1>3. IInv /\ History => OrderlyUnlessRaced
  <2> SUFFICES ASSUME IInv, Orderly, \A t \in Tickets : HasAccount(t)
               PROVE  ClosedIsFinal /\ TrailIsAChain /\ NoDeadEnd /\ ReportIsComplete
    BY DEF History, OrderlyUnlessRaced
  <2>1. ClosedIsFinal
    BY DEF Orderly, InOrder, ClosureTells, ClosedIsFinal
  <2>2. TrailIsAChain
    BY DEF Orderly, InOrder, Chained, TrailIsAChain
  <2>3. ASSUME NEW t \in Tickets, ticket[t].supplier # NoSupplier PROVE CanMove(t)
    <3>1. ticket[t].supplier \in suppliers
      BY <2>3 DEF HasAccount
    <3>2. ticket[t].status = "INTERVENING" => ~closure[t]
      BY DEF Orderly, InOrder, ClosureTells
    <3> QED
      BY <3>1, <3>2 DEF CanMove
  <2>4. NoDeadEnd
    BY <2>3 DEF NoDeadEnd
  <2> QED
    BY <2>1, <2>2, <2>4, ReportComplete
<1> QED
  BY <1>1, <1>2, <1>3, PTL DEF HistorySpec
=============================================================================
