------------------------- MODULE ControlFlowProofs -------------------------
(***************************************************************************)
(* Theorems of ControlFlow, for any slots, checklists, controllers and     *)
(* workers.                                                                *)
(*                                                                         *)
(* What always holds (IInv), what holds besides as long as no two answers  *)
(* overlap (Serial), and as long as nothing was deleted either (Untouched).*)
(***************************************************************************)
EXTENDS ControlFlowMC, SequenceTheorems, TLAPS

\* A request, as far as it has got.
RequestOK(r) ==
  \/ r = Idle
  \/ \E s \in Slots : \/ r = [act |-> "start", slot |-> s]
                      \/ r = [act |-> "started", slot |-> s]
  \/ \E s \in Slots, v \in Values : \E items \in SUBSET Template[s] :
       r = [act |-> "submit", slot |-> s, value |-> v, items |-> items]
  \/ \E s \in Slots, c \in Controllers : r = [act |-> "confirm", slot |-> s, by |-> c]

Line == [slot : Slots, by : Controllers]

\* A control that is inserted and not committed is alone, and nobody's yet.
IInv ==
  /\ TypeOK
  /\ DOMAIN result = Slots
  /\ log \in Seq(Line)
  /\ DOMAIN tx = Workers
  /\ \A w \in Workers : RequestOK(tx[w])
  /\ \A w \in Workers : tx[w].act = "started" => control[tx[w].slot].status = "none"
  /\ \A v, w \in Workers :
       v # w /\ tx[v].act = "started" /\ tx[w].act = "started" => tx[v].slot # tx[w].slot
  /\ \A s \in Slots : control[s].status # "confirmed" => control[s].by = NoController

\* Answers come one at a time: what one was checked against is still so.
Serial ==
  /\ ~Overlap
  /\ \A w \in Workers : Answering(w) => control[tx[w].slot].status # "confirmed"
  /\ \A w \in Workers : tx[w].act = "confirm" => MissingNotes(tx[w].slot) = {}
  /\ ProblemsAreNoted

\* The log is the confirmations there are.
Untouched ==
  /\ \A n \in 1 .. Len(log) : control[log[n].slot].by = log[n].by
  /\ OneConfirmationADay
  /\ \A w \in Workers : tx[w].act = "confirm" =>
       control[tx[w].slot].status = "open" /\ ~ConfirmedToday(tx[w].by, tx[w].slot)

History == /\ "overlap" \notin marred => Serial
           /\ marred = {} => Untouched

-----------------------------------------------------------------------------
(* Requests.                                                               *)

LEMMA RequestFacts ==
  ASSUME NEW r, RequestOK(r)
  PROVE  /\ r.act \in {"idle", "start", "started", "submit", "confirm"}
         /\ r.act = "idle" => r = Idle
         /\ r.act # "idle" => r.slot \in Slots
         /\ r.act = "submit" => r.value \in Values /\ r.items \subseteq Template[r.slot]
         /\ r.act = "confirm" => r.by \in Controllers
BY DEF RequestOK, Idle

LEMMA IdleOK == RequestOK(Idle) /\ Idle.act = "idle"
BY DEF RequestOK, Idle

\* What a step of one request does to the others.
LEMMA Others ==
  ASSUME IInv, NEW w \in Workers, NEW r, tx' = [tx EXCEPT ![w] = r]
  PROVE  /\ DOMAIN tx' = Workers /\ tx'[w] = r
         /\ \A v \in Workers : v # w => tx'[v] = tx[v]
BY DEF IInv

LEMMA Replaced ==
  ASSUME IInv, NEW w \in Workers, NEW r, tx' = [tx EXCEPT ![w] = r], RequestOK(r)
  PROVE  DOMAIN tx' = Workers /\ \A v \in Workers : RequestOK(tx'[v])
BY Others DEF IInv

\* A step that commits nothing.
LEMMA QuietStep ==
  ASSUME IInv, NEW w \in Workers, NEW r, tx' = [tx EXCEPT ![w] = r], RequestOK(r),
         UNCHANGED <<control, result, log>>,
         r.act = "started" =>
           /\ control[r.slot].status = "none"
           /\ \A v \in Workers : tx[v].act = "started" => tx[v].slot # r.slot
  PROVE  IInv'
<1>1. /\ DOMAIN tx' = Workers /\ \A v \in Workers : RequestOK(tx'[v])
      /\ tx'[w] = r /\ \A v \in Workers : v # w => tx'[v] = tx[v]
  BY Others, Replaced
<1>2. \A v \in Workers : RequestOK(tx[v])'
  BY <1>1 DEF RequestOK
<1>3. TypeOK' /\ log' \in Seq(Line)
  BY DEF IInv, TypeOK
<1> QED
  BY <1>1, <1>2, <1>3 DEF IInv

\* Loading: the checklist a request names is the slot's own, and what it answers
\* was checked.
Loads(w, r) ==
  /\ tx' = [tx EXCEPT ![w] = r] /\ RequestOK(r) /\ r.act # "started"
  /\ UNCHANGED <<control, result, log>>
  /\ r.act \in {"submit", "confirm"} => control[r.slot].status = "open"
  /\ r.act = "confirm" => MissingNotes(r.slot) = {} /\ ~ConfirmedToday(r.by, r.slot)

LEMMA LoadFacts ==
  ASSUME IInv, NEW w \in Workers, LoadStart(w) \/ LoadSubmit(w) \/ LoadConfirm(w)
  PROVE  \E r : Loads(w, r)
<1>1. CASE LoadStart(w)
  <2>1. PICK s \in Slots : Begin(w, [act |-> "start", slot |-> s])
    BY <1>1 DEF LoadStart
  <2> DEFINE r == [act |-> "start", slot |-> s]
  <2>2. RequestOK(r) /\ r.act \notin {"started", "submit", "confirm"}
    BY DEF RequestOK
  <2>3. tx' = [tx EXCEPT ![w] = r] /\ UNCHANGED <<control, result, log>>
    BY <2>1 DEF Begin
  <2> QED
    BY <2>2, <2>3 DEF Loads
<1>2. \A s \in Slots : control[s].status # "none" /\ ~IsLocked(s) => control[s].status = "open"
  BY DEF IInv, TypeOK, Statuses, IsLocked
<1>3. CASE LoadSubmit(w)
  <2>1. PICK s, v, items :
          /\ s \in Slots /\ v \in Values
          /\ items \subseteq Template[s]
          /\ control[s].status # "none" /\ ~IsLocked(s)
          /\ Begin(w, [act |-> "submit", slot |-> s, value |-> v, items |-> items])
    BY <1>3 DEF LoadSubmit
  <2> DEFINE r == [act |-> "submit", slot |-> s, value |-> v, items |-> items]
  <2>2. RequestOK(r) /\ r.act \notin {"started", "confirm"} /\ r.slot = s
    BY <2>1 DEF RequestOK
  <2>3. tx' = [tx EXCEPT ![w] = r] /\ UNCHANGED <<control, result, log>>
    BY <2>1 DEF Begin
  <2> HIDE DEF r
  <2> QED
    BY <1>2, <2>1, <2>2, <2>3 DEF Loads
<1>4. CASE LoadConfirm(w)
  <2>1. PICK s \in Slots, c \in Controllers :
          /\ control[s].status # "none" /\ ~IsLocked(s)
          /\ ~ConfirmedToday(c, s) /\ MissingNotes(s) = {}
          /\ Begin(w, [act |-> "confirm", slot |-> s, by |-> c])
    BY <1>4 DEF LoadConfirm
  <2> DEFINE r == [act |-> "confirm", slot |-> s, by |-> c]
  <2>2. RequestOK(r) /\ r.act # "started" /\ r.slot = s /\ r.by = c
    BY DEF RequestOK
  <2>3. tx' = [tx EXCEPT ![w] = r] /\ UNCHANGED <<control, result, log>>
    BY <2>1 DEF Begin
  <2> HIDE DEF r
  <2> QED
    BY <1>2, <2>1, <2>2, <2>3 DEF Loads
<1> QED
  BY <1>1, <1>3, <1>4

LEMMA InsertInvariant ==
  ASSUME IInv, NEW w \in Workers, Insert(w)
  PROVE  IInv'
<1>1. PICK q : q = tx[w]
  OBVIOUS
<1>2. q.act = "start" /\ q.slot \in Slots
  BY <1>1, RequestFacts DEF Insert, IInv
<1>3. PICK r : /\ tx' = [tx EXCEPT ![w] = r]
               /\ \/ r = Idle
                  \/ control[q.slot].status = "none" /\ r = [act |-> "started", slot |-> q.slot]
  BY <1>1 DEF Insert
<1>4. RequestOK(r)
  BY <1>2, <1>3 DEF RequestOK
<1>5. r.act = "started" => r.slot = q.slot /\ control[q.slot].status = "none"
  BY <1>3 DEF Idle
<1>6. \A v \in Workers : tx[v].act = "started" => tx[v].slot # q.slot
  BY <1>1 DEF Insert
<1>7. UNCHANGED <<control, result, log>>
  BY DEF Insert
<1> QED
  BY <1>3, <1>4, <1>5, <1>6, <1>7, QuietStep
-----------------------------------------------------------------------------
(* Commits.                                                                *)

Control == [status : Statuses, by : Controllers \union {NoController}]

LEMMA TypeFacts ==
  ASSUME IInv
  PROVE  /\ control \in [Slots -> Control]
         /\ \A s \in Slots :
              result[s] \in [IF control[s].status = "none" THEN {} ELSE Template[s] -> Values]
         /\ DOMAIN result = Slots
BY DEF IInv, TypeOK, Control

\* TypeOK of a step that changes only one slot's control and result, and appends to
\* the log at most.
LEMMA SlotStep ==
  ASSUME IInv, NEW s \in Slots, NEW c \in Control, NEW res,
         control' = control \/ control' = [control EXCEPT ![s] = c], control'[s] = c,
         result' = result \/ result' = [result EXCEPT ![s] = res], result'[s] = res,
         res \in [IF c.status = "none" THEN {} ELSE Template[s] -> Values],
         log' \in Seq(Line)
  PROVE  TypeOK' /\ DOMAIN result' = Slots
<1>1. control' \in [Slots -> Control] /\ DOMAIN result' = Slots
  BY TypeFacts
<1>2. ASSUME NEW t \in Slots
      PROVE  result'[t] \in [IF control'[t].status = "none" THEN {} ELSE Template[t] -> Values]
  <2>1. CASE t = s
    BY <2>1
  <2>2. CASE t # s
    <3>1. control'[t] = control[t]
      BY <2>2, TypeFacts
    <3>2. result'[t] = result[t]
      BY <2>2, TypeFacts
    <3> QED
      BY <3>1, <3>2, TypeFacts
  <2> QED
    BY <2>1, <2>2
<1>3. \A n \in 1 .. Len(log') : log'[n] \in Line
  OBVIOUS
<1> QED
  BY <1>1, <1>2, <1>3 DEF TypeOK, Control, Line

LEMMA CommitStartFacts ==
  ASSUME IInv, NEW w \in Workers, CommitStart(w)
  PROVE  \E s \in Slots :
           /\ tx[w].act = "started" /\ tx[w].slot = s /\ control[s].status = "none"
           /\ control' = [control EXCEPT ![s] = [status |-> "open", by |-> NoController]]
           /\ result' = [result EXCEPT ![s] = Populate(s)]
           /\ tx' = [tx EXCEPT ![w] = Idle] /\ log' = log
<1>1. PICK q : q = tx[w]
  OBVIOUS
<1>2. q.act = "started" /\ q.slot \in Slots /\ control[q.slot].status = "none"
  BY <1>1, RequestFacts DEF CommitStart, IInv
<1> QED
  BY <1>1, <1>2 DEF CommitStart, End

\* What the results of a control become.
Submits(w, s, v, items, res) ==
  /\ items \subseteq Template[s]
  /\ tx[w].act = "submit" /\ tx[w].slot = s /\ tx[w].value = v /\ tx[w].items = items
  /\ control[s].status # "none"
  /\ res = [i \in Template[s] |-> IF i \in items THEN v ELSE result[s][i]]
  /\ result' = [result EXCEPT ![s] = res]
  /\ tx' = [tx EXCEPT ![w] = Idle] /\ log' = log /\ control' = control

LEMMA CommitSubmitFacts ==
  ASSUME IInv, NEW w \in Workers, CommitSubmit(w)
  PROVE  \E s \in Slots, v \in Values : \E items, res : Submits(w, s, v, items, res)
<1>1. PICK q : q = tx[w]
  OBVIOUS
<1>2. /\ q.act = "submit" /\ q.slot \in Slots /\ control[q.slot].status # "none"
      /\ q.value \in Values /\ q.items \subseteq Template[q.slot]
  BY <1>1, RequestFacts DEF CommitSubmit, IInv
<1>3. DOMAIN result[q.slot] = Template[q.slot]
  BY <1>2, TypeFacts
<1> DEFINE res == [i \in Template[q.slot] |->
                     IF i \in q.items THEN q.value ELSE result[q.slot][i]]
<1>4. /\ result' = [result EXCEPT ![q.slot] = res]
      /\ tx' = [tx EXCEPT ![w] = Idle] /\ log' = log /\ control' = control
  BY <1>1, <1>3 DEF CommitSubmit, End
<1>5. Submits(w, q.slot, q.value, q.items, res)
  BY <1>1, <1>2, <1>4 DEF Submits
<1> HIDE DEF res
<1> QED
  BY <1>2, <1>5

LEMMA CommitConfirmFacts ==
  ASSUME IInv, NEW w \in Workers, CommitConfirm(w)
  PROVE  \E s \in Slots, c \in Controllers :
           /\ tx[w].act = "confirm" /\ tx[w].slot = s /\ tx[w].by = c
           /\ control[s].status # "none"
           /\ control' = [control EXCEPT ![s] = [status |-> "confirmed", by |-> c]]
           /\ log' = Append(log, [slot |-> s, by |-> c])
           /\ tx' = [tx EXCEPT ![w] = Idle] /\ result' = result
<1>1. PICK q : q = tx[w]
  OBVIOUS
<1>2. q.act = "confirm" /\ q.slot \in Slots /\ q.by \in Controllers
  BY <1>1, RequestFacts DEF CommitConfirm, IInv
<1> QED
  BY <1>1, <1>2 DEF CommitConfirm, End

\* What a request leaves when it ends: no control is inserted meanwhile.
LEMMA EndStep ==
  ASSUME IInv, NEW w \in Workers, tx' = [tx EXCEPT ![w] = Idle],
         TypeOK', DOMAIN result' = Slots, log' \in Seq(Line),
         \A v \in Workers : v # w /\ tx[v].act = "started" =>
           control'[tx[v].slot].status = "none",
         \A s \in Slots : control'[s].status # "confirmed" => control'[s].by = NoController
  PROVE  IInv'
<1>1. /\ DOMAIN tx' = Workers /\ \A v \in Workers : RequestOK(tx'[v])
      /\ tx'[w] = Idle /\ \A v \in Workers : v # w => tx'[v] = tx[v]
  BY Others, Replaced, IdleOK
<1>2. \A v \in Workers : RequestOK(tx[v])'
  BY <1>1 DEF RequestOK
<1> QED
  BY <1>1, <1>2, IdleOK DEF IInv

LEMMA CommitStartInvariant ==
  ASSUME IInv, NEW w \in Workers, CommitStart(w)
  PROVE  IInv'
<1>1. PICK s \in Slots :
           /\ tx[w].act = "started" /\ tx[w].slot = s /\ control[s].status = "none"
           /\ control' = [control EXCEPT ![s] = [status |-> "open", by |-> NoController]]
           /\ result' = [result EXCEPT ![s] = Populate(s)]
           /\ tx' = [tx EXCEPT ![w] = Idle] /\ log' = log
  BY CommitStartFacts
<1> DEFINE c == [status |-> "open", by |-> NoController]
           res == Populate(s)
<1>2. c \in Control /\ c.status = "open" /\ c.by = NoController
  BY DEF Control, Statuses
<1>3. res \in [Template[s] -> Values]
  BY DEF Populate, Values
<1> HIDE DEF c, res
<1>4. /\ control' = [control EXCEPT ![s] = c] /\ control'[s] = c
      /\ \A t \in Slots : t # s => control'[t] = control[t]
  BY <1>1, TypeFacts DEF c
<1>5. result' = [result EXCEPT ![s] = res] /\ result'[s] = res
  BY <1>1, TypeFacts DEF res
<1>6. log' \in Seq(Line)
  BY <1>1 DEF IInv
<1>7. res \in [IF c.status = "none" THEN {} ELSE Template[s] -> Values]
  BY <1>2, <1>3
<1>8. TypeOK' /\ DOMAIN result' = Slots
  <2>1. /\ control' = control \/ control' = [control EXCEPT ![s] = c]
        /\ result' = result \/ result' = [result EXCEPT ![s] = res]
    BY <1>2, <1>4, <1>5, <1>6, <1>7
  <2>2. TypeOK'
    BY <1>2, <1>4, <1>5, <1>6, <1>7, <2>1, SlotStep
  <2>3. DOMAIN result' = Slots
    BY <1>2, <1>4, <1>5, <1>6, <1>7, <2>1, SlotStep
  <2> QED
    BY <2>2, <2>3
<1>9. \A v \in Workers : v # w /\ tx[v].act = "started" => control'[tx[v].slot].status = "none"
  <2> SUFFICES ASSUME NEW v \in Workers, v # w, tx[v].act = "started"
               PROVE  control'[tx[v].slot].status = "none"
    OBVIOUS
  <2>1. PICK q : q = tx[v]
    OBVIOUS
  <2>2. q.slot \in Slots /\ q.slot # s /\ control[q.slot].status = "none"
    BY <1>1, <2>1, RequestFacts DEF IInv
  <2> QED
    BY <1>4, <2>1, <2>2
<1>10. \A t \in Slots : control'[t].status # "confirmed" => control'[t].by = NoController
  BY <1>2, <1>4 DEF IInv
<1> QED
  BY <1>1, <1>6, <1>8, <1>9, <1>10, EndStep

LEMMA CommitSubmitInvariant ==
  ASSUME IInv, NEW w \in Workers, CommitSubmit(w)
  PROVE  IInv'
<1>0. PICK s \in Slots, v \in Values : \E items, res : Submits(w, s, v, items, res)
  BY CommitSubmitFacts
<1>S. PICK items, res : Submits(w, s, v, items, res)
  BY <1>0
<1>1. /\ items \subseteq Template[s]
      /\ tx[w].act = "submit" /\ tx[w].slot = s /\ tx[w].value = v /\ tx[w].items = items
      /\ control[s].status # "none"
      /\ res = [i \in Template[s] |-> IF i \in items THEN v ELSE result[s][i]]
      /\ result' = [result EXCEPT ![s] = res]
      /\ tx' = [tx EXCEPT ![w] = Idle] /\ log' = log /\ control' = control
  BY <1>S DEF Submits
<1>2. PICK c \in Control : c = control[s]
  BY TypeFacts
<1>3. res \in [IF c.status = "none" THEN {} ELSE Template[s] -> Values]
  BY <1>1, <1>2, TypeFacts
<1>4. result'[s] = res /\ log' \in Seq(Line)
  BY <1>1, TypeFacts DEF IInv
<1>5. TypeOK' /\ DOMAIN result' = Slots
  <2>1. /\ control' = control \/ control' = [control EXCEPT ![s] = c]
        /\ result' = result \/ result' = [result EXCEPT ![s] = res]
    BY <1>1, <1>2, <1>3, <1>4
  <2>2. TypeOK'
    BY <1>1, <1>2, <1>3, <1>4, <2>1, SlotStep
  <2>3. DOMAIN result' = Slots
    BY <1>1, <1>2, <1>3, <1>4, <2>1, SlotStep
  <2> QED
    BY <2>2, <2>3
<1>6. \A u \in Workers : tx[u].act = "started" => control'[tx[u].slot].status = "none"
  BY <1>1 DEF IInv
<1>7. \A t \in Slots : control'[t].status # "confirmed" => control'[t].by = NoController
  BY <1>1 DEF IInv
<1> QED
  BY <1>1, <1>4, <1>5, <1>6, <1>7, EndStep

LEMMA CommitConfirmInvariant ==
  ASSUME IInv, NEW w \in Workers, CommitConfirm(w)
  PROVE  IInv'
<1>1. PICK s \in Slots, by \in Controllers :
           /\ tx[w].act = "confirm" /\ tx[w].slot = s /\ tx[w].by = by
           /\ control[s].status # "none"
           /\ control' = [control EXCEPT ![s] = [status |-> "confirmed", by |-> by]]
           /\ log' = Append(log, [slot |-> s, by |-> by])
           /\ tx' = [tx EXCEPT ![w] = Idle] /\ result' = result
  BY CommitConfirmFacts
<1> DEFINE c == [status |-> "confirmed", by |-> by]
           line == [slot |-> s, by |-> by]
<1>2. c \in Control /\ c.status = "confirmed" /\ line \in Line
  BY DEF Control, Statuses, Line
<1> HIDE DEF c, line
<1>3. log' \in Seq(Line)
  BY <1>1, <1>2 DEF IInv, line
<1>4. /\ control' = [control EXCEPT ![s] = c] /\ control'[s] = c
      /\ \A t \in Slots : t # s => control'[t] = control[t]
  BY <1>1, TypeFacts DEF c
<1>5. result[s] \in [IF c.status = "none" THEN {} ELSE Template[s] -> Values]
  BY <1>1, <1>2, TypeFacts
<1>6. TypeOK' /\ DOMAIN result' = Slots
  <2>1. /\ control' = control \/ control' = [control EXCEPT ![s] = c]
        /\ result' = result \/ result' = [result EXCEPT ![s] = result[s]]
    BY <1>1, <1>2, <1>3, <1>4, <1>5
  <2>2. TypeOK'
    BY <1>1, <1>2, <1>3, <1>4, <1>5, <2>1, SlotStep
  <2>3. DOMAIN result' = Slots
    BY <1>1, <1>2, <1>3, <1>4, <1>5, <2>1, SlotStep
  <2> QED
    BY <2>2, <2>3
<1>7. \A v \in Workers : v # w /\ tx[v].act = "started" => control'[tx[v].slot].status = "none"
  <2> SUFFICES ASSUME NEW v \in Workers, v # w, tx[v].act = "started"
               PROVE  control'[tx[v].slot].status = "none"
    OBVIOUS
  <2>1. PICK q : q = tx[v]
    OBVIOUS
  <2>2. q.slot \in Slots /\ q.slot # s /\ control[q.slot].status = "none"
    BY <1>1, <2>1, RequestFacts DEF IInv
  <2> QED
    BY <1>4, <2>1, <2>2
<1>8. \A t \in Slots : control'[t].status # "confirmed" => control'[t].by = NoController
  BY <1>2, <1>4 DEF IInv
<1> QED
  BY <1>1, <1>3, <1>6, <1>7, <1>8, EndStep

-----------------------------------------------------------------------------
(* Deletions, and the whole.                                               *)

LEMMA RemoveTargetInvariant ==
  ASSUME IInv, NEW s \in Slots, RemoveTarget(s)
  PROVE  IInv'
<1> DEFINE c == NoControl
           res == NoResults
<1>1. /\ control' = [control EXCEPT ![s] = c] /\ result' = [result EXCEPT ![s] = res]
      /\ UNCHANGED <<log, tx>>
  BY DEF RemoveTarget
<1>2. c \in Control /\ c.status = "none" /\ c.by = NoController
  BY DEF Control, Statuses, NoControl
<1>3. res \in [{} -> Values]
  BY DEF NoResults, Values
<1> HIDE DEF c, res
<1>4. /\ control'[s] = c /\ \A t \in Slots : t # s => control'[t] = control[t]
      /\ result'[s] = res /\ log' \in Seq(Line)
  BY <1>1, TypeFacts DEF IInv
<1>5. res \in [IF c.status = "none" THEN {} ELSE Template[s] -> Values]
  BY <1>2, <1>3
<1>6. TypeOK' /\ DOMAIN result' = Slots
  <2>1. /\ control' = control \/ control' = [control EXCEPT ![s] = c]
        /\ result' = result \/ result' = [result EXCEPT ![s] = res]
    BY <1>1, <1>2, <1>4, <1>5
  <2>2. TypeOK'
    BY <1>1, <1>2, <1>4, <1>5, <2>1, SlotStep
  <2>3. DOMAIN result' = Slots
    BY <1>1, <1>2, <1>4, <1>5, <2>1, SlotStep
  <2> QED
    BY <2>2, <2>3
<1>7. ASSUME NEW v \in Workers, tx[v].act = "started"
      PROVE  control'[tx[v].slot].status = "none"
  <2>1. PICK q : q = tx[v]
    OBVIOUS
  <2>2. q.slot \in Slots /\ control[q.slot].status = "none"
    BY <1>7, <2>1, RequestFacts DEF IInv
  <2> QED
    BY <1>2, <1>4, <2>1, <2>2
<1>8. \A t \in Slots : control'[t].status # "confirmed" => control'[t].by = NoController
  BY <1>2, <1>4 DEF IInv
<1>9. \A v \in Workers : RequestOK(tx[v])'
  BY <1>1 DEF IInv, RequestOK
<1> QED
  BY <1>1, <1>4, <1>6, <1>7, <1>8, <1>9 DEF IInv

\* Forgetting who confirmed keeps everything else of a control.
LEMMA RemoveControllerFacts ==
  ASSUME IInv, NEW c \in Controllers, RemoveController(c), NEW s \in Slots
  PROVE  /\ control'[s] \in Control
         /\ control'[s].status = control[s].status
         /\ control'[s].by = IF control[s].by = c THEN NoController ELSE control[s].by
<1>1. control'[s] = IF control[s].by = c THEN [control[s] EXCEPT !.by = NoController]
                                         ELSE control[s]
  BY DEF RemoveController
<1>2. PICK k \in Control : k = control[s]
  BY TypeFacts
<1> QED
  BY <1>1, <1>2 DEF Control

LEMMA RemoveControllerInvariant ==
  ASSUME IInv, NEW c \in Controllers, RemoveController(c)
  PROVE  IInv'
<1>1. UNCHANGED <<result, log, tx>>
  BY DEF RemoveController
<1>2. control' \in [Slots -> Control]
  <2>1. control' = [s \in Slots |-> control'[s]]
    BY DEF RemoveController
  <2> QED
    BY <2>1, RemoveControllerFacts
<1>3. \A s \in Slots : control'[s].status = control[s].status
                       /\ (control'[s].by = control[s].by \/ control'[s].by = NoController)
  BY RemoveControllerFacts
<1>4. \A s \in Slots :
        result'[s] \in [IF control'[s].status = "none" THEN {} ELSE Template[s] -> Values]
  BY <1>1, <1>3, TypeFacts
<1>5. \A n \in 1 .. Len(log) : log[n] \in Line
  BY DEF IInv
<1>6. TypeOK'
  BY <1>1, <1>2, <1>4, <1>5 DEF TypeOK, Control, Line
<1>7. ASSUME NEW v \in Workers, tx[v].act = "started"
      PROVE  control'[tx[v].slot].status = "none"
  <2>1. PICK q : q = tx[v]
    OBVIOUS
  <2>2. q.slot \in Slots /\ control[q.slot].status = "none"
    BY <1>7, <2>1, RequestFacts DEF IInv
  <2> QED
    BY <1>3, <2>1, <2>2
<1>8. \A v \in Workers : RequestOK(tx[v])'
  BY <1>1 DEF IInv, RequestOK
<1> QED
  BY <1>1, <1>3, <1>6, <1>7, <1>8 DEF IInv

LEMMA InitInvariant ==
  ASSUME Init
  PROVE  IInv
<1>1. TypeOK
  BY DEF Init, TypeOK, NoControl, NoResults, Statuses
<1>2. \A w \in Workers : tx[w] = Idle
  BY DEF Init
<1>3. \A w \in Workers : RequestOK(tx[w]) /\ tx[w].act = "idle"
  BY <1>2, IdleOK
<1> QED
  BY <1>1, <1>3 DEF Init, IInv, NoControl

LEMMA NextInvariant ==
  ASSUME IInv, [Next]_vars
  PROVE  IInv'
<1>1. ASSUME NEW w \in Workers, LoadStart(w) \/ LoadSubmit(w) \/ LoadConfirm(w) PROVE IInv'
  BY <1>1, LoadFacts, QuietStep DEF Loads
<1>2. ASSUME NEW w \in Workers, Abort(w) PROVE IInv'
  BY <1>2, QuietStep, IdleOK DEF Abort, End
<1>3. CASE UNCHANGED vars
  <2>1. TypeOK' /\ \A v \in Workers : RequestOK(tx[v])'
    BY <1>3 DEF vars, IInv, TypeOK, RequestOK
  <2> QED
    BY <1>3, <2>1 DEF vars, IInv
<1> QED
  BY <1>1, <1>2, <1>3, InsertInvariant, CommitStartInvariant, CommitSubmitInvariant,
     CommitConfirmInvariant, RemoveTargetInvariant, RemoveControllerInvariant DEF Next

\* Whatever races, every control there is has its whole checklist.
THEOREM InvariantHolds == Spec => []IInv
<1>1. Init => IInv
  BY InitInvariant
<1>2. IInv /\ [Next]_vars => IInv'
  BY NextInvariant
<1> QED
  BY <1>1, <1>2, PTL DEF Spec

\* The types, for any slots and checklists.
THEOREM TypeCorrect == Spec => []TypeOK
<1>1. IInv => TypeOK
  BY DEF IInv
<1> QED
  BY <1>1, InvariantHolds, PTL
-----------------------------------------------------------------------------
(* As long as answers come one at a time.                                  *)

\* Nobody else answers the control a commit is about.
LEMMA Apart ==
  ASSUME ~Overlap, NEW w \in Workers, NEW v \in Workers, v # w,
         tx[w].act \in {"submit", "confirm"}, tx[v].act \in {"submit", "confirm"}
  PROVE  /\ tx[v].slot # tx[w].slot
         /\ ~(tx[v].act = "confirm" /\ tx[w].act = "confirm")
<1>1. ~(tx[v].slot = tx[w].slot \/ {tx[v].act, tx[w].act} = {"confirm"})
  BY DEF Overlap, Answering
<1> QED
  BY <1>1

\* A step that only moves one request, to something it has checked.
LEMMA SerialQuiet ==
  ASSUME IInv, Serial, NEW w \in Workers, NEW r, tx' = [tx EXCEPT ![w] = r], ~Overlap',
         UNCHANGED <<control, result>>,
         r.act \in {"submit", "confirm"} => control[r.slot].status = "open",
         r.act = "confirm" => MissingNotes(r.slot) = {}
  PROVE  Serial'
<1>1. tx'[w] = r /\ \A v \in Workers : v # w => tx'[v] = tx[v]
  BY Others
<1>2. ASSUME NEW v \in Workers
      PROVE  /\ tx'[v].act \in {"submit", "confirm"} => control'[tx'[v].slot].status # "confirmed"
             /\ tx'[v].act = "confirm" => MissingNotes(tx[v].slot)' = {}
  <2>1. PICK q : q = tx'[v]
    OBVIOUS
  <2>2. q = r \/ q = tx[v]
    BY <1>1, <2>1
  <2>3. /\ q.act \in {"submit", "confirm"} => control[q.slot].status # "confirmed"
        /\ q.act = "confirm" => MissingNotes(q.slot) = {}
    BY <2>2 DEF Serial, Answering
  <2>4. q.act = "confirm" => MissingNotes(q.slot)' = {}
    BY <2>3 DEF MissingNotes
  <2> QED
    BY <2>1, <2>3, <2>4
<1>3. ProblemsAreNoted'
  BY DEF Serial, ProblemsAreNoted
<1> QED
  BY <1>2, <1>3 DEF Serial, Answering

LEMMA SerialCommitStart ==
  ASSUME IInv, Serial, ~Overlap', NEW w \in Workers, CommitStart(w)
  PROVE  Serial'
<1>1. PICK s \in Slots :
           /\ tx[w].act = "started" /\ tx[w].slot = s /\ control[s].status = "none"
           /\ control' = [control EXCEPT ![s] = [status |-> "open", by |-> NoController]]
           /\ result' = [result EXCEPT ![s] = Populate(s)]
           /\ tx' = [tx EXCEPT ![w] = Idle] /\ log' = log
  BY CommitStartFacts
<1>2. tx'[w] = Idle /\ \A v \in Workers : v # w => tx'[v] = tx[v]
  BY <1>1, Others
<1>3. /\ control'[s].status = "open" /\ result'[s] = Populate(s)
      /\ \A t \in Slots : t # s => control'[t] = control[t] /\ result'[t] = result[t]
  BY <1>1, TypeFacts
<1>4. ASSUME NEW v \in Workers, tx'[v].act \in {"submit", "confirm"}
      PROVE  /\ control'[tx'[v].slot].status # "confirmed"
             /\ tx'[v].act = "confirm" => MissingNotes(tx[v].slot)' = {}
  <2>1. PICK q : q = tx'[v]
    OBVIOUS
  <2>2. q = tx[v] /\ q.act \in {"submit", "confirm"} /\ q.slot \in Slots
    BY <1>2, <1>4, <2>1, IdleOK, RequestFacts DEF IInv
  <2>3. /\ control[q.slot].status # "confirmed"
        /\ q.act = "confirm" => MissingNotes(q.slot) = {}
    BY <2>2 DEF Serial, Answering
  <2>4. q.act = "confirm" => MissingNotes(q.slot)' = {}
    BY <1>3, <2>2, <2>3 DEF MissingNotes, Populate
  <2> QED
    BY <1>3, <2>1, <2>2, <2>3, <2>4
<1>5. ProblemsAreNoted'
  BY <1>3 DEF Serial, ProblemsAreNoted
<1> QED
  BY <1>4, <1>5 DEF Serial, Answering

LEMMA SerialCommitSubmit ==
  ASSUME IInv, Serial, ~Overlap', NEW w \in Workers, CommitSubmit(w)
  PROVE  Serial'
<1>0. PICK s \in Slots, v \in Values : \E items, res : Submits(w, s, v, items, res)
  BY CommitSubmitFacts
<1>S. PICK items, res : Submits(w, s, v, items, res)
  BY <1>0
<1>1. /\ items \subseteq Template[s]
      /\ tx[w].act = "submit" /\ tx[w].slot = s /\ tx[w].value = v /\ tx[w].items = items
      /\ control[s].status # "none"
      /\ res = [i \in Template[s] |-> IF i \in items THEN v ELSE result[s][i]]
      /\ result' = [result EXCEPT ![s] = res]
      /\ tx' = [tx EXCEPT ![w] = Idle] /\ log' = log /\ control' = control
  BY <1>S DEF Submits
<1>2. tx'[w] = Idle /\ \A u \in Workers : u # w => tx'[u] = tx[u]
  BY <1>1, Others
<1>3. \A t \in Slots : t # s => result'[t] = result[t]
  BY <1>1, TypeFacts
<1>4. ASSUME NEW u \in Workers, tx'[u].act \in {"submit", "confirm"}
      PROVE  /\ control'[tx'[u].slot].status # "confirmed"
             /\ tx'[u].act = "confirm" => MissingNotes(tx[u].slot)' = {}
  <2>1. PICK q : q = tx'[u]
    OBVIOUS
  <2>2. q = tx[u] /\ u # w /\ q.act \in {"submit", "confirm"} /\ q.slot \in Slots
    BY <1>2, <1>4, <2>1, IdleOK, RequestFacts DEF IInv
  <2>3. q.slot # s
    BY <1>1, <2>2, Apart DEF Serial
  <2>4. /\ control[q.slot].status # "confirmed"
        /\ q.act = "confirm" => MissingNotes(q.slot) = {}
    BY <2>2 DEF Serial, Answering
  <2>5. q.act = "confirm" => MissingNotes(q.slot)' = {}
    BY <1>3, <2>2, <2>3, <2>4 DEF MissingNotes
  <2> QED
    BY <1>1, <2>1, <2>4, <2>5
<1>5. control[s].status # "confirmed"
  BY <1>1 DEF Serial, Answering
<1>6. ProblemsAreNoted'
  BY <1>1, <1>3, <1>5 DEF Serial, ProblemsAreNoted
<1> QED
  BY <1>4, <1>6 DEF Serial, Answering

LEMMA SerialCommitConfirm ==
  ASSUME IInv, Serial, ~Overlap', NEW w \in Workers, CommitConfirm(w)
  PROVE  Serial'
<1>1. PICK s \in Slots, c \in Controllers :
           /\ tx[w].act = "confirm" /\ tx[w].slot = s /\ tx[w].by = c
           /\ control[s].status # "none"
           /\ control' = [control EXCEPT ![s] = [status |-> "confirmed", by |-> c]]
           /\ log' = Append(log, [slot |-> s, by |-> c])
           /\ tx' = [tx EXCEPT ![w] = Idle] /\ result' = result
  BY CommitConfirmFacts
<1>2. tx'[w] = Idle /\ \A u \in Workers : u # w => tx'[u] = tx[u]
  BY <1>1, Others
<1>3. \A t \in Slots : t # s => control'[t] = control[t]
  BY <1>1, TypeFacts
<1>4. ASSUME NEW u \in Workers, tx'[u].act \in {"submit", "confirm"}
      PROVE  /\ control'[tx'[u].slot].status # "confirmed"
             /\ tx'[u].act = "confirm" => MissingNotes(tx[u].slot)' = {}
  <2>1. PICK q : q = tx'[u]
    OBVIOUS
  <2>2. q = tx[u] /\ u # w /\ q.act \in {"submit", "confirm"} /\ q.slot \in Slots
    BY <1>2, <1>4, <2>1, IdleOK, RequestFacts DEF IInv
  <2>3. q.slot # s
    BY <1>1, <2>2, Apart DEF Serial
  <2>4. /\ control[q.slot].status # "confirmed"
        /\ q.act = "confirm" => MissingNotes(q.slot) = {}
    BY <2>2 DEF Serial, Answering
  <2>5. q.act = "confirm" => MissingNotes(q.slot)' = {}
    BY <1>1, <2>4 DEF MissingNotes
  <2> QED
    BY <1>3, <2>1, <2>2, <2>3, <2>4, <2>5
<1>5. \A i \in Template[s] : result[s][i] # "PROBLEM"
  <2>1. MissingNotes(s) = {}
    BY <1>1 DEF Serial
  <2>2. DOMAIN result[s] = Template[s]
    BY <1>1, TypeFacts
  <2> QED
    BY <2>1, <2>2 DEF MissingNotes
<1>6. ProblemsAreNoted'
  BY <1>1, <1>3, <1>5 DEF Serial, ProblemsAreNoted
<1> QED
  BY <1>4, <1>6 DEF Serial, Answering

LEMMA SerialRemoval ==
  ASSUME IInv, Serial, ~Overlap', UNCHANGED tx,
         \A s \in Slots : \/ control'[s].status = control[s].status /\ result'[s] = result[s]
                          \/ control'[s].status = "none" /\ result'[s] = NoResults
  PROVE  Serial'
<1>1. ASSUME NEW u \in Workers, tx'[u].act \in {"submit", "confirm"}
      PROVE  /\ control'[tx'[u].slot].status # "confirmed"
             /\ tx'[u].act = "confirm" => MissingNotes(tx[u].slot)' = {}
  <2>1. PICK q : q = tx[u]
    OBVIOUS
  <2>2. q.act \in {"submit", "confirm"} /\ q.slot \in Slots /\ tx'[u] = q
    BY <1>1, <2>1, RequestFacts DEF IInv
  <2>3. /\ control[q.slot].status # "confirmed"
        /\ q.act = "confirm" => MissingNotes(q.slot) = {}
    BY <2>1, <2>2 DEF Serial, Answering
  <2>4. q.act = "confirm" => MissingNotes(q.slot)' = {}
    BY <2>2, <2>3 DEF MissingNotes, NoResults
  <2> QED
    BY <2>2, <2>3, <2>4
<1>2. ProblemsAreNoted'
  BY DEF Serial, ProblemsAreNoted
<1> QED
  BY <1>1, <1>2 DEF Serial, Answering

LEMMA SerialNext ==
  ASSUME IInv, Serial, [Next]_vars, ~Overlap'
  PROVE  Serial'
<1>1. ASSUME NEW w \in Workers, LoadStart(w) \/ LoadSubmit(w) \/ LoadConfirm(w) PROVE Serial'
  BY <1>1, LoadFacts, SerialQuiet DEF Loads
<1>2. ASSUME NEW w \in Workers, Insert(w) \/ Abort(w) PROVE Serial'
  <2>1. PICK r : /\ tx' = [tx EXCEPT ![w] = r] /\ r.act \in {"idle", "started"}
                 /\ UNCHANGED <<control, result>>
    BY <1>2 DEF Insert, Abort, End, Idle
  <2> QED
    BY <2>1, SerialQuiet
<1>3. ASSUME NEW s \in Slots, RemoveTarget(s) PROVE Serial'
  <2>1. \A t \in Slots : \/ control'[t].status = control[t].status /\ result'[t] = result[t]
                         \/ control'[t].status = "none" /\ result'[t] = NoResults
    BY <1>3, TypeFacts DEF RemoveTarget, NoControl
  <2> QED
    BY <1>3, <2>1, SerialRemoval DEF RemoveTarget
<1>4. ASSUME NEW c \in Controllers, RemoveController(c) PROVE Serial'
  BY <1>4, RemoveControllerFacts, SerialRemoval DEF RemoveController
<1>5. CASE UNCHANGED vars
  BY <1>5, SerialRemoval DEF vars
<1> QED
  BY <1>1, <1>2, <1>3, <1>4, <1>5, SerialCommitStart, SerialCommitSubmit,
     SerialCommitConfirm DEF Next
-----------------------------------------------------------------------------
(* As long as nothing is deleted either.                                   *)

\* A step that confirms nothing and forgets nobody.
LEMMA UntouchedQuiet ==
  ASSUME IInv, Untouched, log' = log,
         \A s \in Slots : control'[s].by = control[s].by,
         \A v \in Workers : tx'[v].act = "confirm" =>
           /\ control'[tx'[v].slot].status = "open"
           /\ tx'[v].slot \in Slots
           /\ ~ConfirmedToday(tx'[v].by, tx'[v].slot)
  PROVE  Untouched'
<1>1. \A n \in 1 .. Len(log') : control'[log'[n].slot].by = log'[n].by
  <2>1. \A n \in 1 .. Len(log) : log[n].slot \in Slots
    BY DEF IInv, TypeOK
  <2> QED
    BY <2>1 DEF Untouched
<1>2. OneConfirmationADay'
  BY DEF Untouched, OneConfirmationADay
<1>3. ASSUME NEW v \in Workers, tx'[v].act = "confirm"
      PROVE  control'[tx'[v].slot].status = "open" /\ ~ConfirmedToday(tx[v].by, tx[v].slot)'
  <2>1. PICK q : q = tx'[v]
    OBVIOUS
  <2>2. ~ConfirmedToday(q.by, q.slot)
    BY <1>3, <2>1
  <2>3. ~ConfirmedToday(q.by, q.slot)'
    BY <2>2 DEF ConfirmedToday
  <2> QED
    BY <1>3, <2>1, <2>3
<1> QED
  BY <1>1, <1>2, <1>3 DEF Untouched

LEMMA UntouchedCommitConfirm ==
  ASSUME IInv, Serial, Untouched, NEW w \in Workers, CommitConfirm(w)
  PROVE  Untouched'
<1>1. PICK s \in Slots, c \in Controllers :
           /\ tx[w].act = "confirm" /\ tx[w].slot = s /\ tx[w].by = c
           /\ control[s].status # "none"
           /\ control' = [control EXCEPT ![s] = [status |-> "confirmed", by |-> c]]
           /\ log' = Append(log, [slot |-> s, by |-> c])
           /\ tx' = [tx EXCEPT ![w] = Idle] /\ result' = result
  BY CommitConfirmFacts
<1>2. control[s].status = "open" /\ ~ConfirmedToday(c, s)
  BY <1>1 DEF Untouched
<1>3. control[s].by = NoController
  BY <1>2 DEF IInv
<1>4. /\ control'[s].by = c /\ \A t \in Slots : t # s => control'[t] = control[t]
  BY <1>1, TypeFacts
<1> DEFINE line == [slot |-> s, by |-> c]
<1>5. line \in Line /\ line.slot = s /\ line.by = c
  BY DEF Line
<1> HIDE DEF line
<1>6. /\ Len(log') = Len(log) + 1 /\ log'[Len(log) + 1] = line
      /\ \A n \in 1 .. Len(log) : log'[n] = log[n]
  BY <1>1, <1>5 DEF IInv, line
<1>7. Len(log) \in Nat
  BY DEF IInv
<1>8. ASSUME NEW n \in 1 .. Len(log)
      PROVE  /\ log[n].slot \in Slots /\ log[n].slot # s
             /\ control[log[n].slot].by = log[n].by
             /\ log[n].by = c => Day[log[n].slot] # Day[s]
  <2>1. PICK l \in Line : l = log[n]
    BY DEF IInv
  <2>2. l.slot \in Slots /\ l.by \in Controllers /\ control[l.slot].by = l.by
    BY <2>1 DEF Untouched, Line
  <2>3. l.slot # s
    BY <1>3, <2>2, NullAssumption
  <2>4. l.by = c => Day[l.slot] # Day[s]
    BY <1>2, <2>2, <2>3 DEF ConfirmedToday
  <2> QED
    BY <2>1, <2>2, <2>3, <2>4
<1>9. ASSUME NEW n \in 1 .. Len(log')
      PROVE  n \in 1 .. Len(log) \/ n = Len(log) + 1
  BY <1>6, <1>7
<1>10. \A n \in 1 .. Len(log') : control'[log'[n].slot].by = log'[n].by
  BY <1>4, <1>5, <1>6, <1>8, <1>9
<1>11. OneConfirmationADay'
  <2> SUFFICES ASSUME NEW n \in 1 .. Len(log'), NEW m \in 1 .. Len(log'), n # m,
                      log'[n].by = log'[m].by
               PROVE  Day[log'[n].slot] # Day[log'[m].slot]
    BY DEF OneConfirmationADay
  <2>1. CASE n \in 1 .. Len(log) /\ m \in 1 .. Len(log)
    BY <1>6, <2>1 DEF Untouched, OneConfirmationADay
  <2>2. CASE n \in 1 .. Len(log) /\ m = Len(log) + 1
    BY <1>5, <1>6, <1>8, <2>2
  <2>3. CASE m \in 1 .. Len(log) /\ n = Len(log) + 1
    BY <1>5, <1>6, <1>8, <2>3
  <2> QED
    BY <1>9, <2>1, <2>2, <2>3
<1>12. ASSUME NEW v \in Workers PROVE tx'[v].act # "confirm"
  <2>1. tx'[w] = Idle /\ \A u \in Workers : u # w => tx'[u] = tx[u]
    BY <1>1, Others
  <2>2. v # w => tx[v].act # "confirm"
    BY <1>1, Apart DEF Serial
  <2> QED
    BY <2>1, <2>2, IdleOK
<1> QED
  BY <1>10, <1>11, <1>12 DEF Untouched

LEMMA UntouchedNext ==
  ASSUME IInv, Serial, Untouched, Next, tx' # tx
  PROVE  Untouched'
<1>1. ASSUME NEW w \in Workers, NEW r, tx' = [tx EXCEPT ![w] = r],
             \A s \in Slots : control'[s].by = control[s].by,
             \A s \in Slots : control[s].status = "open" => control'[s].status = "open",
             log' = log,
             r.act = "confirm" => /\ r.slot \in Slots /\ control[r.slot].status = "open"
                                  /\ ~ConfirmedToday(r.by, r.slot)
      PROVE  Untouched'
  <2>1. tx'[w] = r /\ \A v \in Workers : v # w => tx'[v] = tx[v]
    BY <1>1, Others
  <2>2. ASSUME NEW v \in Workers, tx'[v].act = "confirm"
        PROVE  /\ control'[tx'[v].slot].status = "open"
               /\ tx'[v].slot \in Slots
               /\ ~ConfirmedToday(tx'[v].by, tx'[v].slot)
    <3>1. PICK q : q = tx'[v]
      OBVIOUS
    <3>2. q.slot \in Slots /\ control[q.slot].status = "open" /\ ~ConfirmedToday(q.by, q.slot)
      <4>1. CASE v = w
        BY <1>1, <2>1, <2>2, <3>1, <4>1
      <4>2. CASE v # w
        BY <2>1, <2>2, <3>1, <4>2, RequestFacts DEF IInv, Untouched
      <4> QED
        BY <4>1, <4>2
    <3> QED
      BY <1>1, <3>1, <3>2
  <2> QED
    BY <1>1, <2>2, UntouchedQuiet
<1>2. ASSUME NEW w \in Workers, LoadStart(w) \/ LoadSubmit(w) \/ LoadConfirm(w)
      PROVE  Untouched'
  <2>1. PICK r : Loads(w, r)
    BY <1>2, LoadFacts
  <2>2. r.act = "confirm" => r.slot \in Slots
    BY <2>1, RequestFacts DEF Loads
  <2> QED
    BY <1>1, <2>1, <2>2 DEF Loads
<1>3. ASSUME NEW w \in Workers, Insert(w) \/ Abort(w) PROVE Untouched'
  <2>1. PICK r : /\ tx' = [tx EXCEPT ![w] = r] /\ r.act \in {"idle", "started"}
                 /\ UNCHANGED <<control, log>>
    BY <1>3 DEF Insert, Abort, End, Idle
  <2> QED
    BY <1>1, <2>1
<1>4. ASSUME NEW w \in Workers, CommitStart(w) PROVE Untouched'
  <2>1. PICK s \in Slots :
           /\ control[s].status = "none"
           /\ control' = [control EXCEPT ![s] = [status |-> "open", by |-> NoController]]
           /\ tx' = [tx EXCEPT ![w] = Idle] /\ log' = log
    BY <1>4, CommitStartFacts
  <2>2. control[s].by = NoController
    BY <2>1 DEF IInv
  <2>3. \A t \in Slots : control'[t].by = control[t].by
                         /\ (control[t].status = "open" => control'[t].status = "open")
    BY <2>1, <2>2, TypeFacts
  <2> QED
    BY <1>1, <2>1, <2>3, IdleOK
<1>5. ASSUME NEW w \in Workers, CommitSubmit(w) PROVE Untouched'
  <2>1. tx' = [tx EXCEPT ![w] = Idle] /\ log' = log /\ control' = control
    BY <1>5, CommitSubmitFacts DEF Submits
  <2> QED
    BY <1>1, <2>1, IdleOK
<1>6. ASSUME NEW w \in Workers, CommitConfirm(w) PROVE Untouched'
  BY <1>6, UntouchedCommitConfirm
<1>7. ASSUME NEW s \in Slots, RemoveTarget(s) PROVE FALSE
  BY <1>7 DEF RemoveTarget
<1>8. ASSUME NEW c \in Controllers, RemoveController(c) PROVE FALSE
  BY <1>8 DEF RemoveController
<1> QED
  BY <1>2, <1>3, <1>4, <1>5, <1>6, <1>7, <1>8 DEF Next

-----------------------------------------------------------------------------
(* The specification with its history.                                     *)

LEMMA HistoryInit ==
  ASSUME MCInit
  PROVE  IInv /\ History
<1>1. \A w \in Workers : tx[w] = Idle
  BY DEF MCInit, Init
<1>2. \A w \in Workers : tx[w].act = "idle"
  BY <1>1, IdleOK
<1>3. Serial
  <2>1. ProblemsAreNoted
    BY DEF MCInit, Init, ProblemsAreNoted, NoControl
  <2> QED
    BY <1>2, <2>1 DEF Serial, Overlap, Answering
<1>4. Untouched
  BY <1>2 DEF MCInit, Init, Untouched, OneConfirmationADay
<1> QED
  BY <1>3, <1>4, InitInvariant DEF MCInit, History

LEMMA HistoryStep ==
  ASSUME IInv, History, [HistoryNext]_<<vars, marred>>
  PROVE  IInv' /\ History'
<1>1. CASE UNCHANGED <<vars, marred>>
  <2>1. IInv' /\ (IInv /\ Serial /\ ~Overlap => Serial')
    BY <1>1, NextInvariant, SerialRemoval DEF vars, Overlap, Answering
  <2>2. Serial => ~Overlap
    BY DEF Serial
  <2>3. Untouched => Untouched'
    <3>1. \A n \in 1 .. Len(log) : log[n].slot \in Slots
      BY DEF IInv, TypeOK
    <3> QED
      BY <1>1, <3>1 DEF vars, Untouched, OneConfirmationADay, ConfirmedToday
  <2> QED
    BY <1>1, <2>1, <2>2, <2>3 DEF History
<1>2. CASE HistoryNext
  <2>1. [Next]_vars /\ Next /\ IInv'
    BY <1>2, NextInvariant DEF HistoryNext
  <2>2. /\ marred \subseteq marred'
        /\ Overlap' => "overlap" \in marred'
        /\ tx' = tx => "removal" \in marred'
    BY <1>2 DEF HistoryNext
  <2>3. "overlap" \notin marred' => Serial'
    BY <2>1, <2>2, SerialNext DEF History
  <2>4. marred' = {} => Untouched'
    BY <2>1, <2>2, UntouchedNext DEF History
  <2> QED
    BY <2>1, <2>3, <2>4 DEF History
<1> QED
  BY <1>1, <1>2

LEMMA HistoryHolds == HistorySpec => [](IInv /\ History)
<1>1. MCInit => IInv /\ History
  BY HistoryInit
<1>2. (IInv /\ History) /\ [HistoryNext]_<<vars, marred>> => (IInv /\ History)'
  BY HistoryStep
<1> QED
  BY <1>1, <1>2, PTL DEF HistorySpec

\* While answers come one at a time and nothing and nobody is deleted, a controller
\* confirms once a day, whatever the number of machines.
THEOREM OneADay == HistorySpec => []OneADayUnlessMarred
<1>1. IInv /\ History => OneADayUnlessMarred
  BY DEF History, Untouched, OneADayUnlessMarred
<1> QED
  BY <1>1, HistoryHolds, PTL

\* While answers come one at a time, a confirmed control has no problem without its
\* note.
THEOREM ProblemsStayNoted == HistorySpec => []NotedUnlessMarred
<1>1. IInv /\ History => NotedUnlessMarred
  BY DEF History, Serial, NotedUnlessMarred
<1> QED
  BY <1>1, HistoryHolds, PTL

\* What a step can do to a control and its results.
LEMMA ControlMoves ==
  ASSUME IInv, Next, NEW s \in Slots, control[s].status # "none", control'[s].status # "none"
  PROVE  \/ /\ control'[s].status = control[s].status
            /\ control'[s].by \in {control[s].by, NoController}
            /\ result'[s] = result[s]
         \/ \E w \in Workers :
              /\ tx[w].act = "submit" /\ tx[w].slot = s /\ control'[s] = control[s]
              /\ result'[s] = [i \in Template[s] |->
                                 IF i \in tx[w].items THEN tx[w].value ELSE result[s][i]]
         \/ \E w \in Workers : /\ tx[w].act = "confirm" /\ tx[w].slot = s
                               /\ result'[s] = result[s]
<1>1. ASSUME NEW w \in Workers,
             LoadStart(w) \/ LoadSubmit(w) \/ LoadConfirm(w) \/ Insert(w) \/ Abort(w)
      PROVE  control' = control /\ result' = result
  BY <1>1, LoadFacts DEF Loads, Insert, Abort
<1>2. ASSUME NEW w \in Workers, CommitStart(w)
      PROVE  control'[s] = control[s] /\ result'[s] = result[s]
  <2>1. PICK t \in Slots :
           /\ control[t].status = "none"
           /\ control' = [control EXCEPT ![t] = [status |-> "open", by |-> NoController]]
           /\ result' = [result EXCEPT ![t] = Populate(t)]
    BY <1>2, CommitStartFacts
  <2> QED
    BY <2>1, TypeFacts
<1>3. ASSUME NEW w \in Workers, CommitSubmit(w)
      PROVE  \/ control'[s] = control[s] /\ result'[s] = result[s]
             \/ /\ tx[w].act = "submit" /\ tx[w].slot = s /\ control'[s] = control[s]
                /\ result'[s] = [i \in Template[s] |->
                                   IF i \in tx[w].items THEN tx[w].value ELSE result[s][i]]
  <2>0. PICK t \in Slots, v \in Values : \E items, res : Submits(w, t, v, items, res)
    BY <1>3, CommitSubmitFacts
  <2>S. PICK items, res : Submits(w, t, v, items, res)
    BY <2>0
  <2>1. /\ items \subseteq Template[t]
        /\ tx[w].act = "submit" /\ tx[w].slot = t /\ tx[w].value = v /\ tx[w].items = items
        /\ control[t].status # "none"
        /\ res = [i \in Template[t] |-> IF i \in items THEN v ELSE result[t][i]]
        /\ result' = [result EXCEPT ![t] = res]
        /\ tx' = [tx EXCEPT ![w] = Idle] /\ log' = log /\ control' = control
    BY <2>S DEF Submits
  <2>2. t # s => result'[s] = result[s]
    BY <2>1, TypeFacts
  <2>3. t = s => result'[s] = res
    BY <2>1, TypeFacts
  <2> QED
    BY <2>1, <2>2, <2>3
<1>4. ASSUME NEW w \in Workers, CommitConfirm(w)
      PROVE  \/ control'[s] = control[s] /\ result'[s] = result[s]
             \/ tx[w].act = "confirm" /\ tx[w].slot = s /\ result'[s] = result[s]
  BY <1>4, CommitConfirmFacts, TypeFacts
<1>5. ASSUME NEW t \in Slots, RemoveTarget(t)
      PROVE  control'[s] = control[s] /\ result'[s] = result[s]
  BY <1>5, TypeFacts DEF RemoveTarget, NoControl
<1>6. ASSUME NEW c \in Controllers, RemoveController(c)
      PROVE  /\ control'[s].status = control[s].status
             /\ control'[s].by \in {control[s].by, NoController}
             /\ result'[s] = result[s]
  BY <1>6, RemoveControllerFacts DEF RemoveController
<1> QED
  BY <1>1, <1>2, <1>3, <1>4, <1>5, <1>6 DEF Next

\* Nothing that was looked at goes back to pending by itself, however many start the
\* same control; and while answers come one at a time, a confirmed control changes
\* no more.
THEOREM ConfirmedIsFinal == HistorySpec => FinalUnlessMarred
<1>1. ASSUME IInv, Next PROVE NotStartedOver
  <2> SUFFICES ASSUME NEW s \in Slots, control[s].status # "none", control'[s].status # "none",
                      NEW i \in Template[s],
                      result'[s][i] = "PENDING", result[s][i] # "PENDING"
               PROVE  \E w \in Workers : tx[w].act = "submit" /\ tx[w].slot = s
                                         /\ i \in tx[w].items /\ tx[w].value = "PENDING"
    BY DEF NotStartedOver
  <2>1. result'[s] # result[s]
    OBVIOUS
  <2>2. PICK w \in Workers :
              /\ tx[w].act = "submit" /\ tx[w].slot = s
              /\ result'[s] = [j \in Template[s] |->
                                 IF j \in tx[w].items THEN tx[w].value ELSE result[s][j]]
    BY <1>1, <2>1, ControlMoves
  <2> QED
    BY <2>2
<1>2. ASSUME IInv, Serial, Next PROVE LockedIsFinal
  <2> SUFFICES ASSUME NEW s \in Slots, control[s].status = "confirmed",
                      control'[s].status # "none"
               PROVE  /\ result'[s] = result[s]
                      /\ control'[s].status = "confirmed"
                      /\ control'[s].by \in {control[s].by, NoController}
    BY DEF LockedIsFinal
  <2>1. \A w \in Workers : tx[w].act \in {"submit", "confirm"} => tx[w].slot # s
    BY <1>2 DEF Serial, Answering
  <2> QED
    BY <1>2, <2>1, ControlMoves
<1>3. IInv /\ History /\ [HistoryNext]_<<vars, marred>>
        => [NotStartedOver /\ ("overlap" \notin marred' => LockedIsFinal)]_<<vars, marred>>
  <2> SUFFICES ASSUME IInv, History, HistoryNext
               PROVE  NotStartedOver /\ ("overlap" \notin marred' => LockedIsFinal)
    OBVIOUS
  <2>1. Next /\ marred \subseteq marred'
    BY DEF HistoryNext
  <2> QED
    BY <1>1, <1>2, <2>1 DEF History
<1> QED
  BY <1>3, HistoryHolds, PTL DEF HistorySpec, FinalUnlessMarred
=============================================================================
