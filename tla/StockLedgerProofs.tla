------------------------- MODULE StockLedgerProofs -------------------------
(***************************************************************************)
(* Theorems of StockLedger, for any items, threads, sources and jobs.      *)
(*                                                                         *)
(* The properties of the committed rows are not inductive by themselves:   *)
(* a commit makes visible what a request decided steps earlier.  The       *)
(* inductive invariant IInv says of every running request what its row     *)
(* locks guarantee until then.                                             *)
(***************************************************************************)
EXTENDS StockLedgerHistory, SequenceTheorems, SumTheorems

\* Where a request can be, given its lines: a manual movement has one line, a
\* job is one of Jobs, and only lines already passed have been written.
Shape(w) ==
  /\ tx[w].wrote \subseteq 1..Len(tx[w].lines)
  /\ \A k \in tx[w].wrote : k < tx[w].at
  /\ tx[w].pc \in {"check", "write"} => tx[w].at \in 1..Len(tx[w].lines)
  /\ tx[w].pc = "commit" => tx[w].at > Len(tx[w].lines)
  /\ tx[w].pc \in {"idle", "edit"} => tx[w].wrote = {}
  /\ tx[w].pc = "edit" => tx[w].at = 1 /\ Len(tx[w].lines) = 1
  /\ tx[w].pc \in {"check", "write", "commit"} =>
       \A k \in 1..Len(tx[w].lines) : tx[w].lines[k].type \in MovementType
  /\ tx[w].source # NoSource =>
       /\ [source |-> tx[w].source, lines |-> tx[w].lines] \in Jobs
       /\ tx[w].pc # "edit"
  /\ tx[w].source = NoSource /\ tx[w].pc # "idle" => Len(tx[w].lines) = 1

\* What was checked before the lock stays true of the quantity to be written.
NonNegative(w) ==
  /\ \A k \in tx[w].wrote : After(w, k) >= 0
  /\ tx[w].pc = "write" => After(w, tx[w].at) >= 0

\* A request writes an item once.
WritesOnce(w) ==
  /\ \A k, m \in tx[w].wrote : tx[w].lines[k].item = tx[w].lines[m].item => k = m
  /\ tx[w].pc = "write" => ~Holds(w, Current(w).item)

\* While the lock is held nobody commits a movement with the key of this one.
Fresh(w) ==
  \A k \in tx[w].wrote :
    ~Charged(tx[w].source, tx[w].lines[k].item, tx[w].lines[k].type)

\* The lines a job has passed are charged, or will be when it commits.
Covered(w) ==
  tx[w].source # NoSource =>
    \A k \in 1..Len(tx[w].lines) : k < tx[w].at =>
      \/ Charged(tx[w].source, tx[w].lines[k].item, tx[w].lines[k].type)
      \/ Holds(w, tx[w].lines[k].item)

RequestOK(w) ==
  Shape(w) /\ NonNegative(w) /\ WritesOnce(w) /\ Fresh(w) /\ Covered(w)

\* A row is locked by one request at a time.
LocksExclusive ==
  \A v, w \in Workers : \A i \in Items : Holds(v, i) /\ Holds(w, i) => v = w

IInv ==
  /\ TypeOK
  /\ \A w \in Workers : RequestOK(w)
  /\ LocksExclusive
  /\ AtMostOncePerSource
  /\ RecordedIsCharged
  /\ ChargedIsRecorded
----------------------------------------------------------------------------
\* What is charged is a matter of the ledger.
LEMMA SameLedger ==
  ASSUME ledger' = ledger
  PROVE  \A s, i, t : Charged(s, i, t)' <=> Charged(s, i, t)
  BY DEF Charged

\* A request is still in order when neither it nor the ledger changed.
LEMMA Unmoved ==
  ASSUME NEW w \in Workers, RequestOK(w), tx'[w] = tx[w], ledger' = ledger
  PROVE  RequestOK(w)'
<1>1. Shape(w)' /\ NonNegative(w)'
  <2>1. Shape(w) /\ NonNegative(w)
    BY DEF RequestOK
  <2>2. Shape(w)'
    BY <2>1 DEF Shape
  <2>3. NonNegative(w)'
    BY <2>1 DEF NonNegative, After
  <2> QED
    BY <2>2, <2>3
<1>2. WritesOnce(w)'
  <2>1. \A i : Holds(w, i)' <=> Holds(w, i)
    BY DEF Holds
  <2>2. Current(w)' = Current(w)
    BY DEF Current
  <2>3. WritesOnce(w)
    BY DEF RequestOK
  <2> QED
    BY <2>1, <2>2, <2>3 DEF WritesOnce
<1>3. Fresh(w)'
  BY DEF RequestOK, Fresh, Charged
<1>4. Covered(w)'
  <2>1. \A s, i, t : Charged(s, i, t)' <=> Charged(s, i, t)
    BY SameLedger
  <2>2. \A i : Holds(w, i)' <=> Holds(w, i)
    BY DEF Holds
  <2>3. Covered(w)
    BY DEF RequestOK
  <2> QED
    BY <2>1, <2>2, <2>3 DEF Covered
<1> QED
  BY <1>1, <1>2, <1>3, <1>4 DEF RequestOK

\* A thread with no request is in order.
LEMMA IdleOK ==
  ASSUME NEW w \in Workers, tx'[w] = Idle
  PROVE  RequestOK(w)' /\ \A i \in Items : ~Holds(w, i)'
  BY DEF RequestOK, Shape, NonNegative, WritesOnce, Fresh, Covered, Holds, Idle

\* What Finish does to the requests.
LEMMA FinishFrame ==
  ASSUME TypeOK, NEW w \in Workers, Finish(w)
  PROVE  /\ tx'[w] = Idle
         /\ \A v \in Workers \ {w} : tx'[v] = tx[v]
         /\ tx' \in [Workers -> Request]
<1>1. Idle \in Request
  BY DEF Idle, Request, Source
<1> QED
  BY <1>1 DEF TypeOK, Finish

\* What passing a line does to the requests.
LEMMA StepPastFrame ==
  ASSUME TypeOK, NEW w \in Workers, NEW S \in SUBSET Nat, StepPast(w, S)
  PROVE  /\ tx'[w].pc = PcAfter(tx[w].lines, tx[w].at)
         /\ tx'[w].at = tx[w].at + 1
         /\ tx'[w].wrote = tx[w].wrote \cup S
         /\ tx'[w].lines = tx[w].lines
         /\ tx'[w].source = tx[w].source
         /\ tx'[w].seen = tx[w].seen
         /\ \A v \in Workers \ {w} : tx'[v] = tx[v]
         /\ tx' \in [Workers -> Request]
<1> DEFINE r == [pc |-> PcAfter(tx[w].lines, tx[w].at),
                source |-> tx[w].source, lines |-> tx[w].lines,
                at |-> tx[w].at + 1, seen |-> tx[w].seen,
                wrote |-> tx[w].wrote \cup S]
<1>1. tx[w] \in Request
  BY DEF TypeOK
<1>2. /\ PcAfter(tx[w].lines, tx[w].at) \in {"check", "commit"}
      /\ tx[w].at + 1 \in Nat
      /\ tx[w].wrote \cup S \in SUBSET Nat
  <2>1. PcAfter(tx[w].lines, tx[w].at) \in {"check", "commit"}
    BY DEF PcAfter
  <2>2. tx[w].at \in Nat /\ tx[w].wrote \in SUBSET Nat
    BY <1>1 DEF Request
  <2>3. tx[w].wrote \cup S \in SUBSET Nat
    BY <2>2
  <2>4. tx[w].at + 1 \in Nat
    BY <2>2
  <2> QED
    BY <2>1, <2>3, <2>4
<1>4. r \in Request
  BY <1>1, <1>2 DEF Request
<1>3. tx' = [tx EXCEPT ![w] = r]
  BY DEF StepPast
<1>5. tx'[w] = r
  BY <1>3 DEF TypeOK
<1>6. (\A v \in Workers \ {w} : tx'[v] = tx[v]) /\ tx' \in [Workers -> Request]
  BY <1>3, <1>4 DEF TypeOK
<1> QED
  BY <1>5, <1>6

\* A step that leaves the committed rows alone keeps what is said of them.
LEMMA CommittedUnmoved ==
  ASSUME ledger' = ledger, recorded' = recorded,
         AtMostOncePerSource, RecordedIsCharged, ChargedIsRecorded
  PROVE  AtMostOncePerSource' /\ RecordedIsCharged' /\ ChargedIsRecorded'
  BY DEF AtMostOncePerSource, RecordedIsCharged, ChargedIsRecorded, Charged

\* A step that gives the locks of one request back keeps locks exclusive.
LEMMA LocksGiven ==
  ASSUME LocksExclusive, NEW w \in Workers, \A i \in Items : ~Holds(w, i)',
         \A v \in Workers \ {w} : tx'[v] = tx[v]
  PROVE  LocksExclusive'
  BY DEF LocksExclusive, Holds

\* A database with no rows and no request running satisfies the invariant.
LEMMA InitInvariant == Init => IInv
<1> SUFFICES ASSUME Init PROVE IInv
  OBVIOUS
<1>1. TypeOK
  BY DEF Init, TypeOK, Idle, Source, Request
<1>2. ASSUME NEW w \in Workers PROVE RequestOK(w) /\ \A i \in Items : ~Holds(w, i)
  BY DEF Init, RequestOK, Shape, NonNegative, WritesOnce, Fresh, Covered, Holds, Idle
<1>3. LocksExclusive
  BY <1>2 DEF LocksExclusive
<1>4. AtMostOncePerSource /\ RecordedIsCharged /\ ChargedIsRecorded
  BY DEF Init, AtMostOncePerSource, RecordedIsCharged, ChargedIsRecorded
<1> QED
  BY <1>1, <1>2, <1>3, <1>4 DEF IInv
----------------------------------------------------------------------------
\* A request that is rolled back leaves the invariant.
LEMMA RollbackInvariant ==
  ASSUME IInv, NEW w \in Workers, Rollback(w)
  PROVE  IInv'
<1>1. /\ Finish(w)
      /\ UNCHANGED <<quantity, shelf, ledger, recorded>>
  BY DEF Rollback
<1>2. /\ tx'[w] = Idle
      /\ \A v \in Workers \ {w} : tx'[v] = tx[v]
      /\ tx' \in [Workers -> Request]
  BY <1>1, FinishFrame DEF IInv
<1>3. RequestOK(w)' /\ \A i \in Items : ~Holds(w, i)'
  BY <1>2, IdleOK
<1>4. \A v \in Workers : RequestOK(v)'
  BY <1>1, <1>2, <1>3, Unmoved DEF IInv
<1>5. LocksExclusive'
  BY <1>2, <1>3, LocksGiven DEF IInv
<1>6. TypeOK'
  BY <1>1, <1>2 DEF IInv, TypeOK
<1>7. AtMostOncePerSource' /\ RecordedIsCharged' /\ ChargedIsRecorded'
  BY <1>1, CommittedUnmoved DEF IInv
<1> QED
  BY <1>4, <1>5, <1>6, <1>7 DEF IInv

\* Creating and archiving items touch neither the ledger nor any request.
LEMMA ItemInvariant ==
  ASSUME IInv, NEW i \in Items, CreateItem(i) \/ ArchiveItem(i)
  PROVE  IInv'
<1>1. UNCHANGED <<quantity, ledger, recorded, tx>>
  BY DEF CreateItem, ArchiveItem
<1>2. shelf' \in [Items -> {"absent", "active", "archived"}]
  BY DEF CreateItem, ArchiveItem, IInv, TypeOK
<1>3. TypeOK'
  BY <1>1, <1>2 DEF IInv, TypeOK
<1>4. \A v \in Workers : RequestOK(v)'
  BY <1>1, Unmoved DEF IInv
<1>5. LocksExclusive'
  BY <1>1 DEF IInv, LocksExclusive, Holds
<1>6. AtMostOncePerSource' /\ RecordedIsCharged' /\ ChargedIsRecorded'
  BY <1>1, CommittedUnmoved DEF IInv
<1> QED
  BY <1>3, <1>4, <1>5, <1>6 DEF IInv

\* A request that starts holds nothing and is at its first line.
LEMMA LoadInvariant ==
  ASSUME IInv, NEW w \in Workers,
         NEW source \in Source, NEW lines \in Seq(Line),
         NEW pc \in {"check", "commit", "edit"},
         Load(w, source, lines, pc),
         source = NoSource => Len(lines) = 1 /\ pc \in {"check", "edit"},
         source # NoSource => /\ [source |-> source, lines |-> lines] \in Jobs
                              /\ pc = PcAfter(lines, 0),
         pc # "edit" => \A k \in 1..Len(lines) : lines[k].type \in MovementType
  PROVE  IInv'
<1> DEFINE r == [pc |-> pc, source |-> source, lines |-> lines, at |-> 1,
                seen |-> SeenBy(lines), wrote |-> {}]
<1>1. tx' = [tx EXCEPT ![w] = r] /\ UNCHANGED <<quantity, shelf, ledger, recorded>>
  BY DEF Load
<1>2. SeenBy(lines) \in [Items -> Nat]
  BY DEF SeenBy, IInv, TypeOK
<1>3. r \in Request
  BY <1>2 DEF Request
<1>4. /\ tx'[w] = r
      /\ \A v \in Workers \ {w} : tx'[v] = tx[v]
      /\ tx' \in [Workers -> Request]
  BY <1>1, <1>3 DEF IInv, TypeOK
<1>5. \A i \in Items : ~Holds(w, i)'
  BY <1>4 DEF Holds
<1>6. RequestOK(w)'
  <2>0. Len(lines) \in Nat
    OBVIOUS
  <2>4. ASSUME pc = "check" PROVE Len(lines) > 0
    <3>1. CASE source = NoSource
      BY <3>1
    <3>2. CASE source # NoSource
      BY <2>0, <2>4, <3>2 DEF PcAfter
    <3> QED
      BY <3>1, <3>2
  <2>5. pc = "commit" => Len(lines) = 0
    BY <2>0 DEF PcAfter
  <2>6. pc = "edit" => Len(lines) = 1 /\ source = NoSource
    BY DEF PcAfter
  <2>1. Shape(w)'
    BY <1>4, <2>0, <2>4, <2>5, <2>6 DEF Shape
  <2>2. NonNegative(w)' /\ WritesOnce(w)' /\ Fresh(w)'
    BY <1>4 DEF NonNegative, WritesOnce, Fresh
  <2>3. Covered(w)'
    BY <1>4 DEF Covered
  <2> QED
    BY <2>1, <2>2, <2>3 DEF RequestOK
<1>7. \A v \in Workers : RequestOK(v)'
  BY <1>1, <1>4, <1>6, Unmoved DEF IInv
<1>8. LocksExclusive'
  BY <1>4, <1>5, LocksGiven DEF IInv
<1>9. TypeOK'
  BY <1>1, <1>4 DEF IInv, TypeOK
<1>10. AtMostOncePerSource' /\ RecordedIsCharged' /\ ChargedIsRecorded'
  BY <1>1, CommittedUnmoved DEF IInv
<1> QED
  BY <1>7, <1>8, <1>9, <1>10 DEF IInv

\* A manual movement, a job and an edit all start so.
LEMMA StartInvariant ==
  ASSUME IInv, NEW w \in Workers, Start(w)
  PROVE  IInv'
<1>1. ASSUME NEW m \in ManualMoves, LoadMove(w, m) PROVE IInv'
  <2>1. /\ m \in Line
        /\ m.type \in MovementType
    BY <1>1, DeltaAssumption DEF ManualMoves, Line
  <2>2. <<m>> \in Seq(Line) /\ Len(<<m>>) = 1 /\ <<m>>[1] = m
    BY <2>1
  <2>3. NoSource \in Source
    BY DEF Source
  <2>4. \A k \in 1..Len(<<m>>) : <<m>>[k].type \in MovementType
    BY <2>1, <2>2
  <2>5. Load(w, NoSource, <<m>>, "check")
    BY <1>1 DEF LoadMove
  <2> QED
    BY <2>2, <2>3, <2>4, <2>5, LoadInvariant
<1>2. ASSUME NEW j \in Jobs, LoadJob(w, j) PROVE IInv'
  <2>1. /\ j.source \in Source
        /\ j.source # NoSource
        /\ j.lines \in Seq(Line)
        /\ [source |-> j.source, lines |-> j.lines] \in Jobs
    BY JobAssumption, SourceAssumption DEF Source
  <2>2. \A k \in 1..Len(j.lines) : j.lines[k].type \in MovementType
    BY JobAssumption DEF MovementType
  <2>3. PcAfter(j.lines, 0) \in {"check", "commit", "edit"}
    BY DEF PcAfter
  <2> QED
    BY <1>2, <2>1, <2>2, <2>3, LoadInvariant DEF LoadJob
<1>3. ASSUME NEW i \in Items, LoadEdit(w, i) PROVE IInv'
  <2> DEFINE e == [item |-> i, type |-> "EDIT", delta |-> 0]
  <2>1. e \in Line
    BY DEF Line
  <2>2. <<e>> \in Seq(Line) /\ Len(<<e>>) = 1
    BY <2>1
  <2>3. NoSource \in Source
    BY DEF Source
  <2> QED
    BY <1>3, <2>2, <2>3, LoadInvariant DEF LoadEdit
<1> QED
  BY <1>1, <1>2, <1>3 DEF Start
----------------------------------------------------------------------------
\* Facts about the line a request is at.
LEMMA AtLine ==
  ASSUME IInv, NEW w \in Workers, tx[w].pc \in {"check", "write"}
  PROVE  /\ tx[w] \in Request
         /\ tx[w].at \in 1..Len(tx[w].lines)
         /\ Len(tx[w].lines) \in Nat
         /\ Current(w) \in Line
         /\ Current(w).type \in MovementType
<1>1. tx[w] \in Request
  BY DEF IInv, TypeOK
<1>2. tx[w].lines \in Seq(Line)
  BY <1>1 DEF Request
<1>3. /\ tx[w].at \in 1..Len(tx[w].lines)
      /\ \A k \in 1..Len(tx[w].lines) : tx[w].lines[k].type \in MovementType
  BY DEF IInv, RequestOK, Shape
<1> QED
  BY <1>1, <1>2, <1>3 DEF Current

\* The shape of a request that passes a line, whether it writes it or not.
LEMMA StepPastShape ==
  ASSUME IInv, NEW w \in Workers, NEW S \in SUBSET {tx[w].at},
         tx[w].pc \in {"check", "write"}, StepPast(w, S)
  PROVE  Shape(w)'
<1>1. /\ tx[w] \in Request
      /\ tx[w].at \in 1..Len(tx[w].lines)
      /\ Len(tx[w].lines) \in Nat
  BY AtLine
<1>2. S \in SUBSET Nat
  BY <1>1
<1>3. Shape(w)
  BY DEF IInv, RequestOK
<1> DEFINE n == Len(tx[w].lines)
           a == tx[w].at
<1>4. /\ tx'[w].pc = PcAfter(tx[w].lines, tx[w].at)
      /\ tx'[w].at = tx[w].at + 1
      /\ tx'[w].wrote = tx[w].wrote \cup S
      /\ tx'[w].lines = tx[w].lines
      /\ tx'[w].source = tx[w].source
  BY <1>2, StepPastFrame DEF IInv
<1>5. /\ tx'[w].pc \in {"check", "commit"}
      /\ tx'[w].pc = "check" => a + 1 \in 1..n
      /\ tx'[w].pc = "commit" => a + 1 > n
  BY <1>1, <1>4 DEF PcAfter
<1>6. \A k \in tx'[w].wrote : k \in 1..n /\ k < a + 1
  BY <1>1, <1>3, <1>4 DEF Shape
<1>7. \A k \in 1..n : tx[w].lines[k].type \in MovementType
  BY <1>3 DEF Shape
<1>8. /\ tx[w].source # NoSource => [source |-> tx[w].source, lines |-> tx[w].lines] \in Jobs
      /\ tx[w].source = NoSource => Len(tx[w].lines) = 1
  BY <1>3 DEF Shape
<1> QED
  BY <1>4, <1>5, <1>6, <1>7, <1>8 DEF Shape

\* A line passed without a write: its movement was found, by the query or by the
\* unique constraint.
LEMMA PassedInvariant ==
  ASSUME IInv, NEW w \in Workers, SkipExisting(w) \/ UniqueViolation(w)
  PROVE  IInv'
<1>1. /\ tx[w].pc \in {"check", "write"}
      /\ StepPast(w, {})
      /\ UNCHANGED <<quantity, shelf, ledger, recorded>>
      /\ \/ Charged(tx[w].source, Current(w).item, Current(w).type)
         \/ Holds(w, Current(w).item)
  BY DEF SkipExisting, UniqueViolation, Existing
<1>2. /\ tx'[w].pc = PcAfter(tx[w].lines, tx[w].at)
      /\ tx'[w].at = tx[w].at + 1
      /\ tx'[w].wrote = tx[w].wrote
      /\ tx'[w].lines = tx[w].lines
      /\ tx'[w].source = tx[w].source
      /\ tx'[w].seen = tx[w].seen
      /\ \A v \in Workers \ {w} : tx'[v] = tx[v]
      /\ tx' \in [Workers -> Request]
  <2>1. {} \in SUBSET Nat
    OBVIOUS
  <2>2. tx[w].wrote \cup {} = tx[w].wrote
    OBVIOUS
  <2> QED
    BY <1>1, <2>1, <2>2, StepPastFrame DEF IInv
<1>3. /\ tx[w] \in Request
      /\ tx[w].at \in 1..Len(tx[w].lines)
      /\ Len(tx[w].lines) \in Nat
  BY <1>1, AtLine
<1>4. tx'[w].pc # "write"
  BY <1>2 DEF PcAfter
<1>5. \A v \in Workers : \A i \in Items : Holds(v, i)' <=> Holds(v, i)
  BY <1>2 DEF Holds
<1>6. RequestOK(w)'
  <2>1. Shape(w)'
    BY <1>1, StepPastShape
  <2>2. NonNegative(w)'
    BY <1>2, <1>4 DEF NonNegative, After, IInv, RequestOK
  <2>3. WritesOnce(w)'
    BY <1>2, <1>4 DEF WritesOnce, IInv, RequestOK
  <2>4. Fresh(w)'
    <3>1. \A k \in tx[w].wrote :
            ~Charged(tx[w].source, tx[w].lines[k].item, tx[w].lines[k].type)
      BY DEF IInv, RequestOK, Fresh
    <3>2. \A s, i, t : Charged(s, i, t)' <=> Charged(s, i, t)
      BY <1>1, SameLedger
    <3> QED
      BY <1>2, <3>1, <3>2 DEF Fresh
  <2>5. Covered(w)'
    <3>1. SUFFICES ASSUME tx[w].source # NoSource,
                          NEW k \in 1..Len(tx[w].lines), k < tx[w].at + 1
                   PROVE  \/ Charged(tx[w].source, tx[w].lines[k].item, tx[w].lines[k].type)
                          \/ Holds(w, tx[w].lines[k].item)
      <4>1. \A s, i, t : Charged(s, i, t)' <=> Charged(s, i, t)
        BY <1>1, SameLedger
      <4>2. \A i : Holds(w, i)' <=> Holds(w, i)
        BY <1>2 DEF Holds
      <4> QED
        BY <1>2, <4>1, <4>2 DEF Covered
    <3>2. CASE k < tx[w].at
      BY <3>1, <3>2 DEF IInv, RequestOK, Covered
    <3>3. CASE k = tx[w].at
      BY <1>1, <3>3 DEF Current
    <3> QED
      BY <1>3, <3>1, <3>2, <3>3
  <2> QED
    BY <2>1, <2>2, <2>3, <2>4, <2>5 DEF RequestOK
<1>7. \A v \in Workers : RequestOK(v)'
  BY <1>1, <1>2, <1>6, Unmoved DEF IInv
<1>8. LocksExclusive'
  BY <1>5 DEF IInv, LocksExclusive
<1>9. TypeOK'
  BY <1>1, <1>2 DEF IInv, TypeOK
<1>10. AtMostOncePerSource' /\ RecordedIsCharged' /\ ChargedIsRecorded'
  BY <1>1, CommittedUnmoved DEF IInv
<1> QED
  BY <1>7, <1>8, <1>9, <1>10 DEF IInv

\* The check passes: the sum is not negative and the item not yet written.
LEMMA PassCheckInvariant ==
  ASSUME IInv, NEW w \in Workers, PassCheck(w)
  PROVE  IInv'
<1>1. /\ tx[w].pc = "check"
      /\ ~Existing(w)
      /\ After(w, tx[w].at) >= 0
      /\ tx' = [tx EXCEPT ![w].pc = "write"]
      /\ UNCHANGED <<quantity, shelf, ledger, recorded>>
  BY DEF PassCheck
<1>2. /\ tx[w] \in Request
      /\ tx[w].at \in 1..Len(tx[w].lines)
      /\ Len(tx[w].lines) \in Nat
  BY <1>1, AtLine
<1>3. /\ tx'[w].pc = "write"
      /\ tx'[w].at = tx[w].at
      /\ tx'[w].wrote = tx[w].wrote
      /\ tx'[w].lines = tx[w].lines
      /\ tx'[w].source = tx[w].source
      /\ tx'[w].seen = tx[w].seen
      /\ \A v \in Workers \ {w} : tx'[v] = tx[v]
      /\ tx' \in [Workers -> Request]
  BY <1>1, <1>2 DEF IInv, TypeOK, Request
<1>4. \A v \in Workers : \A i \in Items : Holds(v, i)' <=> Holds(v, i)
  BY <1>3 DEF Holds
<1>5. Shape(w)
  BY DEF IInv, RequestOK
<1>6. RequestOK(w)'
  <2>1. Shape(w)'
    BY <1>1, <1>2, <1>3, <1>5 DEF Shape
  <2>2. NonNegative(w)'
    BY <1>1, <1>3 DEF NonNegative, After, IInv, RequestOK
  <2>3. ~Holds(w, Current(w).item)
    <3>1. CASE tx[w].source = NoSource
      <4>1. tx[w].at = 1 /\ tx[w].wrote = {}
        BY <1>1, <1>2, <1>5, <3>1 DEF Shape
      <4> QED
        BY <4>1 DEF Holds
    <3>2. CASE tx[w].source # NoSource
      BY <1>1, <3>2 DEF Existing
    <3> QED
      BY <3>1, <3>2
  <2>4. WritesOnce(w)'
    <3>1. WritesOnce(w)
      BY DEF IInv, RequestOK
    <3>2. \A i : Holds(w, i)' <=> Holds(w, i)
      BY <1>3 DEF Holds
    <3>3. Current(w)' = Current(w)
      BY <1>3 DEF Current
    <3> QED
      BY <1>3, <2>3, <3>1, <3>2, <3>3 DEF WritesOnce
  <2>5. Fresh(w)'
    <3>1. Fresh(w)
      BY DEF IInv, RequestOK
    <3>2. \A s, i, t : Charged(s, i, t)' <=> Charged(s, i, t)
      BY <1>1, SameLedger
    <3> QED
      BY <1>3, <3>1, <3>2 DEF Fresh
  <2>6. Covered(w)'
    <3>1. \A s, i, t : Charged(s, i, t)' <=> Charged(s, i, t)
      BY <1>1, SameLedger
    <3>2. \A i : Holds(w, i)' <=> Holds(w, i)
      BY <1>3 DEF Holds
    <3>3. Covered(w)
      BY DEF IInv, RequestOK
    <3> QED
      BY <1>3, <3>1, <3>2, <3>3 DEF Covered
  <2> QED
    BY <2>1, <2>2, <2>4, <2>5, <2>6 DEF RequestOK
<1>7. \A v \in Workers : RequestOK(v)'
  BY <1>1, <1>3, <1>6, Unmoved DEF IInv
<1>8. LocksExclusive'
  BY <1>4 DEF IInv, LocksExclusive
<1>9. TypeOK'
  BY <1>1, <1>3 DEF IInv, TypeOK
<1>10. AtMostOncePerSource' /\ RecordedIsCharged' /\ ChargedIsRecorded'
  BY <1>1, CommittedUnmoved DEF IInv
<1> QED
  BY <1>7, <1>8, <1>9, <1>10 DEF IInv

\* A line is written: the row lock is had, and no movement with its key is there.
LEMMA WriteLineInvariant ==
  ASSUME IInv, NEW w \in Workers, WriteLine(w)
  PROVE  IInv'
<1> DEFINE a == tx[w].at
<1>1. /\ tx[w].pc = "write"
      /\ ~LockedByOther(w, Current(w).item)
      /\ ~Charged(tx[w].source, Current(w).item, Current(w).type)
      /\ StepPast(w, {a})
      /\ UNCHANGED <<quantity, shelf, ledger, recorded>>
  BY DEF WriteLine
<1>2. /\ tx[w] \in Request
      /\ a \in 1..Len(tx[w].lines)
      /\ Len(tx[w].lines) \in Nat
      /\ Current(w) = tx[w].lines[a]
      /\ Current(w).item \in Items
  BY <1>1, AtLine DEF Current, Line
<1>3. /\ tx'[w].pc = PcAfter(tx[w].lines, a)
      /\ tx'[w].at = a + 1
      /\ tx'[w].wrote = tx[w].wrote \cup {a}
      /\ tx'[w].lines = tx[w].lines
      /\ tx'[w].source = tx[w].source
      /\ tx'[w].seen = tx[w].seen
      /\ \A v \in Workers \ {w} : tx'[v] = tx[v]
      /\ tx' \in [Workers -> Request]
  <2>1. {a} \in SUBSET Nat
    BY <1>2
  <2> QED
    BY <1>1, <2>1, StepPastFrame DEF IInv
<1>4. tx'[w].pc # "write"
  BY <1>3 DEF PcAfter
<1>5. \A i \in Items : Holds(w, i)' <=> Holds(w, i) \/ i = Current(w).item
  BY <1>2, <1>3 DEF Holds
<1>6. \A v \in Workers \ {w} : \A i \in Items : Holds(v, i)' <=> Holds(v, i)
  BY <1>3 DEF Holds
<1>7. RequestOK(w)
  BY DEF IInv
<1>8. RequestOK(w)'
  <2>1. Shape(w)'
    BY <1>1, StepPastShape
  <2>2. NonNegative(w)'
    BY <1>1, <1>3, <1>4, <1>7 DEF NonNegative, After, RequestOK
  <2>3. WritesOnce(w)'
    <3>1. \A k \in tx[w].wrote : tx[w].lines[k].item # tx[w].lines[a].item
      BY <1>1, <1>2, <1>7 DEF RequestOK, WritesOnce, Holds
    <3> QED
      BY <1>3, <1>4, <1>7, <3>1 DEF RequestOK, WritesOnce
  <2>4. Fresh(w)'
    <3>1. \A k \in tx[w].wrote \cup {a} :
            ~Charged(tx[w].source, tx[w].lines[k].item, tx[w].lines[k].type)
      BY <1>1, <1>2, <1>7 DEF Fresh, RequestOK
    <3>2. ASSUME NEW k \in tx'[w].wrote
          PROVE  ~Charged(tx[w].source, tx[w].lines[k].item, tx[w].lines[k].type)'
      <4>1. ~Charged(tx[w].source, tx[w].lines[k].item, tx[w].lines[k].type)
        BY <1>3, <3>1, <3>2
      <4> QED
        BY <1>1, <1>3, <4>1 DEF Charged
    <3> QED
      BY <3>2 DEF Fresh
  <2>5. Covered(w)'
    <3>1. SUFFICES ASSUME tx[w].source # NoSource,
                          NEW k \in 1..Len(tx[w].lines), k < a + 1
                   PROVE  \/ Charged(tx[w].source, tx[w].lines[k].item, tx[w].lines[k].type)'
                          \/ Holds(w, tx[w].lines[k].item)'
      BY <1>3 DEF Covered, Charged, Holds
    <3>2. CASE k < a
      <4>1. \/ Charged(tx[w].source, tx[w].lines[k].item, tx[w].lines[k].type)
            \/ Holds(w, tx[w].lines[k].item)
        BY <1>7, <3>1, <3>2 DEF RequestOK, Covered
      <4>2. Holds(w, tx[w].lines[k].item) => Holds(w, tx[w].lines[k].item)'
        BY <1>3 DEF Holds
      <4>3. Charged(tx[w].source, tx[w].lines[k].item, tx[w].lines[k].type) =>
              Charged(tx[w].source, tx[w].lines[k].item, tx[w].lines[k].type)'
        BY <1>1, <1>3 DEF Charged
      <4> QED
        BY <4>1, <4>2, <4>3
    <3>3. CASE k = a
      BY <1>3, <3>3 DEF Holds
    <3> QED
      BY <1>2, <3>1, <3>2, <3>3
  <2> QED
    BY <2>1, <2>2, <2>3, <2>4, <2>5 DEF RequestOK
<1>9. \A v \in Workers : RequestOK(v)'
  BY <1>1, <1>3, <1>8, Unmoved DEF IInv
<1>10. LocksExclusive'
  BY <1>1, <1>5, <1>6 DEF IInv, LocksExclusive, LockedByOther
<1>11. TypeOK'
  BY <1>1, <1>3 DEF IInv, TypeOK
<1>12. AtMostOncePerSource' /\ RecordedIsCharged' /\ ChargedIsRecorded'
  BY <1>1, CommittedUnmoved DEF IInv
<1> QED
  BY <1>9, <1>10, <1>11, <1>12 DEF IInv

\* An edit writes back a quantity that was once read from the row.
LEMMA SaveEditInvariant ==
  ASSUME IInv, NEW w \in Workers, SaveEdit(w)
  PROVE  IInv'
<1>1. /\ tx[w].pc = "edit"
      /\ quantity' = [quantity EXCEPT ![Current(w).item] = tx[w].seen[Current(w).item]]
      /\ \E flag \in {"active", "archived"} :
           shelf' = [shelf EXCEPT ![Current(w).item] = flag]
      /\ Finish(w)
      /\ UNCHANGED <<ledger, recorded>>
  BY DEF SaveEdit
<1>2. /\ tx'[w] = Idle
      /\ \A v \in Workers \ {w} : tx'[v] = tx[v]
      /\ tx' \in [Workers -> Request]
  BY <1>1, FinishFrame DEF IInv
<1>3. RequestOK(w)' /\ \A i \in Items : ~Holds(w, i)'
  BY <1>2, IdleOK
<1>4. \A v \in Workers : RequestOK(v)'
  BY <1>1, <1>2, <1>3, Unmoved DEF IInv
<1>5. LocksExclusive'
  BY <1>2, <1>3, LocksGiven DEF IInv
<1>6. TypeOK'
  <2>1. tx[w] \in Request
    BY DEF IInv, TypeOK
  <2>2. tx[w].at = 1 /\ Len(tx[w].lines) = 1 /\ tx[w].lines \in Seq(Line)
    BY <1>1, <2>1 DEF IInv, RequestOK, Shape, Request
  <2>3. Current(w).item \in Items
    <3>1. tx[w].lines[1] \in Line
      BY <2>2
    <3> QED
      BY <2>2, <3>1 DEF Current, Line
  <2>4. tx[w].seen[Current(w).item] \in Nat
    BY <2>1, <2>3 DEF Request
  <2>5. quantity' \in [Items -> Nat]
    BY <1>1, <2>4 DEF IInv, TypeOK
  <2>6. shelf' \in [Items -> {"absent", "active", "archived"}]
    BY <1>1 DEF IInv, TypeOK
  <2> QED
    BY <1>1, <1>2, <2>5, <2>6 DEF IInv, TypeOK
<1>7. AtMostOncePerSource' /\ RecordedIsCharged' /\ ChargedIsRecorded'
  BY <1>1, CommittedUnmoved DEF IInv
<1> QED
  BY <1>4, <1>5, <1>6, <1>7 DEF IInv
----------------------------------------------------------------------------
\* The movement a commit appends to an item it has written.
LEMMA WrittenMovement ==
  ASSUME IInv, NEW w \in Workers, NEW i \in Items, Holds(w, i), tx[w].pc = "commit"
  PROVE  /\ WrittenLine(w, i) \in tx[w].wrote
         /\ WrittenLine(w, i) \in 1..Len(tx[w].lines)
         /\ tx[w].lines[WrittenLine(w, i)].item = i
         /\ After(w, WrittenLine(w, i)) \in Nat
         /\ MovementOf(w, WrittenLine(w, i)) \in Movement
<1> DEFINE k == WrittenLine(w, i)
<1>1. k \in tx[w].wrote /\ tx[w].lines[k].item = i
  BY DEF Holds, WrittenLine
<1> HIDE DEF k
<1>2. tx[w] \in Request
  BY DEF IInv, TypeOK
<1>3. Shape(w) /\ NonNegative(w)
  BY DEF IInv, RequestOK
<1>4. k \in 1..Len(tx[w].lines)
  BY <1>1, <1>3 DEF Shape
<1>5. tx[w].lines[k] \in Line
  BY <1>2, <1>4 DEF Request
<1>6. tx[w].lines[k].type \in MovementType
  BY <1>3, <1>4 DEF Shape
<1>7. /\ tx[w].seen[i] \in Nat
      /\ tx[w].lines[k].delta \in Int
      /\ tx[w].source \in Source
  BY <1>2, <1>5 DEF Request, Line
<1>8. After(w, k) \in Nat
  BY <1>1, <1>3, <1>7 DEF NonNegative, After
<1>9. MovementOf(w, k) \in Movement
  BY <1>1, <1>6, <1>7, <1>8 DEF MovementOf, Movement
<1> QED
  BY <1>1, <1>4, <1>8, <1>9 DEF k

\* What a commit does to the committed rows, item by item.
LEMMA CommitRows ==
  ASSUME IInv, NEW w \in Workers, Commit(w)
  PROVE  /\ quantity' \in [Items -> Nat]
         /\ ledger' \in [Items -> Seq(Movement)]
         /\ \A i \in Items : ~Holds(w, i) => ledger'[i] = ledger[i] /\ quantity'[i] = quantity[i]
         /\ \A i \in Items : Holds(w, i) =>
              /\ ledger'[i] = Append(ledger[i], MovementOf(w, WrittenLine(w, i)))
              /\ quantity'[i] = After(w, WrittenLine(w, i))
<1>1. tx[w].pc = "commit"
  BY DEF Commit
<1>2. quantity' = [i \in Items |-> IF Holds(w, i) THEN After(w, WrittenLine(w, i))
                                                  ELSE quantity[i]]
  BY DEF Commit
<1>3. ledger' = [i \in Items |-> IF Holds(w, i)
                                 THEN Append(ledger[i], MovementOf(w, WrittenLine(w, i)))
                                 ELSE ledger[i]]
  BY DEF Commit
<1>4. ASSUME NEW i \in Items, Holds(w, i)
      PROVE  /\ After(w, WrittenLine(w, i)) \in Nat
             /\ Append(ledger[i], MovementOf(w, WrittenLine(w, i))) \in Seq(Movement)
  <2>1. /\ After(w, WrittenLine(w, i)) \in Nat
        /\ MovementOf(w, WrittenLine(w, i)) \in Movement
    BY <1>1, <1>4, WrittenMovement
  <2>2. ledger[i] \in Seq(Movement)
    BY DEF IInv, TypeOK
  <2> QED
    BY <2>1, <2>2
<1>5. quantity \in [Items -> Nat] /\ ledger \in [Items -> Seq(Movement)]
  BY DEF IInv, TypeOK
<1>6. quantity' \in [Items -> Nat]
  BY <1>2, <1>4, <1>5
<1>7. ledger' \in [Items -> Seq(Movement)]
  BY <1>3, <1>4, <1>5
<1> QED
  BY <1>2, <1>3, <1>6, <1>7

\* The ledger only grows: positions that were there keep their movement.
LEMMA LedgerGrows ==
  ASSUME IInv, NEW w \in Workers, Commit(w), NEW i \in Items
  PROVE  /\ Len(ledger[i]) \in Nat
         /\ Len(ledger'[i]) \in {Len(ledger[i]), Len(ledger[i]) + 1}
         /\ Len(ledger'[i]) = Len(ledger[i]) + 1 =>
              Holds(w, i) /\ ledger'[i][Len(ledger[i]) + 1] = MovementOf(w, WrittenLine(w, i))
         /\ Holds(w, i) => Len(ledger'[i]) = Len(ledger[i]) + 1
         /\ \A n \in 1..Len(ledger[i]) : ledger'[i][n] = ledger[i][n]
<1>1. ledger[i] \in Seq(Movement)
  BY DEF IInv, TypeOK
<1>2. CASE Holds(w, i)
  <2> DEFINE m == MovementOf(w, WrittenLine(w, i))
  <2>1. m \in Movement
    BY <1>2, WrittenMovement DEF Commit
  <2>2. ledger'[i] = Append(ledger[i], m)
    BY <1>2, CommitRows
  <2> HIDE DEF m
  <2>3. /\ Len(ledger'[i]) = Len(ledger[i]) + 1
        /\ ledger'[i][Len(ledger[i]) + 1] = m
        /\ \A n \in 1..Len(ledger[i]) : ledger'[i][n] = ledger[i][n]
    BY <1>1, <2>1, <2>2
  <2> QED
    BY <1>1, <1>2, <2>3 DEF m
<1>3. CASE ~Holds(w, i)
  <2>1. ledger'[i] = ledger[i]
    BY <1>3, CommitRows
  <2> QED
    BY <1>1, <1>3, <2>1
<1> QED
  BY <1>2, <1>3

\* So what is charged stays charged.
LEMMA ChargedStays ==
  ASSUME IInv, NEW w \in Workers, Commit(w),
         NEW s, NEW i \in Items, NEW t, Charged(s, i, t)
  PROVE  Charged(s, i, t)'
<1>1. PICK n \in 1..Len(ledger[i]) : ledger[i][n].source = s /\ ledger[i][n].type = t
  BY DEF Charged
<1>2. n \in 1..Len(ledger'[i]) /\ ledger'[i][n] = ledger[i][n]
  BY <1>1, LedgerGrows
<1> QED
  BY <1>1, <1>2 DEF Charged

\* And an item that the commit of a job wrote is charged by it.
LEMMA WrittenIsCharged ==
  ASSUME IInv, NEW w \in Workers, Commit(w),
         NEW s, s = tx[w].source, s # NoSource, NEW i \in Items, Holds(w, i)
  PROVE  Charged(s, i, "CONSUMPTION")'
<1> DEFINE l == WrittenLine(w, i)
<1>1. l \in 1..Len(tx[w].lines)
  BY WrittenMovement DEF Commit
<1>2. [source |-> tx[w].source, lines |-> tx[w].lines] \in Jobs
  BY DEF IInv, RequestOK, Shape
<1>3. tx[w].lines[l].type = "CONSUMPTION"
  <2>1. \A j \in Jobs : \A m \in 1..Len(j.lines) : j.lines[m].type = "CONSUMPTION"
    BY JobAssumption
  <2> QED
    BY <1>1, <1>2, <2>1
<1>4. MovementOf(w, l).source = s /\ MovementOf(w, l).type = "CONSUMPTION"
  BY <1>3 DEF MovementOf
<1>5. /\ Len(ledger[i]) \in Nat
      /\ Len(ledger'[i]) = Len(ledger[i]) + 1
      /\ ledger'[i][Len(ledger[i]) + 1] = MovementOf(w, l)
  BY LedgerGrows
<1>6. Len(ledger[i]) + 1 \in 1..Len(ledger'[i])
  BY <1>5
<1> QED
  BY <1>4, <1>5, <1>6 DEF Charged

\* The row locks keep another request's lines free of the keys committed now.
LEMMA OthersInOrder ==
  ASSUME IInv, NEW w \in Workers, Commit(w), NEW v \in Workers \ {w}
  PROVE  RequestOK(v)'
<1>1. tx'[v] = tx[v] /\ tx[v] \in Request
  BY FinishFrame DEF IInv, TypeOK, Commit
<1>2. RequestOK(v)
  BY DEF IInv
<1>3. tx[v].lines \in Seq(Line) /\ tx[v].wrote \subseteq 1..Len(tx[v].lines)
  BY <1>1, <1>2 DEF Request, RequestOK, Shape
<1>4. \A k \in 1..Len(tx[v].lines) : tx[v].lines[k].item \in Items
  <2>1. \A k \in 1..Len(tx[v].lines) : tx[v].lines[k] \in Line
    BY <1>3
  <2> QED
    BY <2>1 DEF Line
<1>5. Shape(v)' /\ NonNegative(v)'
  <2>1. Shape(v)'
    BY <1>1, <1>2 DEF RequestOK, Shape
  <2>2. NonNegative(v)'
    BY <1>1, <1>2 DEF RequestOK, NonNegative, After
  <2> QED
    BY <2>1, <2>2
<1>6. WritesOnce(v)'
  <2>1. \A i : Holds(v, i)' <=> Holds(v, i)
    BY <1>1 DEF Holds
  <2>2. Current(v)' = Current(v)
    BY <1>1 DEF Current
  <2>3. WritesOnce(v)
    BY <1>2 DEF RequestOK
  <2> QED
    BY <1>1, <2>1, <2>2, <2>3 DEF WritesOnce
<1>7. Fresh(v)'
  <2>1. ASSUME NEW k \in tx[v].wrote
        PROVE  ledger'[tx[v].lines[k].item] = ledger[tx[v].lines[k].item]
    <3>1. tx[v].lines[k].item \in Items
      BY <1>3, <1>4
    <3>2. Holds(v, tx[v].lines[k].item)
      BY DEF Holds
    <3>3. ~Holds(w, tx[v].lines[k].item)
      BY <3>1, <3>2 DEF IInv, LocksExclusive
    <3> QED
      BY <3>1, <3>3, CommitRows
  <2>2. ASSUME NEW k \in tx'[v].wrote
        PROVE  ~Charged(tx[v].source, tx[v].lines[k].item, tx[v].lines[k].type)'
    <3>1. ~Charged(tx[v].source, tx[v].lines[k].item, tx[v].lines[k].type)
      BY <1>1, <1>2 DEF RequestOK, Fresh
    <3>2. ledger'[tx[v].lines[k].item] = ledger[tx[v].lines[k].item]
      BY <1>1, <2>1
    <3> QED
      BY <1>1, <3>1, <3>2 DEF Charged
  <2> QED
    BY <2>2 DEF Fresh
<1>8. Covered(v)'
  <2>1. SUFFICES ASSUME tx[v].source # NoSource,
                        NEW k \in 1..Len(tx[v].lines), k < tx[v].at
                 PROVE  \/ Charged(tx[v].source, tx[v].lines[k].item, tx[v].lines[k].type)'
                        \/ Holds(v, tx[v].lines[k].item)'
    BY <1>1 DEF Covered
  <2>2. CASE Holds(v, tx[v].lines[k].item)
    BY <1>1, <2>2 DEF Holds
  <2>3. CASE Charged(tx[v].source, tx[v].lines[k].item, tx[v].lines[k].type)
    <3> DEFINE s == tx[v].source
               i == tx[v].lines[k].item
               t == tx[v].lines[k].type
    <3>1. i \in Items
      BY <1>4
    <3>2. PICK n \in 1..Len(ledger[i]) : ledger[i][n].source = s /\ ledger[i][n].type = t
      BY <2>3 DEF Charged
    <3>3. n \in 1..Len(ledger'[i]) /\ ledger'[i][n] = ledger[i][n]
      BY <3>1, <3>2, LedgerGrows
    <3> QED
      BY <1>1, <2>1, <3>2, <3>3 DEF Charged
  <2> QED
    BY <1>2, <2>1, <2>2, <2>3 DEF RequestOK, Covered
<1> QED
  BY <1>5, <1>6, <1>7, <1>8 DEF RequestOK

\* A committed movement either was there or is the one this commit appended.
LEMMA OldOrNew ==
  ASSUME IInv, NEW w \in Workers, Commit(w), NEW i \in Items, NEW n \in 1..Len(ledger'[i])
  PROVE  \/ /\ n \in 1..Len(ledger[i])
            /\ ledger'[i][n] = ledger[i][n]
         \/ /\ n = Len(ledger[i]) + 1
            /\ Holds(w, i)
            /\ ledger'[i][n] = MovementOf(w, WrittenLine(w, i))
<1>1. /\ Len(ledger[i]) \in Nat
      /\ Len(ledger'[i]) \in {Len(ledger[i]), Len(ledger[i]) + 1}
      /\ Len(ledger'[i]) = Len(ledger[i]) + 1 =>
           Holds(w, i) /\ ledger'[i][Len(ledger[i]) + 1] = MovementOf(w, WrittenLine(w, i))
      /\ \A m \in 1..Len(ledger[i]) : ledger'[i][m] = ledger[i][m]
  BY LedgerGrows
<1>2. CASE n \in 1..Len(ledger[i])
  BY <1>1, <1>2
<1>3. CASE n \notin 1..Len(ledger[i])
  <2>1. n = Len(ledger[i]) + 1 /\ Len(ledger'[i]) = Len(ledger[i]) + 1
    BY <1>1, <1>3
  <2> QED
    BY <1>1, <2>1
<1> QED
  BY <1>2, <1>3

\* The movement a commit appends has a key no committed movement has.
LEMMA CommitOnce ==
  ASSUME IInv, NEW w \in Workers, Commit(w)
  PROVE  AtMostOncePerSource'
<1> SUFFICES ASSUME NEW i \in Items,
                    NEW m \in 1..Len(ledger'[i]), NEW n \in 1..Len(ledger'[i]),
                    ledger'[i][m].source = ledger'[i][n].source,
                    ledger'[i][m].type = ledger'[i][n].type,
                    ledger'[i][m].source # NoSource
             PROVE  m = n
  BY DEF AtMostOncePerSource
<1> DEFINE l == WrittenLine(w, i)
           old == 1..Len(ledger[i])
<1>1. ASSUME NEW p \in old, Holds(w, i),
             ledger[i][p].source = MovementOf(w, l).source,
             ledger[i][p].type = MovementOf(w, l).type,
             ledger[i][p].source # NoSource
      PROVE  FALSE
  <2>1. l \in tx[w].wrote /\ tx[w].lines[l].item = i
    BY <1>1, WrittenMovement DEF Commit
  <2>2. ~Charged(tx[w].source, i, tx[w].lines[l].type)
    BY <2>1 DEF IInv, RequestOK, Fresh
  <2>3. MovementOf(w, l).source = tx[w].source /\ MovementOf(w, l).type = tx[w].lines[l].type
    BY DEF MovementOf
  <2> QED
    BY <1>1, <2>2, <2>3 DEF Charged
<1>2. CASE m \in old /\ n \in old
  <2>1. ledger'[i][m] = ledger[i][m] /\ ledger'[i][n] = ledger[i][n]
    BY <1>2, LedgerGrows
  <2> QED
    BY <1>2, <2>1 DEF IInv, AtMostOncePerSource
<1>3. CASE m \in old /\ n \notin old
  BY <1>1, <1>3, OldOrNew
<1>4. CASE m \notin old /\ n \in old
  BY <1>1, <1>4, OldOrNew
<1>5. CASE m \notin old /\ n \notin old
  BY <1>5, OldOrNew
<1> QED
  BY <1>2, <1>3, <1>4, <1>5

\* The jobs recorded before stay charged, and the one recorded now has passed all
\* its lines.
LEMMA CommitCharges ==
  ASSUME IInv, NEW w \in Workers, Commit(w)
  PROVE  RecordedIsCharged'
<1> SUFFICES ASSUME NEW j \in recorded', NEW k \in 1..Len(j.lines)
             PROVE  Charged(j.source, j.lines[k].item, j.lines[k].type)'
  BY DEF RecordedIsCharged
<1> DEFINE me == [source |-> tx[w].source, lines |-> tx[w].lines]
<1>1. /\ recorded' = IF tx[w].source = NoSource THEN recorded ELSE recorded \cup {me}
      /\ tx[w].pc = "commit"
  BY DEF Commit
<1>2. recorded \subseteq Jobs
  BY DEF IInv, TypeOK
<1>3. tx[w].source # NoSource => me \in Jobs
  BY DEF IInv, RequestOK, Shape
<1>4. j \in Jobs
  BY <1>1, <1>2, <1>3
<1>5. /\ j.lines[k].item \in Items
      /\ j.lines[k].type = "CONSUMPTION"
  <2>1. j.lines \in Seq(Line) /\ j.lines[k].type = "CONSUMPTION"
    BY <1>4, JobAssumption
  <2>2. j.lines[k] \in Line
    BY <2>1
  <2> QED
    BY <2>1, <2>2 DEF Line
<1>6. CASE j \in recorded
  <2>1. Charged(j.source, j.lines[k].item, j.lines[k].type)
    BY <1>6 DEF IInv, RecordedIsCharged
  <2> QED
    BY <1>5, <2>1, ChargedStays
<1>7. CASE j \notin recorded
  <2>1. j = me /\ tx[w].source # NoSource
    BY <1>1, <1>7
  <2>2. Len(tx[w].lines) \in Nat /\ tx[w].at \in Nat
    BY DEF IInv, TypeOK, Request
  <2>3. tx[w].at > Len(tx[w].lines)
    BY <1>1 DEF IInv, RequestOK, Shape
  <2>4. k \in 1..Len(tx[w].lines) /\ k < tx[w].at
    BY <2>1, <2>2, <2>3
  <2>5. \/ Charged(tx[w].source, tx[w].lines[k].item, tx[w].lines[k].type)
        \/ Holds(w, tx[w].lines[k].item)
    BY <2>1, <2>4 DEF IInv, RequestOK, Covered
  <2>6. j.source = tx[w].source /\ j.lines = tx[w].lines
    BY <2>1
  <2>7. CASE Charged(j.source, j.lines[k].item, j.lines[k].type)
    BY <1>5, <2>7, ChargedStays
  <2>8. CASE Holds(w, j.lines[k].item)
    BY <1>5, <2>1, <2>6, <2>8, WrittenIsCharged
  <2> QED
    BY <2>5, <2>6, <2>7, <2>8
<1> QED
  BY <1>6, <1>7

\* A movement with a source is committed together with the job it serves.
LEMMA CommitRecords ==
  ASSUME IInv, NEW w \in Workers, Commit(w)
  PROVE  ChargedIsRecorded'
<1> SUFFICES ASSUME NEW i \in Items, NEW n \in 1..Len(ledger'[i]),
                    ledger'[i][n].source # NoSource
             PROVE  \E j \in recorded' :
                      /\ j.source = ledger'[i][n].source
                      /\ \E k \in 1..Len(j.lines) :
                           /\ j.lines[k].item = i
                           /\ j.lines[k].delta = ledger'[i][n].delta
  BY DEF ChargedIsRecorded
<1> DEFINE me == [source |-> tx[w].source, lines |-> tx[w].lines]
           l == WrittenLine(w, i)
<1>1. recorded' = IF tx[w].source = NoSource THEN recorded ELSE recorded \cup {me}
  BY DEF Commit
<1>2. CASE n \in 1..Len(ledger[i])
  <2>1. ledger'[i][n] = ledger[i][n]
    BY <1>2, LedgerGrows
  <2>2. PICK j \in recorded : /\ j.source = ledger[i][n].source
                              /\ \E k \in 1..Len(j.lines) :
                                   /\ j.lines[k].item = i
                                   /\ j.lines[k].delta = ledger[i][n].delta
    BY <1>2, <2>1 DEF IInv, ChargedIsRecorded
  <2>3. j \in recorded'
    BY <1>1
  <2> QED
    BY <2>1, <2>2, <2>3
<1>3. CASE n \notin 1..Len(ledger[i])
  <2>1. Holds(w, i) /\ ledger'[i][n] = MovementOf(w, l)
    BY <1>3, OldOrNew
  <2>2. l \in 1..Len(tx[w].lines) /\ tx[w].lines[l].item = i
    BY <2>1, WrittenMovement DEF Commit
  <2>3. /\ ledger'[i][n].source = tx[w].source
        /\ ledger'[i][n].delta = tx[w].lines[l].delta
    BY <2>1 DEF MovementOf
  <2>4. me \in recorded'
    BY <1>1, <2>3
  <2>5. me.source = tx[w].source /\ me.lines = tx[w].lines
    OBVIOUS
  <2> HIDE DEF l, me
  <2> QED
    BY <2>2, <2>3, <2>4, <2>5
<1> QED
  BY <1>2, <1>3

\* A commit leaves the invariant: its parts are the lemmas above.
LEMMA CommitInvariant ==
  ASSUME IInv, NEW w \in Workers, Commit(w)
  PROVE  IInv'
<1>1. /\ tx'[w] = Idle
      /\ \A v \in Workers \ {w} : tx'[v] = tx[v]
      /\ tx' \in [Workers -> Request]
  BY FinishFrame DEF IInv, Commit
<1>2. RequestOK(w)' /\ \A i \in Items : ~Holds(w, i)'
  BY <1>1, IdleOK
<1>3. \A v \in Workers : RequestOK(v)'
  BY <1>2, OthersInOrder
<1>4. LocksExclusive'
  BY <1>1, <1>2, LocksGiven DEF IInv
<1>5. TypeOK'
  <2>1. quantity' \in [Items -> Nat] /\ ledger' \in [Items -> Seq(Movement)]
    BY CommitRows
  <2>2. tx[w].source # NoSource => [source |-> tx[w].source, lines |-> tx[w].lines] \in Jobs
    BY DEF IInv, RequestOK, Shape
  <2>3. recorded' \subseteq Jobs
    BY <2>2 DEF Commit, IInv, TypeOK
  <2>4. shelf' \in [Items -> {"absent", "active", "archived"}]
    BY DEF Commit, IInv, TypeOK
  <2> QED
    BY <1>1, <2>1, <2>3, <2>4 DEF TypeOK
<1> QED
  BY <1>3, <1>4, <1>5, CommitOnce, CommitCharges, CommitRecords DEF IInv
----------------------------------------------------------------------------
\* Every step leaves the invariant, one lemma per kind of step.
LEMMA NextInvariant == IInv /\ [Next]_vars => IInv'
<1> SUFFICES ASSUME IInv, [Next]_vars PROVE IInv'
  OBVIOUS
<1>1. ASSUME NEW i \in Items, CreateItem(i) \/ ArchiveItem(i) PROVE IInv'
  BY <1>1, ItemInvariant
<1>2. ASSUME NEW w \in Workers, Start(w) PROVE IInv'
  BY <1>2, StartInvariant
<1>3. ASSUME NEW w \in Workers, SkipExisting(w) \/ UniqueViolation(w) PROVE IInv'
  BY <1>3, PassedInvariant
<1>4. ASSUME NEW w \in Workers, Reject(w) \/ DeadlockVictim(w) \/ Abort(w) PROVE IInv'
  BY <1>4, RollbackInvariant DEF Reject, DeadlockVictim, Abort
<1>5. ASSUME NEW w \in Workers, PassCheck(w) PROVE IInv'
  BY <1>5, PassCheckInvariant
<1>6. ASSUME NEW w \in Workers, WriteLine(w) PROVE IInv'
  BY <1>6, WriteLineInvariant
<1>7. ASSUME NEW w \in Workers, SaveEdit(w) PROVE IInv'
  BY <1>7, SaveEditInvariant
<1>8. ASSUME NEW w \in Workers, Commit(w) PROVE IInv'
  BY <1>8, CommitInvariant
<1>9. CASE UNCHANGED vars
  <2>1. UNCHANGED <<quantity, shelf, ledger, recorded, tx>>
    BY <1>9 DEF vars
  <2>2. \A w \in Workers : RequestOK(w)'
    BY <2>1, Unmoved DEF IInv
  <2>3. TypeOK' /\ LocksExclusive'
    BY <2>1 DEF IInv, TypeOK, LocksExclusive, Holds
  <2>4. AtMostOncePerSource' /\ RecordedIsCharged' /\ ChargedIsRecorded'
    BY <2>1, CommittedUnmoved DEF IInv
  <2> QED
    BY <2>2, <2>3, <2>4 DEF IInv
<1> QED
  BY <1>1, <1>2, <1>3, <1>4, <1>5, <1>6, <1>7, <1>8, <1>9 DEF Next, Step, LockedStep

\* Every reachable state satisfies the inductive invariant.
THEOREM Invariance == Spec => []IInv
BY InitInvariant, NextInvariant, PTL DEF Spec

\* No committed quantity is ever negative, whatever requests race: apply_movement()
\* checks the sum before it writes it, and writes that sum.
THEOREM TypeCorrect == Spec => []TypeOK
<1>1. IInv => TypeOK
  BY DEF IInv
<1> QED
  BY <1>1, Invariance, PTL

\* apply_movement_idempotent() and the unique constraint, for any number of
\* threads, bags and retries: a source charges an item at most once, a committed
\* bag or validated entry is charged for all its material, and a request that was
\* rolled back charges nothing.
THEOREM ChargesExact == Spec => []ChargedExactly
<1>1. IInv => ChargedExactly
  BY DEF IInv, ChargedExactly
<1> QED
  BY <1>1, Invariance, PTL
----------------------------------------------------------------------------
\* Of an item that was not crossed, the newest movement tells the quantity, and so
\* does what an edit in progress will write over it.
Tells(i) ==
  /\ Explained(i)
  /\ \A w \in Workers : tx[w].pc = "edit" /\ Current(w).item = i =>
       tx[w].seen[i] = quantity[i]

TellsUnlessCrossed == \A i \in Items \ crossed : Tells(i)

\* A step that leaves an item's rows alone, and starts no edit of it but with the
\* quantity of the moment, keeps what they tell.
LEMMA TellsOn ==
  ASSUME NEW i \in Items, Tells(i), quantity'[i] = quantity[i], ledger'[i] = ledger[i],
         \A w \in Workers : (tx[w].pc = "edit" /\ Current(w).item = i)' =>
           \/ tx'[w].seen[i] = quantity[i]
           \/ tx'[w] = tx[w]
  PROVE  Tells(i)'
<1>1. Explained(i)'
  BY DEF Tells, Explained
<1>2. ASSUME NEW w \in Workers, (tx[w].pc = "edit" /\ Current(w).item = i)'
      PROVE  tx'[w].seen[i] = quantity'[i]
  BY <1>2 DEF Tells, Current
<1> QED
  BY <1>1, <1>2 DEF Tells

\* Only a commit changes the ledger.
LEMMA LedgerOnlyByCommit ==
  ASSUME [Next]_vars, \A w \in Workers : ~Commit(w)
  PROVE  ledger' = ledger
<1>1. ASSUME NEW w \in Workers, Start(w) PROVE ledger' = ledger
  BY <1>1 DEF Start, LoadMove, LoadJob, LoadEdit, Load
<1>2. ASSUME NEW w \in Workers, Step(w) \/ Abort(w) PROVE ledger' = ledger
  BY <1>2 DEF Step, LockedStep, SkipExisting, Reject, PassCheck, DeadlockVictim, Abort,
              Rollback, SaveEdit, WriteLine, UniqueViolation
<1>3. ASSUME NEW i \in Items, CreateItem(i) \/ ArchiveItem(i) PROVE ledger' = ledger
  BY <1>3 DEF CreateItem, ArchiveItem
<1> QED
  BY <1>1, <1>2, <1>3 DEF Next, vars

\* Every step but a commit leaves the ledger alone; so do the quantities, or an
\* edit writes what its item's newest movement tells, unless it was crossed.
LEMMA TellsButCommit ==
  ASSUME IInv, NEW i \in Items, Tells(i), [Next]_vars, \A w \in Workers : ~Commit(w)
  PROVE  Tells(i)' /\ ledger' = ledger
<1>1. ASSUME NEW j \in Items, CreateItem(j) \/ ArchiveItem(j)
      PROVE  UNCHANGED <<quantity, ledger, tx>>
  BY <1>1 DEF CreateItem, ArchiveItem
<1>2. ASSUME NEW w \in Workers, NEW source, NEW lines, NEW pc, Load(w, source, lines, pc),
             pc = "edit" => Len(lines) = 1
      PROVE  Tells(i)' /\ ledger' = ledger
  <2>1. /\ quantity' = quantity /\ ledger' = ledger
        /\ tx'[w] = [pc |-> pc, source |-> source, lines |-> lines, at |-> 1,
                     seen |-> SeenBy(lines), wrote |-> {}]
        /\ \A v \in Workers \ {w} : tx'[v] = tx[v]
    BY <1>2 DEF Load, IInv, TypeOK
  <2>2. ASSUME pc = "edit", lines[1].item = i PROVE SeenBy(lines)[i] = quantity[i]
    <3>1. Len(lines) = 1
      BY <1>2, <2>2
    <3>2. 1 \in 1..Len(lines)
      BY <3>1
    <3> QED
      BY <2>2, <3>2 DEF SeenBy
  <2>3. (tx[w].pc = "edit" /\ Current(w).item = i)' => tx'[w].seen[i] = quantity[i]
    BY <2>1, <2>2 DEF Current
  <2> QED
    BY <2>1, <2>3, TellsOn
<1>3. ASSUME NEW w \in Workers, Start(w)
      PROVE  Tells(i)' /\ ledger' = ledger
  <2>1. ASSUME NEW m \in ManualMoves, LoadMove(w, m) PROVE Tells(i)' /\ ledger' = ledger
    BY <1>2, <2>1 DEF LoadMove
  <2>2. ASSUME NEW j \in Jobs, LoadJob(w, j) PROVE Tells(i)' /\ ledger' = ledger
    <3>1. PcAfter(j.lines, 0) # "edit"
      BY DEF PcAfter
    <3>2. Load(w, j.source, j.lines, PcAfter(j.lines, 0))
      BY <2>2 DEF LoadJob
    <3> QED
      BY <1>2, <3>1, <3>2
  <2>3. ASSUME NEW j \in Items, LoadEdit(w, j) PROVE Tells(i)' /\ ledger' = ledger
    <3> DEFINE lines == <<[item |-> j, type |-> "EDIT", delta |-> 0]>>
    <3>1. Len(lines) = 1
      OBVIOUS
    <3>2. Load(w, NoSource, lines, "edit")
      BY <2>3 DEF LoadEdit
    <3> HIDE DEF lines
    <3> QED
      BY <1>2, <3>1, <3>2
  <2> QED
    BY <1>3, <2>1, <2>2, <2>3 DEF Start
<1>4. ASSUME NEW w \in Workers, UNCHANGED <<quantity, ledger>>, tx'[w].pc # "edit",
             \A v \in Workers \ {w} : tx'[v] = tx[v]
      PROVE  Tells(i)'
  BY <1>4, TellsOn
<1>5. ASSUME NEW w \in Workers, SkipExisting(w) \/ UniqueViolation(w) \/ WriteLine(w)
      PROVE  Tells(i)' /\ ledger' = ledger
  <2>1. PICK S \in SUBSET Nat : StepPast(w, S) /\ UNCHANGED <<quantity, ledger>>
    BY <1>5, AtLine DEF SkipExisting, UniqueViolation, WriteLine
  <2>2. tx'[w].pc # "edit" /\ \A v \in Workers \ {w} : tx'[v] = tx[v]
    BY <2>1, StepPastFrame DEF PcAfter, IInv
  <2> QED
    BY <1>4, <2>1, <2>2
<1>6. ASSUME NEW w \in Workers, PassCheck(w) PROVE Tells(i)' /\ ledger' = ledger
  BY <1>4, <1>6 DEF PassCheck, IInv, TypeOK, Request
<1>7. ASSUME NEW w \in Workers, Finish(w)
      PROVE  tx'[w].pc # "edit" /\ \A v \in Workers \ {w} : tx'[v] = tx[v]
  BY <1>7, FinishFrame DEF IInv, Idle
<1>8. ASSUME NEW w \in Workers, Reject(w) \/ DeadlockVictim(w) \/ Abort(w)
      PROVE  Tells(i)' /\ ledger' = ledger
  <2>1. Finish(w) /\ UNCHANGED <<quantity, ledger>>
    BY <1>8 DEF Reject, DeadlockVictim, Abort, Rollback
  <2> QED
    BY <1>4, <1>7, <2>1
<1>9. ASSUME NEW w \in Workers, SaveEdit(w) PROVE Tells(i)' /\ ledger' = ledger
  <2>1. /\ tx[w].pc = "edit" /\ Finish(w) /\ ledger' = ledger
        /\ quantity' = [quantity EXCEPT ![Current(w).item] = tx[w].seen[Current(w).item]]
    BY <1>9 DEF SaveEdit
  <2>2. quantity'[i] = quantity[i]
    BY <2>1 DEF Tells, IInv, TypeOK
  <2>3. ledger'[i] = ledger[i]
    BY <2>1
  <2> QED
    BY <1>7, <2>1, <2>2, <2>3, TellsOn
<1>10. CASE UNCHANGED vars
  BY <1>10, TellsOn DEF vars
<1> QED
  <2>1. ASSUME UNCHANGED <<quantity, ledger, tx>> PROVE Tells(i)' /\ ledger' = ledger
    BY <2>1, TellsOn
  <2> QED
    BY <1>1, <1>3, <1>5, <1>6, <1>8, <1>9, <1>10, <2>1 DEF Next, Step, LockedStep

\* A commit writes the quantity its movement quotes, and leaves the other items alone.
LEMMA CommitExplains ==
  ASSUME IInv, NEW w \in Workers, Commit(w), NEW i \in Items
  PROVE  IF Holds(w, i) THEN ledger'[i] # ledger[i] /\ Explained(i)'
                        ELSE UNCHANGED <<quantity[i], ledger[i]>> /\ (Explained(i) => Explained(i)')
<1>1. CASE Holds(w, i)
  <2>1. /\ Len(ledger[i]) \in Nat
        /\ Len(ledger'[i]) = Len(ledger[i]) + 1
        /\ ledger'[i][Len(ledger[i]) + 1] = MovementOf(w, WrittenLine(w, i))
    BY <1>1, LedgerGrows
  <2>2. ledger'[i] # << >> /\ ledger'[i] # ledger[i]
    BY <2>1
  <2>3. quantity'[i] = MovementOf(w, WrittenLine(w, i)).after
    BY <1>1, CommitRows DEF MovementOf
  <2> QED
    BY <1>1, <2>1, <2>2, <2>3 DEF Explained
<1>2. CASE ~Holds(w, i)
  BY <1>2, CommitRows DEF Explained
<1> QED
  BY <1>1, <1>2

\* So a commit makes the ledger tell the quantity of the items it moves that nobody edits.
LEMMA TellsAfterCommit ==
  ASSUME IInv, NEW w \in Workers, Commit(w), NEW i \in Items
  PROVE  IF Holds(w, i) THEN ledger'[i] # ledger[i] /\ (~Editing(i) => Tells(i)')
                        ELSE ledger'[i] = ledger[i] /\ (Tells(i) => Tells(i)')
<1>1. tx'[w].pc # "edit" /\ \A v \in Workers \ {w} : tx'[v] = tx[v]
  BY FinishFrame DEF Commit, IInv, Idle
<1>2. CASE Holds(w, i)
  <2>1. ASSUME ~Editing(i), NEW v \in Workers PROVE ~(tx[v].pc = "edit" /\ Current(v).item = i)'
    BY <1>1, <2>1 DEF Editing, Current
  <2> QED
    BY <1>2, <2>1, CommitExplains DEF Tells
<1>3. CASE ~Holds(w, i)
  BY <1>1, <1>3, CommitExplains, TellsOn
<1> QED
  BY <1>2, <1>3

\* The quantity of every item is the quantity_after of its newest movement, whatever
\* movements, bags, validations, edits and failures race, unless that movement was
\* committed while the item was being edited: the chokepoint claim of
\* apply_movement() is broken by the item's own update endpoint and by nothing else.
THEOREM LedgerExplainsQuantity == HistorySpec => []ExplainedUnlessCrossed
<1> DEFINE J == IInv /\ TellsUnlessCrossed
<1>1. HistoryInit => J
  <2> SUFFICES ASSUME HistoryInit PROVE J
    OBVIOUS
  <2>1. TellsUnlessCrossed
    BY DEF HistoryInit, Init, Idle, TellsUnlessCrossed, Tells, Explained
  <2> QED
    BY <2>1, InitInvariant DEF HistoryInit
<1>2. J /\ [HistoryNext]_histvars => J'
  <2> SUFFICES ASSUME J, [HistoryNext]_histvars PROVE J'
    OBVIOUS
  <2>1. [Next]_vars
    BY DEF HistoryNext, histvars, vars
  <2>2. IInv'
    BY <2>1, NextInvariant
  <2>3. ASSUME NEW i \in Items, i \notin crossed' PROVE Tells(i)'
    <3>1. ledger'[i] = ledger[i] => i \notin crossed
      BY <2>3 DEF HistoryNext, histvars
    <3>2. ledger'[i] # ledger[i] => ~Editing(i)
      BY <2>3 DEF HistoryNext, histvars, vars
    <3>3. CASE \E w \in Workers : Commit(w)
      BY <3>1, <3>2, <3>3, TellsAfterCommit DEF TellsUnlessCrossed
    <3>4. CASE (\A w \in Workers : ~Commit(w)) /\ i \notin crossed
      BY <2>1, <3>4, TellsButCommit DEF TellsUnlessCrossed
    <3>5. CASE (\A w \in Workers : ~Commit(w)) /\ i \in crossed
      BY <2>1, <3>1, <3>5, LedgerOnlyByCommit
    <3> QED
      BY <3>3, <3>4, <3>5
  <2> QED
    BY <2>2, <2>3 DEF TellsUnlessCrossed
<1>3. J => ExplainedUnlessCrossed
  BY DEF TellsUnlessCrossed, Tells, ExplainedUnlessCrossed
<1> QED
  BY <1>1, <1>2, <1>3, PTL DEF HistorySpec
----------------------------------------------------------------------------
(***************************************************************************)
(* The ledger implements ConsumeOnce.  IInv says that a source charges an  *)
(* item once; the promise also says WHICH of a job's lines it is charged   *)
(* for.  Two more invariants tell: automatic movements are all             *)
(* consumptions, so the key of the constraint is the source and the item;  *)
(* and a job that holds an item holds it for its first line on that item.  *)
(***************************************************************************)
AutoConsumes ==
  \A i \in Items : \A n \in 1..Len(ledger[i]) :
    ledger[i][n].source # NoSource => ledger[i][n].type = "CONSUMPTION"

\* A line a job has passed was charged to its source before, or an earlier or
\* the same line has written the item.
PassedInOrder(w) ==
  tx[w].source # NoSource =>
    \A k \in 1..Len(tx[w].lines) : k < tx[w].at =>
      \/ Charged(tx[w].source, tx[w].lines[k].item, tx[w].lines[k].type)
      \/ \E m \in tx[w].wrote : m <= k /\ tx[w].lines[m].item = tx[w].lines[k].item

RInv ==
  /\ IInv
  /\ AutoConsumes
  /\ \A w \in Workers : PassedInOrder(w)
----------------------------------------------------------------------------
\* What a request has written are lines it has passed.
LEMMA WroteBehind ==
  ASSUME IInv, NEW w \in Workers, NEW m \in tx[w].wrote
  PROVE  m \in 1..Len(tx[w].lines) /\ m \in Nat /\ m < tx[w].at
<1>1. Shape(w) /\ tx[w] \in Request
  BY DEF IInv, RequestOK, TypeOK
<1> QED
  BY <1>1 DEF Shape, Request

\* A request still passed its lines in order when neither it nor the ledger
\* changed.
LEMMA OrderUnmoved ==
  ASSUME NEW w, PassedInOrder(w), tx'[w] = tx[w], ledger' = ledger
  PROVE  PassedInOrder(w)'
BY DEF PassedInOrder, Charged

\* A request that has passed no line has passed them in order.
LEMMA OrderAtStart ==
  ASSUME NEW w, tx'[w].at = 1
  PROVE  PassedInOrder(w)'
<1>1. ASSUME NEW k \in 1..Len(tx'[w].lines) PROVE ~(k < tx'[w].at)
  BY <1>1
<1> QED
  BY <1>1 DEF PassedInOrder

\* A request that passes its line has either written it or found its movement.
LEMMA OrderPassed ==
  ASSUME RInv, NEW w \in Workers, NEW S \in SUBSET {tx[w].at},
         tx[w].pc \in {"check", "write"}, StepPast(w, S), ledger' = ledger,
         \/ tx[w].at \in S
         \/ tx[w].source # NoSource =>
              \/ Charged(tx[w].source, Current(w).item, Current(w).type)
              \/ Holds(w, Current(w).item)
  PROVE  PassedInOrder(w)'
<1> DEFINE a == tx[w].at
<1>1. a \in 1..Len(tx[w].lines) /\ Len(tx[w].lines) \in Nat
  BY AtLine DEF RInv
<1>2. S \in SUBSET Nat
  BY <1>1
<1>3. /\ tx'[w].at = a + 1
      /\ tx'[w].wrote = tx[w].wrote \cup S
      /\ tx'[w].lines = tx[w].lines
      /\ tx'[w].source = tx[w].source
  BY <1>2, StepPastFrame DEF RInv, IInv
<1> SUFFICES ASSUME tx[w].source # NoSource,
                    NEW k \in 1..Len(tx[w].lines), k < a + 1,
                    ~Charged(tx[w].source, tx[w].lines[k].item, tx[w].lines[k].type)
             PROVE  \E m \in tx[w].wrote \cup S :
                      m <= k /\ tx[w].lines[m].item = tx[w].lines[k].item
  <2>1. ledger' = ledger
    OBVIOUS
  <2> QED
    BY <1>3, <2>1 DEF PassedInOrder, Charged
<1>4. CASE k < a
  BY <1>4 DEF RInv, PassedInOrder
<1>5. CASE k = a
  <2>1. CASE a \in S
    BY <1>1, <1>5, <2>1
  <2>2. CASE Holds(w, Current(w).item)
    <3>1. PICK m \in tx[w].wrote : tx[w].lines[m].item = tx[w].lines[a].item
      BY <2>2 DEF Holds, Current
    <3>2. m \in Nat /\ m < a
      BY <1>1, WroteBehind DEF RInv
    <3> QED
      BY <1>1, <1>5, <3>1, <3>2
  <2> QED
    BY <1>5, <2>1, <2>2 DEF Current
<1> QED
  BY <1>1, <1>4, <1>5
----------------------------------------------------------------------------
\* A movement with a source that a commit adds is a consumption.
LEMMA CommitConsumes ==
  ASSUME RInv, NEW w \in Workers, Commit(w)
  PROVE  AutoConsumes'
<1> SUFFICES ASSUME NEW i \in Items, NEW n \in 1..Len(ledger'[i]),
                    ledger'[i][n].source # NoSource
             PROVE  ledger'[i][n].type = "CONSUMPTION"
  BY DEF AutoConsumes
<1> DEFINE l == WrittenLine(w, i)
<1>1. CASE n \in 1..Len(ledger[i]) /\ ledger'[i][n] = ledger[i][n]
  BY <1>1 DEF RInv, AutoConsumes
<1>2. CASE Holds(w, i) /\ ledger'[i][n] = MovementOf(w, l)
  <2>1. l \in 1..Len(tx[w].lines)
    BY <1>2, WrittenMovement DEF Commit, RInv
  <2>2. tx[w].source # NoSource
    BY <1>2 DEF MovementOf
  <2>3. [source |-> tx[w].source, lines |-> tx[w].lines] \in Jobs
    BY <2>2 DEF RInv, IInv, RequestOK, Shape
  <2>4. tx[w].lines[l].type = "CONSUMPTION"
    <3>1. \A j \in Jobs : \A m \in 1..Len(j.lines) : j.lines[m].type = "CONSUMPTION"
      BY JobAssumption
    <3> QED
      BY <2>1, <2>3, <3>1
  <2> QED
    BY <1>2, <2>4 DEF MovementOf
<1> QED
  BY <1>1, <1>2, OldOrNew DEF RInv

\* A commit by another request charges more, so what was passed in order still is.
LEMMA OrderOfOthers ==
  ASSUME RInv, NEW w \in Workers, Commit(w), NEW v \in Workers \ {w}
  PROVE  PassedInOrder(v)'
<1>1. tx'[v] = tx[v] /\ tx[v] \in Request
  BY FinishFrame DEF RInv, IInv, TypeOK, Commit
<1>2. \A k \in 1..Len(tx[v].lines) : tx[v].lines[k].item \in Items
  <2>1. \A k \in 1..Len(tx[v].lines) : tx[v].lines[k] \in Line
    BY <1>1 DEF Request
  <2> QED
    BY <2>1 DEF Line
<1> SUFFICES ASSUME tx[v].source # NoSource,
                    NEW k \in 1..Len(tx[v].lines), k < tx[v].at
             PROVE  \/ Charged(tx[v].source, tx[v].lines[k].item, tx[v].lines[k].type)'
                    \/ \E m \in tx[v].wrote :
                         m <= k /\ tx[v].lines[m].item = tx[v].lines[k].item
  BY <1>1 DEF PassedInOrder
<1>3. \/ Charged(tx[v].source, tx[v].lines[k].item, tx[v].lines[k].type)
      \/ \E m \in tx[v].wrote : m <= k /\ tx[v].lines[m].item = tx[v].lines[k].item
  BY DEF RInv, PassedInOrder
<1>4. ASSUME Charged(tx[v].source, tx[v].lines[k].item, tx[v].lines[k].type)
      PROVE  Charged(tx[v].source, tx[v].lines[k].item, tx[v].lines[k].type)'
  <2> DEFINE s == tx[v].source
             t == tx[v].lines[k].type
             i == tx[v].lines[k].item
  <2>1. PICK n \in 1..Len(ledger[i]) : ledger[i][n].source = s /\ ledger[i][n].type = t
    BY <1>4 DEF Charged
  <2>2. n \in 1..Len(ledger'[i]) /\ ledger'[i][n] = ledger[i][n]
    <3>1. /\ Len(ledger[i]) \in Nat
          /\ Len(ledger'[i]) \in {Len(ledger[i]), Len(ledger[i]) + 1}
          /\ \A m \in 1..Len(ledger[i]) : ledger'[i][m] = ledger[i][m]
      BY <1>2, LedgerGrows DEF RInv
    <3>2. PICK old, new \in Nat : old = Len(ledger[i]) /\ new = Len(ledger'[i]) /\ old <= new
      BY <3>1
    <3>3. n \in 1..old
      BY <2>1, <3>2
    <3>4. n \in 1..new
      BY <3>2, <3>3
    <3> QED
      BY <3>1, <3>2, <3>3, <3>4
  <2>3. ledger'[i][n].source = s /\ ledger'[i][n].type = t
    BY <2>1, <2>2
  <2>4. Charged(s, i, t)'
    BY <1>1, <2>2, <2>3 DEF Charged
  <2> QED
    BY <2>4
<1> QED
  BY <1>3, <1>4
----------------------------------------------------------------------------
LEMMA InitRefinementInvariant == Init => RInv
<1> SUFFICES ASSUME Init PROVE RInv
  OBVIOUS
<1>1. AutoConsumes
  BY DEF Init, AutoConsumes
<1>2. \A w \in Workers : PassedInOrder(w)
  BY DEF Init, Idle, PassedInOrder
<1> QED
  BY <1>1, <1>2, InitInvariant DEF RInv

LEMMA NextRefinementInvariant == RInv /\ [Next]_vars => RInv'
<1> SUFFICES ASSUME RInv, [Next]_vars PROVE RInv'
  OBVIOUS
<1>1. IInv'
  BY NextInvariant DEF RInv
<1>2. ASSUME ledger' = ledger PROVE AutoConsumes'
  BY <1>2 DEF RInv, AutoConsumes
<1>3. ASSUME ledger' = ledger, NEW w \in Workers, PassedInOrder(w)',
             \A v \in Workers \ {w} : tx'[v] = tx[v]
      PROVE  RInv'
  <2>1. \A v \in Workers : PassedInOrder(v)'
    BY <1>3, OrderUnmoved DEF RInv
  <2> QED
    BY <1>1, <1>2, <1>3, <2>1 DEF RInv
<1>4. ASSUME UNCHANGED <<ledger, tx>> PROVE RInv'
  <2>1. \A v \in Workers : PassedInOrder(v)'
    BY <1>4, OrderUnmoved DEF RInv
  <2> QED
    BY <1>1, <1>2, <1>4, <2>1 DEF RInv
<1>5. ASSUME NEW w \in Workers, Finish(w)
      PROVE  PassedInOrder(w)' /\ \A v \in Workers \ {w} : tx'[v] = tx[v]
  BY <1>5, FinishFrame, OrderAtStart DEF RInv, IInv, Idle
<1>6. ASSUME NEW i \in Items, CreateItem(i) \/ ArchiveItem(i) PROVE RInv'
  BY <1>4, <1>6 DEF CreateItem, ArchiveItem
<1>7. ASSUME NEW w \in Workers, Start(w) PROVE RInv'
  <2>1. ASSUME NEW source, NEW lines, NEW pc, Load(w, source, lines, pc) PROVE RInv'
    <3>1. tx'[w].at = 1 /\ \A v \in Workers \ {w} : tx'[v] = tx[v]
      BY <2>1 DEF Load, RInv, IInv, TypeOK
    <3> QED
      BY <1>3, <2>1, <3>1, OrderAtStart DEF Load
  <2> QED
    BY <1>7, <2>1 DEF Start, LoadMove, LoadJob, LoadEdit
<1>8. ASSUME NEW w \in Workers, SkipExisting(w) \/ UniqueViolation(w) PROVE RInv'
  <2>1. /\ tx[w].pc \in {"check", "write"}
        /\ StepPast(w, {})
        /\ ledger' = ledger
        /\ \/ Charged(tx[w].source, Current(w).item, Current(w).type)
           \/ Holds(w, Current(w).item)
    BY <1>8 DEF SkipExisting, UniqueViolation, Existing
  <2>2. {} \in SUBSET Nat
    OBVIOUS
  <2>3. \A v \in Workers \ {w} : tx'[v] = tx[v]
    BY <2>1, <2>2, StepPastFrame DEF RInv, IInv
  <2> QED
    BY <1>3, <2>1, <2>3, OrderPassed
<1>9. ASSUME NEW w \in Workers, WriteLine(w) PROVE RInv'
  <2>1. tx[w].pc = "write" /\ StepPast(w, {tx[w].at}) /\ ledger' = ledger
    BY <1>9 DEF WriteLine
  <2>2. {tx[w].at} \in SUBSET Nat
    BY <2>1, AtLine DEF RInv, Request
  <2>3. \A v \in Workers \ {w} : tx'[v] = tx[v]
    BY <2>1, <2>2, StepPastFrame DEF RInv, IInv
  <2> QED
    BY <1>3, <2>1, <2>3, OrderPassed
<1>10. ASSUME NEW w \in Workers, PassCheck(w) PROVE RInv'
  <2>1. ledger' = ledger /\ tx' = [tx EXCEPT ![w].pc = "write"] /\ tx[w] \in Request
    BY <1>10 DEF PassCheck, RInv, IInv, TypeOK
  <2>2. /\ tx'[w].source = tx[w].source
        /\ tx'[w].lines = tx[w].lines
        /\ tx'[w].at = tx[w].at
        /\ tx'[w].wrote = tx[w].wrote
        /\ \A v \in Workers \ {w} : tx'[v] = tx[v]
    BY <2>1 DEF RInv, IInv, TypeOK, Request
  <2>3. PassedInOrder(w)'
    <3>1. PassedInOrder(w)
      BY DEF RInv
    <3>2. \A s, i, t : Charged(s, i, t)' <=> Charged(s, i, t)
      BY <2>1, SameLedger
    <3> QED
      BY <2>2, <3>1, <3>2 DEF PassedInOrder
  <2> QED
    BY <1>3, <2>1, <2>2, <2>3
<1>11. ASSUME NEW w \in Workers,
              Reject(w) \/ DeadlockVictim(w) \/ Abort(w) \/ SaveEdit(w)
       PROVE  RInv'
  <2>1. Finish(w) /\ ledger' = ledger
    BY <1>11 DEF Reject, DeadlockVictim, Abort, Rollback, SaveEdit
  <2> QED
    BY <1>3, <1>5, <2>1
<1>12. ASSUME NEW w \in Workers, Commit(w) PROVE RInv'
  <2>1. PassedInOrder(w)'
    BY <1>5, <1>12 DEF Commit
  <2>2. \A v \in Workers : PassedInOrder(v)'
    BY <1>12, <2>1, OrderOfOthers
  <2> QED
    BY <1>1, <1>12, <2>2, CommitConsumes DEF RInv
<1>13. CASE UNCHANGED vars
  BY <1>4, <1>13 DEF vars
<1> QED
  BY <1>6, <1>7, <1>8, <1>9, <1>10, <1>11, <1>12, <1>13 DEF Next, Step, LockedStep
----------------------------------------------------------------------------
\* What a source is billed for an item is the one movement it has there: the row
\* CHOOSE takes is the only one.
BillTells ==
  \A i \in Items : \A s \in Sources :
    /\ \A n \in 1..Len(ledger[i]) :
         ledger[i][n].source = s => Billed(i, s) = -ledger[i][n].delta
    /\ (\A n \in 1..Len(ledger[i]) : ledger[i][n].source # s) => Billed(i, s) = 0

LEMMA BilledIs == RInv => BillTells
<1> SUFFICES ASSUME RInv, NEW i \in Items, NEW s \in Sources
             PROVE  /\ \A n \in 1..Len(ledger[i]) :
                         ledger[i][n].source = s => Billed(i, s) = -ledger[i][n].delta
                    /\ (\A n \in 1..Len(ledger[i]) : ledger[i][n].source # s) =>
                         Billed(i, s) = 0
  BY DEF BillTells
<1>1. s # NoSource
  BY SourceAssumption
<1>2. ASSUME NEW n \in 1..Len(ledger[i]), ledger[i][n].source = s
      PROVE  Billed(i, s) = -ledger[i][n].delta
  <2> DEFINE c == CHOOSE m \in 1..Len(ledger[i]) : ledger[i][m].source = s
  <2>1. c \in 1..Len(ledger[i]) /\ ledger[i][c].source = s
    BY <1>2
  <2>2. Billed(i, s) = -ledger[i][c].delta
    BY <1>2 DEF Billed
  <2> HIDE DEF c
  <2>3. ledger[i][c].type = ledger[i][n].type
    BY <1>1, <1>2, <2>1 DEF RInv, AutoConsumes
  <2>4. c = n
    BY <1>1, <1>2, <2>1, <2>3 DEF RInv, IInv, AtMostOncePerSource
  <2> QED
    BY <2>2, <2>4
<1>3. ASSUME \A n \in 1..Len(ledger[i]) : ledger[i][n].source # s
      PROVE  Billed(i, s) = 0
  BY <1>3 DEF Billed
<1> QED
  BY <1>2, <1>3

LEMMA BilledIsNext == RInv' => BillTells'
BY BilledIs, PTL

\* A source is never billed nothing for an item it has a movement on: what its
\* job drew is not zero.
LEMMA BilledNotZero ==
  ASSUME RInv, NEW i \in Items, NEW s \in Sources,
         NEW n \in 1..Len(ledger[i]), ledger[i][n].source = s
  PROVE  Billed(i, s) # 0
<1>1. s # NoSource
  BY SourceAssumption
<1>2. PICK j \in recorded : \E k \in 1..Len(j.lines) :
                              /\ j.lines[k].item = i
                              /\ j.lines[k].delta = ledger[i][n].delta
  BY <1>1 DEF RInv, IInv, ChargedIsRecorded
<1>3. PICK k \in 1..Len(j.lines) : j.lines[k].delta = ledger[i][n].delta
  BY <1>2
<1>4. j \in Jobs
  BY DEF RInv, IInv, TypeOK
<1>5. j.lines \in Seq(Line) /\ j.lines[k].delta < 0
  BY <1>3, <1>4, JobAssumption
<1>6. j.lines[k] \in Line
  BY <1>5
<1>7. ledger[i][n].delta \in Int /\ ledger[i][n].delta < 0
  BY <1>3, <1>5, <1>6 DEF Line
<1>8. Billed(i, s) = -ledger[i][n].delta
  BY BilledIs DEF BillTells
<1> QED
  BY <1>7, <1>8

\* A source other than the committing one is billed what it was.
LEMMA OthersBill ==
  ASSUME RInv, RInv', NEW w \in Workers, Commit(w),
         NEW i \in Items, NEW s \in Sources, s # tx[w].source
  PROVE  Billed(i, s)' = Billed(i, s)
<1>1. CASE \E n \in 1..Len(ledger[i]) : ledger[i][n].source = s
  <2>1. PICK n \in 1..Len(ledger[i]) : ledger[i][n].source = s
    BY <1>1
  <2>2. n \in 1..Len(ledger'[i]) /\ ledger'[i][n] = ledger[i][n]
    BY LedgerGrows DEF RInv
  <2>3. Billed(i, s) = -ledger[i][n].delta
    BY <2>1, BilledIs DEF BillTells
  <2>4. Billed(i, s)' = -ledger'[i][n].delta
    BY <2>1, <2>2, BilledIsNext DEF BillTells
  <2> QED
    BY <2>2, <2>3, <2>4
<1>2. CASE \A n \in 1..Len(ledger[i]) : ledger[i][n].source # s
  <2>1. \A n \in 1..Len(ledger'[i]) : ledger'[i][n].source # s
    <3>1. SUFFICES ASSUME NEW n \in 1..Len(ledger'[i]) PROVE ledger'[i][n].source # s
      OBVIOUS
    <3>2. CASE n \in 1..Len(ledger[i]) /\ ledger'[i][n] = ledger[i][n]
      BY <1>2, <3>2
    <3>3. CASE ledger'[i][n] = MovementOf(w, WrittenLine(w, i))
      BY <3>3 DEF MovementOf
    <3> QED
      BY <3>2, <3>3, OldOrNew DEF RInv
  <2>2. Billed(i, s) = 0
    BY <1>2, BilledIs DEF BillTells
  <2>3. Billed(i, s)' = 0
    BY <2>1, BilledIsNext DEF BillTells
  <2> QED
    BY <2>2, <2>3
<1> QED
  BY <1>1, <1>2

\* The line a job has written on an item is its first line on it, and then the
\* source had no movement there.
LEMMA FirstWritten ==
  ASSUME RInv, NEW w \in Workers, tx[w].pc = "commit", tx[w].source # NoSource,
         NEW i \in Items, Holds(w, i)
  PROVE  /\ \A n \in 1..Len(ledger[i]) : ledger[i][n].source # tx[w].source
         /\ \A m \in 1..(WrittenLine(w, i) - 1) : tx[w].lines[m].item # i
<1> DEFINE l == WrittenLine(w, i)
<1>1. /\ l \in tx[w].wrote
      /\ tx[w].lines[l].item = i
      /\ l \in 1..Len(tx[w].lines)
  BY WrittenMovement DEF RInv
<1> HIDE DEF l
<1>2. [source |-> tx[w].source, lines |-> tx[w].lines] \in Jobs
  BY DEF RInv, IInv, RequestOK, Shape
<1>3. \A k \in 1..Len(tx[w].lines) : tx[w].lines[k].type = "CONSUMPTION"
  <2>1. \A j \in Jobs : \A m \in 1..Len(j.lines) : j.lines[m].type = "CONSUMPTION"
    BY JobAssumption
  <2> QED
    BY <1>2, <2>1
<1>4. ~Charged(tx[w].source, i, "CONSUMPTION")
  BY <1>1, <1>3 DEF RInv, IInv, RequestOK, Fresh
<1>5. \A n \in 1..Len(ledger[i]) : ledger[i][n].source # tx[w].source
  BY <1>4 DEF Charged, RInv, AutoConsumes
<1>6. ASSUME NEW m \in 1..(l - 1), tx[w].lines[m].item = i
      PROVE  FALSE
  <2>1. l < tx[w].at /\ tx[w] \in Request
    BY <1>1, WroteBehind DEF RInv, IInv, TypeOK
  <2>2. m \in 1..Len(tx[w].lines) /\ m < tx[w].at /\ m < l /\ l \in Nat
    BY <1>1, <2>1 DEF Request
  <2>3. PICK k \in tx[w].wrote : k <= m /\ tx[w].lines[k].item = i
    BY <1>3, <1>4, <1>6, <2>2 DEF RInv, PassedInOrder
  <2>4. k = l
    BY <1>1, <2>3 DEF RInv, IInv, RequestOK, WritesOnce
  <2> QED
    BY <2>2, <2>3, <2>4
<1> QED
  BY <1>5, <1>6 DEF l
----------------------------------------------------------------------------
\* What the commit of a job leaves billed for each item and source is what the
\* promise says of the job.
LEMMA CommitBills ==
  ASSUME RInv, RInv', NEW w \in Workers, Commit(w),
         NEW s, s = tx[w].source, s # NoSource,
         NEW j, j = [source |-> tx[w].source, lines |-> tx[w].lines],
         NEW i \in Items
  PROVE  Billed(i, s)' = IF Billed(i, s) = 0 THEN Promise!Draw(j, i) ELSE Billed(i, s)
<1> DEFINE l == WrittenLine(w, i)
<1>1. j \in Jobs /\ tx[w].pc = "commit" /\ s \in Sources
  <2>1. j \in Jobs
    BY DEF RInv, IInv, RequestOK, Shape
  <2> QED
    BY <2>1, JobAssumption DEF Commit
<1>2. j.lines = tx[w].lines
  OBVIOUS
<1>3. CASE Holds(w, i)
  <2>1. /\ l \in 1..Len(j.lines)
        /\ j.lines[l].item = i
    BY <1>1, <1>2, <1>3, WrittenMovement DEF RInv
  <2>2. /\ \A n \in 1..Len(ledger[i]) : ledger[i][n].source # s
        /\ \A m \in 1..(l - 1) : j.lines[m].item # i
    BY <1>1, <1>2, <1>3, FirstWritten
  <2>3. Billed(i, s) = 0
    BY <1>1, <2>2, BilledIs DEF BillTells
  <2>4. /\ Len(ledger[i]) \in Nat
        /\ Len(ledger'[i]) = Len(ledger[i]) + 1
        /\ ledger'[i][Len(ledger[i]) + 1] = MovementOf(w, l)
    BY <1>3, LedgerGrows DEF RInv
  <2>5. MovementOf(w, l).source = s /\ MovementOf(w, l).delta = j.lines[l].delta
    BY <1>2 DEF MovementOf
  <2> HIDE DEF l
  <2>6. Billed(i, s)' = -j.lines[l].delta
    <3>1. Len(ledger[i]) + 1 \in 1..Len(ledger'[i])
      BY <2>4
    <3> QED
      BY <1>1, <2>4, <2>5, <3>1, BilledIsNext DEF BillTells
  <2>7. Promise!Draw(j, i) = -j.lines[l].delta
    <3> DEFINE c == CHOOSE k \in 1..Len(j.lines) :
                      /\ j.lines[k].item = i
                      /\ \A m \in 1..(k - 1) : j.lines[m].item # i
    <3>1. /\ c \in 1..Len(j.lines)
          /\ j.lines[c].item = i
          /\ \A m \in 1..(c - 1) : j.lines[m].item # i
      BY <2>1, <2>2
    <3>2. Promise!Draw(j, i) = -j.lines[c].delta
      BY <2>1 DEF Promise!Draw
    <3> HIDE DEF c
    <3>3. c = l
      BY <2>1, <2>2, <3>1
    <3> QED
      BY <3>2, <3>3
  <2> QED
    BY <2>3, <2>6, <2>7
<1>4. CASE ~Holds(w, i)
  <2>1. ledger'[i] = ledger[i]
    BY <1>4, CommitRows DEF RInv
  <2>2. CASE \E n \in 1..Len(ledger[i]) : ledger[i][n].source = s
    <3>1. PICK n \in 1..Len(ledger[i]) : ledger[i][n].source = s
      BY <2>2
    <3>2. Billed(i, s) # 0 /\ Billed(i, s) = -ledger[i][n].delta
      BY <1>1, <3>1, BilledNotZero, BilledIs DEF BillTells
    <3>3. Billed(i, s)' = -ledger'[i][n].delta
      BY <1>1, <2>1, <3>1, BilledIsNext DEF BillTells
    <3> QED
      BY <2>1, <3>2, <3>3
  <2>3. CASE \A n \in 1..Len(ledger[i]) : ledger[i][n].source # s
    <3>1. ASSUME NEW k \in 1..Len(j.lines), j.lines[k].item = i PROVE FALSE
      <4>1. tx[w].at > Len(tx[w].lines) /\ tx[w] \in Request
        BY <1>1 DEF RInv, IInv, TypeOK, RequestOK, Shape
      <4>2. k < tx[w].at
        BY <1>2, <4>1 DEF Request
      <4>3. Charged(s, i, j.lines[k].type) \/ Holds(w, i)
        BY <1>2, <3>1, <4>2 DEF RInv, IInv, RequestOK, Covered
      <4> QED
        BY <1>4, <2>3, <4>3 DEF Charged
    <3>2. Promise!Draw(j, i) = 0
      BY <3>1 DEF Promise!Draw
    <3>3. Billed(i, s) = 0
      BY <1>1, <2>3, BilledIs DEF BillTells
    <3>4. Billed(i, s)' = 0
      BY <1>1, <2>1, <2>3, BilledIsNext DEF BillTells
    <3> QED
      BY <3>2, <3>3, <3>4
  <2> QED
    BY <2>2, <2>3
<1> QED
  BY <1>3, <1>4
----------------------------------------------------------------------------
\* A commit of a job is the step of the promise that records the job.
LEMMA CommitPromised ==
  ASSUME RInv, RInv', NEW w \in Workers, Commit(w), tx[w].source # NoSource
  PROVE  Promise!Next
<1> DEFINE j == [source |-> tx[w].source, lines |-> tx[w].lines]
           nextBill == [i \in Items |-> [s \in Sources |->
                          IF s = j.source /\ bill[i][s] = 0 THEN Promise!Draw(j, i)
                                                           ELSE bill[i][s]]]
<1>1. j \in Jobs
  BY DEF RInv, IInv, RequestOK, Shape
<1>2. recorded' = recorded \cup {j}
  BY DEF Commit
<1>3. ASSUME NEW i \in Items, NEW s \in Sources
      PROVE  Billed(i, s)' = IF s = j.source /\ Billed(i, s) = 0
                             THEN Promise!Draw(j, i) ELSE Billed(i, s)
  <2>1. CASE s = tx[w].source
    <3>1. Billed(i, s)' = IF Billed(i, s) = 0 THEN Promise!Draw(j, i) ELSE Billed(i, s)
      BY <2>1, CommitBills
    <3> QED
      BY <2>1, <3>1
  <2>2. CASE s # tx[w].source
    BY <2>2, OthersBill
  <2> QED
    BY <2>1, <2>2
<1>4. \A i \in Items : \A s \in Sources : bill[i][s] = Billed(i, s)
  BY DEF bill
<1>5. bill' = [i \in Items |-> [s \in Sources |-> Billed(i, s)']]
  BY DEF bill
<1>6. bill' = nextBill
  <2> HIDE DEF j
  <2>1. \A i \in Items : [s \in Sources |-> Billed(i, s)'] =
                         [s \in Sources |->
                            IF s = j.source /\ bill[i][s] = 0 THEN Promise!Draw(j, i)
                                                             ELSE bill[i][s]]
    BY <1>3, <1>4
  <2> QED
    BY <1>5, <2>1
<1>7. Promise!Record(j)
  BY <1>2, <1>6 DEF Promise!Record
<1> QED
  BY <1>1, <1>7 DEF Promise!Next

\* Every other step leaves what the promise speaks of as it was.
LEMMA OthersStutter ==
  ASSUME RInv, RInv', [Next]_vars,
         ~\E w \in Workers : Commit(w) /\ tx[w].source # NoSource
  PROVE  UNCHANGED Promise!vars
<1>1. ASSUME UNCHANGED <<ledger, recorded>> PROVE UNCHANGED Promise!vars
  BY <1>1 DEF Promise!vars, bill, Billed
<1>2. ASSUME NEW w \in Workers, Commit(w), tx[w].source = NoSource
      PROVE  UNCHANGED Promise!vars
  <2>1. recorded' = recorded
    BY <1>2 DEF Commit
  <2>2. \A i \in Items : \A s \in Sources : Billed(i, s)' = Billed(i, s)
    BY <1>2, OthersBill, SourceAssumption
  <2>3. \A i \in Items : [s \in Sources |-> Billed(i, s)'] = [s \in Sources |-> Billed(i, s)]
    BY <2>2
  <2>4. bill' = bill
    BY <2>3 DEF bill
  <2> QED
    BY <2>1, <2>4 DEF Promise!vars
<1>3. CASE UNCHANGED vars
  BY <1>1, <1>3 DEF vars
<1>4. CASE Next
  <2>1. ASSUME NEW i \in Items, CreateItem(i) \/ ArchiveItem(i)
        PROVE  UNCHANGED <<ledger, recorded>>
    BY <2>1 DEF CreateItem, ArchiveItem
  <2>2. ASSUME NEW w \in Workers, Start(w) PROVE UNCHANGED <<ledger, recorded>>
    BY <2>2 DEF Start, LoadMove, LoadJob, LoadEdit, Load
  <2>3. ASSUME NEW w \in Workers,
               \/ SkipExisting(w) \/ Reject(w) \/ PassCheck(w) \/ DeadlockVictim(w)
               \/ LockedStep(w) \/ Abort(w)
        PROVE  UNCHANGED <<ledger, recorded>>
    BY <2>3 DEF SkipExisting, Reject, PassCheck, DeadlockVictim, LockedStep, SaveEdit,
                WriteLine, UniqueViolation, Abort, Rollback
  <2> QED
    BY <1>1, <1>2, <1>4, <2>1, <2>2, <2>3 DEF Next, Step
<1> QED
  BY <1>3, <1>4

\* apply_movement_idempotent() with its constraint, its locks and its rollbacks
\* does what the comments promise, for any number of threads, items and jobs: a bag
\* or a validated entry is recorded in one step with what it draws, and of the
\* jobs of one source the first to draw on an item is the one billed for it.
THEOREM LedgerRefinesPromise == Spec => ConsumesOnce
<1>1. Init => Promise!Init
  <2> SUFFICES ASSUME Init PROVE Promise!Init
    OBVIOUS
  <2>1. \A i \in Items : \A s \in Sources : Billed(i, s) = 0
    BY DEF Init, Billed
  <2>2. \A i \in Items : [s \in Sources |-> Billed(i, s)] = [s \in Sources |-> 0]
    BY <2>1
  <2>3. bill = [i \in Items |-> [s \in Sources |-> 0]]
    BY <2>2 DEF bill
  <2> QED
    BY <2>3 DEF Init, Promise!Init
<1>2. RInv /\ RInv' /\ [Next]_vars => [Promise!Next]_(Promise!vars)
  BY CommitPromised, OthersStutter
<1> QED
  BY <1>1, <1>2, InitRefinementInvariant, NextRefinementInvariant, PTL
     DEF Spec, ConsumesOnce, Promise!Spec
----------------------------------------------------------------------------
(***************************************************************************)
(* One request at a time: SerialLedger.                                    *)
(***************************************************************************)

\* The movements of one item, added up; the sum Balance(i) is defined by.
DeltasOf(seq) == [n \in DOMAIN seq |-> seq[n].delta]

AddedUp(seq) == FoldSeq(LAMBDA m, sum : m.delta + sum, 0, seq)

SumsDeltas(g, seq, S) ==
  g = [s \in SUBSET S |-> IF s = {} THEN 0 ELSE seq[Picked(s)].delta + g[s \ {Picked(s)}]]

LEMMA BalanceIs ==
  ASSUME NEW i
  PROVE  Balance(i) = AddedUp(ledger[i]) /\ Balance(i)' = AddedUp(ledger'[i])
BY DEF Balance, AddedUp, FoldSeq, FoldFunction, FoldFunctionOnSet, MapThenFoldSet

LEMMA AddedUpIs ==
  ASSUME NEW seq, NEW S, S = DOMAIN seq, IsFiniteSet(S)
  PROVE  AddedUp(seq) = SumFunctionOnSet(DeltasOf(seq), S)
<1>1. PICK f : f = DeltasOf(seq)
  OBVIOUS
<1>2. \A s \in SUBSET S : s # {} => f[Picked(s)] = seq[Picked(s)].delta
  BY <1>1, PickOne DEF DeltasOf
<1>3. PICK g : Sums(g, f, S)
  BY SumsExist
<1>4. SumsDeltas(g, seq, S)
  BY <1>2, <1>3 DEF Sums, SumsDeltas
<1>5. PICK h : h = (CHOOSE g2 : SumsDeltas(g2, seq, S))
  OBVIOUS
<1>6. AddedUp(seq) = h[S]
  BY <1>5 DEF AddedUp, FoldSeq, FoldFunction, FoldFunctionOnSet, MapThenFoldSet,
              SumsDeltas, Picked
<1>7. SumsDeltas(h, seq, S)
  BY <1>4, <1>5
<1>8. Summing(h, f, S)
  BY <1>2, <1>7 DEF SumsDeltas, Summing, Adds
<1> QED
  BY <1>1, <1>6, <1>8, SumIs

\* No movement adds up to nothing, and one more adds its quantity.
LEMMA NothingAddedUp == AddedUp(<< >>) = 0
<1>1. PICK S : S = DOMAIN << >>
  OBVIOUS
<1>2. S = {} /\ IsFiniteSet(S)
  BY <1>1, FS_EmptySet
<1> QED
  BY <1>1, <1>2, AddedUpIs, SumEmpty

LEMMA OneMoreAddedUp ==
  ASSUME NEW seq \in Seq(Movement), NEW m \in Movement, NEW more, more = Append(seq, m)
  PROVE  AddedUp(more) = m.delta + AddedUp(seq)
<1>1. PICK n \in Nat : n = Len(seq)
  OBVIOUS
<1>2. /\ DOMAIN seq = 1..n
      /\ DOMAIN more = 1..(n + 1)
      /\ more[n + 1] = m
      /\ \A k \in 1..n : more[k] = seq[k] /\ seq[k] \in Movement
  BY <1>1
<1>3. PICK S, T : S = 1..n /\ T = 1..(n + 1)
  OBVIOUS
<1>4. /\ IsFiniteSet(S) /\ IsFiniteSet(T)
      /\ T = S \union {n + 1} /\ n + 1 \notin S
  <2>1. IsFiniteSet(1..n) /\ IsFiniteSet(1..(n + 1))
    <3>1. 1 \in Int /\ n \in Int /\ n + 1 \in Int
      OBVIOUS
    <3> QED
      BY <3>1, FS_Interval
  <2>2. 1..(n + 1) = (1..n) \union {n + 1} /\ n + 1 \notin 1..n
    OBVIOUS
  <2> QED
    BY <1>3, <2>1, <2>2
<1>5. PICK f, h : f = DeltasOf(seq) /\ h = DeltasOf(more)
  OBVIOUS
<1>6. \A k \in T : h[k] = more[k].delta
  BY <1>2, <1>3, <1>5 DEF DeltasOf
<1>7. \A k \in S : f[k] = seq[k].delta
  BY <1>2, <1>3, <1>5 DEF DeltasOf
<1>8. Counted(h, T)
  <2>1. ASSUME NEW k \in T PROVE h[k] \in Int
    <3>1. more[k] \in Movement
      BY <1>2, <1>3
    <3> QED
      BY <1>6, <3>1 DEF Movement
  <2> QED
    BY <2>1 DEF Counted
<1>9. Same(h, f, S)
  BY <1>2, <1>3, <1>4, <1>6, <1>7 DEF Same
<1>10. SumFunctionOnSet(h, S) = SumFunctionOnSet(f, S)
  BY <1>4, <1>9, SumSame
<1>11. SumFunctionOnSet(h, T) = h[n + 1] + SumFunctionOnSet(h, S)
  BY <1>4, <1>8, SumAdds
<1>12. AddedUp(seq) = SumFunctionOnSet(f, S) /\ AddedUp(more) = SumFunctionOnSet(h, T)
  BY <1>2, <1>3, <1>4, <1>5, AddedUpIs
<1>13. h[n + 1] = m.delta
  BY <1>2, <1>4, <1>6
<1> QED
  BY <1>10, <1>11, <1>12, <1>13

\* One request at a time.
Alone == \A v, w \in Busy : v = w

\* A request that runs knows the quantities of its items as they are.
Knows(w) ==
  tx[w].pc # "idle" =>
    \A k \in 1..Len(tx[w].lines) :
      tx[w].seen[tx[w].lines[k].item] = quantity[tx[w].lines[k].item]

\* What holds as long as requests come one at a time: nobody overwrites what a
\* request knows, so its movement starts where the ledger ends.
Serial ==
  /\ Alone
  /\ \A w \in Workers : Knows(w)
  /\ QuantityIsLastAfter
  /\ ChainUnbroken
  /\ \A i \in Items : Balance(i) = quantity[i]

\* The invariant of the history: what SerialLedger rests on.
History == IsFiniteSet(Busy) /\ (raced \/ Serial)

LEMMA OneAtATime ==
  ASSUME IsFiniteSet(Busy), Cardinality(Busy) <= 1
  PROVE  Alone
<1> SUFFICES ASSUME NEW v \in Busy, NEW w \in Busy, v # w
             PROVE  FALSE
  BY DEF Alone
<1>1. /\ IsFiniteSet(Busy \ {v})
      /\ Cardinality(Busy \ {v}) = Cardinality(Busy) - 1
  BY FS_RemoveElement
<1>2. Cardinality(Busy \ {v}) \in Nat /\ Cardinality(Busy) \in Nat
  BY <1>1, FS_CardinalityType
<1>3. Cardinality(Busy \ {v}) = 0
  BY <1>1, <1>2
<1>4. Busy \ {v} = {}
  BY <1>1, <1>3, FS_EmptySet
<1> QED
  BY <1>4

\* A step is one request's, or nobody's.
LEMMA OneMoves ==
  ASSUME IInv, [Next]_vars
  PROVE  \/ tx' = tx
         \/ \E w \in Workers : \A v \in Workers \ {w} : tx'[v] = tx[v]
<1> DEFINE One(w) == \A v \in Workers \ {w} : tx'[v] = tx[v]
<1>0. TypeOK
  BY DEF IInv
<1>1. ASSUME NEW i \in Items, CreateItem(i) \/ ArchiveItem(i) PROVE tx' = tx
  BY <1>1 DEF CreateItem, ArchiveItem
<1>2. ASSUME NEW w \in Workers, Start(w) PROVE One(w)
  <2>1. ASSUME NEW source, NEW lines, NEW pc, Load(w, source, lines, pc) PROVE One(w)
    BY <2>1, <1>0 DEF Load, TypeOK
  <2> QED
    BY <1>2, <2>1 DEF Start, LoadMove, LoadJob, LoadEdit
<1>3. ASSUME NEW w \in Workers, NEW S, StepPast(w, S) PROVE One(w)
  BY <1>3, <1>0 DEF StepPast, TypeOK
<1>4. ASSUME NEW w \in Workers, Finish(w) PROVE One(w)
  BY <1>4, <1>0 DEF Finish, TypeOK
<1>5. ASSUME NEW w \in Workers, PassCheck(w) PROVE One(w)
  BY <1>5, <1>0 DEF PassCheck, TypeOK
<1>6. ASSUME NEW w \in Workers, Step(w) \/ Abort(w) PROVE One(w)
  BY <1>3, <1>4, <1>5, <1>6
     DEF Step, LockedStep, Abort, Rollback, Reject, DeadlockVictim, SkipExisting,
         UniqueViolation, WriteLine, SaveEdit, Commit
<1>7. CASE UNCHANGED vars
  BY <1>7 DEF vars
<1> QED
  BY <1>1, <1>2, <1>6, <1>7 DEF Next

LEMMA BusyStays ==
  ASSUME IInv, [Next]_vars, IsFiniteSet(Busy)
  PROVE  IsFiniteSet(Busy')
<1>1. CASE tx' = tx
  <2>1. Busy' = Busy
    BY <1>1 DEF Busy
  <2> QED
    BY <2>1
<1>2. ASSUME NEW w \in Workers, \A v \in Workers \ {w} : tx'[v] = tx[v]
      PROVE  IsFiniteSet(Busy')
  <2>1. IsFiniteSet(Busy \union {w})
    BY FS_AddElement
  <2>2. Busy' \in SUBSET (Busy \union {w})
    BY <1>2 DEF Busy
  <2> QED
    BY <2>1, <2>2, FS_Subset
<1> QED
  BY <1>1, <1>2, OneMoves

\* Neither the rows nor what a running request knows of them changed.
Quiet ==
  /\ UNCHANGED <<quantity, ledger>>
  /\ \A w \in Workers :
       tx'[w].pc # "idle" => /\ tx[w].pc # "idle"
                             /\ tx'[w].lines = tx[w].lines
                             /\ tx'[w].seen = tx[w].seen

LEMMA RowsStay ==
  ASSUME QuantityIsLastAfter, ChainUnbroken, \A i \in Items : Balance(i) = quantity[i],
         UNCHANGED <<quantity, ledger>>
  PROVE  QuantityIsLastAfter' /\ ChainUnbroken' /\ \A i \in Items : Balance(i)' = quantity'[i]
<1>1. QuantityIsLastAfter'
  BY DEF QuantityIsLastAfter, Explained
<1>2. ChainUnbroken'
  BY DEF ChainUnbroken
<1>3. \A i \in Items : Balance(i)' = Balance(i)
  BY BalanceIs
<1> QED
  BY <1>1, <1>2, <1>3

LEMMA QuietSerial ==
  ASSUME Serial, Quiet, Alone'
  PROVE  Serial'
<1>1. QuantityIsLastAfter' /\ ChainUnbroken' /\ \A i \in Items : Balance(i)' = quantity'[i]
  BY RowsStay DEF Serial, Quiet
<1>2. ASSUME NEW w \in Workers PROVE Knows(w)'
  BY DEF Serial, Quiet, Knows
<1> QED
  BY <1>1, <1>2 DEF Serial

\* A request that starts reads the quantities as they are.
LEMMA LoadSerial ==
  ASSUME IInv, Serial, Alone', NEW w \in Workers, NEW source, NEW lines \in Seq(Line), NEW pc,
         Load(w, source, lines, pc)
  PROVE  Serial'
<1>1. UNCHANGED <<quantity, ledger>>
  BY DEF Load
<1>2. /\ tx'[w].lines = lines /\ tx'[w].seen = SeenBy(lines)
      /\ \A v \in Workers \ {w} : tx'[v] = tx[v]
  BY DEF Load, IInv, TypeOK
<1>3. Knows(w)'
  <2>1. ASSUME NEW k \in 1..Len(lines)
        PROVE  SeenBy(lines)[lines[k].item] = quantity[lines[k].item]
    <3>1. lines[k] \in Line
      OBVIOUS
    <3>2. lines[k].item \in Items
      BY <3>1 DEF Line
    <3> QED
      BY <3>2 DEF SeenBy
  <2> QED
    BY <1>1, <1>2, <2>1 DEF Knows
<1>4. \A v \in Workers \ {w} : Knows(v)'
  BY <1>1, <1>2 DEF Serial, Knows
<1>5. QuantityIsLastAfter' /\ ChainUnbroken' /\ \A i \in Items : Balance(i)' = quantity'[i]
  BY <1>1, RowsStay DEF Serial
<1> QED
  BY <1>3, <1>4, <1>5 DEF Serial

\* An edit writes back the quantity there is.
LEMMA SaveEditQuiet ==
  ASSUME IInv, Serial, NEW w \in Workers, SaveEdit(w)
  PROVE  Quiet
<1>1. /\ tx'[w] = Idle
      /\ \A v \in Workers \ {w} : tx'[v] = tx[v]
  BY FinishFrame DEF IInv, SaveEdit
<1>2. tx[w].at = 1 /\ Len(tx[w].lines) = 1 /\ tx[w].pc = "edit"
  BY DEF SaveEdit, IInv, RequestOK, Shape
<1>3. tx[w].seen[Current(w).item] = quantity[Current(w).item]
  BY <1>2 DEF Serial, Knows, Current
<1>4. quantity' = [quantity EXCEPT ![Current(w).item] = quantity[Current(w).item]]
  BY <1>3 DEF SaveEdit
<1>5. quantity' = quantity /\ ledger' = ledger
  BY <1>4 DEF SaveEdit, IInv, TypeOK
<1> QED
  BY <1>1, <1>5 DEF Quiet, Idle

\* The lines and what was read of them outlast every step but the last.
LEMMA OthersQuiet ==
  ASSUME IInv, NEW w \in Workers,
         \/ SkipExisting(w) \/ UniqueViolation(w) \/ WriteLine(w) \/ PassCheck(w)
         \/ Reject(w) \/ DeadlockVictim(w) \/ Abort(w)
  PROVE  Quiet
<1>0. TypeOK
  BY DEF IInv
<1>1. ASSUME NEW S, StepPast(w, S), UNCHANGED <<quantity, ledger>>, tx[w].pc # "idle"
      PROVE  Quiet
  BY <1>0, <1>1 DEF StepPast, Quiet, TypeOK
<1>2. ASSUME SkipExisting(w) \/ UniqueViolation(w) \/ WriteLine(w) PROVE Quiet
  BY <1>1, <1>2 DEF SkipExisting, UniqueViolation, WriteLine
<1>3. ASSUME PassCheck(w) PROVE Quiet
  BY <1>0, <1>3 DEF PassCheck, Quiet, TypeOK, Request
<1>4. ASSUME Reject(w) \/ DeadlockVictim(w) \/ Abort(w) PROVE Quiet
  <2>1. Finish(w) /\ UNCHANGED <<quantity, ledger>>
    BY <1>4 DEF Reject, DeadlockVictim, Abort, Rollback
  <2>2. tx'[w] = Idle /\ \A v \in Workers \ {w} : tx'[v] = tx[v]
    BY <1>0, <2>1, FinishFrame
  <2> QED
    BY <2>1, <2>2 DEF Quiet, Idle
<1> QED
  BY <1>2, <1>3, <1>4

\* What a commit appends to an item: a movement from the quantity there is.
LEMMA CommitAppends ==
  ASSUME IInv, Serial, NEW w \in Workers, Commit(w), NEW i \in Items, Holds(w, i)
  PROVE  \E m \in Movement :
           /\ ledger'[i] = Append(ledger[i], m)
           /\ m.before = quantity[i] /\ m.after = m.before + m.delta
           /\ quantity'[i] = m.after
<1>1. PICK k : k = WrittenLine(w, i)
  OBVIOUS
<1>2. /\ k \in 1..Len(tx[w].lines) /\ tx[w].lines[k].item = i
      /\ MovementOf(w, k) \in Movement
  BY <1>1, WrittenMovement DEF Commit
<1>3. tx[w].seen[i] = quantity[i]
  BY <1>2 DEF Serial, Knows, Commit
<1>4. PICK m \in Movement : m = MovementOf(w, k)
  BY <1>2
<1>5. m.before = quantity[i] /\ m.after = m.before + m.delta /\ m.after = After(w, k)
  BY <1>2, <1>3, <1>4 DEF MovementOf, After
<1>6. ledger'[i] = Append(ledger[i], m) /\ quantity'[i] = After(w, k)
  BY <1>1, <1>4, CommitRows
<1> QED
  BY <1>5, <1>6

LEMMA CommitSerial ==
  ASSUME IInv, Serial, NEW w \in Workers, Commit(w), Alone'
  PROVE  Serial'
<1>1. \A v \in Workers : tx'[v].pc = "idle"
  <2>1. tx'[w] = Idle /\ \A v \in Workers \ {w} : tx'[v] = tx[v]
    BY FinishFrame DEF IInv, Commit
  <2>2. \A v \in Workers \ {w} : tx[v].pc = "idle"
    BY DEF Serial, Alone, Busy, Commit
  <2> QED
    BY <2>1, <2>2 DEF Idle
<1>2. \A v \in Workers : Knows(v)'
  BY <1>1 DEF Knows
<1>3. QuantityIsLastAfter'
  BY CommitExplains DEF Serial, QuantityIsLastAfter
<1>4. ASSUME NEW i \in Items, NEW n \in 1..Len(ledger'[i])
      PROVE  /\ ledger'[i][n].before = IF n = 1 THEN 0 ELSE ledger'[i][n - 1].after
             /\ ledger'[i][n].after = ledger'[i][n].before + ledger'[i][n].delta
  <2>1. /\ ledger[i] \in Seq(Movement) /\ quantity[i] \in Nat
        /\ quantity[i] = IF ledger[i] = << >> THEN 0 ELSE ledger[i][Len(ledger[i])].after
    BY DEF IInv, TypeOK, Serial, QuantityIsLastAfter, Explained
  <2>2. \A p \in 1..Len(ledger[i]) :
          /\ ledger[i][p].before = IF p = 1 THEN 0 ELSE ledger[i][p - 1].after
          /\ ledger[i][p].after = ledger[i][p].before + ledger[i][p].delta
    BY DEF Serial, ChainUnbroken
  <2>3. CASE ~Holds(w, i)
    <3>1. ledger'[i] = ledger[i]
      BY <2>3, CommitRows
    <3> QED
      BY <2>2, <3>1
  <2>4. CASE Holds(w, i)
    <3>1. PICK m \in Movement : /\ ledger'[i] = Append(ledger[i], m)
                                /\ m.before = quantity[i] /\ m.after = m.before + m.delta
      BY <2>4, CommitAppends
    <3>2. PICK z \in Nat : z = Len(ledger[i])
      BY <2>1
    <3>3. /\ n \in 1..(z + 1)
          /\ \A p \in 1..z : ledger'[i][p] = ledger[i][p]
          /\ ledger'[i][z + 1] = m
      BY <2>1, <3>1, <3>2
    <3>4. CASE n \in 1..z
      <4>1. n # 1 => n - 1 \in 1..z
        BY <3>2, <3>4
      <4> QED
        BY <2>2, <3>2, <3>3, <3>4, <4>1
    <3>5. CASE n = z + 1
      <4>1. CASE z = 0
        <5>1. ledger[i] = << >>
          BY <2>1, <3>2, <4>1, EmptySeq
        <5> QED
          BY <2>1, <3>1, <3>3, <3>5, <4>1, <5>1
      <4>2. CASE z # 0
        <5>1. ledger[i] # << >> /\ z \in 1..z /\ n # 1 /\ n - 1 = z
          BY <2>1, <3>2, <3>5, <4>2
        <5> QED
          BY <2>1, <3>1, <3>2, <3>3, <3>5, <5>1
      <4> QED
        BY <4>1, <4>2
    <3> QED
      BY <3>2, <3>3, <3>4, <3>5
  <2> QED
    BY <2>3, <2>4
<1>5. ChainUnbroken'
  BY <1>4 DEF ChainUnbroken
<1>6. ASSUME NEW i \in Items PROVE Balance(i)' = quantity'[i]
  <2>1. Balance(i) = AddedUp(ledger[i]) /\ Balance(i) = quantity[i]
    BY BalanceIs DEF Serial
  <2>3. Balance(i)' = AddedUp(ledger'[i])
    BY BalanceIs
  <2>4. CASE ~Holds(w, i)
    BY <2>1, <2>3, <2>4, CommitRows
  <2>5. CASE Holds(w, i)
    <3>1. PICK m \in Movement : /\ ledger'[i] = Append(ledger[i], m)
                                /\ m.before = quantity[i] /\ m.after = m.before + m.delta
                                /\ quantity'[i] = m.after
      BY <2>5, CommitAppends
    <3>2. PICK seq, more : seq = ledger[i] /\ more = ledger'[i]
      OBVIOUS
    <3>5. seq \in Seq(Movement)
      BY <3>2 DEF IInv, TypeOK
    <3>3. AddedUp(more) = m.delta + AddedUp(seq)
      BY <3>1, <3>2, <3>5, OneMoreAddedUp
    <3>4. m.delta \in Int /\ quantity[i] \in Nat
      BY DEF Movement, IInv, TypeOK
    <3>6. Balance(i)' = m.delta + quantity[i]
      BY <2>1, <2>3, <3>2, <3>3
    <3> QED
      BY <3>1, <3>4, <3>6
  <2> QED
    BY <2>4, <2>5
<1> QED
  BY <1>2, <1>3, <1>5, <1>6 DEF Serial

\* While the next step leaves at most one request running, it leaves all in order.
LEMMA SerialNext ==
  ASSUME IInv, Serial, [Next]_vars, Alone'
  PROVE  Serial'
<1>1. ASSUME NEW i \in Items, CreateItem(i) \/ ArchiveItem(i) PROVE Serial'
  <2>1. Quiet
    BY <1>1 DEF CreateItem, ArchiveItem, Quiet
  <2> QED
    BY <2>1, QuietSerial
<1>2. ASSUME NEW w \in Workers, Start(w) PROVE Serial'
  <2>1. ASSUME NEW m \in ManualMoves, LoadMove(w, m) PROVE Serial'
    <3>1. m \in Line
      BY DeltaAssumption DEF ManualMoves, Line
    <3>2. <<m>> \in Seq(Line)
      BY <3>1
    <3> QED
      BY <2>1, <3>2, LoadSerial DEF LoadMove
  <2>2. ASSUME NEW j \in Jobs, LoadJob(w, j) PROVE Serial'
    BY <2>2, JobAssumption, LoadSerial DEF LoadJob
  <2>3. ASSUME NEW i \in Items, LoadEdit(w, i) PROVE Serial'
    <3>1. [item |-> i, type |-> "EDIT", delta |-> 0] \in Line
      BY DEF Line
    <3>2. <<[item |-> i, type |-> "EDIT", delta |-> 0]>> \in Seq(Line)
      BY <3>1
    <3> QED
      BY <2>3, <3>2, LoadSerial DEF LoadEdit
  <2> QED
    BY <1>2, <2>1, <2>2, <2>3 DEF Start
<1>3. ASSUME NEW w \in Workers,
             \/ SkipExisting(w) \/ UniqueViolation(w) \/ WriteLine(w) \/ PassCheck(w)
             \/ Reject(w) \/ DeadlockVictim(w) \/ Abort(w)
      PROVE  Serial'
  BY <1>3, OthersQuiet, QuietSerial
<1>4. ASSUME NEW w \in Workers, SaveEdit(w) PROVE Serial'
  BY <1>4, SaveEditQuiet, QuietSerial
<1>5. ASSUME NEW w \in Workers, Commit(w) PROVE Serial'
  BY <1>5, CommitSerial
<1>6. CASE UNCHANGED vars
  <2>1. Quiet
    BY <1>6 DEF vars, Quiet
  <2> QED
    BY <2>1, QuietSerial
<1> QED
  BY <1>1, <1>2, <1>3, <1>4, <1>5, <1>6 DEF Next, Step, LockedStep

LEMMA HistoryStart == HistoryInit => IInv /\ History
<1> SUFFICES ASSUME HistoryInit PROVE IInv /\ History
  OBVIOUS
<1>1. IInv
  BY InitInvariant DEF HistoryInit
<1>2. Busy = {} /\ \A w \in Workers : tx[w].pc = "idle"
  BY DEF HistoryInit, Init, Idle, Busy
<1>3. IsFiniteSet(Busy)
  BY <1>2, FS_EmptySet
<1>4. \A i \in Items : Balance(i) = quantity[i]
  BY BalanceIs, NothingAddedUp DEF HistoryInit, Init
<1>5. QuantityIsLastAfter /\ ChainUnbroken
  BY DEF HistoryInit, Init, QuantityIsLastAfter, Explained, ChainUnbroken
<1>6. Serial
  BY <1>2, <1>4, <1>5 DEF Serial, Alone, Knows
<1> QED
  BY <1>1, <1>3, <1>6 DEF History

LEMMA HistoryStep ==
  ASSUME IInv, History, [HistoryNext]_histvars
  PROVE  IInv' /\ History'
<1>1. [Next]_vars /\ (raced' = (raced \/ Cardinality(Busy') > 1) \/ UNCHANGED histvars)
  BY DEF HistoryNext, histvars, vars
<1>2. IInv'
  BY <1>1, NextInvariant
<1>3. IsFiniteSet(Busy')
  BY <1>1, BusyStays DEF History
<1>4. ASSUME ~raced, ~raced' PROVE Serial'
  <2>1. CASE UNCHANGED histvars
    <3>1. Alone'
      BY <1>4, <2>1 DEF History, Serial, Alone, Busy, histvars, vars
    <3> QED
      BY <1>1, <1>4, <3>1, SerialNext DEF History
  <2>2. CASE raced' = (raced \/ Cardinality(Busy') > 1)
    <3>1. ~(Cardinality(Busy') > 1)
      BY <1>4, <2>2
    <3>2. Cardinality(Busy') \in Nat
      BY <1>3, FS_CardinalityType
    <3>3. Cardinality(Busy') <= 1
      BY <3>1, <3>2
    <3>4. (IsFiniteSet(Busy) /\ Cardinality(Busy) <= 1 => Alone)'
      BY OneAtATime, PTL
    <3>5. Alone'
      BY <1>3, <3>3, <3>4
    <3> QED
      BY <1>1, <1>4, <3>5, SerialNext DEF History
  <2> QED
    BY <1>1, <2>1, <2>2
<1>5. raced => raced'
  BY <1>1 DEF histvars
<1> QED
  BY <1>2, <1>3, <1>4, <1>5 DEF History

\* Without two requests in progress at a time, however many there are, and with
\* edits, archivings, failures and rollbacks between them, apply_movement()'s
\* ledger is what it says: every movement starts from the quantity the one before
\* it left, and what was consumed of an item was received before.
THEOREM SeriallyExact == HistorySpec => []SerialLedger
<1>1. HistoryInit => IInv /\ History
  BY HistoryStart
<1>2. IInv /\ History /\ [HistoryNext]_histvars => IInv' /\ History'
  BY HistoryStep
<1>3. IInv /\ History => SerialLedger
  <2> SUFFICES ASSUME IInv, Serial PROVE ChainUnbroken /\ BagsAreBacked
    BY DEF History, SerialLedger
  <2> QED
    BY DEF IInv, TypeOK, Serial, BagsAreBacked
<1> QED
  BY <1>1, <1>2, <1>3, PTL DEF HistorySpec
============================================================================
