------------------------------ MODULE AlertFeed ------------------------------
(***************************************************************************)
(* What a floor screen hears of the alerts over its WebSocket              *)
(* (apps/alerts/consumers.py), composed with the requests of AlertFlow.    *)
(*                                                                         *)
(* A request broadcasts its event right after it saved the alert, while it *)
(* holds the row and long before it commits.  The channel layer delivers   *)
(* to a socket in order; a broadcast that fails is logged and forgotten.   *)
(***************************************************************************)
EXTENDS AlertFlow

VARIABLES live,         \* whether the screen's socket is open and in the group
          told,         \* the status in the last event on each alert it got
          missed,       \* alerts whose last event was lost on the way
          comments      \* comments under way, with the status that was loaded

feedVars == <<live, told, missed, comments>>

\* The event each request broadcasts once it has saved an alert.
EventOf == [create |-> "created", acknowledge |-> "acknowledged", start |-> "started",
            resolve |-> "resolved", finish |-> "resolved", close |-> "closed",
            escalate |-> "escalated"]

\* The events the consumer has a method for.
Handled == {"created", "acknowledged", "resolved", "closed", "escalated", "commented"}

Silence == [a \in Alerts |-> "none"]

FeedInit == /\ Init
            /\ live = FALSE
            /\ told = Silence
            /\ missed = {}
            /\ comments = {}

-----------------------------------------------------------------------------
(* The socket.                                                             *)

Leave == live' = FALSE /\ told' = Silence /\ missed' = {}

Connect == /\ "screen" \in Requests /\ ~live
           /\ live' = TRUE
           /\ UNCHANGED <<told, missed, comments>>

Disconnect == live /\ Leave /\ UNCHANGED comments

Deliver(event, a, status) ==
  /\ live /\ event \in Handled
  /\ told' = [told EXCEPT ![a] = status]
  /\ missed' = missed \ {a}
  /\ UNCHANGED live

\* Channels finds no method for the event: the consumer fails and its socket closes.
Unhandled(event) == live /\ event \notin Handled /\ Leave

\* _group_send: the exception is logged.
Lose(a) == live /\ missed' = missed \union {a} /\ UNCHANGED <<live, told>>

Broadcast(event, a, status) ==
  \/ Deliver(event, a, status) \/ Unhandled(event) \/ Lose(a)
  \/ ~live /\ UNCHANGED <<live, told, missed>>

-----------------------------------------------------------------------------
(* The requests.                                                           *)

\* Mutant: the event is made from the row as it was before the request.
StatusBefore(w) == alert[tx[w].a].status

\* broadcast_alert_event: the status of the object.
StatusOf(w) == tx[w].row.status

SaveAndTell(w) ==
  /\ SaveAlert(w)
  /\ Broadcast(EventOf[tx[w].act], tx[w].a, StatusOf(w))
  /\ UNCHANGED comments

\* comments(): loads the alert, inserts the comment, and tells the screens.
LoadComment(a) ==
  /\ "comment" \in Requests
  /\ alert[a].status # "none" /\ \A c \in comments : c.a # a
  /\ comments' = comments \union {[a |-> a, status |-> alert[a].status]}
  /\ UNCHANGED <<live, told, missed>>

TellComment(c) ==
  /\ comments' = comments \ {c}
  /\ Broadcast("commented", c.a, c.status)

Unheard(w) == \/ Load(w) \/ SaveMachine(w) \/ SaveJob(w) \/ RefuseDuplicate(w)
              \/ Sync(w) \/ Commit(w) \/ Abort(w)

Screen == \/ Connect \/ Disconnect
          \/ \E a \in Alerts : LoadComment(a)
          \/ \E c \in comments : TellComment(c)

\* The escalation task saves and sends mail; it broadcasts nothing.
Task == SweepStart \/ SweepCrash \/ \E a \in Alerts : SweepStep(a) \/ Age(a)

FeedNext == \/ \E w \in Workers : SaveAndTell(w)
            \/ (Task \/ \E w \in Workers : Unheard(w)) /\ UNCHANGED feedVars
            \/ Screen /\ UNCHANGED vars

FeedSpec == FeedInit /\ [][FeedNext]_<<vars, feedVars>> /\ Fairness

-----------------------------------------------------------------------------
(* Properties.                                                             *)

\* The types; a screen that is away knows nothing.
FeedTypeOK ==
  /\ TypeOK
  /\ live \in BOOLEAN
  /\ told \in [Alerts -> Statuses \union {"none"}]
  /\ missed \subseteq Alerts
  /\ comments \subseteq [a : Alerts, status : Statuses]
  /\ ~live => told = Silence /\ missed = {}

Saved(a) == {w \in Workers : tx[w].a = a /\ "alert" \in tx[w].held}

\* The status the last request that took the row gave it, committed or not.
Latest(a) == IF Saved(a) = {} THEN alert[a].status
             ELSE AlertAfter(CHOOSE w \in Saved(a) : TRUE).status

\* Although events go out before the commit, a screen that lost none was told last
\* what the row says: the row's lock puts the events in the order of the commits.
Follows(a) == told[a] # "none" /\ a \notin missed /\ Saved(a) = {} => told[a] = alert[a].status
=============================================================================
