----------------------------- MODULE AlertFeedMC -----------------------------
(***************************************************************************)
(* A small instance of AlertFeed for TLC, with a history variable: alerts  *)
(* the screen was told of by a request that did not change them, or was    *)
(* rolled back.                                                            *)
(***************************************************************************)
EXTENDS AlertFeed

VARIABLES astray,
          side        \* whether this instance is about the task or the screen

\* A comment, or an escalation, sends the status it loaded.
Stray(a) ==
  \/ \E c \in comments \ comments' : c.a = a /\ c.status # Latest(a)
  \/ \E w \in Workers : /\ tx[w].a = a /\ tx[w].act = "escalate" /\ SaveAndTell(w)
                        /\ tx[w].row.status # alert[a].status
  \/ \E w \in Saved(a) : Abort(w)

\* What puts the screen right: an event of a request that wrote the row.
Repaired(a) == \E w \in Workers : /\ tx[w].a = a /\ tx[w].act # "escalate"
                                  /\ w \notin Saved(a) /\ w \in Saved(a)'

FeedHistoryInit == FeedInit /\ astray = {}

FeedHistoryNext ==
  /\ FeedNext
  /\ astray' = IF ~live' THEN {}
               ELSE {a \in Alerts : Stray(a) \/ (a \in astray /\ ~Repaired(a))}

FeedHistorySpec == FeedHistoryInit /\ [][FeedHistoryNext]_<<vars, feedVars, astray>>

\* Bounds: the task without a screen and without moves past ACKNOWLEDGED, and the
\* screen with a minor alert and without the task, which broadcasts nothing.
FeedInBounds ==
  IF side = "task"
  THEN /\ ~live /\ comments = {}
       /\ \A w \in Workers : tx[w].act \notin {"start", "resolve"}
  ELSE /\ sweep = {} /\ \A a \in Alerts : age[a] = 0
       /\ \A w \in Workers : ~tx[w].row.critical /\ ~tx[w].row.needs

FeedMCInit == FeedHistoryInit /\ side \in {"task", "screen"}

FeedMCNext == FeedHistoryNext /\ side' = side /\ FeedInBounds'

FeedMCSpec == FeedMCInit /\ [][FeedMCNext]_<<vars, feedVars, astray, side>> /\ Fairness

\* Follows, for alerts of which no comment, escalation or rolled back request gave
\* the screen another status than the one they have.
FollowsUnlessAstray == \A a \in Alerts \ astray : Follows(a)
=============================================================================
