--------------------------- MODULE AlertFlowHistory ---------------------------
(***************************************************************************)
(* A small instance of AlertFlow for TLC, with a history variable: whether *)
(* something has happened that the requests do not defend themselves       *)
(* against.                                                                *)
(***************************************************************************)
EXTENDS AlertFlowMC

VARIABLE marred      \* two requests at a time, or a machine's status or an
                     \* intervention put down by hand

Busy == {w \in Workers : tx[w].act # "none"}

Declared == {a \in Alerts : alert[a].status # "none" \/ \E w \in Workers : tx[w].a = a}

\* Bounds: two alerts until something happens, and one then, without the requests
\* that move an alert or a machine no further than the others do.
InBounds ==
  marred =>
    /\ Cardinality(Declared) <= 1
    /\ \A w \in Workers : tx[w].act \notin {"start", "verify", "deleteJob", "editMachine"}

MCInit == Init /\ marred = FALSE

HistoryNext ==
  /\ Next
  /\ marred' = \/ marred
               \/ Cardinality(Busy') > 1
               \/ \E w \in Workers : tx'[w].act \in {"setMachine", "editJob", "openJob"}

HistorySpec == MCInit /\ [][HistoryNext]_<<vars, marred>>

MCNext == HistoryNext /\ InBounds'

MCSpec == MCInit /\ [][MCNext]_<<vars, marred>>

\* As long as requests come one at a time and nothing is put down by hand, machines
\* follow their alerts, a finished intervention leaves none active, and the screens
\* agree.
SerialAlerts == marred \/ (MachineMatchesAlerts /\ FinishedIsResolved /\ ScreensAgree)

\* NeverReopened, whatever happens, and StatusForward until it does.
ForwardUnlessMarred == [][NeverReopened /\ (marred' \/ StatusForward)]_<<vars, marred>>
===============================================================================
