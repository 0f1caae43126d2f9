SPECIFICATION FeedMCSpec
CONSTANTS
  Alerts = {a1}
  Machines = {m1}
  Workers = {w1, w2}
  NoAlert = NoAlert
  NoMachine = NoMachine
  ClientLevels = {1}
  ByHand = {"STOPPED"}
  Requests = {"create", "acknowledge", "start", "resolve", "escalate", "sweep", "screen", "comment"}

INVARIANTS FeedTypeOK FollowsUnlessAstray
PROPERTY Escalated
