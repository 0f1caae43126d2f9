SPECIFICATION MCSpec
CONSTANTS
  Alerts = {a1, a2}
  Machines = {m1}
  Workers = {w1, w2}
  NoAlert = NoAlert
  NoMachine = NoMachine
  ClientLevels = {2}
  ByHand = {"STOPPED"}
  Requests = {"create", "acknowledge", "start", "resolve", "close", "escalate", "finish", "verify",
    "editJob", "openJob", "deleteJob", "setMachine", "editMachine"}
SYMMETRY Symmetry
INVARIANTS SerialAlerts NothingHalfDone NoCycle
PROPERTY ForwardUnlessMarred
