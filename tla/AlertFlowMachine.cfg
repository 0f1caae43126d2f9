SPECIFICATION Spec
CONSTANTS
  Alerts = {a1, a2}
  Machines = {m1}
  Workers = {w1, w2}
  NoAlert = NoAlert
  NoMachine = NoMachine
  ClientLevels = {2}
  ByHand = {"STOPPED"}
  Requests = {"create", "resolve"}

INVARIANT MachineMatchesAlerts
CHECK_DEADLOCK FALSE
