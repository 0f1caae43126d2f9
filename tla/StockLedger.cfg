\* Two threads, every kind of request, and crashes.
CONSTANTS
  raw = raw
  colorant = colorant
  order1 = order1
  bag2 = bag2
  NoSource = NoSource
  Items = {raw, colorant}
  Workers = {w1, w2}
  Sources = {order1, bag2}
  Jobs <- TwoBagsAndACross
  Deltas <- ReceiveTwoTakeOne
  Requests = {"move", "consume", "edit", "archive"}
  MaxMovements = 2
  MaxRaced = 3
SPECIFICATION MCSpec
SYMMETRY WorkerSymmetry
INVARIANTS
  TypeOK
  ChargedExactly
  ExplainedUnlessCrossed
  SerialLedger
PROPERTY ConsumesOnce
