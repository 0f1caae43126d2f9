\* Two bags race for one stock item.
CONSTANTS
  raw = raw
  colorant = colorant
  order1 = order1
  bag2 = bag2
  NoSource = NoSource
  Items = {raw}
  Workers = {w1, w2}
  Sources = {order1, bag2}
  Jobs <- TwoDraws
  Deltas <- ReceiveOne
  Requests = {"move", "consume"}
  MaxMovements = 1
SPECIFICATION Spec
SYMMETRY WorkerSymmetry
INVARIANT BagsAreBacked
