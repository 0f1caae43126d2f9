\* Two threads whose bags draw on the items in opposite orders.
CONSTANTS
  raw = raw
  colorant = colorant
  order1 = order1
  bag2 = bag2
  NoSource = NoSource
  Items = {raw, colorant}
  Workers = {w1, w2}
  Sources = {order1, bag2}
  Jobs <- CrossedBags
  Deltas <- ReceiveTwo
  Requests = {"move", "consume", "edit", "archive"}
  MaxMovements = 1
  MaxRaced = 2
SPECIFICATION MCFairSpec
PROPERTY RequestEnds
