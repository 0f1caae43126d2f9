CONSTANTS
  Entries = {e1}
  Orders = {o1}
  Workers = {w1, w2}
  NoEntry = NoEntry
  NoOrder = NoOrder
  Bottles <- OneOrTwoBottles
  Quantities <- OneOrTwoBottles
  Recipes = {TRUE}
  Requests = {"validate", "bulk"}
SPECIFICATION Spec
SYMMETRY RaceSymmetry
PROPERTY ValidatedIsFinal
CHECK_DEADLOCK FALSE
