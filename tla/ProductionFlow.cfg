\* Two threads, every kind of request, and crashes.
CONSTANTS
  Entries = {e1, e2, e3}
  Orders = {o1}
  Workers = {w1, w2}
  NoEntry = NoEntry
  NoOrder = NoOrder
  Bottles <- NoneToTwoBottles
  Quantities <- OneOrTwoBottles
  Recipes = {TRUE, FALSE}
  Requests = {"validate", "edit entry", "bulk", "delete entry", "edit order", "delete order"}
  Third = e3
SPECIFICATION MCSpec
SYMMETRY Symmetry
INVARIANTS
  TypeOK
  BooksAgree
  OrdersAgree
PROPERTIES
  DrawnOnce
  FinalUnlessMixed
CHECK_DEADLOCK FALSE
