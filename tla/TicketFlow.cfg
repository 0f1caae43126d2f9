CONSTANTS
  Tickets = {t1, t2}
  Suppliers = {s1, s2}
  Factory = Factory
  NoTicket = NoTicket
  NoSupplier = NoSupplier
  Workers = {w1, w2}
  MaxMoves = 6
  Short = 2
SPECIFICATION MCSpec
SYMMETRY Symmetry
INVARIANTS
  TypeOK
  TrailTellsRows
  OwnTicketsOnly
  NumbersAreDense
  OrderlyUnlessRaced
PROPERTY Audited
CHECK_DEADLOCK FALSE
