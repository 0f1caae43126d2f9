CONSTANTS
  Users <- Staff
  Named <- Operators
  ByHand <- Entered
  Machines = {m1, m2}
  Bags = {b1, b2}
  Cases = {c1, c2}
  Workers = {w1, w2}
  NoMachine = NoMachine
  NoBag = NoBag
  MaxTime = 2
  MaxShifts = 2
  MaxRequests = 4
  Short = 3
SPECIFICATION MCSpec
SYMMETRY Symmetry
INVARIANTS
  TypeOK
  PeopleKnown
  LeavesOnceSerially
  NumbersAreDense
PROPERTY ClosedForGood
CHECK_DEADLOCK FALSE
