CONSTANTS
  isbm88 = isbm88
  compressor = compressor
  isbm88Later = isbm88Later
  i1 = i1
  i2 = i2
  Slots = {isbm88, compressor, isbm88Later}
  Day <- DaySlots
  Template <- Checklists
  Controllers = {c1, c2}
  NoController = NoController
  Workers = {w1, w2}
  MaxLog = 2
SPECIFICATION MCSpec
SYMMETRY Symmetry
INVARIANTS
  TypeOK
  OneADayUnlessMarred
  NotedUnlessMarred
PROPERTY FinalUnlessMarred
CHECK_DEADLOCK FALSE
