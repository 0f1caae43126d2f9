CONSTANTS
  pet = pet
  red = red
  small = small
  big = big
  moldA = moldA
  moldB = moldB
  Items = {pet, red}
  NoItem = NoItem
  Threshold <- Thresholds
  Bottles = {small, big}
  NoBottle = NoBottle
  Recipes <- RecipeBook
  Orders = {1, 2, 3}
  Machines = {1, 2}
  Forms <- OrderForms
  NoTime = NoTime
  NoMold = NoMold
  Now = 1
  MoldChange = 1
  Batches = {1, 2}
  Deliveries = {0, 4}
  MaxStock = 8
  MaxProduced = 3
  Entries = {1, 2}
  Lines = {1, 2}
  Sent <- EntryForms
  Nominal = 2
  ShiftDuration = 8
  Rates = {0, 1}
SPECIFICATION MCSpec
INVARIANTS
  TypeOK
  SimulationIsGreedy
  NeverDoubleBooked
  CapacityIsExact
  ReservedUnlessUnsynced
  FiguresUnlessTouched
  TotalsAddUp
CHECK_DEADLOCK FALSE
