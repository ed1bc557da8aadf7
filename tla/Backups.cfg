SPECIFICATION Spec
CONSTANTS
  t1 = t1
  t2 = t2
  f1 = f1
  Takers = {t1, t2}
  NoTaker = NoTaker
  Forms = {f1}
  Archives = {1, 2}
  Keep = 1
  MaxSlots = 1
  MaxCuts = 1
SYMMETRY Alike
CONSTRAINT Few
INVARIANT SlotOnce
INVARIANT OneAtATime
INVARIANT WaitingIsKept
INVARIANT LastGoodStays
CHECK_DEADLOCK FALSE
