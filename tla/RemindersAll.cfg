SPECIFICATION Spec
CONSTANTS
  Reminders = {r1}
  Placed = {r1}
  Writers = {w1, w2}
  Passes = {p1}
  Nobody = Nobody
  MaxTime = 2
  MaxTurns = 2
  MaxTold = 1
  MaxKills = 1
  p1 = p1
  r1 = r1
  w1 = w1
  w2 = w2
SYMMETRY Alike
INVARIANT NotSilenced
PROPERTY OnlyOutstandingAnnounced
PROPERTY TickKept
CHECK_DEADLOCK FALSE
