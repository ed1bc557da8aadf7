SPECIFICATION FairSpec
CONSTANTS
  Reminders = {r1}
  Placed = {r1}
  Writers = {w1}
  Passes = {p1, p2}
  Nobody = Nobody
  MaxTime = 2
  MaxTurns = 2
  MaxTold = 1
  MaxKills = 1
  p1 = p1
  p2 = p2
  r1 = r1
  w1 = w1
PROPERTY AnnouncedOnce
PROPERTY DueIsDealtWith
PROPERTY KeepsGoingRound
CHECK_DEADLOCK FALSE
