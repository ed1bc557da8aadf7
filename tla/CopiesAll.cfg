SPECIFICATION Spec
CONSTANTS
  Copies = {c1}
  Senders = {s1, s2}
  Nobody = Nobody
  MaxAttempts = 2
  MaxTries = 3
  MaxKills = 1
  c1 = c1
  s1 = s1
  s2 = s2
SYMMETRY Alike
INVARIANT OneSender
INVARIANT AcceptedOnce
PROPERTY SentStays
PROPERTY ClaimedAsRead
CHECK_DEADLOCK FALSE
