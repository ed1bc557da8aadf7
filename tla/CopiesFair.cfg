SPECIFICATION FairSpec
CONSTANTS
  Copies = {c1, c2}
  Senders = {s1}
  Nobody = Nobody
  MaxAttempts = 2
  MaxTries = 2
  MaxKills = 1
  c1 = c1
  c2 = c2
  s1 = s1
PROPERTY CopiesSettle
CHECK_DEADLOCK FALSE
