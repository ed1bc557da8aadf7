SPECIFICATION FairSpec
CONSTANTS
  e1 = e1
  w1 = w1
  w2 = w2
  h1 = h1
  k1 = k1
  Errands = {e1}
  Workers = {w1, w2}
  WorkerExpected = TRUE
  NoErrand = NoErrand
  MaxCrashes = 1
  Keys = {k1}
  Tellers = {w1, w2}
  Hookers = {h1}
  NoKey = NoKey
  MaxAttempts = 2
  MaxHooks = 2
  Batch = 1
  MaxCuts = 1
  MaxSilent = 0
  KeyOf <- OneKey
PROPERTY ErrandsSettle
PROPERTY HooksSettle
PROPERTY HeardInTheEnd
CHECK_DEADLOCK FALSE
