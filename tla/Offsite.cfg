SPECIFICATION FairSpec
CONSTANTS
  s1 = s1
  s2 = s2
  Senders = {s1, s2}
  MaxArchives = 2
  MaxAttempts = 2
  RemoteKeep = 1
  MaxAgain = 1
  MaxMoments = 3
  MaxCuts = 1
INVARIANT UploadedOnce
INVARIANT SentIsThere
INVARIANT OneStaysThere
PROPERTY KeepsWaiting
PROPERTY WaitsNotForEver
CHECK_DEADLOCK FALSE
