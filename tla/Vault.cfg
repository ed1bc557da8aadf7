SPECIFICATION VaultSpec
CONSTANTS
  s1 = s1
  t1 = t1
  Senders = {s1}
  Takers = {t1}
  NoTaker = NoTaker
  MaxArchives = 2
  MaxAttempts = 1
  RemoteKeep = 1
  Keep = 1
  MaxSlots = 1
  MaxAgain = 1
  MaxMoments = 2
  MaxCuts = 1
  MaxMishaps = 1
INVARIANT QueuedIsKept
PROPERTY KeepsBackups
CHECK_DEADLOCK FALSE
