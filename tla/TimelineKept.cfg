SPECIFICATION KeptSpec
CONSTANTS
  r1 = r1
  r2 = r2
  i1 = i1
  i2 = i2
  o1 = o1
  pay = pay
  Requests = {r1, r2}
  Interviews = {i1, i2}
  Offers = {o1}
  ReachedBy <- MCReachedBy
  Asked <- MCAsked
  Reasons = {pay}
  NoReason = NoReason
  NoCopy = NoCopy
  MaxEntries = 4
  MaxAnswers = 2
CHECK_DEADLOCK FALSE
SYMMETRY Symmetry
PROPERTY KeepsHistory
INVARIANT AppliedWhenFirstSent
INVARIANT ClosedWhenSettled
INVARIANT CatchUpOnlyForward
