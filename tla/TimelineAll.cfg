SPECIFICATION Spec
CONSTANTS
  r1 = r1
  r2 = r2
  i1 = i1
  i2 = i2
  o1 = o1
  pay = pay
  Requests = {r1, r2}
  Interviews = {i1}
  Offers = {o1}
  ReachedBy <- MCReachedBy
  Asked = {"offer", "rejected"}
  Reasons = {pay}
  NoReason = NoReason
  NoCopy = NoCopy
  MaxEntries = 3
  MaxAnswers = 2
CHECK_DEADLOCK FALSE
SYMMETRY Symmetry
INVARIANT NoNudgeWhenOver
INVARIANT LogAgrees
