SPECIFICATION Spec
CONSTANTS
  p1 = p1
  p2 = p2
  p3 = p3
  i1 = i1
  r1 = r1
  r2 = r2
  People = {p1, p2, p3}
  Invites = {i1}
  Requests = {r1, r2}
  Nobody = Nobody
  AutoSignUp = FALSE
  Uses = 1
SYMMETRY Alike
CONSTRAINT Few
INVARIANT InvitationOnce
INVARIANT SomebodyAdministers
INVARIANT InvitationsGoAlong
PROPERTY FirstLeads
CHECK_DEADLOCK FALSE
