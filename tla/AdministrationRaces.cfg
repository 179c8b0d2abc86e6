CONSTANTS
  None = None
  u1 = u1
  u2 = u2
  e1 = e1
  e2 = e2
  Users = {u1, u2}
  Subscribers = {u2}
  Emails = {e1, e2}
  AccountOf <- Holders
  BootstrapEmail = e1
  Invites = {i1}
  Plans = {p1, p2}
  SignIns = {s1, s2}
  Requests = {r1, r2}
SPECIFICATION Spec
SYMMETRY Interchangeable
INVARIANTS
  NeverWithoutAdministrator
  InvitationReachesHolder
  DismissedStayOut
PROPERTIES
  EndedHasNoPlan
CHECK_DEADLOCK FALSE
