\* Two requests race over two challenges of one number, two provider tokens and
\* one Google authorization.
SPECIFICATION Spec
CONSTANTS
  n1 = n1
  e1 = e1
  t1 = t1
  t2 = t2
  i1 = i1
  i2 = i2
  None = None
  Users = {u1, u2}
  Numbers = {n1}
  Challenges = {c1, c2}
  Tokens = {t1, t2}
  NumberOf <- OneNumber
  Subjects = {g1}
  EmailOf <- OneAddress
  Authorizations = {a1}
  Sessions = {s1, s2}
  Requests = {r1, r2}
  Addresses = {i1, i2}
  AddressesOf <- OneAddressEach
  MaxAttempts = 2
  MaxExpired = 1
SYMMETRY Symmetry
CHECK_DEADLOCK FALSE
INVARIANTS
  TypeOK
  SubmissionsWithinCap
  OneSessionPerProof
  SessionIsHolders
  ContactsAreProven
  NoCircularWait
