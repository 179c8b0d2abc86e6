\* A sign-in page and a profile page of one browser, and two numbers.
SPECIFICATION LiveSpec
CONSTANTS
  None = None
  SignInPages = {login}
  ConnectPages = {profile}
  Numbers = {n1, n2}
  MaxChallenges = 3
  MaxRequests = 2
CHECK_DEADLOCK FALSE
INVARIANTS
  CodeStepAgrees
  CookieBindsTheForm
  SpentIsReplaced
PROPERTIES
  FormsAnswer
