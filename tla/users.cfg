SPECIFICATION UsersSpec
CONSTANTS
  Callers = {c1, c2}
  Names = {root, n1}
  Root = root
  Emails = {e1, e2}
  Passwords = {p1, p2}
  Expiry = 0
  MaxTokens = 1
  MaxTime = 1
  MaxRestarts = 1
  None = None
  Pages = {g1, g2}
  Fields <- AllFields
  Forms <- SomeForms
SYMMETRY Symmetry
INVARIANT UsersInv
PROPERTY RightsChangeByRight
CHECK_DEADLOCK FALSE
