\* Two changes and two logins, no fault.
SPECIFICATION Spec
CONSTANTS
  Users = {u1}
  Logins = {l1, l2}
  Changes = {p1, p2}
  NoUser = NoUser
  SessionTTL = 2
  IndexMargin = 1
  MaxFaults = 0
INVARIANT ChangeRevokesHandedTokens
