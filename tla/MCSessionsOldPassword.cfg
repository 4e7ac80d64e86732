\* One change and two logins, no fault: a login overlaps the change.
SPECIFICATION Spec
CONSTANTS
  Users = {u1}
  Logins = {l1, l2}
  Changes = {p1}
  NoUser = NoUser
  SessionTTL = 2
  IndexMargin = 1
  MaxFaults = 0
INVARIANT NoSessionWithOldPassword
