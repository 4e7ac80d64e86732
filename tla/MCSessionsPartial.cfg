\* One login, one change and one fault: nothing overlaps.
SPECIFICATION Spec
CONSTANTS
  Users = {u1}
  Logins = {l1}
  Changes = {p1}
  NoUser = NoUser
  SessionTTL = 2
  IndexMargin = 1
  MaxFaults = 1
INVARIANT RotationLeavesNoOldTokens
