\* Two logins and two password changes of two users, one fault, time passing.
SPECIFICATION FairSpec
CONSTANTS
  Users = {u1, u2}
  Logins = {l1, l2}
  Changes = {p1, p2}
  NoUser = NoUser
  SessionTTL = 2
  IndexMargin = 1
  MaxFaults = 1
INVARIANTS
  TypeOK
  ChangeRevokesIndexedTokens
  UnindexedOnlyByRace
PROPERTIES
  KeepsLedger
  EverySessionEnds
