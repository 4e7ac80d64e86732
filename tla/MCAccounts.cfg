\* Two signups that may race for one address, two updates at a time.
\* With both signups refused there is no account and nothing left to do: the bound
\* on signups ends the behaviour, not the program.
SPECIFICATION Spec
CONSTANTS
  Registers = {r1, r2}
  Updates = {e1, e2}
  Spellings <- MCSpellings
  Normal <- MCNormal
  ValidEmails <- MCValidEmails
  Names <- MCNames
  Trim <- MCTrim
  Size <- MCSize
  Passwords <- MCPasswords
  Runes <- MCRunes
  Bytes <- MCBytes
  Absent = Absent
SYMMETRY Symmetric
INVARIANTS
  TypeOK
  EveryAccountReachable
  AnswersAreTrue
PROPERTIES
  NamedColumnsOnly
CHECK_DEADLOCK FALSE
