\* One signup, one update: enough for a blank name.
SPECIFICATION Spec
CONSTANTS
  Registers = {r1}
  Updates = {e1}
  Spellings <- MCSpellings
  Normal <- MCNormal
  ValidEmails <- MCValidEmails
  Names <- MCNames
  Trim <- MCTrim
  Size <- MCSize
  Passwords <- MCPasswords
  Runes <- MCRunes
  Bytes <- MCBytes
  Absent = Absent
INVARIANT NameNeverBlank
CHECK_DEADLOCK FALSE
