\* Two users, two machines, two updates and a deletion at a time.
\* With every machine created and deleted there is nothing left to do: the bound on
\* machines ends the behaviour, not the program.
SPECIFICATION Spec
CONSTANTS
  Users = {u1, u2}
  Creates = {c1, c2}
  Updates = {e1, e2}
  Deletes = {d1}
  Places = {p1}
  Labels <- MCLabels
  Lower <- MCLower
  Absent = Absent
INVARIANTS
  TypeOK
  LabelsUnique
PROPERTIES
  NamedColumnsOnly
  DeletedRowsAreHistory
  OnlyTheOwnerWrites
  ConflictIsTrue
CHECK_DEADLOCK FALSE
