------------------------------ MODULE Accounts ------------------------------
(***************************************************************************)
(* Accounts: UserUseCase.Register and Update (src/internal/usecase/user.go)*)
(* on the users table, the validation in front of them, and the status     *)
(* codes the error handler makes of what they return. The session side of  *)
(* a password change is the module Sessions.                               *)
(*                                                                         *)
(* Register is one INSERT behind a slow hash, without a lookup: signups    *)
(* race, and the unique index on email decides. Update reads the row, then *)
(* hashes, then writes the columns the body names with a second statement. *)
(* A register request names the account it makes, because the handler      *)
(* draws a fresh uuid; an update request, once answered, stands for the    *)
(* next one. Accounts are never deleted.                                   *)
(***************************************************************************)
EXTENDS Naturals

CONSTANTS
  Registers,    \* POST /users requests, and the accounts they make
  Updates,      \* PATCH /users/_current requests
  Spellings,    \* ways to type an e-mail address
  Normal,       \* Normal[s]: s trimmed and in lower case
  ValidEmails,  \* the spellings validator's "email" and "max=254" accept
  Names,
  Trim,         \* Trim[n]: n without the blanks around it
  Size,         \* Size[n]: characters in n
  Passwords,
  Runes,        \* Runes[p]: characters in p, what validator counts
  Bytes,        \* Bytes[p]: bytes in p, what bcrypt counts
  Absent        \* a field the JSON body leaves out, a column of no row

ASSUME TextAssumption ==
  /\ Normal \in [Spellings -> Spellings] /\ ValidEmails \subseteq Spellings
  /\ Trim \in [Names -> Names] /\ Size \in [Names -> Nat]
  /\ Runes \in [Passwords -> Nat] /\ Bytes \in [Passwords -> Nat]
ASSUME AbsentAssumption ==
  Absent \notin Spellings \cup Names \cup Passwords \cup Registers
ASSUME KindsAssumption == Registers \cap Updates = {}

VARIABLES
  row,     \* row[u]: the row of account u, or NoRow
  pc,      \* pc[r]: how far request r has come, or how it ended
  want,    \* want[r]: the body of request r, while the handler runs
  typed,   \* history: the address of signup r, the way its client typed it
  target,  \* target[e]: the account whose token update e carries
  read     \* read[e]: the row FindByID returned to update e

vars == <<row, pc, want, typed, target, read>>

MaxName == 100                \* max=100
MinPassword == 8              \* min=8, in characters
MaxPassword == 72             \* max=72, in characters
BcryptMaxPasswordBytes == 72

Accounts == [email : Spellings, name : Names, password : Passwords]
NoRow == [email |-> Absent, name |-> Absent, password |-> Absent]
NoBody == NoRow
Changes == [email : {Absent}, name : Names \cup {Absent},
            password : Passwords \cup {Absent}]

-----------------------------------------------------------------------------
(* How a register request ends: with a row, with an error, or not at all.  *)

Errors == {"malformed", "validation", "conflict", "other"}
SignupPoints == {"idle", "hashed", "created", "lost"} \cup Errors
UpdatePoints == {"ready", "found"}

\* NewErrorHandler, for the errors these use cases return; an error it does not
\* know is "other".
StatusOf == [created |-> 201, malformed |-> 400, validation |-> 400,
             conflict |-> 409, other |-> 500]

Answered(r) == pc[r] \in {"created"} \cup Errors
Status(r) == StatusOf[pc[r]]

\* Every variable keeps its type; a row is never half there.
TypeOK ==
  /\ row \in [Registers -> Accounts \cup {NoRow}]
  /\ pc \in [Registers \cup Updates -> SignupPoints \cup UpdatePoints]
  /\ \A r \in Registers : pc[r] \in SignupPoints
  /\ \A e \in Updates : pc[e] \in UpdatePoints
  /\ want \in [Registers \cup Updates -> Accounts \cup Changes]
  /\ typed \in [Registers -> Spellings \cup {Absent}]
  /\ target \in [Updates -> Registers \cup {Absent}]
  /\ read \in [Updates -> Accounts \cup {NoRow}]

Init ==
  /\ row = [u \in Registers |-> NoRow]
  /\ pc = [r \in Registers \cup Updates |-> IF r \in Registers THEN "idle" ELSE "ready"]
  /\ want = [r \in Registers \cup Updates |-> NoBody]
  /\ typed = [r \in Registers |-> Absent]
  /\ target = [e \in Updates |-> Absent]
  /\ read = [e \in Updates |-> NoRow]

Goto(r, label) == pc' = [pc EXCEPT ![r] = label]

-----------------------------------------------------------------------------
(* Register. *)

\* What Register makes of the body before it validates it.
Normalised(b) == [b EXCEPT !.email = Normal[@], !.name = Trim[@]]

GoodName(n) == Size[n] \in 1..MaxName
GoodPassword(p) == Runes[p] \in MinPassword..MaxPassword
GoodAccount(b) ==
  b.email \in ValidEmails /\ GoodName(b.name) /\ GoodPassword(b.password)

\* bcrypt refuses what it could not hash whole.
Hashable(p) == Bytes[p] <= BcryptMaxPasswordBytes

\* Mutant: the address goes into the row the way it was typed.
NewRowAsTyped(r) == [Normalised(want[r]) EXCEPT !.email = want[r].email]

NewRow(r) == Normalised(want[r])

\* The unique index users_email_key has an entry for the address.
Taken(r) == \E o \in Registers \ {r} : row[o] # NoRow /\ row[o].email = NewRow(r).email

\* The handler returns, with the error or without one.
Answer(r, label) ==
  /\ Goto(r, label)
  /\ want' = [want EXCEPT ![r] = NoBody]

\* The body parser gives up before the use case is reached.
RejectBody(r) ==
  /\ pc[r] = "idle"
  /\ Answer(r, "malformed")
  /\ UNCHANGED <<row, typed, target, read>>

\* validateStruct, or else bcrypt, refuses body b.
Refuse(r, b) ==
  /\ pc[r] = "idle"
  /\ \/ ~GoodAccount(Normalised(b)) /\ Answer(r, "validation")
     \/ GoodAccount(Normalised(b)) /\ ~Hashable(b.password) /\ Answer(r, "other")
  /\ UNCHANGED <<row, typed, target, read>>

HashPassword(r, b) ==
  /\ pc[r] = "idle"
  /\ GoodAccount(Normalised(b)) /\ Hashable(b.password)
  /\ Goto(r, "hashed")
  /\ want' = [want EXCEPT ![r] = b]
  /\ typed' = [typed EXCEPT ![r] = b.email]
  /\ UNCHANGED <<row, target, read>>

InsertRow(r) == row' = [row EXCEPT ![r] = NewRow(r)]

CreateUser(r) ==
  /\ pc[r] = "hashed" /\ ~Taken(r)
  /\ InsertRow(r)
  /\ Answer(r, "created")
  /\ UNCHANGED <<typed, target, read>>

\* gorm.ErrDuplicatedKey becomes ErrConflict.
CreateConflicts(r) ==
  /\ pc[r] = "hashed" /\ Taken(r)
  /\ Answer(r, "conflict")
  /\ UNCHANGED <<row, typed, target, read>>

\* Mutant: every error of Create is taken for the index's.
CreateFailsAsConflict(r) ==
  /\ pc[r] = "hashed"
  /\ Answer(r, "conflict")
  /\ UNCHANGED <<row, typed, target, read>>

\* Create fails for another reason, or the process dies: the row may be there.
CreateFails(r) ==
  /\ pc[r] = "hashed"
  /\ \/ ~Taken(r) /\ InsertRow(r)
     \/ UNCHANGED row
  /\ Answer(r, "other") \/ Answer(r, "lost")
  /\ UNCHANGED <<typed, target, read>>

-----------------------------------------------------------------------------
(* Update. A body it refuses, and one that names nothing, leave no trace.  *)

\* Update validates the name as it was typed.
GoodChange(b) ==
  /\ b.name # Absent => GoodName(b.name)
  /\ b.password # Absent => GoodPassword(b.password)

FindUser(e, u, b) ==
  /\ pc[e] = "ready"
  /\ row[u] # NoRow
  /\ GoodChange(b) /\ b # NoBody
  /\ Goto(e, "found")
  /\ want' = [want EXCEPT ![e] = b]
  /\ target' = [target EXCEPT ![e] = u]
  /\ read' = [read EXCEPT ![e] = row[u]]
  /\ UNCHANGED <<row, typed>>

\* The handler returns; its locals are gone.
Finish(e) ==
  /\ Answer(e, "ready")
  /\ target' = [target EXCEPT ![e] = Absent]
  /\ read' = [read EXCEPT ![e] = NoRow]
  /\ UNCHANGED typed

\* Mutant: Save() writes the row that was read, with the named columns changed.
WrittenFromCopy(e) == [read[e] EXCEPT
     !.name     = IF want[e].name # Absent THEN Trim[want[e].name] ELSE @,
     !.password = IF want[e].password # Absent THEN want[e].password ELSE @]

\* Mutant: a column the body leaves out is set to NULL.
WrittenUnnamed(e) == [row[target[e]] EXCEPT
     !.name     = IF want[e].name # Absent THEN Trim[want[e].name] ELSE @,
     !.password = want[e].password]

\* Updates(fields): only the columns the body names; the name is trimmed here.
Written(e) == [row[target[e]] EXCEPT
     !.name     = IF want[e].name # Absent THEN Trim[want[e].name] ELSE @,
     !.password = IF want[e].password # Absent THEN want[e].password ELSE @]

UpdateUser(e) ==
  /\ pc[e] = "found"
  /\ want[e].password # Absent => Hashable(want[e].password)
  /\ row' = [row EXCEPT ![target[e]] = Written(e)]
  /\ Finish(e)

\* The password cannot be hashed, the UPDATE fails, or the process dies.
UpdateFails(e) ==
  /\ pc[e] = "found"
  /\ Finish(e)
  /\ UNCHANGED row

-----------------------------------------------------------------------------
Register(r) ==
  \/ RejectBody(r)
  \/ \E b \in Accounts : Refuse(r, b) \/ HashPassword(r, b)
  \/ CreateUser(r) \/ CreateConflicts(r) \/ CreateFails(r)

Update(e) ==
  \/ \E u \in Registers, b \in Changes : FindUser(e, u, b)
  \/ UpdateUser(e) \/ UpdateFails(e)

Next ==
  \/ \E r \in Registers : Register(r)
  \/ \E e \in Updates : Update(e)

Spec == Init /\ [][Next]_vars

-----------------------------------------------------------------------------
(* Properties. *)

\* The lookup Login makes with a normalised address.
FindByEmail(address) ==
  {u \in Registers : row[u] # NoRow /\ row[u].email = address}

\* Whoever signed up can log in by typing their address in any case and with any
\* blanks around it: the lookup finds their account and no other, whichever
\* signups raced (Register's "the unique index is the real guard").
EveryAccountReachable ==
  \A r \in Registers : row[r] # NoRow =>
    \A s \in Spellings :
      Normal[s] = Normal[typed[r]] => FindByEmail(Normal[s]) = {r}

\* The status of a signup is true when it is sent and stays true: 201 means the
\* account exists; any 4xx that it does not; 409 that somebody else has the
\* address for good; and what is in password_hash is the hash of a whole password,
\* whatever became of the request.
AnswersAreTrue ==
  \A r \in Registers :
    /\ Answered(r) /\ Status(r) = 201 => row[r] # NoRow
    /\ Answered(r) /\ Status(r) \in 400..499 => row[r] = NoRow
    /\ Answered(r) /\ Status(r) = 409 =>
         \E o \in Registers \ {r} : row[o] # NoRow /\ row[o].email = Normal[typed[r]]
    /\ row[r] # NoRow => Bytes[row[r].password] <= BcryptMaxPasswordBytes

\* An address never changes, and a name or a password only by an update of that
\* account that names it: a rename that was read before a password change and is
\* written after it does not bring the old hash back (repository.go:18-22).
NamedColumnsOnly ==
  [][\A u \in Registers :
       row[u] # NoRow =>
         /\ row'[u].email = row[u].email
         /\ \A f \in {"name", "password"} :
              row'[u][f] # row[u][f] =>
                \E e \in Updates :
                  /\ pc[e] = "found" /\ pc'[e] = "ready"
                  /\ target[e] = u /\ want[e][f] # Absent]_vars

\* What the "min=1" of model/user.go:37 asks of a name, and user.go:74-75 gives as
\* the reason to normalise before validating: no account has a blank name.
NameNeverBlank == \A u \in Registers : row[u] # NoRow => Size[row[u].name] > 0
=============================================================================
