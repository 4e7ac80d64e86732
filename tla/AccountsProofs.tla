---------------------------- MODULE AccountsProofs ----------------------------
(***************************************************************************)
(* Proofs about Accounts, for any number of signups and updates, and for   *)
(* every normal form, validation rule and measure of names and passwords.  *)
(***************************************************************************)
EXTENDS Accounts, TLAPS

\* What a signup, its row and what its client typed have to do with each other.
SignupOK(u) ==
  /\ pc[u] = "hashed" =>
       /\ want[u] \in Accounts
       /\ Hashable(want[u].password)
       /\ typed[u] = want[u].email
  /\ row[u] # NoRow =>
       /\ typed[u] \in Spellings
       /\ row[u].email = Normal[typed[u]]
       /\ Hashable(row[u].password)
  /\ pc[u] \in {"idle", "hashed", "malformed", "validation", "conflict"} => row[u] = NoRow
  /\ pc[u] = "created" => row[u] # NoRow

\* What an update knows between its two statements.
UpdateOK(e) ==
  pc[e] = "found" =>
    /\ want[e] \in Changes
    /\ target[e] \in Registers
    /\ row[target[e]] # NoRow

\* What the unique index keeps true.
EmailsDiffer ==
  \A r, o \in Registers :
    r # o /\ row[r] # NoRow /\ row[o] # NoRow => row[r].email # row[o].email

\* An address that made a signup conflict stays taken.
ConflictsStay ==
  \A r \in Registers : pc[r] = "conflict" =>
    \E o \in Registers \ {r} : row[o] # NoRow /\ row[o].email = Normal[typed[r]]

IInv ==
  /\ TypeOK
  /\ \A u \in Registers : SignupOK(u)
  /\ \A e \in Updates : UpdateOK(e)
  /\ EmailsDiffer
  /\ ConflictsStay

-----------------------------------------------------------------------------
LEMMA NoRowIsNone == NoRow \notin Accounts /\ NoRow \in Changes /\ NoBody = NoRow
  BY AbsentAssumption DEF NoRow, Accounts, Changes, NoBody

\* Normalising keeps the type and the password, and gives the address its normal form.
LEMMA NormalisedShape ==
  ASSUME NEW b \in Accounts
  PROVE  /\ Normalised(b) \in Accounts
         /\ Normalised(b).email = Normal[b.email]
         /\ Normalised(b).password = b.password
  BY TextAssumption DEF Normalised, Accounts

\* An update writes a row of the same address, with a password that is the old one
\* or the one its body names.
LEMMA WrittenShape ==
  ASSUME NEW e \in Updates, want[e] \in Changes, row[target[e]] \in Accounts
  PROVE  /\ Written(e) \in Accounts
         /\ Written(e).email = row[target[e]].email
         /\ Written(e).password = IF want[e].password # Absent THEN want[e].password
                                  ELSE row[target[e]].password
  BY TextAssumption DEF Written, Accounts, Changes

\* What an answer does to the request and what it leaves alone.
LEMMA AnswerShape ==
  ASSUME TypeOK, NEW r \in Registers \cup Updates, NEW label \in SignupPoints \cup UpdatePoints,
         Answer(r, label)
  PROVE  /\ pc' \in [Registers \cup Updates -> SignupPoints \cup UpdatePoints]
         /\ want' \in [Registers \cup Updates -> Accounts \cup Changes]
         /\ pc'[r] = label
         /\ \A q \in Registers \cup Updates : q # r => pc'[q] = pc[q] /\ want'[q] = want[q]
<1>1. NoBody \in Accounts \cup Changes
  BY NoRowIsNone
<1> QED
  BY <1>1 DEF TypeOK, Answer, Goto

\* What inserting a prepared signup does to the table.
LEMMA InsertShape ==
  ASSUME TypeOK, NEW r \in Registers, SignupOK(r), pc[r] = "hashed", InsertRow(r)
  PROVE  /\ row' \in [Registers -> Accounts \cup {NoRow}]
         /\ row'[r] \in Accounts
         /\ row'[r].email = Normal[typed[r]]
         /\ row'[r].email = NewRow(r).email
         /\ Hashable(row'[r].password)
         /\ typed[r] \in Spellings
         /\ \A u \in Registers : u # r => row'[u] = row[u]
<1>1. want[r] \in Accounts /\ typed[r] = want[r].email /\ Hashable(want[r].password)
  BY DEF SignupOK
<1>2. /\ NewRow(r) \in Accounts
      /\ NewRow(r).email = Normal[want[r].email]
      /\ NewRow(r).password = want[r].password
  BY <1>1, NormalisedShape DEF NewRow
<1>3. row'[r] = NewRow(r)
  BY DEF InsertRow, TypeOK
<1>4. want[r].email \in Spellings
  BY <1>1 DEF Accounts
<1> QED
  BY <1>1, <1>2, <1>3, <1>4 DEF InsertRow, TypeOK

-----------------------------------------------------------------------------
(* Signups. *)

\* A signup that ends without inserting anything disturbs nobody.
LEMMA QuietEnd ==
  ASSUME IInv, NEW r \in Registers,
         NEW label \in {"malformed", "validation", "conflict", "other", "lost"},
         pc[r] \in {"idle", "hashed"}, Answer(r, label),
         label = "conflict" =>
           \E o \in Registers \ {r} : row[o] # NoRow /\ row[o].email = Normal[typed[r]],
         UNCHANGED <<row, typed, target, read>>
  PROVE  IInv'
<1> label \in SignupPoints
  BY DEF SignupPoints, Errors
<1>1. /\ pc' \in [Registers \cup Updates -> SignupPoints \cup UpdatePoints]
      /\ want' \in [Registers \cup Updates -> Accounts \cup Changes]
      /\ pc'[r] = label
      /\ \A q \in Registers \cup Updates : q # r => pc'[q] = pc[q] /\ want'[q] = want[q]
  BY AnswerShape DEF IInv
<1>2. TypeOK'
  BY <1>1, KindsAssumption DEF IInv, TypeOK
<1>3. \A u \in Registers : SignupOK(u)'
  <2> TAKE u \in Registers
  <2>1. SignupOK(u) /\ SignupOK(r)
    BY DEF IInv
  <2>2. CASE u = r
    BY <1>1, <2>1, <2>2 DEF SignupOK
  <2>3. CASE u # r
    BY <1>1, <2>1, <2>3 DEF SignupOK
  <2> QED
    BY <2>2, <2>3
<1>4. \A e \in Updates : UpdateOK(e)'
  BY <1>1, KindsAssumption DEF IInv, UpdateOK
<1>5. EmailsDiffer'
  BY DEF IInv, EmailsDiffer
<1>6. ConflictsStay'
  BY <1>1 DEF IInv, ConflictsStay
<1> QED
  BY <1>2, <1>3, <1>4, <1>5, <1>6 DEF IInv

\* Nor does one that has hashed its password.
LEMMA HashStep ==
  ASSUME IInv, NEW r \in Registers, NEW b \in Accounts, HashPassword(r, b)
  PROVE  IInv'
<1>1. /\ pc[r] = "idle" /\ Hashable(b.password)
      /\ pc' = [pc EXCEPT ![r] = "hashed"]
      /\ want' = [want EXCEPT ![r] = b]
      /\ typed' = [typed EXCEPT ![r] = b.email]
      /\ UNCHANGED <<row, target, read>>
      /\ b.email \in Spellings
  BY DEF HashPassword, Goto, Accounts
<1>2. TypeOK'
  BY <1>1, KindsAssumption DEF IInv, TypeOK, SignupPoints
<1>3. \A u \in Registers : SignupOK(u)'
  <2> TAKE u \in Registers
  <2>1. SignupOK(u) /\ TypeOK
    BY DEF IInv
  <2>2. CASE u = r
    BY <1>1, <2>1, <2>2 DEF SignupOK, TypeOK
  <2>3. CASE u # r
    BY <1>1, <2>1, <2>3 DEF SignupOK, TypeOK
  <2> QED
    BY <2>2, <2>3
<1>4. \A e \in Updates : UpdateOK(e)'
  BY <1>1, KindsAssumption DEF IInv, UpdateOK, TypeOK
<1>5. EmailsDiffer'
  BY <1>1 DEF IInv, EmailsDiffer
<1>6. ConflictsStay'
  BY <1>1 DEF IInv, ConflictsStay, TypeOK
<1> QED
  BY <1>2, <1>3, <1>4, <1>5, <1>6 DEF IInv

\* A signup that inserts its row finds its address free, and nobody else's row or
\* address is touched.
LEMMA InsertEnd ==
  ASSUME IInv, NEW r \in Registers, NEW label \in {"created", "other", "lost"},
         pc[r] = "hashed", ~Taken(r), InsertRow(r), Answer(r, label),
         UNCHANGED <<typed, target, read>>
  PROVE  IInv'
<1> label \in SignupPoints
  BY DEF SignupPoints, Errors
<1>1. /\ pc' \in [Registers \cup Updates -> SignupPoints \cup UpdatePoints]
      /\ want' \in [Registers \cup Updates -> Accounts \cup Changes]
      /\ pc'[r] = label
      /\ \A q \in Registers \cup Updates : q # r => pc'[q] = pc[q] /\ want'[q] = want[q]
  BY AnswerShape DEF IInv
<1>2. /\ row' \in [Registers -> Accounts \cup {NoRow}]
      /\ row'[r] \in Accounts
      /\ row'[r].email = Normal[typed[r]]
      /\ row'[r].email = NewRow(r).email
      /\ Hashable(row'[r].password)
      /\ typed[r] \in Spellings
      /\ \A u \in Registers : u # r => row'[u] = row[u]
  BY InsertShape DEF IInv
<1>3. row'[r] # NoRow /\ row[r] = NoRow
  BY <1>2, NoRowIsNone DEF IInv, SignupOK
<1>4. TypeOK'
  BY <1>1, <1>2, KindsAssumption DEF IInv, TypeOK
<1>5. \A u \in Registers : SignupOK(u)'
  <2> TAKE u \in Registers
  <2>1. SignupOK(u)
    BY DEF IInv
  <2>2. CASE u = r
    BY <1>1, <1>2, <1>3, <2>2 DEF SignupOK, Hashable
  <2>3. CASE u # r
    BY <1>1, <1>2, <2>1, <2>3 DEF SignupOK, Hashable
  <2> QED
    BY <2>2, <2>3
<1>6. \A e \in Updates : UpdateOK(e)'
  BY <1>1, <1>2, <1>3, KindsAssumption DEF IInv, UpdateOK
<1>7. EmailsDiffer'
  BY <1>2 DEF IInv, EmailsDiffer, Taken
<1>8. ConflictsStay'
  BY <1>1, <1>2, <1>3 DEF IInv, ConflictsStay
<1> QED
  BY <1>4, <1>5, <1>6, <1>7, <1>8 DEF IInv

LEMMA SignupStep == ASSUME IInv, NEW r \in Registers, Register(r) PROVE IInv'
<1>1. CASE RejectBody(r)
  BY <1>1, QuietEnd DEF RejectBody
<1>2. ASSUME NEW b \in Accounts, Refuse(r, b) PROVE IInv'
  BY <1>2, QuietEnd DEF Refuse
<1>3. ASSUME NEW b \in Accounts, HashPassword(r, b) PROVE IInv'
  BY <1>3, HashStep
<1>4. CASE CreateUser(r)
  BY <1>4, InsertEnd DEF CreateUser
<1>5. CASE CreateConflicts(r)
  <2>1. NewRow(r).email = Normal[typed[r]]
    BY <1>5, NormalisedShape DEF CreateConflicts, IInv, SignupOK, NewRow
  <2> QED
    BY <1>5, <2>1, QuietEnd DEF CreateConflicts, Taken
<1>6. CASE CreateFails(r)
  <2>1. CASE UNCHANGED row
    BY <1>6, <2>1, QuietEnd DEF CreateFails
  <2>2. CASE ~Taken(r) /\ InsertRow(r)
    BY <1>6, <2>2, InsertEnd DEF CreateFails
  <2> QED
    BY <1>6, <2>1, <2>2 DEF CreateFails
<1> QED
  BY <1>1, <1>2, <1>3, <1>4, <1>5, <1>6 DEF Register

-----------------------------------------------------------------------------
(* Updates. *)

\* An update leaves every signup as it was, rows stay rows of the same address,
\* and only a hashable password replaces another.
Rewrites ==
  /\ row' \in [Registers -> Accounts \cup {NoRow}]
  /\ \A u \in Registers :
       /\ row'[u] = NoRow <=> row[u] = NoRow
       /\ row[u] # NoRow => row'[u].email = row[u].email
       /\ row[u] # NoRow /\ Hashable(row[u].password) => Hashable(row'[u].password)

LEMMA UpdateUserRewrites ==
  ASSUME IInv, NEW e \in Updates, UpdateUser(e)
  PROVE  Rewrites
<1>1. /\ want[e] \in Changes /\ target[e] \in Registers /\ row[target[e]] # NoRow
      /\ row' = [row EXCEPT ![target[e]] = Written(e)]
      /\ want[e].password # Absent => Hashable(want[e].password)
      /\ row \in [Registers -> Accounts \cup {NoRow}]
  BY DEF IInv, TypeOK, UpdateOK, UpdateUser
<1>2. /\ Written(e) \in Accounts
      /\ Written(e).email = row[target[e]].email
      /\ Written(e).password = IF want[e].password # Absent THEN want[e].password
                               ELSE row[target[e]].password
  BY <1>1, WrittenShape
<1>3. Written(e) # NoRow
  BY <1>2, NoRowIsNone
<1> QED
  BY <1>1, <1>2, <1>3 DEF Rewrites, Hashable

\* Whatever an update does to itself, the invariant holds afterwards if the update
\* knows what it has to know.
LEMMA UpdateKeeps ==
  ASSUME IInv, NEW e \in Updates, Rewrites, UNCHANGED typed,
         pc' \in [Registers \cup Updates -> SignupPoints \cup UpdatePoints],
         pc'[e] \in UpdatePoints,
         want' \in [Registers \cup Updates -> Accounts \cup Changes],
         target' \in [Updates -> Registers \cup {Absent}],
         read' \in [Updates -> Accounts \cup {NoRow}],
         \A q \in Registers \cup Updates : q # e => pc'[q] = pc[q] /\ want'[q] = want[q],
         \A d \in Updates : d # e => target'[d] = target[d],
         UpdateOK(e)'
  PROVE  IInv'
<1>1. \A u \in Registers : pc'[u] = pc[u] /\ want'[u] = want[u]
  BY KindsAssumption
<1>2. TypeOK'
  BY <1>1 DEF IInv, TypeOK, Rewrites
<1>3. \A u \in Registers : SignupOK(u)'
  <2> TAKE u \in Registers
  <2>1. SignupOK(u)
    BY DEF IInv
  <2> QED
    BY <1>1, <2>1 DEF SignupOK, Rewrites, Hashable
<1>4. \A d \in Updates : UpdateOK(d)'
  <2> TAKE d \in Updates
  <2>1. CASE d = e
    BY <2>1
  <2>2. CASE d # e
    <3>1. UpdateOK(d) /\ pc'[d] = pc[d] /\ want'[d] = want[d] /\ target'[d] = target[d]
      BY <2>2 DEF IInv
    <3> QED
      BY <3>1 DEF UpdateOK, Rewrites
  <2> QED
    BY <2>1, <2>2
<1>5. EmailsDiffer'
  BY DEF IInv, EmailsDiffer, Rewrites
<1>6. ConflictsStay'
  BY <1>1 DEF IInv, ConflictsStay, Rewrites
<1> QED
  BY <1>2, <1>3, <1>4, <1>5, <1>6 DEF IInv

LEMMA FinishKeeps ==
  ASSUME IInv, NEW e \in Updates, Rewrites, Finish(e)
  PROVE  IInv'
<1> "ready" \in UpdatePoints
  BY DEF UpdatePoints
<1>1. /\ pc' \in [Registers \cup Updates -> SignupPoints \cup UpdatePoints]
      /\ want' \in [Registers \cup Updates -> Accounts \cup Changes]
      /\ pc'[e] = "ready"
      /\ \A q \in Registers \cup Updates : q # e => pc'[q] = pc[q] /\ want'[q] = want[q]
  BY AnswerShape DEF IInv, Finish
<1>2. /\ target' \in [Updates -> Registers \cup {Absent}]
      /\ read' \in [Updates -> Accounts \cup {NoRow}]
      /\ \A d \in Updates : d # e => target'[d] = target[d]
  BY DEF IInv, TypeOK, Finish
<1> QED
  BY <1>1, <1>2, UpdateKeeps DEF Finish, UpdateOK

LEMMA UpdateStep == ASSUME IInv, NEW e \in Updates, Update(e) PROVE IInv'
<1>1. CASE UpdateUser(e)
  BY <1>1, UpdateUserRewrites, FinishKeeps DEF UpdateUser
<1> USE DEF IInv
<1>2. CASE UNCHANGED row
  <2>1. Rewrites
    BY <1>2 DEF TypeOK, Rewrites
  <2>2. CASE UpdateFails(e)
    BY <2>1, <2>2, FinishKeeps DEF UpdateFails
  <2>3. ASSUME NEW u \in Registers, NEW b \in Changes, FindUser(e, u, b)
        PROVE  IInv'
    <3>1. /\ row[u] # NoRow
          /\ pc' = [pc EXCEPT ![e] = "found"]
          /\ want' = [want EXCEPT ![e] = b]
          /\ target' = [target EXCEPT ![e] = u]
          /\ read' = [read EXCEPT ![e] = row[u]]
          /\ UNCHANGED <<row, typed>>
      BY <2>3 DEF FindUser, Goto
    <3>2. /\ pc' \in [Registers \cup Updates -> SignupPoints \cup UpdatePoints]
          /\ pc'[e] \in UpdatePoints
          /\ want' \in [Registers \cup Updates -> Accounts \cup Changes]
          /\ target' \in [Updates -> Registers \cup {Absent}]
          /\ read' \in [Updates -> Accounts \cup {NoRow}]
          /\ \A q \in Registers \cup Updates : q # e => pc'[q] = pc[q] /\ want'[q] = want[q]
          /\ \A d \in Updates : d # e => target'[d] = target[d]
      BY <3>1 DEF TypeOK, UpdatePoints
    <3>3. UpdateOK(e)'
      BY <3>1 DEF UpdateOK, TypeOK
    <3> QED
      BY <2>1, <3>1, <3>2, <3>3, UpdateKeeps
  <2> QED
    BY <1>1, <2>2, <2>3 DEF Update
<1> QED
  BY <1>1, <1>2 DEF Update, FindUser, UpdateFails

-----------------------------------------------------------------------------
LEMMA InitHolds == Init => IInv
<1> SUFFICES ASSUME Init PROVE IInv
  OBVIOUS
<1>1. TypeOK
  BY NoRowIsNone, KindsAssumption DEF Init, TypeOK, SignupPoints, UpdatePoints, Errors
<1>2. /\ \A u \in Registers : SignupOK(u)
      /\ \A e \in Updates : UpdateOK(e)
      /\ EmailsDiffer
      /\ ConflictsStay
  BY KindsAssumption DEF Init, SignupOK, UpdateOK, EmailsDiffer, ConflictsStay
<1> QED
  BY <1>1, <1>2 DEF IInv

LEMMA IInvStep == IInv /\ [Next]_vars => IInv'
<1> SUFFICES ASSUME IInv, [Next]_vars PROVE IInv'
  OBVIOUS
<1>1. CASE UNCHANGED vars
  BY <1>1 DEF vars, IInv, TypeOK, SignupOK, UpdateOK, EmailsDiffer, ConflictsStay
<1> QED
  BY <1>1, SignupStep, UpdateStep DEF Next

\* The strengthening is inductive.
THEOREM Invariance == Spec => []IInv
  BY InitHolds, IInvStep, PTL DEF Spec

\* Every variable keeps its type.
THEOREM TypeCorrect == Spec => []TypeOK
<1>1. IInv => TypeOK
  BY DEF IInv
<1> QED
  BY <1>1, Invariance, PTL

\* Whichever signups race and whatever they type, whoever signed up finds their
\* account, and no other, under every spelling of their address.
THEOREM Reachable == Spec => []EveryAccountReachable
<1>1. IInv => EveryAccountReachable
  <2> SUFFICES ASSUME IInv, NEW r \in Registers, row[r] # NoRow,
                      NEW s \in Spellings, Normal[s] = Normal[typed[r]]
               PROVE  FindByEmail(Normal[s]) = {r}
    BY DEF EveryAccountReachable
  <2>1. row[r].email = Normal[s]
    BY DEF IInv, SignupOK
  <2>2. \A u \in Registers : row[u] # NoRow /\ row[u].email = Normal[s] => u = r
    BY <2>1 DEF IInv, EmailsDiffer
  <2> QED
    BY <2>1, <2>2 DEF FindByEmail
<1> QED
  BY <1>1, Invariance, PTL

\* The status of a signup is true, and no hash is of a part of a password.
THEOREM TrueStatus == Spec => []AnswersAreTrue
<1>1. IInv => AnswersAreTrue
  <2> SUFFICES ASSUME IInv, NEW r \in Registers
               PROVE  /\ Answered(r) /\ Status(r) = 201 => row[r] # NoRow
                      /\ Answered(r) /\ Status(r) \in 400..499 => row[r] = NoRow
                      /\ Answered(r) /\ Status(r) = 409 =>
                           \E o \in Registers \ {r} :
                             row[o] # NoRow /\ row[o].email = Normal[typed[r]]
                      /\ row[r] # NoRow => Bytes[row[r].password] <= BcryptMaxPasswordBytes
    BY DEF AnswersAreTrue
  <2>1. /\ Answered(r) /\ Status(r) = 201 => pc[r] = "created"
        /\ Answered(r) /\ Status(r) \in 400..499
             => pc[r] \in {"malformed", "validation", "conflict"}
        /\ Answered(r) /\ Status(r) = 409 => pc[r] = "conflict"
    BY DEF Answered, Status, StatusOf, Errors
  <2>2. SignupOK(r) /\ ConflictsStay
    BY DEF IInv
  <2> QED
    BY <2>1, <2>2 DEF SignupOK, ConflictsStay, Hashable
<1> QED
  BY <1>1, Invariance, PTL

\* Columns change only by an update that names them, also between the two
\* statements of another update.
THEOREM ColumnsNamed == Spec => NamedColumnsOnly
<1>1. IInv /\ [Next]_vars =>
        [\A u \in Registers :
           row[u] # NoRow =>
             /\ row'[u].email = row[u].email
             /\ \A f \in {"name", "password"} :
                  row'[u][f] # row[u][f] =>
                    \E e \in Updates :
                      /\ pc[e] = "found" /\ pc'[e] = "ready"
                      /\ target[e] = u /\ want[e][f] # Absent]_vars
  <2> SUFFICES ASSUME IInv, [Next]_vars, NEW u \in Registers, row[u] # NoRow, row' # row
               PROVE  /\ row'[u].email = row[u].email
                      /\ \A f \in {"name", "password"} :
                           row'[u][f] # row[u][f] =>
                             \E e \in Updates :
                               /\ pc[e] = "found" /\ pc'[e] = "ready"
                               /\ target[e] = u /\ want[e][f] # Absent
    OBVIOUS
  <2>1. CASE row'[u] = row[u]
    BY <2>1
  <2>2. ASSUME NEW r \in Registers, Register(r) PROVE row'[u] = row[u]
    <3>1. ASSUME pc[r] = "hashed", InsertRow(r) PROVE row'[u] = row[u]
      BY <3>1, InsertShape DEF IInv, SignupOK
    <3> QED
      BY <2>2, <3>1 DEF Register, RejectBody, Refuse, HashPassword, CreateUser,
                        CreateConflicts, CreateFails
  <2>3. ASSUME NEW e \in Updates, UpdateUser(e), row'[u] # row[u]
        PROVE  /\ row'[u].email = row[u].email
               /\ pc[e] = "found" /\ pc'[e] = "ready" /\ target[e] = u
               /\ row'[u].name # row[u].name => want[e].name # Absent
               /\ row'[u].password # row[u].password => want[e].password # Absent
    <3>1. /\ want[e] \in Changes /\ target[e] \in Registers /\ row[target[e]] # NoRow
          /\ row' = [row EXCEPT ![target[e]] = Written(e)]
          /\ row \in [Registers -> Accounts \cup {NoRow}]
          /\ pc[e] = "found" /\ pc' = [pc EXCEPT ![e] = "ready"]
          /\ pc \in [Registers \cup Updates -> SignupPoints \cup UpdatePoints]
      BY <2>3 DEF IInv, TypeOK, UpdateOK, UpdateUser, Finish, Answer, Goto
    <3>2. target[e] = u /\ row'[u] = Written(e)
      BY <2>3, <3>1
    <3>3. row[u] \in Accounts
      BY <3>1
    <3> QED
      BY <3>1, <3>2, <3>3, WrittenShape DEF Written, Accounts
  <2> QED
    BY <2>1, <2>2, <2>3 DEF Next, Update, FindUser, UpdateFails, vars
<1> QED
  BY <1>1, Invariance, PTL DEF Spec, NamedColumnsOnly
=============================================================================
