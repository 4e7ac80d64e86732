---------------------------- MODULE MachinesProofs --------------------------
(***************************************************************************)
(* Proofs about Machines, for any number of users, machines and requests.  *)
(***************************************************************************)
EXTENDS Machines, TLAPS

\* What an update or a deletion knows between its two statements: the row it read
\* is still there and still belongs to its user, although perhaps deleted.
GateHolds ==
  \A r \in Requests :
    pc[r] = "found" =>
      /\ r \in Updates \cup Deletes
      /\ target[r] \in Creates
      /\ row[target[r]] # NoRow
      /\ row[target[r]].owner = user[r]

IInv == TypeOK /\ GateHolds /\ LabelsUnique

\* A row that is live is a row, and null rows are none.
LEMMA RowShape ==
  ASSUME TypeOK, NEW m \in Creates
  PROVE  /\ row[m] # NoRow => row[m] \in Rows
         /\ row[m].live => row[m] # NoRow
         /\ NoRow \notin Rows
<1>1. NoRow \notin Rows
  BY AbsentAssumption DEF NoRow, Rows
<1> QED
  BY <1>1 DEF TypeOK, NoRow

\* What a write makes of a row is a row of the same owner, and as live.
LEMMA WriteShape ==
  ASSUME TypeOK, NEW e \in Updates, target[e] \in Creates,
         row[target[e]] # NoRow
  PROVE  /\ Written(e) \in Rows
         /\ Written(e).owner = row[target[e]].owner
         /\ Written(e).live = row[target[e]].live
         /\ Written(e).label =
              IF want[e].label # Absent THEN want[e].label ELSE row[target[e]].label
<1>1. row[target[e]] \in Rows
  BY RowShape
<1>2. want[e] \in Bodies
  BY DEF TypeOK, Requests
<1> QED
  BY <1>1, <1>2 DEF Written, Rows, Bodies

LEMMA TypeStep == TypeOK /\ GateHolds /\ [Next]_vars => TypeOK'
<1> SUFFICES ASSUME TypeOK, GateHolds, [Next]_vars PROVE TypeOK'
  OBVIOUS
<1> NoBody \in Bodies
  BY DEF NoBody, Bodies
<1>1. ASSUME NEW r \in Requests, Answer(r)
      PROVE  /\ pc' \in [Requests -> Points]
             /\ user' \in [Requests -> Users \cup {Absent}]
             /\ target' \in [Requests -> Creates \cup {Absent}]
             /\ want' \in [Requests -> Bodies]
  BY <1>1 DEF TypeOK, Answer, Points
<1>2. ASSUME NEW r \in Requests, NEW u \in Users, NEW m \in Creates, NEW b \in Bodies,
             NEW label \in Points, Arrive(r, u, m, b, label)
      PROVE  /\ pc' \in [Requests -> Points]
             /\ user' \in [Requests -> Users \cup {Absent}]
             /\ target' \in [Requests -> Creates \cup {Absent}]
             /\ want' \in [Requests -> Bodies]
  BY <1>2 DEF TypeOK, Arrive
<1>3. CASE UNCHANGED vars
  BY <1>3 DEF TypeOK, vars
<1>4. ASSUME NEW c \in Creates, NEW u \in Users, NEW b \in Bodies, CreateMachine(c, u, b)
      PROVE  TypeOK'
  <2>1. [owner |-> u, label |-> b.label, place |-> b.place, live |-> TRUE] \in Rows
    BY <1>4 DEF CreateMachine, Bodies, Rows
  <2>2. row' \in [Creates -> Rows \cup {NoRow}]
    BY <1>4, <2>1 DEF CreateMachine, TypeOK
  <2> QED
    BY <1>4, <1>1, <2>2 DEF CreateMachine, TypeOK, Requests
<1>5. ASSUME NEW c \in Creates, NEW u \in Users, NEW b \in Bodies, CreateConflicts(c, u, b)
      PROVE  TypeOK'
  BY <1>5, <1>2 DEF CreateConflicts, TypeOK, Requests, Points
<1>6. ASSUME NEW r \in Updates \cup Deletes, Find(r)
      PROVE  TypeOK'
  <2> PICK u \in Users, m \in Creates, b \in Bodies : FindOwnedMachine(r, u, m, b)
    BY <1>6 DEF Find
  <2> QED
    BY <1>2 DEF FindOwnedMachine, TypeOK, Requests, Points
<1>7. ASSUME NEW e \in Updates, UpdateRow(e)
      PROVE  TypeOK'
  <2>1. Written(e) \in Rows
    BY <1>7, WriteShape DEF UpdateRow, GateHolds, Requests
  <2>2. row' \in [Creates -> Rows \cup {NoRow}]
    BY <1>7, <2>1 DEF UpdateRow, TypeOK
  <2> QED
    BY <1>7, <1>1, <2>2 DEF UpdateRow, TypeOK, Requests
<1>8. ASSUME NEW e \in Updates, UpdateConflicts(e)
      PROVE  TypeOK'
  BY <1>8 DEF UpdateConflicts, TypeOK, Points
<1>9. ASSUME NEW d \in Deletes, DeleteRow(d)
      PROVE  TypeOK'
  <2>1. target[d] \in Creates /\ row[target[d]] \in Rows
    BY <1>9, RowShape DEF DeleteRow, GateHolds, Requests
  <2>2. [row[target[d]] EXCEPT !.live = FALSE] \in Rows
    BY <2>1 DEF Rows
  <2>3. row' \in [Creates -> Rows \cup {NoRow}]
    BY <1>9, <2>1, <2>2 DEF DeleteRow, TypeOK
  <2> QED
    BY <1>9, <1>1, <2>3 DEF DeleteRow, TypeOK, Requests
<1>10. ASSUME NEW r \in Updates \cup Deletes, Fail(r)
       PROVE  TypeOK'
  BY <1>10, <1>1 DEF Fail, TypeOK, Requests
<1> QED
  BY <1>3, <1>4, <1>5, <1>6, <1>7, <1>8, <1>9, <1>10 DEF Next, Create

\* A row, once there, keeps its owner and never disappears.
LEMMA OwnersStay ==
  ASSUME TypeOK, GateHolds, [Next]_vars, NEW m \in Creates, row[m] # NoRow
  PROVE  row'[m] # NoRow /\ row'[m].owner = row[m].owner
<1> row[m] \in Rows /\ NoRow \notin Rows
  BY RowShape
<1>1. ASSUME NEW e \in Updates, UpdateRow(e)
      PROVE  row'[m] \in Rows /\ row'[m].owner = row[m].owner
  BY <1>1, WriteShape DEF UpdateRow, GateHolds, Requests, TypeOK
<1>2. ASSUME NEW d \in Deletes, DeleteRow(d)
      PROVE  row'[m] \in Rows /\ row'[m].owner = row[m].owner
  BY <1>2 DEF DeleteRow, TypeOK, Rows
<1>3. ASSUME NEW c \in Creates, NEW u \in Users, NEW b \in Bodies, CreateMachine(c, u, b)
      PROVE  row'[m] \in Rows /\ row'[m].owner = row[m].owner
  BY <1>3 DEF CreateMachine, TypeOK
<1>4. CASE UNCHANGED row
  BY <1>4
<1> QED
  BY <1>1, <1>2, <1>3, <1>4
     DEF Next, Create, Find, vars, CreateConflicts, FindOwnedMachine, UpdateConflicts, Fail

LEMMA GateStep == TypeOK /\ GateHolds /\ [Next]_vars => GateHolds'
<1> SUFFICES ASSUME TypeOK, GateHolds, [Next]_vars,
                    NEW r \in Requests, pc'[r] = "found"
             PROVE  /\ r \in Updates \cup Deletes
                    /\ target'[r] \in Creates
                    /\ row'[target'[r]] # NoRow
                    /\ row'[target'[r]].owner = user'[r]
  BY DEF GateHolds
<1>1. ASSUME pc[r] = "found", target'[r] = target[r], user'[r] = user[r]
      PROVE  /\ r \in Updates \cup Deletes
             /\ target'[r] \in Creates
             /\ row'[target'[r]] # NoRow
             /\ row'[target'[r]].owner = user'[r]
  BY <1>1, OwnersStay DEF GateHolds
<1>2. ASSUME NEW q \in Requests, Answer(q)
      PROVE  pc[r] = "found" /\ target'[r] = target[r] /\ user'[r] = user[r]
  BY <1>2 DEF Answer, TypeOK
<1>3. ASSUME NEW q \in Updates \cup Deletes, Find(q)
      PROVE  /\ r \in Updates \cup Deletes
             /\ target'[r] \in Creates
             /\ row'[target'[r]] # NoRow
             /\ row'[target'[r]].owner = user'[r]
  <2> PICK u \in Users, m \in Creates, b \in Bodies : FindOwnedMachine(q, u, m, b)
    BY <1>3 DEF Find
  <2>1. CASE r = q
    <3>1. target'[r] = m /\ user'[r] = u /\ row' = row
      BY <2>1 DEF FindOwnedMachine, Arrive, TypeOK
    <3>2. row[m] # NoRow /\ row[m].owner = u
      BY RowShape DEF FindOwnedMachine, Owned
    <3> QED
      BY <2>1, <3>1, <3>2
  <2>2. CASE r # q
    BY <2>2, <1>1 DEF FindOwnedMachine, Arrive, TypeOK
  <2> QED
    BY <2>1, <2>2
<1>4. ASSUME NEW c \in Creates, NEW u \in Users, NEW b \in Bodies, CreateConflicts(c, u, b)
      PROVE  pc[r] = "found" /\ target'[r] = target[r] /\ user'[r] = user[r]
  BY <1>4 DEF CreateConflicts, Arrive, TypeOK
<1>5. ASSUME NEW e \in Updates, UpdateConflicts(e)
      PROVE  pc[r] = "found" /\ target'[r] = target[r] /\ user'[r] = user[r]
  BY <1>5 DEF UpdateConflicts, TypeOK
<1>6. CASE UNCHANGED vars
  BY <1>6, <1>1 DEF vars
<1> QED
  BY <1>1, <1>2, <1>3, <1>4, <1>5, <1>6
     DEF Next, Create, CreateMachine, UpdateRow, DeleteRow, Fail, Requests

LEMMA LabelStep == TypeOK /\ GateHolds /\ LabelsUnique /\ [Next]_vars => LabelsUnique'
<1> SUFFICES ASSUME TypeOK, GateHolds, LabelsUnique, [Next]_vars,
                    NEW m \in Creates, NEW o \in Creates, m # o,
                    row'[m].live, row'[o].live, row'[m].owner = row'[o].owner
             PROVE  Lower[row'[m].label] # Lower[row'[o].label]
  BY DEF LabelsUnique
<1>1. ASSUME NEW c \in Creates, NEW u \in Users, NEW b \in Bodies, CreateMachine(c, u, b)
      PROVE  Lower[row'[m].label] # Lower[row'[o].label]
  <2>1. /\ row'[c] = [owner |-> u, label |-> b.label, place |-> b.place, live |-> TRUE]
        /\ \A x \in Creates : x # c => row'[x] = row[x]
    BY <1>1 DEF CreateMachine, TypeOK
  <2>2. \A x \in Creates : x # c /\ row[x].live /\ row[x].owner = u
                             => Lower[row[x].label] # Lower[b.label]
    BY <1>1 DEF CreateMachine, Taken
  <2> QED
    BY <2>1, <2>2 DEF LabelsUnique
<1>2. ASSUME NEW e \in Updates, UpdateRow(e)
      PROVE  Lower[row'[m].label] # Lower[row'[o].label]
  <2> DEFINE t == target[e]
  <2>1. t \in Creates /\ row[t] # NoRow
    BY <1>2 DEF UpdateRow, GateHolds, Requests
  <2>2. CASE ~row[t].live
    BY <1>2, <2>2 DEF UpdateRow, LabelsUnique
  <2>3. CASE row[t].live
    <3>1. row'[t] = Written(e) /\ \A x \in Creates : x # t => row'[x] = row[x]
      BY <1>2, <2>1, <2>3 DEF UpdateRow, TypeOK
    <3>2. \A x \in Creates : x # t /\ row[x].live /\ row[x].owner = row[t].owner
                               => Lower[row[x].label] # Lower[Written(e).label]
      BY <1>2, <2>1, <2>3, WriteShape DEF UpdateRow, Clashes, Taken, LabelsUnique
    <3>3. Written(e).owner = row[t].owner
      BY <2>1, WriteShape
    <3> QED
      BY <3>1, <3>2, <3>3 DEF LabelsUnique
  <2> QED
    BY <2>2, <2>3
<1>3. ASSUME NEW d \in Deletes, DeleteRow(d)
      PROVE  Lower[row'[m].label] # Lower[row'[o].label]
  <2>1. target[d] \in Creates /\ row[target[d]] \in Rows
    BY <1>3, RowShape DEF DeleteRow, GateHolds, Requests
  <2>2. row'[target[d]].live = FALSE /\ \A x \in Creates : x # target[d] => row'[x] = row[x]
    BY <1>3, <2>1 DEF DeleteRow, TypeOK, Rows
  <2> QED
    BY <2>2 DEF LabelsUnique
<1>4. CASE UNCHANGED row
  BY <1>4 DEF LabelsUnique
<1> QED
  BY <1>1, <1>2, <1>3, <1>4
     DEF Next, Create, Find, vars, CreateConflicts, FindOwnedMachine, UpdateConflicts, Fail

-----------------------------------------------------------------------------
\* The inductive invariant of the registry holds in every reachable state.
THEOREM Invariance == Spec => []IInv
<1>1. Init => IInv
  <2> SUFFICES ASSUME Init PROVE IInv
    OBVIOUS
  <2>1. TypeOK
    BY DEF Init, TypeOK, Points, NoBody, Bodies
  <2>2. GateHolds /\ LabelsUnique
    BY DEF Init, GateHolds, LabelsUnique, NoRow
  <2> QED
    BY <2>1, <2>2 DEF IInv
<1>2. IInv /\ [Next]_vars => IInv'
  BY TypeStep, GateStep, LabelStep DEF IInv
<1> QED
  BY <1>1, <1>2, PTL DEF Spec

\* Type correctness of the registry.
THEOREM TypeCorrect == Spec => []TypeOK
<1>1. IInv => TypeOK
  BY DEF IInv
<1> QED
  BY <1>1, Invariance, PTL

\* Any number of creates, renames and deletions leave the labels of a user's live
\* machines distinct (the use case relies on the partial unique index alone).
THEOREM UniqueLabels == Spec => []LabelsUnique
<1>1. IInv => LabelsUnique
  BY DEF IInv
<1> QED
  BY <1>1, Invariance, PTL

\* Partial updates never undo each other.
THEOREM PartialUpdates == Spec => NamedColumnsOnly
<1> DEFINE A == \A m \in Creates : \A f \in Columns :
       row[m] # NoRow /\ row'[m][f] # row[m][f] =>
         \E e \in Updates :
           /\ pc[e] = "found" /\ pc'[e] # "found"
           /\ target[e] = m
           /\ want[e][f] # Absent /\ want[e][f] = row'[m][f]
<1>1. ASSUME IInv, [Next]_vars, NEW m \in Creates, NEW f \in Columns,
             row[m] # NoRow, row'[m][f] # row[m][f]
      PROVE  \E e \in Updates :
               /\ pc[e] = "found" /\ pc'[e] # "found"
               /\ target[e] = m
               /\ want[e][f] # Absent /\ want[e][f] = row'[m][f]
  <2> TypeOK /\ GateHolds
    BY <1>1 DEF IInv
  <2> row[m] \in Rows /\ f \in {"label", "place"}
    BY <1>1, RowShape DEF Columns
  <2>1. ASSUME NEW c \in Creates, NEW u \in Users, NEW b \in Bodies, CreateMachine(c, u, b)
        PROVE  FALSE
    BY <1>1, <2>1 DEF CreateMachine, TypeOK
  <2>2. ASSUME NEW d \in Deletes, DeleteRow(d)
        PROVE  FALSE
    BY <1>1, <2>2 DEF DeleteRow, TypeOK, Rows
  <2>3. ASSUME NEW e \in Updates, UpdateRow(e)
        PROVE  /\ pc[e] = "found" /\ pc'[e] # "found"
               /\ target[e] = m
               /\ want[e][f] # Absent /\ want[e][f] = row'[m][f]
    <3>1. pc[e] = "found" /\ pc'[e] # "found"
      BY <2>3 DEF UpdateRow, Answer, TypeOK, Requests
    <3>2. target[e] = m /\ row'[m] = Written(e)
      BY <1>1, <2>3 DEF UpdateRow, TypeOK
    <3>3. Written(e)[f] = IF want[e][f] # Absent THEN want[e][f] ELSE row[m][f]
      BY <3>2 DEF Written, Rows
    <3> QED
      BY <1>1, <3>1, <3>2, <3>3
  <2>4. CASE UNCHANGED row
    BY <1>1, <2>4
  <2> QED
    BY <1>1, <2>1, <2>2, <2>3, <2>4
       DEF Next, Create, Find, vars, CreateConflicts, FindOwnedMachine, UpdateConflicts, Fail
<1>2. IInv /\ [Next]_vars => [A]_vars
  BY <1>1
<1> QED
  BY <1>2, Invariance, PTL DEF Spec, NamedColumnsOnly

\* A deleted machine's row never changes again, whoever found it alive before.
THEOREM Tombstones == Spec => DeletedRowsAreHistory
<1> DEFINE A == \A m \in Creates :
       row[m] # NoRow /\ ~row[m].live => row'[m] = row[m]
<1>1. ASSUME IInv, [Next]_vars, NEW m \in Creates, row[m] # NoRow, ~row[m].live
      PROVE  row'[m] = row[m]
  <2> TypeOK /\ GateHolds
    BY <1>1 DEF IInv
  <2> row[m] \in Rows
    BY <1>1, RowShape
  <2>1. ASSUME NEW c \in Creates, NEW u \in Users, NEW b \in Bodies, CreateMachine(c, u, b)
        PROVE  row'[m] = row[m]
    BY <1>1, <2>1 DEF CreateMachine, TypeOK
  <2>2. ASSUME NEW d \in Deletes, DeleteRow(d)
        PROVE  row'[m] = row[m]
    BY <1>1, <2>2 DEF DeleteRow, TypeOK, Rows
  <2>3. ASSUME NEW e \in Updates, UpdateRow(e)
        PROVE  row'[m] = row[m]
    BY <1>1, <2>3 DEF UpdateRow, TypeOK
  <2>4. CASE UNCHANGED row
    BY <2>4
  <2> QED
    BY <1>1, <2>1, <2>2, <2>3, <2>4
       DEF Next, Create, Find, vars, CreateConflicts, FindOwnedMachine, UpdateConflicts, Fail
<1>2. IInv /\ [Next]_vars => [A]_vars
  BY <1>1
<1> QED
  BY <1>2, Invariance, PTL DEF Spec, DeletedRowsAreHistory

\* Only requests of its owner change a machine, for all the time between the
\* ownership check and the write.
THEOREM OwnersOnly == Spec => OnlyTheOwnerWrites
<1> DEFINE A == \A m \in Creates :
       row[m] # NoRow /\ row'[m] # row[m] =>
         \E r \in Updates \cup Deletes :
           /\ pc[r] = "found" /\ pc'[r] # "found"
           /\ target[r] = m
           /\ user[r] = row[m].owner /\ row'[m].owner = row[m].owner
<1>1. ASSUME IInv, [Next]_vars, NEW m \in Creates, row[m] # NoRow, row'[m] # row[m]
      PROVE  \E r \in Updates \cup Deletes :
               /\ pc[r] = "found" /\ pc'[r] # "found"
               /\ target[r] = m
               /\ user[r] = row[m].owner /\ row'[m].owner = row[m].owner
  <2> TypeOK /\ GateHolds
    BY <1>1 DEF IInv
  <2>1. row'[m].owner = row[m].owner
    BY <1>1, OwnersStay
  <2>2. ASSUME NEW c \in Creates, NEW u \in Users, NEW b \in Bodies, CreateMachine(c, u, b)
        PROVE  FALSE
    BY <1>1, <2>2 DEF CreateMachine, TypeOK
  <2>3. ASSUME NEW r \in Updates \cup Deletes, UpdateRow(r) \/ DeleteRow(r)
        PROVE  /\ pc[r] = "found" /\ pc'[r] # "found"
               /\ target[r] = m
               /\ user[r] = row[m].owner
    <3>1. pc[r] = "found" /\ pc'[r] # "found"
      BY <2>3 DEF UpdateRow, DeleteRow, Answer, TypeOK, Requests
    <3>2. target[r] = m
      BY <1>1, <2>3 DEF UpdateRow, DeleteRow, TypeOK
    <3> QED
      BY <3>1, <3>2 DEF GateHolds, Requests
  <2>4. CASE UNCHANGED row
    BY <1>1, <2>4
  <2> QED
    BY <1>1, <2>1, <2>2, <2>3, <2>4
       DEF Next, Create, Find, vars, CreateConflicts, FindOwnedMachine, UpdateConflicts, Fail
<1>2. IInv /\ [Next]_vars => [A]_vars
  BY <1>1
<1> QED
  BY <1>2, Invariance, PTL DEF Spec, OnlyTheOwnerWrites

\* "Already exists" is only ever said while another live machine has the label.
THEOREM TrueConflicts == Spec => ConflictIsTrue
<1> DEFINE Clash(r) ==
      \E o \in Creates \ {target'[r]} :
        /\ row[o] # NoRow /\ row[o].live /\ row[o].owner = user'[r]
        /\ Lower[row[o].label] = Lower[want'[r].label]
<1> DEFINE A == \A r \in Requests : pc[r] # "conflict" /\ pc'[r] = "conflict" => Clash(r)
<1>1. ASSUME IInv, [Next]_vars, NEW r \in Requests, pc[r] # "conflict", pc'[r] = "conflict"
      PROVE  Clash(r)
  <2> TypeOK /\ GateHolds
    BY <1>1 DEF IInv
  <2>1. ASSUME NEW c \in Creates, NEW u \in Users, NEW b \in Bodies, CreateConflicts(c, u, b)
        PROVE  Clash(r)
    <3>1. r = c /\ target'[r] = c /\ user'[r] = u /\ want'[r] = b
      BY <1>1, <2>1 DEF CreateConflicts, Arrive, TypeOK, Requests
    <3>2. PICK o \in Creates \ {c} :
            row[o].live /\ row[o].owner = u /\ Lower[row[o].label] = Lower[b.label]
      BY <2>1 DEF CreateConflicts, Taken
    <3> QED
      BY <3>1, <3>2, RowShape
  <2>2. ASSUME NEW e \in Updates, UpdateConflicts(e)
        PROVE  Clash(r)
    <3>1. r = e /\ target'[r] = target[e] /\ user'[r] = user[e] /\ want'[r] = want[e]
      BY <1>1, <2>2 DEF UpdateConflicts, TypeOK, Requests
    <3>2. user[e] = row[target[e]].owner
      BY <2>2 DEF UpdateConflicts, GateHolds, Requests
    <3>3. PICK o \in Creates \ {target[e]} :
            /\ row[o].live /\ row[o].owner = row[target[e]].owner
            /\ Lower[row[o].label] = Lower[want[e].label]
      BY <2>2 DEF UpdateConflicts, Clashes, Taken
    <3> QED
      BY <3>1, <3>2, <3>3, RowShape
  <2>3. ASSUME NEW q \in Requests, Answer(q)
        PROVE  Clash(r)
    BY <1>1, <2>3 DEF Answer, TypeOK
  <2>4. ASSUME NEW q \in Updates \cup Deletes, Find(q)
        PROVE  Clash(r)
    BY <1>1, <2>4 DEF Find, FindOwnedMachine, Arrive, TypeOK, Requests
  <2>5. CASE UNCHANGED vars
    BY <1>1, <2>5 DEF vars
  <2> QED
    BY <1>1, <2>1, <2>2, <2>3, <2>4, <2>5
       DEF Next, Create, CreateMachine, UpdateRow, DeleteRow, Fail, Requests
<1>2. IInv /\ [Next]_vars => [A]_vars
  BY <1>1
<1> QED
  BY <1>2, Invariance, PTL DEF Spec, ConflictIsTrue
=============================================================================
