------------------------------ MODULE Machines ------------------------------
(***************************************************************************)
(* The machine registry: MachineUseCase.Create, Update and Delete          *)
(* (src/internal/usecase/machine.go) on the machines table.                *)
(*                                                                         *)
(* Create is one INSERT. Update and Delete first read the row through the  *)
(* ownership gate, then write it with a second statement, and no           *)
(* transaction spans the two: whatever other requests do in between has    *)
(* happened by the time the write takes place. A create request names the  *)
(* machine it makes, because the handler draws a fresh uuid. An update or  *)
(* delete request, once answered, stands for the next one of its kind, so  *)
(* behaviours are not bounded by the number of requests.                   *)
(***************************************************************************)
EXTENDS Naturals, FiniteSets

CONSTANTS
  Users,
  Creates,  \* POST /machines requests, and the machines they make
  Updates,  \* PATCH /machines/:id requests
  Deletes,  \* DELETE /machines/:id requests
  Labels,   \* labels, trimmed and within their bounds
  Places,   \* values of location and description, which are treated alike
  Lower,    \* Lower[l]: what Postgres' lower() makes of label l
  Absent    \* SQL NULL in a row, a missing JSON field in a request

ASSUME LowerAssumption == Lower \in [Labels -> Labels]
ASSUME AbsentAssumption == Absent \notin Labels \cup Places \cup Users \cup Creates
ASSUME KindsAssumption ==
  Creates \cap Updates = {} /\ Creates \cap Deletes = {} /\ Updates \cap Deletes = {}

VARIABLES
  row,     \* row[m]: the row of machine m, or NoRow
  pc,      \* pc[r]: how far request r has come
  user,    \* user[r]: the user its session token belongs to
  target,  \* target[r]: the machine id in its URL
  want     \* want[r]: the columns its body names

vars == <<row, pc, user, target, want>>

Requests == Creates \cup Updates \cup Deletes

\* "ready": no request is in flight here, and the last one, if any, was not
\* answered with ErrConflict; which of the other answers it got is left out.
Points == {"ready", "found", "conflict"}

Columns == {"label", "place"}
Bodies  == [label : Labels \cup {Absent}, place : Places \cup {Absent}]
NoBody  == [label |-> Absent, place |-> Absent]

Rows == [owner : Users, label : Labels, place : Places \cup {Absent}, live : BOOLEAN]
NoRow == [owner |-> Absent, label |-> Absent, place |-> Absent, live |-> FALSE]

\* Every variable keeps its type.
TypeOK ==
  /\ row \in [Creates -> Rows \cup {NoRow}]
  /\ pc \in [Requests -> Points]
  /\ user \in [Requests -> Users \cup {Absent}]
  /\ target \in [Requests -> Creates \cup {Absent}]
  /\ want \in [Requests -> Bodies]

Init ==
  /\ row = [m \in Creates |-> NoRow]
  /\ pc = [r \in Requests |-> "ready"]
  /\ user = [r \in Requests |-> Absent]
  /\ target = [r \in Requests |-> Absent]
  /\ want = [r \in Requests |-> NoBody]

-----------------------------------------------------------------------------
\* Request r of user u, for machine m, with body b, gets as far as the label says.
Arrive(r, u, m, b, label) ==
  /\ pc[r] # "found"
  /\ pc' = [pc EXCEPT ![r] = label]
  /\ user' = [user EXCEPT ![r] = u]
  /\ target' = [target EXCEPT ![r] = m]
  /\ want' = [want EXCEPT ![r] = b]

\* The handler returns; its locals are gone.
Answer(r) ==
  /\ pc' = [pc EXCEPT ![r] = "ready"]
  /\ user' = [user EXCEPT ![r] = Absent]
  /\ target' = [target EXCEPT ![r] = Absent]
  /\ want' = [want EXCEPT ![r] = NoBody]

\* Mutant: the unique index has no "where deleted_at is null".
TakenByAnyRow(m, u, l) ==
  \E o \in Creates \ {m} :
    row[o] # NoRow /\ row[o].owner = u /\ Lower[row[o].label] = Lower[l]

\* The partial unique index machines_user_label_key, asked about machine m of
\* user u under label l.
Taken(m, u, l) ==
  \E o \in Creates \ {m} :
    row[o].live /\ row[o].owner = u /\ Lower[row[o].label] = Lower[l]

\* Mutant: the lookup is by id alone.
OwnedByAnyone(m, u) == row[m].live

\* FindByIDForUser, with gorm's soft-delete scope.
Owned(m, u) == row[m].live /\ row[m].owner = u

-----------------------------------------------------------------------------
(* Create. A label that is blank once trimmed never gets this far.         *)

\* Mutant: the handler looks for a duplicate itself and compares spelling.
CreateMachineBySpelling(c, u, b) ==
  /\ row[c] = NoRow /\ b.label # Absent
  /\ \A o \in Creates : row[o].live => row[o].label # b.label \/ row[o].owner # u
  /\ row' = [row EXCEPT ![c] = [owner |-> u, label |-> b.label, place |-> b.place,
                                live |-> TRUE]]
  /\ Answer(c)

\* The INSERT passes the index. Its reply may be lost and reported as a failure;
\* the row is there all the same.
CreateMachine(c, u, b) ==
  /\ row[c] = NoRow /\ b.label # Absent
  /\ ~Taken(c, u, b.label)
  /\ row' = [row EXCEPT ![c] = [owner |-> u, label |-> b.label, place |-> b.place,
                                live |-> TRUE]]
  /\ Answer(c)

\* The index refuses the INSERT: gorm.ErrDuplicatedKey becomes ErrConflict.
CreateConflicts(c, u, b) ==
  /\ row[c] = NoRow /\ b.label # Absent
  /\ Taken(c, u, b.label)
  /\ Arrive(c, u, c, b, "conflict")
  /\ UNCHANGED row

-----------------------------------------------------------------------------
(* Update and Delete. *)

\* findOwnedMachine lets the request through. An update that names no column is
\* answered from the row that was read and goes no further; a machine of somebody
\* else and a deleted one are both "not found". Neither leaves a trace.
FindOwnedMachine(r, u, m, b) ==
  /\ Owned(m, u)
  /\ r \in Updates <=> b # NoBody
  /\ Arrive(r, u, m, b, "found")
  /\ UNCHANGED row

\* Mutant: a column the body leaves out is set to NULL.
WrittenInFull(e) == [row[target[e]] EXCEPT
     !.label = IF want[e].label # Absent THEN want[e].label ELSE @,
     !.place = want[e].place]

\* Mutant: every column of the body is written, named or not.
WrittenUnconditionally(e) ==
  [row[target[e]] EXCEPT !.label = want[e].label, !.place = want[e].place]

\* Updates(fields): only the columns the body names are written.
Written(e) == [row[target[e]] EXCEPT
     !.label = IF want[e].label # Absent THEN want[e].label ELSE @,
     !.place = IF want[e].place # Absent THEN want[e].place ELSE @]

Clashes(e) ==
  LET m == target[e] IN
  row[m].live /\ want[e].label # Absent /\ Taken(m, row[m].owner, want[e].label)

\* Mutant: the UPDATE addresses the row by id, without the soft-delete scope.
UpdateRowUnscoped(e) ==
  /\ pc[e] = "found"
  /\ ~Clashes(e)
  /\ row' = [row EXCEPT ![target[e]] = Written(e)]
  /\ Answer(e)

\* The UPDATE statement. A machine deleted meanwhile is out of its scope: no row
\* is written, and gorm reports no error.
UpdateRow(e) ==
  /\ pc[e] = "found"
  /\ ~Clashes(e)
  /\ row' = IF row[target[e]].live THEN [row EXCEPT ![target[e]] = Written(e)] ELSE row
  /\ Answer(e)

\* The new label is taken: ErrConflict, nothing is written.
UpdateConflicts(e) ==
  /\ pc[e] = "found"
  /\ Clashes(e)
  /\ pc' = [pc EXCEPT ![e] = "conflict"]
  /\ UNCHANGED <<row, user, target, want>>

\* The soft delete: deleted_at is set, the row stays.
DeleteRow(d) ==
  /\ pc[d] = "found"
  /\ row' = [row EXCEPT ![target[d]].live = FALSE]
  /\ Answer(d)

\* The second statement fails without effect, or the process dies before it.
Fail(r) ==
  /\ pc[r] = "found"
  /\ Answer(r)
  /\ UNCHANGED row

-----------------------------------------------------------------------------
Create(c) ==
  \E u \in Users, b \in Bodies : CreateMachine(c, u, b) \/ CreateConflicts(c, u, b)

Find(r) ==
  \E u \in Users, m \in Creates, b \in Bodies : FindOwnedMachine(r, u, m, b)

Next ==
  \/ \E c \in Creates : Create(c)
  \/ \E r \in Updates \cup Deletes : Find(r) \/ Fail(r)
  \/ \E e \in Updates : UpdateRow(e) \/ UpdateConflicts(e)
  \/ \E d \in Deletes : DeleteRow(d)

Spec == Init /\ [][Next]_vars

-----------------------------------------------------------------------------
(* Safety. *)

\* However creates, renames and deletions interleave, no two live machines of a
\* user carry labels that differ at most in case.
LabelsUnique ==
  \A m, o \in Creates :
    /\ m # o
    /\ row[m].live /\ row[o].live
    /\ row[m].owner = row[o].owner
    => Lower[row[m].label] # Lower[row[o].label]

\* A stored column changes only when an update that names it writes it: two
\* partial updates of one machine, read and written in any order, never undo
\* each other (Repository.Update, "Save() would write every column").
NamedColumnsOnly ==
  [][\A m \in Creates : \A f \in Columns :
       row[m] # NoRow /\ row'[m][f] # row[m][f] =>
         \E e \in Updates :
           /\ pc[e] = "found" /\ pc'[e] # "found"
           /\ target[e] = m
           /\ want[e][f] # Absent /\ want[e][f] = row'[m][f]]_vars

\* The row of a deleted machine is history: it stays, unchanged and deleted, also
\* when a request that found it alive writes later.
DeletedRowsAreHistory ==
  [][\A m \in Creates :
       row[m] # NoRow /\ ~row[m].live => row'[m] = row[m]]_vars

\* A machine changes only by the hand of its owner: the request that read and the
\* request that wrote belong to the user the row names, at the time of writing.
OnlyTheOwnerWrites ==
  [][\A m \in Creates :
       row[m] # NoRow /\ row'[m] # row[m] =>
         \E r \in Updates \cup Deletes :
           /\ pc[r] = "found" /\ pc'[r] # "found"
           /\ target[r] = m
           /\ user[r] = row[m].owner /\ row'[m].owner = row[m].owner]_vars

\* A caller is told "already exists" only while another live machine of theirs
\* has that label: the label of a deleted machine is free again (migration 0002).
ConflictIsTrue ==
  [][\A r \in Requests :
       pc[r] # "conflict" /\ pc'[r] = "conflict" =>
         \E o \in Creates \ {target'[r]} :
           /\ row[o] # NoRow /\ row[o].live /\ row[o].owner = user'[r]
           /\ Lower[row[o].label] = Lower[want'[r].label]]_vars
=============================================================================
