-------------------------- MODULE CalibrationProofs -------------------------
(***************************************************************************)
(* Proofs about Calibration for any number of machines and requests, any   *)
(* pool size and any number of crashes.                                    *)
(***************************************************************************)
EXTENDS Calibration, FiniteSetTheorems, TLAPS

\* Where a request stands tells whether its baseline row exists, and a row that
\* exists belongs to a real machine.
RowOrigin ==
  \A c \in Calibrations :
    /\ row[c] # "absent" => pc[c] \in {"committed", "stored", "ok", "failed", "lost"}
    /\ pc[c] \in {"committed", "stored", "ok"} => row[c] # "absent"
    /\ pc[c] \in InFlight \/ row[c] # "absent" => machine[c] \in Machines

\* A request on its way to record a path has uploaded the recording.
AudioOrigin ==
  /\ AudioFollowsRow
  /\ \A c \in Calibrations : pc[c] = "stored" => c \in objects

\* The inductive invariant.
IInv ==
  /\ TypeOK
  /\ LockDiscipline
  /\ RowOrigin
  /\ AudioOrigin
  /\ OneActivePerMachine
  /\ OnceCalibratedAlwaysActive

\* Every state the program starts in satisfies the inductive invariant.
LEMMA InitIInv == Init => IInv
<1> USE DEF Init, IInv, TypeOK, Progress, InFlight, InTransaction, Outcomes, RowStates
<1>1. ASSUME Init PROVE TypeOK
  BY <1>1, PoolAssumption
<1>2. ASSUME Init PROVE LockDiscipline /\ OneActivePerMachine /\ OnceCalibratedAlwaysActive
  BY <1>2 DEF LockDiscipline, OneActivePerMachine, OnceCalibratedAlwaysActive, ActiveOf, RetiredOf
<1>3. ASSUME Init PROVE RowOrigin /\ AudioOrigin
  BY <1>3 DEF RowOrigin, AudioOrigin, AudioFollowsRow
<1> QED BY <1>1, <1>2, <1>3

\* Type correctness is preserved by every step.
LEMMA TypeStep == TypeOK /\ [Next]_vars => TypeOK'
<1> SUFFICES ASSUME TypeOK, [Next]_vars PROVE TypeOK'
  OBVIOUS
<1> USE DEF TypeOK, Progress, InFlight, InTransaction, Outcomes, RowStates
<1>1. ASSUME NEW c \in Calibrations, Start(c) PROVE TypeOK'
  BY <1>1 DEF Start, Refuse, FindOwnedMachine, Goto
<1>2. ASSUME NEW c \in Calibrations, Step(c) PROVE TypeOK'
  <2>1. CASE BuildBaseline(c) \/ AIRefuses(c)
    BY <2>1 DEF BuildBaseline, AIRefuses, Goto
  <2>2. CASE BeginDeactivate(c) \/ LockRows(c)
    BY <2>2 DEF BeginDeactivate, LockRows, Goto, ActiveOf
  <2>3. CASE InsertBaseline(c) \/ UniqueViolation(c)
    BY <2>3 DEF InsertBaseline, UniqueViolation, Rollback, Goto
  <2>4. CASE Commit(c)
    BY <2>4 DEF Commit, CommitRows, Goto
  <2>5. CASE StoreAudio(c) \/ StoreAudioFails(c) \/ RecordAudioPath(c)
    BY <2>5 DEF StoreAudio, StoreAudioFails, RecordAudioPath, Goto
  <2> QED BY <1>2, <2>1, <2>2, <2>3, <2>4, <2>5 DEF Step
<1>3. ASSUME NEW c \in Calibrations, Fault(c) PROVE TypeOK'
  BY <1>3 DEF Fault, TransactionFails, Rollback, CommitUnacknowledged, CommitRows,
              RecordAudioPathFails, Goto
<1>4. ASSUME NEW m \in Machines, DeleteMachine(m) PROVE TypeOK'
  BY <1>4 DEF DeleteMachine
<1>5. CASE Crash
  BY <1>5 DEF Crash
<1>6. CASE UNCHANGED vars
  BY <1>6 DEF vars
<1> QED BY <1>1, <1>2, <1>3, <1>4, <1>5, <1>6 DEF Next, AllAnswered

\* The locks, the index entries and the single active baseline: only the
\* transaction's own steps and a rollback or crash touch them.
LEMMA LockStep ==
  ASSUME IInv, [Next]_vars
  PROVE  LockDiscipline' /\ OneActivePerMachine'
<1> USE DEF IInv, TypeOK, LockDiscipline, OneActivePerMachine, RowOrigin, ActiveOf,
            Progress, InFlight, InTransaction, Outcomes, RowStates
<1> DEFINE Goal == LockDiscipline' /\ OneActivePerMachine'
<1>1. ASSUME NEW c \in Calibrations, Start(c) PROVE Goal
  BY <1>1 DEF Start, Refuse, FindOwnedMachine, Goto
<1>2. ASSUME NEW c \in Calibrations,
             BuildBaseline(c) \/ AIRefuses(c) \/ BeginDeactivate(c)
      PROVE  Goal
  BY <1>2 DEF BuildBaseline, AIRefuses, BeginDeactivate, Goto
<1>3. ASSUME NEW c \in Calibrations, LockRows(c) PROVE Goal
  BY <1>3 DEF LockRows, Goto
<1>4. ASSUME NEW c \in Calibrations, InsertBaseline(c) PROVE Goal
  BY <1>4 DEF InsertBaseline, Goto
<1>5. ASSUME NEW c \in Calibrations, UniqueViolation(c) \/ TransactionFails(c)
      PROVE  Goal
  BY <1>5 DEF UniqueViolation, TransactionFails, Rollback, Goto
<1>6. ASSUME NEW c \in Calibrations, Commit(c) \/ CommitUnacknowledged(c)
      PROVE  Goal
  BY <1>6 DEF Commit, CommitUnacknowledged, CommitRows, Goto
<1>7. ASSUME NEW c \in Calibrations,
             \/ StoreAudio(c) \/ StoreAudioFails(c)
             \/ RecordAudioPath(c) \/ RecordAudioPathFails(c)
      PROVE  Goal
  BY <1>7 DEF StoreAudio, StoreAudioFails, RecordAudioPath, RecordAudioPathFails, Goto
<1>8. ASSUME NEW m \in Machines, DeleteMachine(m) PROVE Goal
  BY <1>8 DEF DeleteMachine
<1>9. CASE Crash
  BY <1>9 DEF Crash
<1>10. CASE UNCHANGED vars
  BY <1>10 DEF vars
<1> QED
  BY <1>1, <1>2, <1>3, <1>4, <1>5, <1>6, <1>7, <1>8, <1>9, <1>10
     DEF Next, Step, Fault, AllAnswered

\* Only a commit changes rows, and only the ownership gate gives a request its
\* machine.
LEMMA WhoTouchesRows ==
  ASSUME [Next]_vars
  PROVE  \/ \E c \in Calibrations : Commit(c) \/ CommitUnacknowledged(c)
         \/ \E c \in Calibrations, m \in Machines : FindOwnedMachine(c, m)
         \/ UNCHANGED <<row, machine>>
<1>1. ASSUME NEW c \in Calibrations,
             Refuse(c) \/ Step(c) \/ Fault(c),
             ~ (Commit(c) \/ CommitUnacknowledged(c))
      PROVE  UNCHANGED <<row, machine>>
  BY <1>1 DEF Refuse, Step, Fault, BuildBaseline, AIRefuses, BeginDeactivate, LockRows,
     InsertBaseline, UniqueViolation, TransactionFails, Rollback, StoreAudio,
     StoreAudioFails, RecordAudioPath, RecordAudioPathFails
<1>2. ASSUME Crash \/ (\E m \in Machines : DeleteMachine(m)) \/ UNCHANGED vars
      PROVE  UNCHANGED <<row, machine>>
  BY <1>2 DEF Crash, DeleteMachine, vars
<1> QED
  BY <1>1, <1>2 DEF Next, Start, AllAnswered

\* A committed row is never removed and keeps its machine.
LEMMA RowsStay ==
  ASSUME IInv, [Next]_vars, NEW b \in Calibrations, row[b] # "absent"
  PROVE  row'[b] # "absent" /\ machine'[b] = machine[b]
<1> USE DEF IInv, TypeOK, LockDiscipline, RowOrigin, Progress, InFlight, InTransaction,
            Outcomes, RowStates
<1>1. ASSUME NEW c \in Calibrations, Commit(c) \/ CommitUnacknowledged(c)
      PROVE  row'[b] # "absent" /\ machine' = machine
  BY <1>1 DEF Commit, CommitUnacknowledged, CommitRows
<1>2. ASSUME NEW c \in Calibrations, NEW m \in Machines, FindOwnedMachine(c, m)
      PROVE  row' = row /\ machine'[b] = machine[b]
  BY <1>2 DEF FindOwnedMachine
<1> QED
  BY <1>1, <1>2, WhoTouchesRows

\* A machine keeps an active baseline once it has had one.
LEMMA ActiveStep ==
  ASSUME IInv, [Next]_vars
  PROVE  OnceCalibratedAlwaysActive'
<1> USE DEF IInv, TypeOK, LockDiscipline, RowOrigin, Progress, InFlight, InTransaction,
            Outcomes, RowStates, OnceCalibratedAlwaysActive, ActiveOf, RetiredOf
<1>1. ASSUME NEW c \in Calibrations, Commit(c) \/ CommitUnacknowledged(c)
      PROVE  OnceCalibratedAlwaysActive'
  BY <1>1 DEF Commit, CommitUnacknowledged, CommitRows
<1>2. ASSUME NEW c \in Calibrations, NEW m \in Machines, FindOwnedMachine(c, m)
      PROVE  OnceCalibratedAlwaysActive'
  BY <1>2 DEF FindOwnedMachine
<1>3. ASSUME UNCHANGED <<row, machine>>
      PROVE  OnceCalibratedAlwaysActive'
  BY <1>3
<1> QED
  BY <1>1, <1>2, <1>3, WhoTouchesRows

\* Rows, recordings and answers keep step with each other.
LEMMA OriginStep ==
  ASSUME IInv, [Next]_vars
  PROVE  RowOrigin' /\ AudioOrigin'
<1> USE DEF IInv, TypeOK, LockDiscipline, RowOrigin, AudioOrigin, AudioFollowsRow, ActiveOf,
            Progress, InFlight, InTransaction, Outcomes, RowStates
<1> DEFINE Goal == RowOrigin' /\ AudioOrigin'
<1>1. ASSUME NEW c \in Calibrations, Start(c) PROVE Goal
  BY <1>1 DEF Start, Refuse, FindOwnedMachine, Goto
<1>2. ASSUME NEW c \in Calibrations,
             BuildBaseline(c) \/ AIRefuses(c) \/ BeginDeactivate(c)
      PROVE  Goal
  BY <1>2 DEF BuildBaseline, AIRefuses, BeginDeactivate, Goto
<1>3. ASSUME NEW c \in Calibrations, LockRows(c) \/ InsertBaseline(c) PROVE Goal
  BY <1>3 DEF LockRows, InsertBaseline, Goto
<1>5. ASSUME NEW c \in Calibrations, UniqueViolation(c) \/ TransactionFails(c)
      PROVE  Goal
  BY <1>5 DEF UniqueViolation, TransactionFails, Rollback, Goto
<1>6. ASSUME NEW c \in Calibrations, Commit(c) \/ CommitUnacknowledged(c)
      PROVE  Goal
  BY <1>6 DEF Commit, CommitUnacknowledged, CommitRows, Goto
<1>7. ASSUME NEW c \in Calibrations,
             \/ StoreAudio(c) \/ StoreAudioFails(c)
             \/ RecordAudioPath(c) \/ RecordAudioPathFails(c)
      PROVE  Goal
  BY <1>7 DEF StoreAudio, StoreAudioFails, RecordAudioPath, RecordAudioPathFails, Goto
<1>8. ASSUME NEW m \in Machines, DeleteMachine(m) PROVE Goal
  BY <1>8 DEF DeleteMachine
<1>9. CASE Crash
  BY <1>9 DEF Crash
<1>10. CASE UNCHANGED vars
  BY <1>10 DEF vars
<1> QED
  BY <1>1, <1>2, <1>3, <1>5, <1>6, <1>7, <1>8, <1>9, <1>10
     DEF Next, Step, Fault, AllAnswered

\* The inductive invariant holds in every reachable state.
THEOREM Invariance == Spec => []IInv
<1>1. IInv /\ [Next]_vars => IInv'
  BY TypeStep, LockStep, OriginStep, ActiveStep DEF IInv
<1> QED BY InitIInv, <1>1, PTL DEF Spec

\* The state keeps its type, for every value of the constants.
THEOREM TypeCorrect == Spec => []TypeOK
BY Invariance, PTL DEF IInv

\* However calibrations race, fail and crash, no machine ever has two active
\* baselines.
THEOREM OneActive == Spec => []OneActivePerMachine
BY Invariance, PTL DEF IInv

\* An old baseline loses its place only to a new one.
THEOREM AlwaysActive == Spec => []OnceCalibratedAlwaysActive
BY Invariance, PTL DEF IInv

\* Row locks and index entries are held as LockDiscipline says.
THEOREM Locking == Spec => []LockDiscipline
BY Invariance, PTL DEF IInv

\* Of the open transactions, one can always go on.
LEMMA SomeTransactionMayGoOn ==
  ASSUME IInv, NEW c \in Calibrations, pc[c] \in InTransaction
  PROVE  \E d \in Calibrations : pc[d] \in InTransaction /\ MayGoOn(d)
<1> USE DEF InTransaction
<1>1. CASE \E d \in Calibrations : pc[d] = "inserted"
  BY <1>1 DEF MayGoOn
<1>2. CASE /\ \A d \in Calibrations : pc[d] # "inserted"
           /\ \E d \in Calibrations : pc[d] = "deactivated"
  <2>1. PICK d \in Calibrations : pc[d] = "deactivated"
    BY <1>2
  <2>2. CASE ActiveOf(machine[d]) \subseteq held[d]
    BY <1>2, <2>1, <2>2 DEF MayGoOn
  <2>3. CASE \E b \in ActiveOf(machine[d]) \ held[d] : \A e \in Calibrations \ {d} : b \notin held[e]
    BY <2>1, <2>3 DEF MayGoOn
  <2>4. CASE \E b \in ActiveOf(machine[d]) \ held[d] : \E e \in Calibrations \ {d} : b \in held[e]
    <3>1. PICK b \in ActiveOf(machine[d]), e \in Calibrations \ {d} : b \in held[e]
      BY <2>4
    <3>2. pc[e] = "deactivated" /\ b \in ActiveOf(machine[e])
      BY <1>2, <3>1 DEF IInv, LockDiscipline
    <3>3. machine[d] \in Machines /\ machine[e] = machine[d]
      BY <2>1, <3>1, <3>2 DEF ActiveOf, IInv, RowOrigin, InFlight
    <3>4. \A a \in ActiveOf(machine[e]) : a = b
      BY <3>2, <3>3 DEF IInv, OneActivePerMachine
    <3>5. ActiveOf(machine[e]) \subseteq held[e]
      BY <3>1, <3>4
    <3> QED BY <1>2, <3>2, <3>5 DEF MayGoOn
  <2> QED BY <2>2, <2>3, <2>4
<1>3. CASE \A d \in Calibrations : pc[d] \notin {"deactivated", "inserted"}
  <2>1. pc[c] = "deactivating" /\ \A d \in Calibrations : held[d] = {}
    BY <1>3 DEF IInv, LockDiscipline
  <2> QED BY <2>1 DEF MayGoOn
<1> QED BY <1>1, <1>2, <1>3

\* The invariant leaves nobody stuck.
LEMMA NobodyStuck == IInv => NeverStuck
<1> DEFINE someMayGoOn == \E d \in Calibrations : pc[d] \in InTransaction /\ MayGoOn(d)
<1> SUFFICES ASSUME IInv, ~someMayGoOn
             PROVE  FreeConnection /\ \A c \in Calibrations : pc[c] \in InFlight => MayGoOn(c)
  BY DEF NeverStuck
<1>1. \A d \in Calibrations : pc[d] \notin InTransaction
  BY SomeTransactionMayGoOn
<1>2. {d \in Calibrations : pc[d] \in InTransaction} = {}
  BY <1>1
<1>3. FreeConnection
  BY <1>2, FS_EmptySet, PoolAssumption DEF FreeConnection
<1>4. ASSUME NEW c \in Calibrations, pc[c] \in InFlight PROVE MayGoOn(c)
  BY <1>1, <1>3, <1>4 DEF MayGoOn, InFlight
<1> QED
  BY <1>3, <1>4

\* Deadlock freedom, for any number of calibrations and any pool.
THEOREM NoDeadlock == Spec => []NeverStuck
BY NobodyStuck, Invariance, PTL

\* What a caller was told is what the database holds.
THEOREM TrueAnswers == Spec => []AnswerIsTrue
<1>1. IInv => AnswerIsTrue
  BY DEF IInv, RowOrigin, AnswerIsTrue, InTransaction
<1> QED BY Invariance, <1>1, PTL

\* No recording without its row, no path without its recording.
THEOREM AudioSafe == Spec => []AudioFollowsRow
<1>1. IInv => AudioFollowsRow
  BY DEF IInv, AudioOrigin
<1> QED BY Invariance, <1>1, PTL

\* A commit is the abstract switch of its machine to its baseline.
LEMMA CommitSwitches ==
  ASSUME IInv, NEW c \in Calibrations, CommitRows(c), pc[c] = "inserted"
  PROVE  Register!Switch(machine[c], c)
<1> USE DEF IInv, TypeOK, LockDiscipline, RowOrigin, InFlight, InTransaction, RowStates
<1> DEFINE k == machine[c]
<1>1. k \in Machines /\ row[c] = "absent" /\ ActiveOf(k) = held[c]
  BY DEF ActiveOf
<1>2. \A b \in Calibrations :
        row'[b] = IF b = c THEN "active" ELSE IF b \in held[c] THEN "retired" ELSE row[b]
  BY DEF CommitRows
<1>3. machine' = machine
  BY DEF CommitRows
<1>4. \A m \in Machines :
        /\ ActiveOf(m)' = IF m = k THEN {c} ELSE ActiveOf(m)
        /\ RetiredOf(m)' = IF m = k THEN RetiredOf(m) \cup ActiveOf(m) ELSE RetiredOf(m)
  BY <1>1, <1>2, <1>3 DEF ActiveOf, RetiredOf
<1>5. \A m \in Machines : c \notin ActiveOf(m) \cup RetiredOf(m)
  BY <1>1 DEF ActiveOf, RetiredOf
<1>6. Register!Fresh(c)
  BY <1>5 DEF Register!Fresh
<1> HIDE DEF IInv, TypeOK, LockDiscipline, RowOrigin, k
<1>7. [m \in Machines |-> ActiveOf(m)]'
        = [[m \in Machines |-> ActiveOf(m)] EXCEPT ![k] = {c}]
  BY <1>1, <1>4
<1>8. [m \in Machines |-> RetiredOf(m)]'
        = [[m \in Machines |-> RetiredOf(m)] EXCEPT ![k] = RetiredOf(k) \cup ActiveOf(k)]
  BY <1>1, <1>4
<1> QED
  BY <1>1, <1>6, <1>7, <1>8 DEF Register!Switch, k

\* Every other step leaves the abstract register alone.
LEMMA RegisterStep ==
  ASSUME IInv, [Next]_vars
  PROVE  [Register!Next]_(Register!vars)
<1> USE DEF IInv, TypeOK, RowOrigin, Progress, InFlight, InTransaction, Outcomes
<1>1. ASSUME NEW c \in Calibrations, Commit(c) \/ CommitUnacknowledged(c)
      PROVE  Register!Next
  <2>1. Register!Switch(machine[c], c) /\ machine[c] \in Machines
    BY <1>1, CommitSwitches DEF Commit, CommitUnacknowledged, CommitRows
  <2> QED BY <2>1 DEF Register!Next
<1>2. ASSUME row' = row,
             \A b \in Calibrations : row[b] # "absent" => machine'[b] = machine[b]
      PROVE  UNCHANGED Register!vars
  BY <1>2 DEF Register!vars, ActiveOf, RetiredOf
<1>3. ASSUME NEW c \in Calibrations, NEW m \in Machines, FindOwnedMachine(c, m)
      PROVE  UNCHANGED Register!vars
  BY <1>2, <1>3 DEF FindOwnedMachine
<1>4. ASSUME UNCHANGED <<row, machine>>
      PROVE  UNCHANGED Register!vars
  BY <1>2, <1>4
<1> QED
  BY <1>1, <1>3, <1>4, WhoTouchesRows

\* Calibration implements the register of current and superseded baselines.
THEOREM RefinesRegister == Spec => ImplementsRegister
<1>1. Init => Register!Init
  BY DEF Init, Register!Init, ActiveOf, RetiredOf
<1> QED
  BY <1>1, RegisterStep, Invariance, PTL DEF Spec, ImplementsRegister, Register!Spec
=============================================================================
