---------------------------- MODULE Calibration -----------------------------
(***************************************************************************)
(* BaselineUseCase.Calibrate (src/internal/usecase/baseline.go) against    *)
(* Postgres at READ COMMITTED and the object store.                        *)
(*                                                                         *)
(* A calibration is one HTTP request and, since the handler draws a fresh  *)
(* uuid for the baseline it builds, also the identity of that baseline.    *)
(* Requests run concurrently; each statement, commit, upload and remote    *)
(* call is a step of its own, so that requests interleave between them, an *)
(* operator may delete the machine between them, and the process may die   *)
(* between them.                                                           *)
(***************************************************************************)
EXTENDS Naturals, FiniteSets

CONSTANTS
  Machines,       \* machine ids, all registered before the first request
  Calibrations,   \* calibration requests, and the baselines they build
  NoMachine,      \* the machine of a request that has not started
  PoolSize        \* DB_MAX_OPEN_CONNS: connections in the database/sql pool

ASSUME NoMachineAssumption == NoMachine \notin Machines
ASSUME PoolAssumption == PoolSize \in Nat \ {0}

VARIABLES
  live,       \* machines with deleted_at null
  pc,         \* pc[c]: how far request c has come
  machine,    \* machine[c]: the machine row the request read
  row,        \* row[c]: committed state of the baseline row with c's id
  seen,       \* seen[c]: rows in the snapshot of c's deactivating UPDATE
  held,       \* held[c]: rows c's open transaction has set inactive (row locks)
  objects,    \* recordings in the object store, by baseline id
  path        \* baselines whose calibration_audio_path column is set

vars == <<live, pc, machine, row, seen, held, objects, path>>

-----------------------------------------------------------------------------
(* Progress of a request. *)

InTransaction == {"deactivating", "deactivated", "inserted"}
InFlight  == {"calling", "built", "committed", "stored"} \cup InTransaction
Outcomes  == {"ok", "refused", "failed", "lost"}
Progress  == {"idle"} \cup InFlight \cup Outcomes

RowStates == {"absent", "active", "retired"}

TypeOK ==
  /\ live \subseteq Machines
  /\ pc \in [Calibrations -> Progress]
  /\ machine \in [Calibrations -> Machines \cup {NoMachine}]
  /\ row \in [Calibrations -> RowStates]
  /\ seen \in [Calibrations -> SUBSET Calibrations]
  /\ held \in [Calibrations -> SUBSET Calibrations]
  /\ objects \subseteq Calibrations
  /\ path \subseteq Calibrations

Init ==
  /\ live    = Machines
  /\ pc      = [c \in Calibrations |-> "idle"]
  /\ machine = [c \in Calibrations |-> NoMachine]
  /\ row     = [c \in Calibrations |-> "absent"]
  /\ seen    = [c \in Calibrations |-> {}]
  /\ held    = [c \in Calibrations |-> {}]
  /\ objects = {}
  /\ path    = {}

-----------------------------------------------------------------------------
(* What a committed read returns. *)

\* The rows "machine_id = m and is_active" selects among the committed ones.
ActiveOf(m) == {b \in Calibrations : row[b] = "active" /\ machine[b] = m}

\* The superseded rows of a machine, which nothing ever deletes.
RetiredOf(m) == {b \in Calibrations : row[b] = "retired" /\ machine[b] = m}

\* Mutant: a transaction that failed never gives its connection back.
FreeConnectionLeaking ==
  Cardinality({c \in Calibrations : pc[c] \in InTransaction \cup {"failed"}}) < PoolSize

\* database/sql hands out a connection, or makes the statement wait for one;
\* an open transaction keeps its connection while it waits for a lock.
FreeConnection ==
  Cardinality({c \in Calibrations : pc[c] \in InTransaction}) < PoolSize

-----------------------------------------------------------------------------
(* Before the transaction: validation, the ownership gate, the AI service. *)

Goto(c, label) == pc' = [pc EXCEPT ![c] = label]

\* validateStruct fails, the machine is not the caller's (any machine may be
\* someone else's) or is deleted, or the query itself fails: nothing is written.
Refuse(c) ==
  /\ pc[c] = "idle"
  /\ Goto(c, "refused")
  /\ UNCHANGED <<live, machine, row, seen, held, objects, path>>

FindOwnedMachine(c, m) ==
  /\ pc[c] = "idle"
  /\ FreeConnection
  /\ m \in live
  /\ Goto(c, "calling")
  /\ machine' = [machine EXCEPT ![c] = m]
  /\ UNCHANGED <<live, row, seen, held, objects, path>>

\* The AI service answers with a payload baselineEntity accepts.
BuildBaseline(c) ==
  /\ pc[c] = "calling"
  /\ Goto(c, "built")
  /\ UNCHANGED <<live, machine, row, seen, held, objects, path>>

\* It rejects the recording, fails, times out, or sends a payload of the wrong
\* dtype or shape.
AIRefuses(c) ==
  /\ pc[c] = "calling"
  /\ Goto(c, "refused")
  /\ UNCHANGED <<live, machine, row, seen, held, objects, path>>

-----------------------------------------------------------------------------
(* The transaction. *)

\* DeactivateAllForMachine: the UPDATE takes its snapshot of committed rows...
BeginDeactivate(c) ==
  /\ pc[c] = "built"
  /\ FreeConnection
  /\ Goto(c, "deactivating")
  /\ seen' = [seen EXCEPT ![c] = ActiveOf(machine[c])]
  /\ UNCHANGED <<live, machine, row, held, objects, path>>

\* Mutant: the UPDATE runs on the plain connection and commits by itself.
LockRowsAutocommit(c) ==
  /\ pc[c] = "deactivating"
  /\ \A d \in Calibrations \ {c} : held[d] \cap seen[c] = {}
  /\ Goto(c, "deactivated")
  /\ row' = [b \in Calibrations |->
               IF b \in seen[c] \cap ActiveOf(machine[c]) THEN "retired" ELSE row[b]]
  /\ seen' = [seen EXCEPT ![c] = {}]
  /\ UNCHANGED <<live, machine, held, objects, path>>

\* ...then locks the rows it selected, waiting while another open transaction
\* holds one, and re-evaluates its WHERE on the row versions it finds. A row
\* that became active after the snapshot is not looked at.
LockRows(c) ==
  /\ pc[c] = "deactivating"
  /\ \A d \in Calibrations \ {c} : held[d] \cap seen[c] = {}
  /\ Goto(c, "deactivated")
  /\ held' = [held EXCEPT ![c] = seen[c] \cap ActiveOf(machine[c])]
  /\ seen' = [seen EXCEPT ![c] = {}]
  /\ UNCHANGED <<live, machine, row, objects, path>>

\* Mutant: the schema lacks the partial unique index.
InsertUnchecked(c) ==
  /\ pc[c] = "deactivated"
  /\ Goto(c, "inserted")
  /\ UNCHANGED <<live, machine, row, seen, held, objects, path>>

\* Create waits for the open transactions that own an entry of the partial
\* unique index for this machine, and succeeds once there is none left.
InsertBaseline(c) ==
  /\ pc[c] = "deactivated"
  /\ ActiveOf(machine[c]) \subseteq held[c]
  /\ \A d \in Calibrations \ {c} :
       machine[d] = machine[c] => pc[d] # "inserted"
  /\ Goto(c, "inserted")
  /\ UNCHANGED <<live, machine, row, seen, held, objects, path>>

\* Mutant: the error of the transaction is logged and not returned.
RollbackSwallowed(c) ==
  /\ Goto(c, "committed")
  /\ held' = [held EXCEPT ![c] = {}]
  /\ seen' = [seen EXCEPT ![c] = {}]
  /\ UNCHANGED <<live, machine, row, objects, path>>

\* Mutant: the failed transaction is left open, with its locks.
RollbackForgotten(c) ==
  /\ Goto(c, "failed")
  /\ UNCHANGED <<live, machine, row, seen, held, objects, path>>

\* The transaction rolls back: its row locks go, its rows never existed.
Rollback(c) ==
  /\ Goto(c, "failed")
  /\ held' = [held EXCEPT ![c] = {}]
  /\ seen' = [seen EXCEPT ![c] = {}]
  /\ UNCHANGED <<live, machine, row, objects, path>>

\* An active row some other transaction committed after c's snapshot meets the
\* insert in baselines_one_active_per_machine. The error is not translated:
\* the caller gets a 500.
UniqueViolation(c) ==
  /\ pc[c] = "deactivated"
  /\ \E b \in ActiveOf(machine[c]) \ held[c] :
       \A d \in Calibrations \ {c} : b \notin held[d]
  /\ Rollback(c)

\* BEGIN, a statement or the COMMIT fails (a check constraint, a lost connection,
\* a pool that has been closed).
TransactionFails(c) ==
  /\ pc[c] \in InTransaction \cup {"built"}
  /\ Rollback(c)

\* Mutant: the previous baseline is deleted, not deactivated.
CommitOverwriting(c) ==
  /\ pc[c] = "inserted"
  /\ row' = [b \in Calibrations |-> IF b = c THEN "active"
                                    ELSE IF b \in held[c] THEN "absent"
                                    ELSE row[b]]
  /\ held' = [held EXCEPT ![c] = {}]
  /\ UNCHANGED <<live, machine, seen, objects, path>>

CommitRows(c) ==
  /\ pc[c] = "inserted"
  /\ row' = [b \in Calibrations |-> IF b = c THEN "active"
                                    ELSE IF b \in held[c] THEN "retired"
                                    ELSE row[b]]
  /\ held' = [held EXCEPT ![c] = {}]
  /\ UNCHANGED <<live, machine, seen, objects, path>>

Commit(c) == CommitRows(c) /\ Goto(c, "committed")

\* The COMMIT took effect but its acknowledgement was lost: Transaction returns
\* an error, the caller gets a 500 and the recording is not uploaded.
CommitUnacknowledged(c) == CommitRows(c) /\ Goto(c, "failed")

-----------------------------------------------------------------------------
(* storeCalibrationAudio, after the commit; its failures are only logged. *)

StoreAudio(c) ==
  /\ pc[c] = "committed"
  /\ Goto(c, "stored")
  /\ objects' = objects \cup {c}
  /\ UNCHANGED <<live, machine, row, seen, held, path>>

\* Mutant: the return after the failed Put is missing.
StoreAudioFailsOnwards(c) ==
  /\ pc[c] = "committed"
  /\ Goto(c, "stored")
  /\ UNCHANGED <<live, machine, row, seen, held, objects, path>>

\* Put returned an error, whether or not the object reached the bucket.
StoreAudioFails(c) ==
  /\ pc[c] = "committed"
  /\ Goto(c, "ok")
  /\ objects' \in {objects, objects \cup {c}}
  /\ UNCHANGED <<live, machine, row, seen, held, path>>

\* Mutant: UpdateAudioPath is given the machine's id.
RecordAudioPathOfMachine(c) ==
  /\ pc[c] = "stored"
  /\ FreeConnection
  /\ Goto(c, "ok")
  /\ path' = path \cup {machine[c]}
  /\ UNCHANGED <<live, machine, row, seen, held, objects>>

RecordAudioPath(c) ==
  /\ pc[c] = "stored"
  /\ FreeConnection
  /\ Goto(c, "ok")
  /\ path' = path \cup {c}
  /\ UNCHANGED <<live, machine, row, seen, held, objects>>

RecordAudioPathFails(c) ==
  /\ pc[c] = "stored"
  /\ Goto(c, "ok")
  /\ UNCHANGED <<live, machine, row, seen, held, objects, path>>

-----------------------------------------------------------------------------
(* The environment. *)

\* MachineUseCase.Delete sets deleted_at; requests that already read the
\* machine row do not look at it again.
DeleteMachine(m) ==
  /\ m \in live
  /\ live' = live \ {m}
  /\ UNCHANGED <<pc, machine, row, seen, held, objects, path>>

\* Mutant: what a process that died had locked stays locked for the next one.
CrashHoldingLocks ==
  /\ pc' = [c \in Calibrations |-> IF pc[c] \in InFlight THEN "lost" ELSE pc[c]]
  /\ seen' = [c \in Calibrations |-> {}]
  /\ UNCHANGED <<live, machine, row, held, objects, path>>

\* The process dies: the requests in flight are never answered and Postgres
\* rolls their open transactions back.
Crash ==
  /\ pc' = [c \in Calibrations |-> IF pc[c] \in InFlight THEN "lost" ELSE pc[c]]
  /\ seen' = [c \in Calibrations |-> {}]
  /\ held' = [c \in Calibrations |-> {}]
  /\ UNCHANGED <<live, machine, row, objects, path>>

\* Every request has been answered and there is nothing left to happen.
AllAnswered ==
  /\ \A c \in Calibrations : pc[c] \in Outcomes
  /\ UNCHANGED vars

\* The steps the Go scheduler, Postgres and the HTTP client's timeouts bring
\* about for a request that has begun.
Step(c) ==
  \/ BuildBaseline(c)
  \/ AIRefuses(c)
  \/ BeginDeactivate(c)
  \/ LockRows(c)
  \/ InsertBaseline(c)
  \/ UniqueViolation(c)
  \/ Commit(c)
  \/ StoreAudio(c)
  \/ StoreAudioFails(c)
  \/ RecordAudioPath(c)

\* The failures nothing obliges to happen.
Fault(c) ==
  \/ TransactionFails(c)
  \/ CommitUnacknowledged(c)
  \/ RecordAudioPathFails(c)

Start(c) == Refuse(c) \/ \E m \in Machines : FindOwnedMachine(c, m)

Next ==
  \/ \E c \in Calibrations : Start(c) \/ Step(c) \/ Fault(c)
  \/ \E m \in Machines : DeleteMachine(m)
  \/ Crash
  \/ AllAnswered

Spec == Init /\ [][Next]_vars

-----------------------------------------------------------------------------
(* Properties. *)

\* "Exactly one active baseline per machine ... even if two calibrations race
\* in the use case layer" (0003_create_baselines.up.sql:31-32): no order of
\* snapshots, lock waits, index waits, rollbacks and crashes leaves a machine
\* with two.
OneActivePerMachine ==
  \A m \in Machines : \A b, c \in ActiveOf(m) : b = c

\* A machine is never without an active baseline once it has had one: an old
\* baseline loses its place only to a new one, never to a calibration that then
\* fails, so an inspection always finds something to score against.
OnceCalibratedAlwaysActive ==
  \A m \in Machines : RetiredOf(m) # {} => ActiveOf(m) # {}

\* The switch that the deactivating UPDATE and the insert make together is
\* indivisible, final and loses nothing: calibrations of one machine, failing
\* and crashing at any step, look like a register whose old values are kept.
Register == INSTANCE BaselineRegister
              WITH Baselines  <- Calibrations,
                   current    <- [m \in Machines |-> ActiveOf(m)],
                   superseded <- [m \in Machines |-> RetiredOf(m)]
ImplementsRegister == Register!Spec

\* Why there is never a second one: an open transaction has locked only active
\* rows of its own machine, no two have locked the same row, and a transaction
\* that got past the unique index has locked every active row there is and is
\* alone of its machine to have done so.
LockDiscipline ==
  /\ \A c \in Calibrations : held[c] \subseteq ActiveOf(machine[c])
  /\ \A c \in Calibrations : held[c] # {} => pc[c] \in {"deactivated", "inserted"}
  /\ \A c \in Calibrations :
       pc[c] = "inserted" => ActiveOf(machine[c]) \subseteq held[c]
  /\ \A c, d \in Calibrations : c # d =>
       /\ held[c] \cap held[d] = {}
       /\ pc[c] = "inserted" /\ pc[d] = "inserted" => machine[c] # machine[d]

\* What a request needs in order to go on without a failure: the answer of a remote
\* call, a connection, the locks of the rows its UPDATE selected, the index entry of
\* its machine, or the certainty that another transaction has won that entry.
MayGoOn(c) ==
  \/ pc[c] \in {"calling", "inserted", "committed"}
  \/ pc[c] \in {"built", "stored"} /\ FreeConnection
  \/ pc[c] = "deactivating" /\ \A d \in Calibrations \ {c} : held[d] \cap seen[c] = {}
  \/ /\ pc[c] = "deactivated"
     /\ ActiveOf(machine[c]) \subseteq held[c]
     /\ \A d \in Calibrations \ {c} : machine[d] = machine[c] => pc[d] # "inserted"
  \/ /\ pc[c] = "deactivated"
     /\ \E b \in ActiveOf(machine[c]) \ held[c] :
          \A d \in Calibrations \ {c} : b \notin held[d]

\* No deadlock: a calibration that cannot go on waits for an open transaction, and
\* one of the open transactions can go on, however many share a machine, its rows
\* and the pool, down to a pool of one connection (baseline.go, the transaction).
\* Nor does the pool run dry for good for anyone else who waits for a connection.
NeverStuck ==
  LET someMayGoOn == \E d \in Calibrations : pc[d] \in InTransaction /\ MayGoOn(d) IN
  /\ \A c \in Calibrations : pc[c] \in InFlight => MayGoOn(c) \/ someMayGoOn
  /\ FreeConnection \/ someMayGoOn

\* What the caller is told is what happened: an accepted calibration is in the
\* database, whatever became of its recording; a refused one left no trace; and
\* a request cut off before its COMMIT left no row behind.
AnswerIsTrue ==
  \A c \in Calibrations :
    /\ pc[c] = "ok" => row[c] # "absent"
    /\ pc[c] \in {"refused"} \cup InTransaction => row[c] = "absent"

\* A recording is uploaded only for a baseline that is committed, and a path in
\* a row leads to an object that is there: neither a rolled-back calibration nor
\* a crash between the upload and the UPDATE leaves a dangling path.
AudioFollowsRow ==
  /\ \A c \in objects : row[c] # "absent"
  /\ path \subseteq objects

\* No calibration waits for ever on another's row lock, index entry or pooled
\* connection: each one that began is answered, or dies with the process.
EveryCalibrationAnswered ==
  \A c \in Calibrations : pc[c] \in InFlight ~> pc[c] \in Outcomes
=============================================================================
