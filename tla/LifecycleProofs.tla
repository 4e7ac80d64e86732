--------------------------- MODULE LifecycleProofs ---------------------------
(***************************************************************************)
(* Proofs about Lifecycle: to the calibrations a process's life is nothing *)
(* new, so that what is proved of them holds across deploys and restarts;  *)
(* and the process leaves in order.                                        *)
(***************************************************************************)
EXTENDS Lifecycle, CalibrationProofs

Answers == {"ok", "refused", "failed"}

\* What a process leaves behind, and what it has done for those aboard.
Orderly ==
  /\ exit = "clean" => mode = "down" /\ \A c \in aboard : pc[c] \in Answers
  /\ exit = "error" => mode = "down" /\ drain = ShutdownTimeout
  /\ mode = "down" => \A c \in Calibrations : pc[c] \notin InFlight
  /\ mode = "draining" => \A c \in aboard : pc[c] \in InFlight \cup Answers

\* The inductive invariant: that of the calibrations, and the process's own.
LifeInv == LifecycleTypeOK /\ IInv /\ Orderly

\* A step of the process is a step of the calibrations or changes nothing of them.
LEMMA CalibrationSees == [LifecycleNext]_processVars => [Next]_vars
  BY DEF LifecycleNext, processVars, Serve, Proceed, Suffer, DeleteOne, Signal, Tick,
         Drained, DeadlinePasses, Kill, Restart, Next, lifeVars

\* A life is a behaviour of the calibrations: every property of theirs carries over.
THEOREM ImplementsCalibration == LifecycleSpec => Spec
<1>1. LifecycleInit => Init
  BY DEF LifecycleInit
<1> QED
  BY <1>1, CalibrationSees, PTL DEF LifecycleSpec, Spec

\* A handler moves its own request only, further on or to an answer.
LEMMA HandlerMoves ==
  ASSUME TypeOK, NEW c \in Calibrations, Start(c) \/ Step(c) \/ Fault(c)
  PROVE  \E l \in InFlight \cup Answers : pc' = [pc EXCEPT ![c] = l]
<1> USE DEF Goto, Rollback, InFlight, InTransaction, Answers
<1>1. CASE Start(c)
  BY <1>1 DEF Start, Refuse, FindOwnedMachine
<1>2. CASE Step(c)
  BY <1>2 DEF Step, BuildBaseline, AIRefuses, BeginDeactivate, LockRows, InsertBaseline,
     UniqueViolation, Commit, StoreAudio, StoreAudioFails, RecordAudioPath
<1>3. CASE Fault(c)
  BY <1>3 DEF Fault, TransactionFails, CommitUnacknowledged, RecordAudioPathFails
<1> QED BY <1>1, <1>2, <1>3

\* The first state of a process.
LEMMA LifeInit == LifecycleInit => LifeInv
<1> SUFFICES ASSUME LifecycleInit PROVE LifeInv
  OBVIOUS
<1>1. IInv
  BY InitIInv DEF LifecycleInit
<1>2. LifecycleTypeOK
  BY <1>1, DeadlineAssumption DEF LifecycleInit, LifecycleTypeOK, IInv
<1>3. Orderly
  BY DEF LifecycleInit, Orderly
<1> QED BY <1>1, <1>2, <1>3 DEF LifeInv

\* Every step of the process keeps its books in order.
LEMMA LifeStep ==
  ASSUME LifeInv, [LifecycleNext]_processVars
  PROVE  LifecycleTypeOK' /\ Orderly'
<1>1. TypeOK /\ TypeOK'
  BY CalibrationSees, TypeStep DEF LifeInv, IInv
<1> USE <1>1 DEF LifeInv, LifecycleTypeOK, Orderly, Serving, lifeVars
<1> DEFINE Goal == LifecycleTypeOK' /\ Orderly'
<1>2. ASSUME NEW c \in Calibrations, Serve(c) PROVE Goal
  <2>1. PICK l \in InFlight \cup Answers : pc' = [pc EXCEPT ![c] = l]
    BY <1>2, HandlerMoves DEF Serve
  <2> QED BY <1>2, <2>1 DEF Serve, TypeOK
<1>3. ASSUME NEW c \in Calibrations, Proceed(c) \/ Suffer(c) PROVE Goal
  <2>1. PICK l \in InFlight \cup Answers : pc' = [pc EXCEPT ![c] = l]
    BY <1>3, HandlerMoves DEF Proceed, Suffer
  <2> QED BY <1>3, <2>1 DEF Proceed, Suffer, TypeOK
<1>4. ASSUME NEW m \in Machines, DeleteOne(m) PROVE Goal
  BY <1>4 DEF DeleteOne, DeleteMachine
<1>5. CASE Signal
  BY <1>5, DeadlineAssumption DEF Signal, vars
<1>6. CASE Tick
  BY <1>6, DeadlineAssumption DEF Tick, vars
<1>7. CASE Drained
  BY <1>7 DEF Drained, vars
<1>8. CASE DeadlinePasses \/ Kill
  <2>1. \A c \in Calibrations : pc'[c] \notin InFlight
    BY <1>8 DEF DeadlinePasses, Kill, Crash, InFlight, InTransaction
  <2> QED BY <1>8, <2>1 DEF DeadlinePasses, Kill
<1>9. CASE Restart
  BY <1>9, DeadlineAssumption DEF Restart, vars
<1>10. CASE UNCHANGED processVars
  BY <1>10 DEF processVars, vars
<1> QED
  BY <1>2, <1>3, <1>4, <1>5, <1>6, <1>7, <1>8, <1>9, <1>10 DEF LifecycleNext

\* The inductive invariant holds in every life of the process.
THEOREM LifeInvariance == LifecycleSpec => []LifeInv
<1>1. LifecycleInit => LifecycleTypeOK /\ Orderly
  BY LifeInit DEF LifeInv
<1>2. LifecycleTypeOK /\ Orderly /\ IInv /\ [LifecycleNext]_processVars
        => (LifecycleTypeOK /\ Orderly)'
  BY LifeStep DEF LifeInv
<1>3. LifeInv <=> LifecycleTypeOK /\ Orderly /\ IInv
  BY DEF LifeInv
<1> QED
  BY <1>1, <1>2, <1>3, ImplementsCalibration, Invariance, PTL DEF LifecycleSpec

\* Type correctness of Lifecycle.
THEOREM LifeTypeCorrect == LifecycleSpec => []LifecycleTypeOK
BY LifeInvariance, PTL DEF LifeInv

\* A process that exits with status 0 has answered everyone aboard; one that gives up
\* has waited for the whole deadline; and none leaves a lock or a request behind.
THEOREM OrderlyExit == LifecycleSpec => []ExitIsOrderly
<1>1. LifeInv => ExitIsOrderly
  BY DEF LifeInv, Orderly, ExitIsOrderly, IInv, LockDiscipline, Answers, InFlight,
         InTransaction
<1> QED BY LifeInvariance, <1>1, PTL

\* Across deploys, kills and restarts the baselines are still an atomic register.
THEOREM RegisterSurvives == LifecycleSpec => ImplementsRegister
BY ImplementsCalibration, RefinesRegister

\* Nor does a shutdown, a kill or a restart ever leave the requests waiting for each
\* other: who cannot go on waits for an open transaction, and one of those can.
THEOREM LifeNeverStuck == LifecycleSpec => []NeverStuck
BY ImplementsCalibration, NoDeadlock
=============================================================================
