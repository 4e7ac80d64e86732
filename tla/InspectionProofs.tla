-------------------------- MODULE InspectionProofs --------------------------
(***************************************************************************)
(* Proofs about Inspection, resting on the inductive invariant of          *)
(* Calibration: an inspection adds nothing a calibration depends on.       *)
(***************************************************************************)
EXTENDS Inspection, CalibrationProofs

\* From reading its baseline on, a request holds the id of a committed row of
\* its own machine.
PayloadCommitted ==
  \A i \in Inspections :
    ipc[i] \in {"calling", "scored", "evidenced"} =>
      /\ imachine[i] \in Machines
      /\ payload[i] \in Calibrations
      /\ row[payload[i]] # "absent"
      /\ machine[payload[i]] = imachine[i]

\* From scoring on, its card is the card of that baseline.
CardOfPayload ==
  \A i \in Inspections :
    /\ ipc[i] = "owned" => imachine[i] \in Machines
    /\ ipc[i] \in {"scored", "evidenced"} =>
         card[i] \in Cards /\ card[i].baseline = payload[i]

\* Rows and clips belong to requests that are past writing them.
WrittenOnce ==
  /\ \A r \in inspections : ipc[r.id] \in {"ok", "failed"}
  /\ \A i \in clips : ipc[i] \in {"evidenced", "ok", "failed", "lost"}
  /\ \A i \in Inspections : kept[i] => i \in clips

\* The inductive invariant of inspections and calibrations together.
InspectionInv ==
  /\ IInv
  /\ InspectionTypeOK
  /\ PayloadCommitted
  /\ CardOfPayload
  /\ WrittenOnce
  /\ ScoreTraceable
  /\ EvidenceOnlyOfAnomalies

\* The first state.
LEMMA InspectionInitInv == InspectionInit => InspectionInv
<1> SUFFICES ASSUME InspectionInit PROVE InspectionInv
  OBVIOUS
<1>1. IInv
  BY InitIInv DEF InspectionInit
<1> USE DEF InspectionInit, InspectionTypeOK, NoCard, Cards, Row, IInFlight, IOutcomes,
            Statuses, Anomalous
<1>2. InspectionTypeOK
  BY <1>1 DEF IInv
<1>3. PayloadCommitted /\ CardOfPayload
  BY DEF PayloadCommitted, CardOfPayload
<1>4. WrittenOnce /\ ScoreTraceable /\ EvidenceOnlyOfAnomalies
  BY DEF WrittenOnce, ScoreTraceable, EvidenceOnlyOfAnomalies
<1> QED
  BY <1>1, <1>2, <1>3, <1>4 DEF InspectionInv

\* To Calibration every step is one of its own or a stutter.
LEMMA CalibrationSees ==
  ASSUME [InspectionNext]_allVars
  PROVE  [Next]_vars
<1>1. ASSUME NEW i \in Inspections, IStart(i) \/ IStep(i) \/ IFault(i)
      PROVE  UNCHANGED vars
  BY <1>1 DEF IStart, RefuseInspection, FindMachine, IStep, FindActiveForMachine,
     NotCalibrated, AIInspects, AIInspectFails, StoreEvidence, CreateInspection,
     IFault, FindActiveFails, CreateInspectionFails
<1>2. ASSUME UNCHANGED allVars PROVE UNCHANGED vars
  BY <1>2 DEF allVars
<1> QED
  BY <1>1, <1>2 DEF InspectionNext, CrashAll, AllRequestsAnswered, Next

\* What a step of a calibration or of the environment leaves to inspections.
LEMMA OthersStep ==
  ASSUME InspectionInv, [Next]_vars, UNCHANGED inspectionVars
  PROVE  InspectionInv'
<1> USE DEF InspectionInv, inspectionVars
<1>1. IInv'
  BY TypeStep, LockStep, OriginStep, ActiveStep DEF IInv
<1>2. InspectionTypeOK'
  BY <1>1 DEF InspectionTypeOK, IInv
<1>3. PayloadCommitted'
  BY RowsStay DEF PayloadCommitted
<1>4. ScoreTraceable'
  BY RowsStay DEF ScoreTraceable, InspectionTypeOK, Row
<1>5. (CardOfPayload /\ WrittenOnce /\ EvidenceOnlyOfAnomalies)'
  BY DEF CardOfPayload, WrittenOnce, EvidenceOnlyOfAnomalies
<1> QED
  BY <1>1, <1>2, <1>3, <1>4, <1>5

\* What a step of an inspection does to the invariant.
LEMMA OwnStep ==
  ASSUME InspectionInv, NEW i \in Inspections,
         IStart(i) \/ IStep(i) \/ IFault(i)
  PROVE  InspectionInv'
<1> USE DEF InspectionTypeOK, IGoto, IInFlight, IOutcomes
<1>1. UNCHANGED vars
  BY DEF IStart, RefuseInspection, FindMachine, IStep, FindActiveForMachine,
     NotCalibrated, AIInspects, AIInspectFails, StoreEvidence, CreateInspection,
     IFault, FindActiveFails, CreateInspectionFails
<1>2. IInv' /\ TypeOK'
  BY <1>1, TypeStep, LockStep, OriginStep, ActiveStep DEF IInv, InspectionInv
<1>3. row' = row /\ machine' = machine
  BY <1>1 DEF vars
<1> USE DEF InspectionInv, PayloadCommitted, CardOfPayload, WrittenOnce, ScoreTraceable,
            EvidenceOnlyOfAnomalies
<1>4. CASE IStart(i)
  BY <1>2, <1>3, <1>4 DEF IStart, RefuseInspection, FindMachine, Row
<1>5. CASE FindActiveForMachine(i)
  BY <1>2, <1>3, <1>5 DEF FindActiveForMachine, ActiveOf, Row
<1>6. CASE NotCalibrated(i) \/ FindActiveFails(i) \/ AIInspectFails(i)
  BY <1>2, <1>3, <1>6 DEF NotCalibrated, FindActiveFails, AIInspectFails, Row
<1>7. CASE AIInspects(i)
  BY <1>2, <1>3, <1>7 DEF AIInspects, Cards, Row
<1>8. CASE StoreEvidence(i)
  <2>1. /\ ipc' = [ipc EXCEPT ![i] = "evidenced"] /\ ipc[i] = "scored"
        /\ UNCHANGED <<imachine, payload, card, inspections>>
        /\ clips \subseteq clips' /\ clips' \subseteq clips \cup {i}
        /\ clips' # clips => card[i].status \in Anomalous
        /\ kept' \in [Inspections -> BOOLEAN]
        /\ \A j \in Inspections : kept'[j] => j \in clips'
    BY <1>8 DEF StoreEvidence
  <2>2. InspectionTypeOK'
    BY <1>2, <2>1
  <2>3. PayloadCommitted' /\ CardOfPayload'
    BY <1>3, <2>1
  <2>4. WrittenOnce' /\ ScoreTraceable'
    BY <1>3, <2>1 DEF Row
  <2>5. EvidenceOnlyOfAnomalies'
    BY <2>1 DEF Row
  <2> QED BY <1>2, <2>2, <2>3, <2>4, <2>5
<1>9. CASE CreateInspection(i) \/ CreateInspectionFails(i)
  BY <1>2, <1>3, <1>9 DEF CreateInspection, CreateInspectionFails, NewRow, Row, Cards
<1> QED
  BY <1>4, <1>5, <1>6, <1>7, <1>8, <1>9 DEF IStep, IFault

\* A crash ends requests and touches neither rows nor clips.
LEMMA CrashStep ==
  ASSUME InspectionInv, CrashAll
  PROVE  InspectionInv'
<1>1. [Next]_vars /\ row' = row /\ machine' = machine
  BY DEF CrashAll, Crash, Next
<1>2. IInv' /\ TypeOK'
  BY <1>1, TypeStep, LockStep, OriginStep, ActiveStep DEF IInv, InspectionInv
<1> USE DEF InspectionInv, InspectionTypeOK, IInFlight, IOutcomes, CrashAll
<1>3. InspectionTypeOK'
  BY <1>2
<1>4. PayloadCommitted' /\ CardOfPayload'
  BY <1>1 DEF PayloadCommitted, CardOfPayload
<1>5. WrittenOnce' /\ ScoreTraceable' /\ EvidenceOnlyOfAnomalies'
  BY <1>1 DEF WrittenOnce, ScoreTraceable, EvidenceOnlyOfAnomalies, Row
<1> QED
  BY <1>2, <1>3, <1>4, <1>5

\* Every step preserves the invariant.
LEMMA InspectionStep == InspectionInv /\ [InspectionNext]_allVars => InspectionInv'
<1> SUFFICES ASSUME InspectionInv, [InspectionNext]_allVars PROVE InspectionInv'
  OBVIOUS
<1>1. ASSUME NEW i \in Inspections, IStart(i) \/ IStep(i) \/ IFault(i)
      PROVE  InspectionInv'
  BY <1>1, OwnStep
<1>2. CASE CrashAll
  BY <1>2, CrashStep
<1>3. CASE UNCHANGED inspectionVars
  BY <1>3, CalibrationSees, OthersStep
<1> QED
  BY <1>1, <1>2, <1>3 DEF InspectionNext, AllRequestsAnswered, allVars

\* The invariant holds in every reachable state.
THEOREM InspectionInvariance == InspectionSpec => []InspectionInv
BY InspectionInitInv, InspectionStep, PTL DEF InspectionSpec

\* Every stored score names the baseline that produced it, a committed one of
\* the same machine, for any number of inspections and calibrations.
THEOREM Traceable == InspectionSpec => []ScoreTraceable
BY InspectionInvariance, PTL DEF InspectionInv

\* Only anomalous clips are ever in the bucket and no row's path dangles.
THEOREM EvidencePolicy == InspectionSpec => []EvidenceOnlyOfAnomalies
BY InspectionInvariance, PTL DEF InspectionInv

\* No caller is told to calibrate a machine that has been calibrated before.
THEOREM NeverMisdirected == InspectionSpec => NeverFalselyUncalibrated
<1> DEFINE Claim(i) ==
      ipc[i] = "owned" /\ ipc'[i] = "uncalibrated" =>
        \A c \in Calibrations : machine[c] = imachine[i] => row[c] = "absent"
<1>1. ASSUME InspectionInv, NEW i \in Inspections, NotCalibrated(i) PROVE Claim(i)
  <2>1. imachine[i] \in Machines /\ ActiveOf(imachine[i]) = {}
    BY <1>1 DEF InspectionInv, CardOfPayload, NotCalibrated
  <2>2. RetiredOf(imachine[i]) = {}
    BY <1>1, <2>1 DEF InspectionInv, IInv, OnceCalibratedAlwaysActive
  <2> QED
    BY <1>1, <2>1, <2>2 DEF InspectionInv, IInv, TypeOK, RowStates, ActiveOf, RetiredOf
<1>2. ASSUME InspectionInv, [InspectionNext]_allVars, NEW i \in Inspections PROVE Claim(i)
  <2>1. ASSUME NEW j \in Inspections,
               IStart(j) \/ IStep(j) \/ IFault(j),
               ~ NotCalibrated(j) \/ j # i
        PROVE  ~ (ipc[i] = "owned" /\ ipc'[i] = "uncalibrated")
    BY <1>2, <2>1 DEF InspectionInv, InspectionTypeOK, IGoto, IStart, RefuseInspection,
       FindMachine, IStep, FindActiveForMachine, NotCalibrated, AIInspects,
       AIInspectFails, StoreEvidence, CreateInspection,
       IFault, FindActiveFails, CreateInspectionFails
  <2>2. ASSUME CrashAll \/ UNCHANGED inspectionVars
        PROVE  ~ (ipc[i] = "owned" /\ ipc'[i] = "uncalibrated")
    BY <2>2, <1>2 DEF CrashAll, inspectionVars, InspectionInv, InspectionTypeOK
  <2> QED
    BY <1>1, <1>2, <2>1, <2>2 DEF InspectionNext, AllRequestsAnswered, allVars
<1>3. InspectionInv /\ [InspectionNext]_allVars =>
        [\A i \in Inspections : Claim(i)]_allVars
  BY <1>2
<1> QED
  BY <1>3, InspectionInvariance, PTL DEF InspectionSpec, NeverFalselyUncalibrated

\* Type correctness of Inspection.
THEOREM InspectionTypeCorrect == InspectionSpec => []InspectionTypeOK
BY InspectionInvariance, PTL DEF InspectionInv

\* What a step of the calibrations, or of their environment, does to a deleted machine.
LEMMA CalibrationsSettle ==
  ASSUME IInv, [Next]_vars, NEW m \in Machines \ live
  PROVE  /\ \A c \in Calibrations :
              pc'[c] \in InFlight /\ machine'[c] = m => pc[c] \in InFlight /\ machine[c] = m
         /\ \/ \E c \in Calibrations : pc[c] \in InFlight /\ machine[c] = m
            \/ UNCHANGED <<ActiveOf(m), RetiredOf(m), {b \in path : machine[b] = m}>>
<1> USE DEF IInv, TypeOK, InFlight, InTransaction
<1> DEFINE Tables == <<ActiveOf(m), RetiredOf(m), {b \in path : machine[b] = m}>>
           Fewer == \A c \in Calibrations :
              pc'[c] \in InFlight /\ machine'[c] = m => pc[c] \in InFlight /\ machine[c] = m
           Settled == (\E c \in Calibrations : pc[c] \in InFlight /\ machine[c] = m)
                        \/ UNCHANGED Tables
<1>1. ASSUME UNCHANGED <<row, machine, path>> PROVE UNCHANGED Tables
  BY <1>1 DEF ActiveOf, RetiredOf
<1> HIDE DEF Tables
<1>2. ASSUME NEW c \in Calibrations, Start(c) PROVE Fewer /\ Settled
  <2>1. Fewer
    BY <1>2 DEF Start, Refuse, FindOwnedMachine, Goto
  <2>2. CASE Refuse(c)
    BY <2>1, <2>2, <1>1 DEF Refuse
  <2>3. ASSUME NEW k \in Machines, FindOwnedMachine(c, k) PROVE UNCHANGED Tables
    <3>1. k # m /\ row[c] = "absent" /\ c \notin path
      BY <2>3 DEF FindOwnedMachine, RowOrigin, AudioOrigin, AudioFollowsRow
    <3> QED
      BY <2>3, <3>1 DEF FindOwnedMachine, ActiveOf, RetiredOf, Tables
  <2> QED BY <1>2, <2>1, <2>2, <2>3 DEF Start
<1>3. ASSUME NEW c \in Calibrations, Step(c) \/ Fault(c) PROVE Fewer /\ Settled
  <2> USE DEF Goto, Rollback, CommitRows
  <2>1. pc[c] \in InFlight /\ machine' = machine /\ \A d \in Calibrations \ {c} : pc'[d] = pc[d]
    BY <1>3 DEF Step, Fault, BuildBaseline, AIRefuses, BeginDeactivate, LockRows,
       InsertBaseline, UniqueViolation, Commit, StoreAudio, StoreAudioFails,
       RecordAudioPath, TransactionFails, CommitUnacknowledged, RecordAudioPathFails
  <2>2. Fewer
    BY <2>1
  <2>3. \/ \A b \in Calibrations \ {c} : row'[b] = row[b] \/ b \in held[c]
        \/ row' = row
    BY <1>3 DEF Step, Fault, BuildBaseline, AIRefuses, BeginDeactivate, LockRows,
       InsertBaseline, UniqueViolation, Commit, StoreAudio, StoreAudioFails,
       RecordAudioPath, TransactionFails, CommitUnacknowledged, RecordAudioPathFails
  <2>4. path' \subseteq path \cup {c} /\ path \subseteq path'
    BY <1>3 DEF Step, Fault, BuildBaseline, AIRefuses, BeginDeactivate, LockRows,
       InsertBaseline, UniqueViolation, Commit, StoreAudio, StoreAudioFails,
       RecordAudioPath, TransactionFails, CommitUnacknowledged, RecordAudioPathFails
  <2>5. \A b \in held[c] : machine[b] = machine[c]
    BY DEF LockDiscipline, ActiveOf
  <2>6. CASE machine[c] # m
    BY <2>1, <2>3, <2>4, <2>5, <2>6 DEF Tables, ActiveOf, RetiredOf
  <2> QED BY <2>1, <2>2, <2>6
<1>4. ASSUME Crash \/ (\E k \in Machines : DeleteMachine(k)) \/ UNCHANGED vars
      PROVE  Fewer /\ Settled
  BY <1>4, <1>1 DEF Crash, DeleteMachine, vars
<1> QED
  BY <1>2, <1>3, <1>4 DEF Next, AllAnswered, Tables

\* The same of the inspections.
LEMMA InspectionsSettle ==
  ASSUME InspectionInv, [InspectionNext]_allVars, NEW m \in Machines \ live
  PROVE  /\ \A i \in Inspections :
              ipc'[i] \in IInFlight /\ imachine'[i] = m => ipc[i] \in IInFlight /\ imachine[i] = m
         /\ \/ \E i \in Inspections : ipc[i] \in IInFlight /\ imachine[i] = m
            \/ UNCHANGED {r \in inspections : r.machine = m}
<1> USE DEF InspectionInv, InspectionTypeOK, IInFlight, IGoto
<1>1. ASSUME NEW i \in Inspections, IStart(i)
      PROVE  /\ \A j \in Inspections : ipc'[j] \in IInFlight /\ imachine'[j] = m
                                        => ipc[j] \in IInFlight /\ imachine[j] = m
             /\ UNCHANGED inspections
  BY <1>1 DEF IStart, RefuseInspection, FindMachine
<1>2. ASSUME NEW i \in Inspections, IStep(i) \/ IFault(i)
      PROVE  /\ ipc[i] \in IInFlight /\ imachine' = imachine
             /\ \A j \in Inspections \ {i} : ipc'[j] = ipc[j]
             /\ inspections' \in {inspections, inspections \cup {NewRow(i)}}
  BY <1>2 DEF IStep, FindActiveForMachine, NotCalibrated, AIInspects, AIInspectFails,
     StoreEvidence, CreateInspection,
       IFault, FindActiveFails, CreateInspectionFails
<1>3. \A i \in Inspections : NewRow(i).machine = imachine[i]
  BY DEF NewRow
<1>4. ASSUME CrashAll \/ UNCHANGED inspectionVars
      PROVE  /\ \A j \in Inspections : ipc'[j] \in IInFlight => ipc[j] \in IInFlight
             /\ UNCHANGED <<imachine, inspections>>
  BY <1>4 DEF CrashAll, inspectionVars
<1> QED
  BY <1>1, <1>2, <1>3, <1>4 DEF InspectionNext, AllRequestsAnswered, allVars

\* After a machine's deletion only requests already past the gate write for it.
THEOREM DeletionsSettle == InspectionSpec => DeletionSettles
<1>1. ASSUME InspectionInv, [InspectionNext]_allVars, NEW m \in Machines \ live
      PROVE  /\ BusyWith(m)' \subseteq BusyWith(m)
             /\ BusyWith(m) = {} => UNCHANGED HistoryOf(m)
  <2>1. IInv /\ [Next]_vars
    BY <1>1, CalibrationSees DEF InspectionInv
  <2> QED
    BY <1>1, <2>1, CalibrationsSettle, InspectionsSettle DEF BusyWith, HistoryOf
<1>2. InspectionInv /\ [InspectionNext]_allVars =>
        [\A m \in Machines \ live :
           /\ BusyWith(m)' \subseteq BusyWith(m)
           /\ BusyWith(m) = {} => UNCHANGED HistoryOf(m)]_allVars
  BY <1>1
<1> QED
  BY <1>2, InspectionInvariance, PTL DEF InspectionSpec, DeletionSettles

\* To the calibrations, inspections beside them are not there: whatever holds of every
\* behaviour of theirs holds here.
THEOREM RunsCalibration == InspectionSpec => Spec
<1>1. InspectionInit => Init
  BY DEF InspectionInit
<1>2. [InspectionNext]_allVars => [Next]_vars
  BY CalibrationSees
<1> QED
  BY <1>1, <1>2, PTL DEF InspectionSpec, Spec

\* While machines are inspected their baselines are an atomic register all the same, the
\* one that the reads of FindActiveForMachine are reads of.
THEOREM RegisterInspected == InspectionSpec => ImplementsRegister
BY RunsCalibration, RefinesRegister

\* Inspections and calibrations share the pool and never wait for each other in a ring.
THEOREM InspectionNeverStuck == InspectionSpec => []NeverStuck
BY RunsCalibration, NoDeadlock
=============================================================================
