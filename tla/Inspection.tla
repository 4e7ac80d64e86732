----------------------------- MODULE Inspection -----------------------------
(***************************************************************************)
(* InspectionUseCase.Inspect (src/internal/usecase/inspection.go) running  *)
(* beside the calibrations, deletions and crashes of module Calibration:   *)
(* the baseline an inspection is scored against is read before the AI call *)
(* and may be superseded while the call lasts.                             *)
(***************************************************************************)
EXTENDS Calibration

CONSTANTS
  Inspections,    \* inspection requests, and the ids of the rows they write
  NoBaseline      \* the baseline of a request that has not read one

ASSUME NoBaselineAssumption == NoBaseline \notin Calibrations

VARIABLES
  ipc,          \* ipc[i]: how far request i has come
  imachine,     \* imachine[i]: the machine row it read
  payload,      \* payload[i]: the baseline it rebuilt for the AI service
  card,         \* card[i]: the health card that came back, and for which payload
  clips,        \* inspection recordings in the object store
  kept,         \* kept[i]: inspection.AudioPath is set on the entity in memory
  inspections   \* the rows of the inspections table

inspectionVars == <<ipc, imachine, payload, card, clips, kept, inspections>>
allVars == <<vars, inspectionVars>>

Statuses  == {"NORMAL", "WARNING", "CRITICAL", "KALIBRASI_KURANG"}
Anomalous == {"WARNING", "CRITICAL"}

NoCard == [baseline |-> NoBaseline, status |-> "none"]
Cards  == [baseline : Calibrations, status : Statuses]

Row == [id : Inspections, machine : Machines, baseline : Calibrations,
        status : Statuses, audio : BOOLEAN]

IInFlight == {"owned", "calling", "scored", "evidenced"}
IOutcomes == {"ok", "refused", "uncalibrated", "failed", "lost"}

InspectionTypeOK ==
  /\ TypeOK
  /\ ipc \in [Inspections -> {"idle"} \cup IInFlight \cup IOutcomes]
  /\ imachine \in [Inspections -> Machines \cup {NoMachine}]
  /\ payload \in [Inspections -> Calibrations \cup {NoBaseline}]
  /\ card \in [Inspections -> Cards \cup {NoCard}]
  /\ clips \subseteq Inspections
  /\ kept \in [Inspections -> BOOLEAN]
  /\ inspections \subseteq Row

InspectionInit ==
  /\ Init
  /\ ipc = [i \in Inspections |-> "idle"]
  /\ imachine = [i \in Inspections |-> NoMachine]
  /\ payload = [i \in Inspections |-> NoBaseline]
  /\ card = [i \in Inspections |-> NoCard]
  /\ clips = {}
  /\ kept = [i \in Inspections |-> FALSE]
  /\ inspections = {}

-----------------------------------------------------------------------------
IGoto(i, label) == ipc' = [ipc EXCEPT ![i] = label]

\* Validation fails, the machine is not found for this caller, or the query fails.
RefuseInspection(i) ==
  /\ ipc[i] = "idle"
  /\ IGoto(i, "refused")
  /\ UNCHANGED <<vars, imachine, payload, card, clips, kept, inspections>>

\* Mutant: the lookup does not look at deleted_at.
FindMachineUnscoped(i, m) ==
  /\ ipc[i] = "idle"
  /\ FreeConnection
  /\ IGoto(i, "owned")
  /\ imachine' = [imachine EXCEPT ![i] = m]
  /\ UNCHANGED <<vars, payload, card, clips, kept, inspections>>

FindMachine(i, m) ==
  /\ ipc[i] = "idle"
  /\ FreeConnection
  /\ m \in live
  /\ IGoto(i, "owned")
  /\ imachine' = [imachine EXCEPT ![i] = m]
  /\ UNCHANGED <<vars, payload, card, clips, kept, inspections>>

\* FindActiveForMachine returns the row, and baselinePayload rebuilds what
\* the AI service stored in it. Readers do not wait for row locks.
FindActiveForMachine(i) ==
  /\ ipc[i] = "owned"
  /\ FreeConnection
  /\ \E b \in ActiveOf(imachine[i]) : payload' = [payload EXCEPT ![i] = b]
  /\ IGoto(i, "calling")
  /\ UNCHANGED <<vars, imachine, card, clips, kept, inspections>>

\* ErrRecordNotFound becomes the 422 that tells the operator to calibrate.
NotCalibrated(i) ==
  /\ ipc[i] = "owned"
  /\ FreeConnection
  /\ ActiveOf(imachine[i]) = {}
  /\ IGoto(i, "uncalibrated")
  /\ UNCHANGED <<vars, imachine, payload, card, clips, kept, inspections>>

\* The query itself fails, or what it found cannot be sent (baselinePayload).
FindActiveFails(i) ==
  /\ ipc[i] = "owned"
  /\ IGoto(i, "failed")
  /\ UNCHANGED <<vars, imachine, payload, card, clips, kept, inspections>>

AIInspects(i) ==
  /\ ipc[i] = "calling"
  /\ \E s \in Statuses :
       card' = [card EXCEPT ![i] = [baseline |-> payload[i], status |-> s]]
  /\ IGoto(i, "scored")
  /\ UNCHANGED <<vars, imachine, payload, clips, kept, inspections>>

\* Mutant: the error of the AI service is not returned.
AIInspectFailsOnwards(i) ==
  /\ ipc[i] = "calling"
  /\ IGoto(i, "scored")
  /\ UNCHANGED <<vars, imachine, payload, card, clips, kept, inspections>>

\* The AI service rejects the recording or the baseline's model fingerprint,
\* fails or times out.
AIInspectFails(i) ==
  /\ ipc[i] = "calling"
  /\ IGoto(i, "refused")
  /\ UNCHANGED <<vars, imachine, payload, card, clips, kept, inspections>>

\* Mutant: every clip is uploaded, whatever its status.
StoreEveryClip(i) ==
  /\ ipc[i] = "scored"
  /\ clips' = clips \cup {i}
  /\ kept' = [kept EXCEPT ![i] = TRUE]
  /\ IGoto(i, "evidenced")
  /\ UNCHANGED <<vars, imachine, payload, card, inspections>>

\* Only an anomalous clip is uploaded, before its row exists. A failed Put is
\* logged and leaves AudioPath nil, whether or not the object arrived.
StoreEvidence(i) ==
  /\ ipc[i] = "scored"
  /\ IF card[i].status \in Anomalous
       THEN \/ /\ clips' = clips \cup {i}
               /\ kept' = [kept EXCEPT ![i] = TRUE]
            \/ /\ clips' \in {clips, clips \cup {i}}
               /\ UNCHANGED kept
       ELSE UNCHANGED <<clips, kept>>
  /\ IGoto(i, "evidenced")
  /\ UNCHANGED <<vars, imachine, payload, card, inspections>>

\* Mutant: the row names the baseline that is active when it is written.
NewRowOfCurrent(i) ==
  [id |-> i, machine |-> imachine[i],
   baseline |-> CHOOSE b \in ActiveOf(imachine[i]) : TRUE,
   status |-> card[i].status, audio |-> kept[i]]

NewRow(i) == [id |-> i, machine |-> imachine[i], baseline |-> payload[i],
              status |-> card[i].status, audio |-> kept[i]]

CreateInspection(i) ==
  /\ ipc[i] = "evidenced"
  /\ FreeConnection
  /\ inspections' = inspections \cup {NewRow(i)}
  /\ IGoto(i, "ok")
  /\ UNCHANGED <<vars, imachine, payload, card, clips, kept>>

\* The insert fails (a check constraint, a lost connection), or takes effect
\* without the backend learning of it: 500 either way, and the clip stays.
CreateInspectionFails(i) ==
  /\ ipc[i] = "evidenced"
  /\ inspections' \in {inspections, inspections \cup {NewRow(i)}}
  /\ IGoto(i, "failed")
  /\ UNCHANGED <<vars, imachine, payload, card, clips, kept>>

-----------------------------------------------------------------------------
\* The process dies with the requests of both use cases.
CrashAll ==
  /\ Crash
  /\ ipc' = [i \in Inspections |-> IF ipc[i] \in IInFlight THEN "lost" ELSE ipc[i]]
  /\ UNCHANGED <<imachine, payload, card, clips, kept, inspections>>

AllRequestsAnswered ==
  /\ \A i \in Inspections : ipc[i] \in IOutcomes
  /\ AllAnswered
  /\ UNCHANGED inspectionVars

IStep(i) ==
  \/ FindActiveForMachine(i)
  \/ NotCalibrated(i)
  \/ AIInspects(i)
  \/ AIInspectFails(i)
  \/ StoreEvidence(i)
  \/ CreateInspection(i)

\* The failures nothing obliges to happen.
IFault(i) == FindActiveFails(i) \/ CreateInspectionFails(i)

IStart(i) == RefuseInspection(i) \/ \E m \in Machines : FindMachine(i, m)

InspectionNext ==
  \/ \E c \in Calibrations : (Start(c) \/ Step(c) \/ Fault(c)) /\ UNCHANGED inspectionVars
  \/ \E m \in Machines : DeleteMachine(m) /\ UNCHANGED inspectionVars
  \/ \E i \in Inspections : IStart(i) \/ IStep(i) \/ IFault(i)
  \/ CrashAll
  \/ AllRequestsAnswered

InspectionSpec == InspectionInit /\ [][InspectionNext]_allVars

InspectionFairSpec ==
  /\ InspectionSpec
  /\ \A c \in Calibrations : WF_allVars(Step(c) /\ UNCHANGED inspectionVars)
  /\ \A i \in Inspections : WF_allVars(IStep(i))

-----------------------------------------------------------------------------
(* Properties. *)

\* The 422 "Mesin ini belum dikalibrasi" is never told of a machine that has
\* been calibrated: no reader falls between the deactivation of the old
\* baseline and the creation of the new one.
NeverFalselyUncalibrated ==
  [][\A i \in Inspections :
       ipc[i] = "owned" /\ ipc'[i] = "uncalibrated" =>
         \A c \in Calibrations : machine[c] = imachine[i] => row[c] = "absent"]_allVars

\* A stored z-score can be traced to the baseline that produced it: the row
\* names the baseline its card was computed from, which is a committed baseline
\* of the row's own machine, even when it was superseded during the AI call.
ScoreTraceable ==
  \A r \in inspections :
    /\ r.baseline = card[r.id].baseline
    /\ row[r.baseline] # "absent"
    /\ machine[r.baseline] = r.machine

\* Privacy and evidence (docs/prd.md FR10, quoted at inspection.go:119-121): the
\* clip of a quiet machine is never in the bucket, and a row that names a clip
\* names one that is there, whatever failed or crashed between upload and insert.
EvidenceOnlyOfAnomalies ==
  /\ \A i \in clips : card[i].status \in Anomalous
  /\ \A r \in inspections : r.audio => r.id \in clips

\* The requests that have passed the ownership gate of m and are not answered.
BusyWith(m) ==
  {c \in Calibrations : pc[c] \in InFlight /\ machine[c] = m}
    \cup {i \in Inspections : ipc[i] \in IInFlight /\ imachine[i] = m}

\* What the tables hold about m.
HistoryOf(m) ==
  <<ActiveOf(m), RetiredOf(m), {b \in path : machine[b] = m},
    {r \in inspections : r.machine = m}>>

\* A machine deleted while the AI service works still receives a baseline or an
\* inspection (baseline.go:80 is the only look at the machine), but that comes to
\* an end: requests busy with a deleted machine only become fewer, and after the
\* last of them its history is final.
DeletionSettles ==
  [][\A m \in Machines \ live :
       /\ BusyWith(m)' \subseteq BusyWith(m)
       /\ BusyWith(m) = {} => UNCHANGED HistoryOf(m)]_allVars

\* Every inspection that began is answered or dies with the process, although
\* calibrations compete for the connection pool.
EveryInspectionAnswered ==
  \A i \in Inspections : ipc[i] \in IInFlight ~> ipc[i] \in IOutcomes
=============================================================================
