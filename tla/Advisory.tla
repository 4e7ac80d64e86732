------------------------------- MODULE Advisory -----------------------------
(***************************************************************************)
(* AdvisoryUseCase.Send (src/internal/usecase/advisory.go): one turn of    *)
(* the conversation about a stored inspection.                             *)
(*                                                                         *)
(* The turn reads the machine, the inspection and the baseline it was      *)
(* scored against, one statement each; machines are deleted and            *)
(* recalibrated in between. Danger words in the question decide the answer *)
(* at once. Otherwise a language model is asked, which may answer anything *)
(* or nothing, and the guard decides whether its words are shown.          *)
(***************************************************************************)
EXTENDS Advice

CONSTANTS
  Users, Machines, Inspections,
  Requests,     \* POST .../advisory/messages
  Contexts,     \* the pairs of drive type and recency that clients send
  Indicators,   \* what dominant_indicator may hold; "" is NULL
  Scores,       \* z-scores, in hundredths
  Qualities,    \* values of calibration_quality
  Completions,  \* what the language model may send
  Nobody,       \* the owner of a deleted machine
  Unknown       \* a value the handler does not have

ASSUME ContextsAssumption == Contexts \subseteq DriveTypes \X Recencies
ASSUME IndicatorsAssumption == "" \in Indicators /\ "*" \notin Indicators
ASSUME ScoresAssumption == Scores \subseteq Int /\ NoZ \notin Int
ASSUME CompletionsAssumption == Completions \subseteq CompletionType
ASSUME UnknownAssumption ==
  /\ Nobody \notin Users
  /\ Unknown \notin Qualities

VARIABLES
  owner,    \* owner[m]: the user whose machine m is, Nobody once it is deleted
  current,  \* current[m]: calibration quality of the active baseline of machine m
  row,      \* row[i]: the row of inspection i and the quality of its baseline
  pc,       \* pc[r]: how far request r has come
  ask,      \* ask[r]: the request
  fact,     \* fact[r]: the inspection row it read
  quality,  \* quality[r]: the calibration quality its prompt shows
  cell,     \* cell[r]: the decision table cell it renders
  reply     \* reply[r]: what the operator was answered

vars == <<owner, current, row, pc, ask, fact, quality, cell, reply>>

InFlight == {"owned", "found", "joined", "calling"}
Outcomes == {"answered", "refused", "notfound", "failed"}

Rows == {f \in [machine : Machines, status : Statuses, z : Scores \cup {NoZ},
                indicator : Indicators, quality : Qualities] :
           f.z = NoZ <=> f.status = "KALIBRASI_KURANG"}

Asks == [user : Users, machine : Machines, inspection : Inspections,
         context : Contexts, danger : BOOLEAN]

\* Every variable keeps its type. In particular a quality that could not be read is
\* missing from the prompt and never some other text.
TypeOK ==
  /\ owner \in [Machines -> Users \cup {Nobody}]
  /\ current \in [Machines -> Qualities]
  /\ row \in [Inspections -> Rows]
  /\ pc \in [Requests -> {"idle"} \cup InFlight \cup Outcomes]
  /\ ask \in [Requests -> Asks \cup {Unknown}]
  /\ fact \in [Requests -> Rows \cup {Unknown}]
  /\ quality \in [Requests -> Qualities \cup {"", Unknown}]
  /\ cell \in [Requests -> Table \cup {Unknown}]
  /\ reply \in [Requests -> Replies \cup {Unknown}]
  /\ \A r \in Requests :
       /\ pc[r] \in InFlight \cup {"answered"} => ask[r] \in Asks
       /\ pc[r] \in {"found", "joined", "calling", "answered"} => fact[r] \in Rows
       /\ pc[r] \in {"joined", "calling", "answered"} => quality[r] \in Qualities \cup {""}
       /\ pc[r] \in {"calling", "answered"} => cell[r] \in Table
       /\ pc[r] = "answered" => reply[r] \in Replies

\* The inspections have just been made: their baselines are still the active ones.
Init ==
  /\ owner \in [Machines -> Users]
  /\ row \in [Inspections -> Rows]
  /\ current \in {f \in [Machines -> Qualities] :
                    \A i \in Inspections : f[row[i].machine] = row[i].quality}
  /\ pc = [r \in Requests |-> "idle"]
  /\ ask = [r \in Requests |-> Unknown]
  /\ fact = [r \in Requests |-> Unknown]
  /\ quality = [r \in Requests |-> Unknown]
  /\ cell = [r \in Requests |-> Unknown]
  /\ reply = [r \in Requests |-> Unknown]

-----------------------------------------------------------------------------
Goto(r, label) == pc' = [pc EXCEPT ![r] = label]
database == <<owner, current, row>>

\* Validation fails, at the start or before anything is read.
Refuse(r) ==
  /\ pc[r] = "idle"
  /\ Goto(r, "refused")
  /\ UNCHANGED <<database, ask, fact, quality, cell, reply>>

\* Mutant: any machine that is not deleted will do.
FindMachineByID(r, a) ==
  /\ pc[r] = "idle"
  /\ ask' = [ask EXCEPT ![r] = a]
  /\ Goto(r, IF owner[a.machine] # Nobody THEN "owned" ELSE "notfound")
  /\ UNCHANGED <<database, fact, quality, cell, reply>>

\* FindByIDForUser.
FindMachine(r, a) ==
  /\ pc[r] = "idle"
  /\ ask' = [ask EXCEPT ![r] = a]
  /\ Goto(r, IF owner[a.machine] = a.user THEN "owned" ELSE "notfound")
  /\ UNCHANGED <<database, fact, quality, cell, reply>>

\* Mutant: the inspection is looked up by its id alone.
FindInspectionByID(r) ==
  /\ pc[r] = "owned"
  /\ fact' = [fact EXCEPT ![r] = row[ask[r].inspection]]
  /\ Goto(r, "found")
  /\ UNCHANGED <<database, ask, quality, cell, reply>>

\* FindByIDForMachine.
FindInspection(r) ==
  LET i == row[ask[r].inspection] IN
  /\ pc[r] = "owned"
  /\ IF i.machine = ask[r].machine
       THEN fact' = [fact EXCEPT ![r] = i] /\ Goto(r, "found")
       ELSE Goto(r, "notfound") /\ UNCHANGED fact
  /\ UNCHANGED <<database, ask, quality, cell, reply>>

\* Mutant: the machine's active baseline is asked for its quality.
JoinActiveBaseline(r) ==
  /\ pc[r] = "found"
  /\ quality' = [quality EXCEPT ![r] = current[ask[r].machine]]
  /\ Goto(r, "joined")
  /\ UNCHANGED <<database, ask, fact, cell, reply>>

\* calibrationQualityFor: the baseline this inspection was scored against.
JoinBaseline(r) ==
  /\ pc[r] = "found"
  /\ quality' = [quality EXCEPT ![r] = fact[r].quality]
  /\ Goto(r, "joined")
  /\ UNCHANGED <<database, ask, fact, cell, reply>>

\* Mutant: the prompt says that the quality is null.
JoinBaselineRendersNull(r) ==
  /\ pc[r] = "found"
  /\ quality' = [quality EXCEPT ![r] = Unknown]
  /\ Goto(r, "joined")
  /\ UNCHANGED <<database, ask, fact, cell, reply>>

\* The join fails: the fact is left out and the turn goes on.
JoinBaselineFails(r) ==
  /\ pc[r] = "found"
  /\ quality' = [quality EXCEPT ![r] = ""]
  /\ Goto(r, "joined")
  /\ UNCHANGED <<database, ask, fact, cell, reply>>

LookupFor(r, status) ==
  Lookup(status, fact[r].indicator, ask[r].context[1], ask[r].context[2])

\* A danger word: the critical cell, whatever was measured, and no model.
AnswerDanger(r) ==
  /\ pc[r] = "joined" /\ ask[r].danger
  /\ \E c \in LookupFor(r, "CRITICAL") :
       /\ cell' = [cell EXCEPT ![r] = c]
       /\ reply' = [reply EXCEPT ![r] = [StaticReply(c) EXCEPT !.escalated = TRUE]]
  /\ Goto(r, "answered")
  /\ UNCHANGED <<database, ask, fact, quality>>

\* Render the prompt and call the model.
AskModel(r) ==
  /\ pc[r] = "joined" /\ ~ask[r].danger
  /\ \E c \in LookupFor(r, fact[r].status) : cell' = [cell EXCEPT ![r] = c]
  /\ Goto(r, "calling")
  /\ UNCHANGED <<database, ask, fact, quality, reply>>

\* The model answered; its words are shown if the guard accepts them.
ModelReplies(r, c) ==
  /\ pc[r] = "calling"
  /\ reply' = [reply EXCEPT ![r] =
       IF GuardAccepts(c, cell[r], AllowedNumbersFor(fact[r].z))
         THEN GuardReply(c, cell[r])
         ELSE StaticReply(cell[r])]
  /\ Goto(r, "answered")
  /\ UNCHANGED <<database, ask, fact, quality, cell>>

\* Mutant: the failure of the model becomes the caller's.
ModelUnavailableIsAnError(r) ==
  /\ pc[r] = "calling"
  /\ Goto(r, "failed")
  /\ UNCHANGED <<database, ask, fact, quality, cell, reply>>

\* No answer: unreachable, an error status, a broken body, or the deadline of
\* context.WithTimeout.
ModelUnavailable(r) ==
  /\ pc[r] = "calling"
  /\ reply' = [reply EXCEPT ![r] = StaticReply(cell[r])]
  /\ Goto(r, "answered")
  /\ UNCHANGED <<database, ask, fact, quality, cell>>

\* A query fails.
Fail(r) ==
  /\ pc[r] \in {"idle", "owned"}
  /\ Goto(r, "failed")
  /\ UNCHANGED <<database, ask, fact, quality, cell, reply>>

\* MachineUseCase.Delete, at any time.
DeleteMachine(m) ==
  /\ owner[m] # Nobody
  /\ owner' = [owner EXCEPT ![m] = Nobody]
  /\ UNCHANGED <<current, row, pc, ask, fact, quality, cell, reply>>

\* BaselineUseCase.Calibrate, at any time: the machine has a new active baseline.
\* A calibration that began before a deletion commits all the same.
Recalibrate(m, q) ==
  /\ current' = [current EXCEPT ![m] = q]
  /\ UNCHANGED <<owner, row, pc, ask, fact, quality, cell, reply>>

-----------------------------------------------------------------------------
Send(r) ==
  \/ FindInspection(r)
  \/ JoinBaseline(r)
  \/ JoinBaselineFails(r)
  \/ AnswerDanger(r)
  \/ AskModel(r)
  \/ ModelUnavailable(r)

Arrive(r) == \E a \in Asks : FindMachine(r, a)

Environment ==
  \E m \in Machines : DeleteMachine(m) \/ \E q \in Qualities : Recalibrate(m, q)

Next ==
  \/ \E r \in Requests :
       \/ Refuse(r)
       \/ Arrive(r)
       \/ Send(r)
       \/ \E c \in Completions : ModelReplies(r, c)
       \/ Fail(r)
  \/ Environment

Spec == Init /\ [][Next]_vars

\* A turn that has begun goes on, and a call of the model ends when its deadline
\* does. The model itself owes nothing.
FairSpec == Spec /\ \A r \in Requests : WF_vars(Send(r))

-----------------------------------------------------------------------------
(* Properties. *)

\* An answer is about an inspection of the machine in the URL, and that machine is
\* the caller's, or was until it was deleted under the turn: three statements read
\* them, each trusting what the one before it checked.
AnswersOnlyOwn ==
  \A r \in Requests :
    /\ pc[r] \in InFlight \cup {"answered"} =>
         owner[ask[r].machine] \in {ask[r].user, Nobody}
    /\ pc[r] \in {"found", "joined", "calling", "answered"} =>
         /\ fact[r] = row[ask[r].inspection]
         /\ fact[r].machine = ask[r].machine

\* The status whose cell decides turn r.
Deciding(r) == IF ask[r].danger THEN "CRITICAL" ELSE fact[r].status

\* The model decides nothing: a turn is escalated exactly when the operator
\* reported danger, which reaches no model, sends for a technician and takes the
\* critical cell; in every other turn the table decides whether one is needed. And
\* the table decides: whatever was measured and asked it has one cell for it, so
\* neither Lookup's error nor its choice of the first of several is ever taken
\* (rules.go, "A correct table always narrows this to exactly one cell").
FlagsDecidedByRules ==
  \A r \in Requests :
    /\ pc[r] = "joined" => Cardinality(LookupFor(r, Deciding(r))) = 1
    /\ pc[r] \in {"calling", "answered"} => LookupFor(r, Deciding(r)) = {cell[r]}
    /\ pc[r] = "calling" => ~ask[r].danger
    /\ pc[r] = "answered" =>
         /\ reply[r].escalated = ask[r].danger
         /\ reply[r].technician = cell[r].technician
         /\ cell[r].key[1] = Deciding(r)
         /\ ask[r].danger => reply[r].technician /\ reply[r].source = "fallback_static"

\* Whoever wrote it, an answer about a machine in trouble, or to an operator in
\* danger, says to switch the machine off before it says to inspect anything.
ShutDownFirst ==
  \A r \in Requests :
    pc[r] = "answered" /\ (ask[r].danger \/ fact[r].status \in {"WARNING", "CRITICAL"}) =>
      LET said == reply[r].answer \o reply[r].next IN
      \E i \in DOMAIN said :
        said[i].word = "matikan" /\ \A j \in 1..i : said[j].word # "periksa"

\* n is an ordinal, a threshold, the score z, or a number of cell c.
Vetted(n, z, c) ==
  \/ Abs(n) \in {100 * k : k \in 1..9}
  \/ \E v \in ({300, 600, z} \cup {100 * c.hours} \cup c.urgency
                  \cup NumbersOf(c.checklist)) \ {NoZ} :
       v - 5 <= Abs(n) /\ Abs(n) <= v + 5

\* No answer names a fault, and every number in it, also in a reply the table
\* alone produced, is one the machine's facts or the table account for.
EveryAnswerVetted ==
  \A r \in Requests :
    pc[r] = "answered" =>
      LET said == reply[r].answer \o reply[r].next IN
      \A i \in DOMAIN said :
        /\ said[i].word # "diagnosis"
        /\ \A n \in said[i].nums : Vetted(n, fact[r].z, cell[r])

\* z lies halfway between two decimals.
Halfway(z) == z % 10 = 5

\* Of the numbers that are not negative, a model is rejected for quoting none the
\* prompt shows, except for a score halfway between two decimals: formatFloat1
\* (prompt.go) and numberAllowed's "< numberTolerance" (guard.go) meet there, and
\* the doubles decide. 1.25 is shown as 1.2, which is rejected; 1.35 as 1.4, which is
\* accepted.
FactsMayBeQuoted ==
  \A r \in Requests :
    pc[r] = "calling" =>
      LET z == fact[r].z IN
      \A n \in PromptNumbers(z, cell[r]) :
        n >= 0 =>
          \/ NumberAllowed(n, AllowedNumbersFor(z) \cup CellNumbers(cell[r]))
          \/ z # NoZ /\ Halfway(z) /\ n = FormatFloat1(z)

\* The prompt shows the quality of the baseline that produced the score, or none;
\* a recalibration since then does not show (advisory.go, calibrationQualityFor).
QualityOfScoringBaseline ==
  \A r \in Requests :
    pc[r] \in {"joined", "calling", "answered"} =>
      quality[r] \in {"", row[ask[r].inspection].quality}

\* A turn that has its facts is answered: the table has a cell for it, and no
\* silence, failure or nonsense of the model leaves the operator without one.
EveryTurnAnswered ==
  \A r \in Requests : pc[r] = "joined" ~> pc[r] = "answered"

\* guard.go: "a number the caller supplies from the HealthCard" may be used. The
\* measured score, as the prompt shows it, may be quoted.
SuppliedScoreMayBeQuoted ==
  \A r \in Requests :
    pc[r] = "calling" /\ fact[r].z # NoZ =>
      \A n \in ExtractNumbers(<<Plain({FormatFloat1(fact[r].z)})>>) :
        NumberAllowed(n, AllowedNumbersFor(fact[r].z) \cup CellNumbers(cell[r]))
=============================================================================
