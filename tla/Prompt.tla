-------------------------------- MODULE Prompt ------------------------------
(***************************************************************************)
(* RenderPrompt (src/internal/advisory/prompt.go): what AskModel sends to  *)
(* the language model. The template is walked line by line; a line whose   *)
(* fact is missing is dropped, an empty section takes its header with it,  *)
(* and of the history the client sends only the latest turns are shown.    *)
(*                                                                         *)
(* A line is its label and the values written on it. A missing value is    *)
(* the empty sequence. The conversation is not kept by the backend: the    *)
(* client may send any history with any question.                          *)
(***************************************************************************)
EXTENDS Advisory

CONSTANTS
  MaxHistoryTurns,  \* AdvisoryMaxHistoryTurns
  Histories         \* the histories that clients send

ASSUME HistoryAssumption ==
  /\ MaxHistoryTurns \in Nat
  /\ \A history \in Histories : history \in Seq({history[i] : i \in DOMAIN history})

-----------------------------------------------------------------------------
(* prompt_template.txt *)

Field(label, holes) == [label |-> label, holes |-> holes]
Fixed(label) == Field(label, <<>>)
Scalar(name) == Field(name, <<name>>)

Template ==
  <<Fixed("FAKTA"), Scalar("status"), Field("z", <<"z", "z_warning", "z_critical">>),
    Scalar("dominant_indicator"), Scalar("calibration_quality"), Scalar("drive_type"),
    Scalar("recency"), Scalar("machine_age"), Scalar("hours_per_day"),
    Scalar("has_backup"), Scalar("load_state"), Fixed(""),
    Fixed("KEPUTUSAN SISTEM"), Scalar("urgency"), Scalar("safety_gate"),
    Fixed("langkah:"), Fixed("{checklist}"), Scalar("escalate_if"),
    Scalar("recheck_hours"), Fixed(""),
    Fixed("RIWAYAT:"), Fixed("{history}"), Fixed(""),
    Scalar("user_message")>>

Omittable == {"z", "dominant_indicator", "calibration_quality"}

-----------------------------------------------------------------------------
(* prompt.go *)

Shown(text) == IF text = "" THEN <<>> ELSE <<text>>

\* Of what only the client knows, the constant "given" stands for any value: the
\* request is refused without one.
ScalarValues(r) ==
  [status |-> <<fact[r].status>>,
   z |-> IF fact[r].z = NoZ THEN <<>> ELSE <<FormatFloat1(fact[r].z)>>,
   z_warning |-> <<300>>, z_critical |-> <<600>>,
   dominant_indicator |-> Shown(fact[r].indicator),
   calibration_quality |-> Shown(quality[r]),
   drive_type |-> <<ask[r].context[1]>>, recency |-> <<ask[r].context[2]>>,
   machine_age |-> <<"given">>, hours_per_day |-> <<"given">>,
   has_backup |-> <<"given">>, load_state |-> <<"given">>,
   urgency |-> <<cell[r].urgency>>, safety_gate |-> cell[r].gate,
   escalate_if |-> cell[r].escalateIf, recheck_hours |-> <<cell[r].hours>>,
   user_message |-> <<"given">>]

DroppedByEmptyPlaceholder(line, values) ==
  \E i \in DOMAIN line.holes : line.holes[i] \in Omittable /\ values[line.holes[i]] = <<>>

Substitute(line, values) ==
  [label |-> line.label, body |-> [i \in DOMAIN line.holes |-> values[line.holes[i]]]]

\* The line just emitted goes, if it is the header.
DropPrecedingHeader(out, header) ==
  IF out # <<>> /\ out[Len(out)].label = header THEN SubSeq(out, 1, Len(out) - 1) ELSE out

RenderChecklist(items) ==
  [i \in DOMAIN items |-> [label |-> "step", body |-> <<i, items[i]>>]]

\* Mutant: the earliest turns are kept.
CappedHistoryOldest(history) ==
  IF Len(history) <= MaxHistoryTurns THEN history ELSE SubSeq(history, 1, MaxHistoryTurns)

CappedHistory(history) ==
  IF Len(history) <= MaxHistoryTurns THEN history
  ELSE SubSeq(history, Len(history) - MaxHistoryTurns + 1, Len(history))

RenderHistory(turns) ==
  [i \in DOMAIN turns |->
     [label |-> IF turns[i].role = "user" THEN "operator" ELSE "asisten",
      body |-> <<turns[i].content>>]]

\* A section's lines, or none and no header either.
Section(out, header, lines) ==
  IF lines = <<>> THEN DropPrecedingHeader(out, header) ELSE out \o lines

IsBlank(line) == line.label = ""

CollapseBlankRuns(lines) ==
  LET kept[n \in 0..Len(lines)] ==
        IF n = 0 THEN <<>>
        ELSE IF n > 1 /\ IsBlank(lines[n]) /\ IsBlank(lines[n - 1]) THEN kept[n - 1]
        ELSE Append(kept[n - 1], lines[n])
  IN  kept[Len(lines)]

\* What the loop makes of one more line of the template.
Emit(out, line, r, history) ==
  CASE line.label = "{checklist}" ->
         Section(out, "langkah:", RenderChecklist(cell[r].checklist))
    [] line.label = "{history}" ->
         Section(out, "RIWAYAT:", RenderHistory(CappedHistory(history)))
    [] DroppedByEmptyPlaceholder(line, ScalarValues(r)) -> out
    [] OTHER -> Append(out, Substitute(line, ScalarValues(r)))

RenderPrompt(r, history) ==
  LET emitted[n \in 0..Len(Template)] ==
        IF n = 0 THEN <<>> ELSE Emit(emitted[n - 1], Template[n], r, history)
  IN  CollapseBlankRuns(emitted[Len(Template)])

-----------------------------------------------------------------------------
(* Properties. *)

Line(label, body) == [label |-> label, body |-> body]
Told(label, value) == Line(label, <<value>>)
Heading(label) == Line(label, <<>>)
Blank == Heading("")
Under(label, lines) == <<Heading(label)>> \o lines

\* The latest turns of a conversation, as many as a prompt shows.
Latest(history) ==
  LET shown == IF Len(history) < MaxHistoryTurns THEN Len(history) ELSE MaxHistoryTurns
  IN  [i \in 1..shown |-> history[Len(history) - shown + i]]

Spoken(turn) ==
  Told(IF turn.role = "user" THEN "operator" ELSE "asisten", turn.content)

\* The sections of a prompt about inspection row f under decision c, when the quality
\* of the row's baseline is known to be q; "" when it is not known.
FactLines(f, q) ==
  <<Heading("FAKTA"), Told("status", <<f.status>>)>>
  \o (IF f.z = NoZ THEN <<>>
      ELSE <<Line("z", <<<<FormatFloat1(f.z)>>, <<300>>, <<600>>>>)>>)
  \o (IF f.indicator = "" THEN <<>> ELSE <<Told("dominant_indicator", <<f.indicator>>)>>)
  \o (IF q = "" THEN <<>> ELSE <<Told("calibration_quality", <<q>>)>>)

ContextLines(context) ==
  <<Told("drive_type", <<context[1]>>), Told("recency", <<context[2]>>),
    Told("machine_age", <<"given">>), Told("hours_per_day", <<"given">>),
    Told("has_backup", <<"given">>), Told("load_state", <<"given">>)>>

DecisionLines(c) ==
  <<Blank, Heading("KEPUTUSAN SISTEM"), Told("urgency", <<c.urgency>>),
    Told("safety_gate", c.gate)>>

StepLines(c) ==
  IF c.checklist = <<>> THEN <<>>
  ELSE Under("langkah:", [i \in DOMAIN c.checklist |-> Line("step", <<i, c.checklist[i]>>)])

LimitLines(c) ==
  <<Told("escalate_if", c.escalateIf), Told("recheck_hours", <<c.hours>>), Blank>>

TurnLines(history) ==
  IF Latest(history) = <<>> THEN <<>>
  ELSE Under("RIWAYAT:", [i \in DOMAIN Latest(history) |-> Spoken(Latest(history)[i])])
       \o <<Blank>>

WholePrompt(f, q, c, context, history) ==
  FactLines(f, q) \o ContextLines(context) \o DecisionLines(c) \o StepLines(c)
  \o LimitLines(c) \o TurnLines(history) \o <<Told("user_message", <<"given">>)>>

\* The model is told the truth and all of it, once and in order: the facts of the
\* inspection row, no line for a fact there is not, the whole checklist, and the
\* latest turns of the conversation, however long it has become; and what is left
\* out leaves neither a header nor a gap (prompt.go, RenderPrompt, omittableIfEmpty
\* and collapseBlankRuns).
PromptIsWhole ==
  \A r \in Requests : pc[r] = "calling" => \A history \in Histories :
    LET inspected == row[ask[r].inspection] IN
    \E known \in {"", inspected.quality} :
      RenderPrompt(r, history)
        = WholePrompt(inspected, known, cell[r], ask[r].context, history)
=============================================================================
