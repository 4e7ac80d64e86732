-------------------------------- MODULE Advice ------------------------------
(***************************************************************************)
(* The pure part of Teknisi Saku (src/internal/advisory): the decision     *)
(* table and its lookup, the reply made without a language model, the      *)
(* numbers a prompt shows, and the guard on what a model answers.          *)
(*                                                                         *)
(* A text is a sequence of phrases. Of a phrase only what the guard looks  *)
(* for is kept: the one telling word it contains, if any, and the numbers  *)
(* written in it, in hundredths.                                           *)
(***************************************************************************)
EXTENDS Integers, Sequences, FiniteSets

CONSTANTS
  NoZ,       \* the z-score of a health card that has none
  \* What IEEE doubles make of the decimals that lie halfway, in hundredths:
  HalfUp,    \* those FormatFloat rounds up: 135 (shown as 1.4) but not 125 (as 1.2)
  HalfNear   \* pairs 0.05 apart whose difference comes out below 0.05: <<140, 135>>

Statuses   == {"NORMAL", "WARNING", "CRITICAL", "KALIBRASI_KURANG"}
Known      == {"kurtosis", "crest_factor", "spectral_centroid"}
DriveTypes == {"belt", "direct-coupled", "direct-drive"}
Recencies  == {"<1bln", "1-6bln", ">6bln", "tidak-tahu"}

\* "matikan" (switch off) and "periksa" (inspect) are the words the safety check
\* looks for; "diagnosis" stands for every forbidden diagnosis phrase.
Words   == {"matikan", "periksa", "diagnosis", "plain"}
Phrases == [word : Words, nums : SUBSET Int]
Texts   == Seq(Phrases)

Plain(numbers) == [word |-> "plain", nums |-> numbers]

NumbersOf(text) == UNION {text[i].nums : i \in DOMAIN text}

-----------------------------------------------------------------------------
(* decision_table.json *)

Gate == <<[word |-> "matikan", nums |-> {}]>>

\* The first step always begins with "Periksa", and the one for belts says how far
\* a belt may give per 100 cm.
Checklist(drive, steps) ==
  [i \in 1..steps |->
     IF i > 1 THEN Plain({})
     ELSE [word |-> "periksa", nums |-> IF drive = "belt" THEN {100, 10000} ELSE {}]]

\* A cell with a safety gate.
GatedCell(key, steps, urgency, hours, technician) ==
  [key |-> key, gate |-> Gate, checklist |-> Checklist(key[3], steps),
   escalateIf |-> <<Plain({})>>,
   urgency |-> urgency, hours |-> hours, technician |-> technician]

\* How many steps the checklist for a dominant indicator has.
StepsFor == [i \in Known |-> CASE i = "kurtosis" -> 5
                               [] i = "crest_factor" -> 4
                               [] i = "spectral_centroid" -> 6]

NormalCell ==
  [key |-> <<"NORMAL", "*", "*", "*">>, gate |-> <<>>, checklist |-> <<>>,
   escalateIf |-> <<Plain({})>>, urgency |-> {}, hours |-> 720, technician |-> FALSE]

RecalibrateCell ==
  [key |-> <<"KALIBRASI_KURANG", "*", "*", "*">>, gate |-> <<>>,
   checklist |-> <<Plain({200}), Plain({}), Plain({})>>,
   escalateIf |-> <<Plain({})>>, urgency |-> {}, hours |-> 0, technician |-> FALSE]

FallbackCells ==
  {GatedCell(<<"WARNING", "*", "*", "*">>, 4, {2400}, 24, TRUE),
   GatedCell(<<"CRITICAL", "*", "*", "*">>, 3, {}, 0, TRUE)}

WarningCells ==
  {GatedCell(<<"WARNING", i, d, "*">>, StepsFor[i], {700}, 168, FALSE) :
     i \in Known, d \in DriveTypes}

OverdueCells ==
  {GatedCell(<<"WARNING", i, d, r>>, StepsFor[i], {4800}, 48, FALSE) :
     i \in Known, d \in DriveTypes, r \in {">6bln", "tidak-tahu"}}

CriticalCells ==
  {GatedCell(<<"CRITICAL", i, d, "*">>, StepsFor[i], {}, 0, TRUE) :
     i \in Known, d \in DriveTypes}

Table ==
  {NormalCell, RecalibrateCell} \cup FallbackCells \cup WarningCells
    \cup OverdueCells \cup CriticalCells

-----------------------------------------------------------------------------
(* rules.go *)

Matches(cell, combo) == \A i \in 1..4 : cell.key[i] \in {"*", combo[i]}

Wildcards(cell) == Cardinality({i \in 1..4 : cell.key[i] = "*"})

\* The cells Lookup may return for status, dominant indicator, drive type and
\* recency: the matching ones with the fewest wildcards.
Lookup(status, indicator, drive, recency) ==
  LET matching == {c \in Table : Matches(c, <<status, indicator, drive, recency>>)}
  IN  {c \in matching : \A o \in matching : Wildcards(c) <= Wildcards(o)}

-----------------------------------------------------------------------------
(* static.go *)

\* The safety gate, the numbered checklist, and when to call for help.
StaticAnswer(cell) ==
  cell.gate
  \o [i \in 1..Len(cell.checklist) |->
        [cell.checklist[i] EXCEPT !.nums = @ \cup {100 * i}]]
  \o cell.escalateIf

StaticNextStep(cell) ==
  IF cell.checklist # <<>> THEN <<cell.checklist[1]>>
  ELSE IF cell.gate # <<>> THEN cell.gate
  ELSE cell.escalateIf

Reply(answer, next, technician, escalated, source) ==
  [answer |-> answer, next |-> next, technician |-> technician,
   escalated |-> escalated, source |-> source]

Replies == [answer : Texts, next : Texts, technician : BOOLEAN,
            escalated : BOOLEAN, source : {"llm", "fallback_static"}]

StaticReply(cell) ==
  Reply(StaticAnswer(cell), StaticNextStep(cell), cell.technician, FALSE,
        "fallback_static")

-----------------------------------------------------------------------------
(* guard.go *)

Abs(n) == IF n < 0 THEN -n ELSE n

ASSUME DoublesAssumption ==
  /\ HalfUp \subseteq Nat
  /\ \A pair \in HalfNear : pair \in Int \X Int /\ Abs(pair[1] - pair[2]) = 5

\* extractNumbers: the pattern has no sign, so that of a negative number is lost.
ExtractNumbers(text) == {Abs(n) : n \in NumbersOf(text)}

\* Mutant: the hours until the next check are forgotten.
CellNumbersOfTexts(cell) ==
  cell.urgency \cup ExtractNumbers(cell.gate) \cup ExtractNumbers(cell.escalateIf)
    \cup ExtractNumbers(cell.checklist)

CellNumbers(cell) ==
  {100 * cell.hours} \cup cell.urgency
    \cup ExtractNumbers(cell.gate) \cup ExtractNumbers(cell.escalateIf)
    \cup ExtractNumbers(cell.checklist)

\* An ordinal from 1 to 9, or within 0.05 of an allowed number as doubles subtract.
NumberAllowed(n, allowed) ==
  \/ n % 100 = 0 /\ n >= 100 /\ n <= 900
  \/ \E a \in allowed : Abs(n - a) < 5 \/ <<n, a>> \in HalfNear

\* What advisory.go allows besides the cell's numbers: the thresholds that the
\* prompt displays and the measured z-score.
AllowedNumbersFor(z) == {300, 600} \cup (IF z = NoZ THEN {} ELSE {z})

Says(text, word) == {i \in DOMAIN text : text[i].word = word}

\* Mutant: -1, the index of a word that does not occur, is smaller than any other.
ShutdownNotAfterInspection(text) ==
  \A j \in Says(text, "periksa") :
    Says(text, "matikan") # {} => \E i \in Says(text, "matikan") : i < j

\* The first "matikan" comes before the first "periksa", if there is one.
ShutdownPrecedesInspection(text) ==
  \E i \in Says(text, "matikan") : \A j \in Says(text, "periksa") : i < j

\* A completion as json.Unmarshal leaves it: "json" says whether it parsed, an
\* empty text stands for a blank one, and "claim" for perlu_teknisi and eskalasi.
CompletionType == [json : BOOLEAN, jawaban : Texts, langkah : Texts, claim : BOOLEAN]

\* Mutant: only jawaban is checked.
GuardAcceptsAnswer(c, cell, allowed) ==
  /\ c.json /\ c.jawaban # <<>> /\ c.langkah # <<>>
  /\ \A n \in ExtractNumbers(c.jawaban) : NumberAllowed(n, allowed \cup CellNumbers(cell))
  /\ Says(c.jawaban, "diagnosis") = {}
  /\ cell.gate # <<>> => ShutdownPrecedesInspection(c.jawaban)

\* Schema, numbers, diagnosis and safety, on jawaban and langkah_berikutnya.
GuardAccepts(c, cell, allowed) ==
  LET combined == c.jawaban \o c.langkah IN
  /\ c.json /\ c.jawaban # <<>> /\ c.langkah # <<>>
  /\ \A n \in ExtractNumbers(combined) : NumberAllowed(n, allowed \cup CellNumbers(cell))
  /\ Says(combined, "diagnosis") = {}
  /\ cell.gate # <<>> => ShutdownPrecedesInspection(combined)

\* Mutant: the model's own decisions are believed.
GuardReplyAsClaimed(c, cell) == Reply(c.jawaban, c.langkah, c.claim, c.claim, "llm")

GuardReply(c, cell) == Reply(c.jawaban, c.langkah, cell.technician, FALSE, "llm")

-----------------------------------------------------------------------------
(* prompt.go *)

\* The nearest decimal; of a number halfway between two, the one on whose side the
\* double lies.
FormatFloat1(n) ==
  LET m      == Abs(n)
      down   == m % 10 < 5 \/ (m % 10 = 5 /\ m \notin HalfUp)
      tenths == IF down THEN m - (m % 10) ELSE m - (m % 10) + 10
  IN  IF n < 0 THEN -tenths ELSE tenths

\* Numbers in the labels of recency, machine age and hours per day.
LabelNumbers == {100, 300, 400, 500, 600, 800}

\* The numbers among the facts and decisions of a rendered prompt. The line of
\* the z-score, with its thresholds, is left out when there is no z-score.
PromptNumbers(z, cell) ==
  (IF z = NoZ THEN {} ELSE {FormatFloat1(z), 300, 600})
    \cup LabelNumbers
    \cup {100 * cell.hours} \cup cell.urgency
    \cup NumbersOf(cell.gate) \cup NumbersOf(cell.checklist) \cup NumbersOf(cell.escalateIf)
    \cup {100 * i : i \in DOMAIN cell.checklist}
=============================================================================
