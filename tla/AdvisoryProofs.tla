---------------------------- MODULE AdvisoryProofs --------------------------
(***************************************************************************)
(* Proofs about Advisory, for any inspections, any questions and whatever  *)
(* the language model may send.                                            *)
(***************************************************************************)
EXTENDS Advisory, FiniteSetTheorems, TLAPS

-----------------------------------------------------------------------------
(* The decision table and what is made of it. *)

\* A checklist is a sequence of phrases that name no fault.
LEMMA ChecklistTexts ==
  ASSUME NEW drive, NEW n \in Nat
  PROVE  Checklist(drive, n) \in Texts
<1> DEFINE step(i) ==
      IF i > 1 THEN Plain({})
      ELSE [word |-> "periksa", nums |-> IF drive = "belt" THEN {100, 10000} ELSE {}]
<1>1. \A i \in 1..n : step(i) \in Phrases
  BY DEF Phrases, Words, Plain
<1>2. [i \in 1..n |-> step(i)] \in Texts
  <2> HIDE DEF step
  <2> QED
    BY <1>1 DEF Texts
<1> QED
  BY <1>2 DEF Checklist

\* What a gated cell and every other cell have in common.
LEMMA TableShape ==
  ASSUME NEW c \in Table
  PROVE  \/ c \in {NormalCell, RecalibrateCell}
         \/ /\ c.key[1] \in {"WARNING", "CRITICAL"}
            /\ c.gate = Gate
            /\ c.escalateIf = <<Plain({})>>
            /\ \E drive : \E n \in 0..9 : c.checklist = Checklist(drive, n)
            /\ c.urgency \subseteq Nat /\ c.hours \in Nat
            /\ c.technician \in BOOLEAN
            /\ c.key[1] = "CRITICAL" => c.technician
<1>1. \A i \in Known : StepsFor[i] \in 0..9
  BY DEF Known, StepsFor
<1>2. CASE c \in WarningCells
  <2>1. \E i \in Known, d \in DriveTypes :
          c = [key |-> <<"WARNING", i, d, "*">>, gate |-> Gate, checklist |-> Checklist(d, StepsFor[i]),
               escalateIf |-> <<Plain({})>>, urgency |-> {700}, hours |-> 168, technician |-> FALSE]
    BY <1>2 DEF WarningCells, GatedCell
  <2>2. c.gate = Gate /\ c.escalateIf = <<Plain({})>>
    BY <2>1
  <2>3. c.key[1] = "WARNING" /\ c.technician = FALSE
    BY <2>1
  <2>4. \E drive : \E n \in 0..9 : c.checklist = Checklist(drive, n)
    BY <2>1, <1>1
  <2>5. c.urgency \subseteq Nat /\ c.hours \in Nat
    BY <2>1
  <2> QED
    BY <2>2, <2>3, <2>4, <2>5
<1>3. CASE c \in OverdueCells
  <2>1. \E i \in Known, d \in DriveTypes, r \in {">6bln", "tidak-tahu"} :
          c = [key |-> <<"WARNING", i, d, r>>, gate |-> Gate, checklist |-> Checklist(d, StepsFor[i]),
               escalateIf |-> <<Plain({})>>, urgency |-> {4800}, hours |-> 48, technician |-> FALSE]
    BY <1>3 DEF OverdueCells, GatedCell
  <2>2. c.gate = Gate /\ c.escalateIf = <<Plain({})>>
    BY <2>1
  <2>3. c.key[1] = "WARNING" /\ c.technician = FALSE
    BY <2>1
  <2>4. \E drive : \E n \in 0..9 : c.checklist = Checklist(drive, n)
    BY <2>1, <1>1
  <2>5. c.urgency \subseteq Nat /\ c.hours \in Nat
    BY <2>1
  <2> QED
    BY <2>2, <2>3, <2>4, <2>5
<1>4. CASE c \in CriticalCells
  <2>1. \E i \in Known, d \in DriveTypes :
          c = [key |-> <<"CRITICAL", i, d, "*">>, gate |-> Gate, checklist |-> Checklist(d, StepsFor[i]),
               escalateIf |-> <<Plain({})>>, urgency |-> {}, hours |-> 0, technician |-> TRUE]
    BY <1>4 DEF CriticalCells, GatedCell
  <2>2. c.gate = Gate /\ c.escalateIf = <<Plain({})>>
    BY <2>1
  <2>3. c.key[1] = "CRITICAL" /\ c.technician = TRUE
    BY <2>1
  <2>4. \E drive : \E n \in 0..9 : c.checklist = Checklist(drive, n)
    BY <2>1, <1>1
  <2>5. c.urgency \subseteq Nat /\ c.hours \in Nat
    BY <2>1
  <2> QED
    BY <2>2, <2>3, <2>4, <2>5
<1>5. CASE c \in FallbackCells
  <2>1. \E k \in {"WARNING", "CRITICAL"}, n \in {3, 4}, u \in {{}, {2400}}, h \in {0, 24} :
          c = [key |-> <<k, "*", "*", "*">>, gate |-> Gate, checklist |-> Checklist("*", n),
               escalateIf |-> <<Plain({})>>, urgency |-> u, hours |-> h, technician |-> TRUE]
    BY <1>5 DEF FallbackCells, GatedCell
  <2>2. c.gate = Gate /\ c.escalateIf = <<Plain({})>>
    BY <2>1
  <2>3. c.key[1] \in {"WARNING", "CRITICAL"} /\ c.technician = TRUE
    BY <2>1
  <2>4. \E drive : \E n \in 0..9 : c.checklist = Checklist(drive, n)
    BY <2>1
  <2>5. c.urgency \subseteq Nat /\ c.hours \in Nat
    BY <2>1
  <2> QED
    BY <2>2, <2>3, <2>4, <2>5
<1> QED
  BY <1>2, <1>3, <1>4, <1>5 DEF Table

\* A cell's texts are sequences of phrases.
LEMMA CellTexts ==
  ASSUME NEW c \in Table
  PROVE  c.gate \in Texts /\ c.checklist \in Texts /\ c.escalateIf \in Texts
<1>1. Gate \in Texts /\ <<Plain({})>> \in Texts
  BY DEF Gate, Texts, Phrases, Words, Plain
<1>2. CASE c \in {NormalCell, RecalibrateCell}
  <2>1. <<Plain({200}), Plain({}), Plain({})>> \in Texts /\ <<>> \in Texts
    BY DEF Texts, Phrases, Words, Plain
  <2> QED
    BY <1>1, <1>2, <2>1 DEF NormalCell, RecalibrateCell
<1>3. CASE c.gate = Gate /\ c.escalateIf = <<Plain({})>>
           /\ \E drive : \E n \in 0..9 : c.checklist = Checklist(drive, n)
  BY <1>1, <1>3, ChecklistTexts
<1> QED
  BY <1>2, <1>3, TableShape

-----------------------------------------------------------------------------
(* The replies. *)

\* What comes first in a text still does when more is said after it.
LEMMA HeadOfConcat ==
  ASSUME NEW S, NEW s \in Seq(S), NEW t \in Seq(S), Len(s) >= 1
  PROVE  Len(s \o t) >= 1 /\ (s \o t)[1] = s[1]
OBVIOUS

\* Numbering the steps of a checklist leaves a sequence of phrases.
LEMMA NumberedTexts ==
  ASSUME NEW c \in Table
  PROVE  [i \in 1..Len(c.checklist) |-> [c.checklist[i] EXCEPT !.nums = @ \cup {100 * i}]]
           \in Seq(Phrases)
<1>1. c.checklist \in Seq(Phrases)
  BY CellTexts DEF Texts
<1>2. \A i \in 1..Len(c.checklist) :
        [c.checklist[i] EXCEPT !.nums = @ \cup {100 * i}] \in Phrases
  <2>1. ASSUME NEW p \in Phrases, NEW i \in Int
        PROVE  [p EXCEPT !.nums = @ \cup {100 * i}] \in Phrases
    <3>1. p.nums \cup {100 * i} \in SUBSET Int
      BY DEF Phrases
    <3> QED
      BY <3>1 DEF Phrases
  <2> QED
    BY <1>1, <2>1
<1> QED BY <1>1, <1>2

\* An element of a sequence.
LEMMA Element ==
  ASSUME NEW S, NEW s \in Seq(S), NEW i \in DOMAIN s
  PROVE  s[i] \in S /\ i \in 1..Len(s)
OBVIOUS

\* The reply made from a cell alone is well formed, takes its decision from the
\* cell, and starts with the safety gate if the cell has one.
LEMMA StaticReplies ==
  ASSUME NEW c \in Table
  PROVE  /\ StaticAnswer(c) \in Texts /\ StaticNextStep(c) \in Texts
         /\ c.gate = Gate => StaticAnswer(c) # <<>> /\ StaticAnswer(c)[1].word = "matikan"
<1> DEFINE numbered == [i \in 1..Len(c.checklist) |->
                          [c.checklist[i] EXCEPT !.nums = @ \cup {100 * i}]]
<1>1. c.gate \in Seq(Phrases) /\ c.checklist \in Seq(Phrases) /\ c.escalateIf \in Seq(Phrases)
  BY CellTexts DEF Texts
<1>3. numbered \in Seq(Phrases)
  BY NumberedTexts
<1>4. StaticAnswer(c) = c.gate \o numbered \o c.escalateIf
  BY DEF StaticAnswer
<1>5. StaticAnswer(c) \in Seq(Phrases)
  <2> HIDE DEF numbered
  <2> QED
    BY <1>1, <1>3, <1>4
<1>6. ASSUME c.gate = Gate
      PROVE  StaticAnswer(c) # <<>> /\ StaticAnswer(c)[1].word = "matikan"
  <2>1. Len(c.gate) = 1 /\ c.gate[1].word = "matikan"
    BY <1>6 DEF Gate
  <2> HIDE DEF numbered
  <2> DEFINE front == c.gate \o numbered
  <2>2. front \in Seq(Phrases)
    BY <1>1, <1>3
  <2>3. Len(front) >= 1 /\ front[1] = c.gate[1]
    BY <1>1, <1>3, <2>1, HeadOfConcat
  <2>4. StaticAnswer(c) = front \o c.escalateIf
    BY <1>4
  <2> HIDE DEF front
  <2>5. Len(front \o c.escalateIf) >= 1 /\ (front \o c.escalateIf)[1] = front[1]
    BY <1>1, <2>2, <2>3, HeadOfConcat
  <2> QED
    BY <1>5, <2>1, <2>3, <2>4, <2>5
<1>7. StaticNextStep(c) \in Seq(Phrases)
  <2>1. c.checklist # <<>> => <<c.checklist[1]>> \in Seq(Phrases)
    BY <1>1
  <2> QED
    BY <1>1, <2>1 DEF StaticNextStep
<1> QED
  BY <1>5, <1>6, <1>7 DEF Texts

\* Every reply is well formed, whatever the model sent.
LEMMA TypedReplies ==
  ASSUME NEW c \in Table
  PROVE  /\ StaticReply(c) \in Replies
         /\ \A p \in Completions : GuardReply(p, c) \in Replies
<1>1. c.technician \in BOOLEAN
  <2>1. CASE c \in {NormalCell, RecalibrateCell}
    <3>1. NormalCell.technician = FALSE /\ RecalibrateCell.technician = FALSE
      BY DEF NormalCell, RecalibrateCell
    <3>2. c = NormalCell \/ c = RecalibrateCell
      BY <2>1
    <3>3. c.technician = FALSE
      BY <3>1, <3>2
    <3> QED
      BY <3>3
  <2> QED
    BY <2>1, TableShape
<1>2. StaticReply(c) \in Replies
  BY <1>1, StaticReplies DEF StaticReply, Reply, Replies
<1>3. ASSUME NEW p \in Completions PROVE GuardReply(p, c) \in Replies
  <2>1. p.jawaban \in Texts /\ p.langkah \in Texts
    BY CompletionsAssumption DEF CompletionType
  <2> QED
    BY <1>1, <2>1 DEF GuardReply, Reply, Replies
<1> QED
  BY <1>2, <1>3

\* So is the reply to danger.
LEMMA EscalatedReplies ==
  ASSUME NEW c \in Table
  PROVE  [StaticReply(c) EXCEPT !.escalated = TRUE] \in Replies
<1> DEFINE y == StaticReply(c)
<1>1. y \in Replies
  BY TypedReplies
<1> HIDE DEF y
<1>2. [y EXCEPT !.escalated = TRUE] \in Replies
  BY <1>1 DEF Replies
<1> QED
  BY <1>2 DEF y

\* A text that begins with "matikan" says it before any "periksa".
SaysFirst(said) ==
  \E i \in DOMAIN said :
    said[i].word = "matikan" /\ \A j \in 1..i : said[j].word # "periksa"

LEMMA StaticSafe ==
  ASSUME NEW c \in Table, c.gate = Gate
  PROVE  SaysFirst(StaticAnswer(c) \o StaticNextStep(c))
<1> DEFINE said == StaticAnswer(c) \o StaticNextStep(c)
<1>1. /\ StaticAnswer(c) \in Seq(Phrases) /\ StaticNextStep(c) \in Seq(Phrases)
      /\ Len(StaticAnswer(c)) >= 1 /\ StaticAnswer(c)[1].word = "matikan"
  BY StaticReplies DEF Texts
<1>2. 1 \in DOMAIN said /\ said[1] = StaticAnswer(c)[1]
  BY <1>1
<1> QED
  BY <1>1, <1>2 DEF SaysFirst

\* The guard lets through only text that says it first, if the cell has a gate.
LEMMA GuardSafe ==
  ASSUME NEW t \in Texts, ShutdownPrecedesInspection(t)
  PROVE  SaysFirst(t)
<1>1. PICK i \in Says(t, "matikan") : \A j \in Says(t, "periksa") : i < j
  BY DEF ShutdownPrecedesInspection
<1>2. i \in DOMAIN t /\ t[i].word = "matikan" /\ DOMAIN t = 1..Len(t) /\ Len(t) \in Nat
  BY <1>1 DEF Says, Texts
<1>3. ASSUME NEW j \in 1..i, t[j].word = "periksa"
      PROVE  FALSE
  <2>1. j \in Says(t, "periksa")
    BY <1>2, <1>3 DEF Says
  <2> QED
    BY <1>1, <1>2, <2>1
<1> QED
  BY <1>2, <1>3 DEF SaysFirst

\* The cells that can match a combination, each with its key.
OwnWarning(i, d)    == GatedCell(<<"WARNING", i, d, "*">>, StepsFor[i], {700}, 168, FALSE)
OwnOverdue(i, d, y) == GatedCell(<<"WARNING", i, d, y>>, StepsFor[i], {4800}, 48, FALSE)
OwnCritical(i, d)   == GatedCell(<<"CRITICAL", i, d, "*">>, StepsFor[i], {}, 0, TRUE)
AnyWarning          == GatedCell(<<"WARNING", "*", "*", "*">>, 4, {2400}, 24, TRUE)
AnyCritical         == GatedCell(<<"CRITICAL", "*", "*", "*">>, 3, {}, 0, TRUE)

\* The keys of the gated cells, part by part.
LEMMA OwnKeys ==
  ASSUME NEW e, NEW f, NEW g
  PROVE  /\ /\ OwnWarning(e, f).key[1] = "WARNING" /\ OwnWarning(e, f).key[2] = e
            /\ OwnWarning(e, f).key[3] = f /\ OwnWarning(e, f).key[4] = "*"
         /\ /\ OwnOverdue(e, f, g).key[1] = "WARNING" /\ OwnOverdue(e, f, g).key[2] = e
            /\ OwnOverdue(e, f, g).key[3] = f /\ OwnOverdue(e, f, g).key[4] = g
         /\ /\ OwnCritical(e, f).key[1] = "CRITICAL" /\ OwnCritical(e, f).key[2] = e
            /\ OwnCritical(e, f).key[3] = f /\ OwnCritical(e, f).key[4] = "*"
         /\ /\ AnyWarning.key[1] = "WARNING" /\ AnyWarning.key[2] = "*"
            /\ AnyWarning.key[3] = "*" /\ AnyWarning.key[4] = "*"
         /\ /\ AnyCritical.key[1] = "CRITICAL" /\ AnyCritical.key[2] = "*"
            /\ AnyCritical.key[3] = "*" /\ AnyCritical.key[4] = "*"
<1>1. /\ OwnWarning(e, f).key[1] = "WARNING" /\ OwnWarning(e, f).key[2] = e
      /\ OwnWarning(e, f).key[3] = f /\ OwnWarning(e, f).key[4] = "*"
  <2>1. OwnWarning(e, f).key = <<"WARNING", e, f, "*">>
    BY DEF OwnWarning, GatedCell
  <2> QED
    BY <2>1
<1>2. /\ OwnOverdue(e, f, g).key[1] = "WARNING" /\ OwnOverdue(e, f, g).key[2] = e
      /\ OwnOverdue(e, f, g).key[3] = f /\ OwnOverdue(e, f, g).key[4] = g
  <2>1. OwnOverdue(e, f, g).key = <<"WARNING", e, f, g>>
    BY DEF OwnOverdue, GatedCell
  <2> QED
    BY <2>1
<1>3. /\ OwnCritical(e, f).key[1] = "CRITICAL" /\ OwnCritical(e, f).key[2] = e
      /\ OwnCritical(e, f).key[3] = f /\ OwnCritical(e, f).key[4] = "*"
  <2>1. OwnCritical(e, f).key = <<"CRITICAL", e, f, "*">>
    BY DEF OwnCritical, GatedCell
  <2> QED
    BY <2>1
<1>4. /\ AnyWarning.key[1] = "WARNING" /\ AnyWarning.key[2] = "*"
      /\ AnyWarning.key[3] = "*" /\ AnyWarning.key[4] = "*"
  <2>1. AnyWarning.key = <<"WARNING", "*", "*", "*">>
    BY DEF AnyWarning, GatedCell
  <2> QED
    BY <2>1
<1>5. /\ AnyCritical.key[1] = "CRITICAL" /\ AnyCritical.key[2] = "*"
      /\ AnyCritical.key[3] = "*" /\ AnyCritical.key[4] = "*"
  <2>1. AnyCritical.key = <<"CRITICAL", "*", "*", "*">>
    BY DEF AnyCritical, GatedCell
  <2> QED
    BY <2>1
<1> QED
  BY <1>1, <1>2, <1>3, <1>4, <1>5

\* A cell matches part by part.
LEMMA MatchingParts ==
  ASSUME NEW s, NEW i, NEW d, NEW y, NEW c
  PROVE  Matches(c, <<s, i, d, y>>) <=>
           /\ c.key[1] \in {"*", s} /\ c.key[2] \in {"*", i}
           /\ c.key[3] \in {"*", d} /\ c.key[4] \in {"*", y}
<1>2. 1..4 = {1, 2, 3, 4}
  OBVIOUS
<1>3. <<s, i, d, y>>[1] = s /\ <<s, i, d, y>>[2] = i /\ <<s, i, d, y>>[3] = d /\ <<s, i, d, y>>[4] = y
  OBVIOUS
<1>4. Matches(c, <<s, i, d, y>>) <=> \A j \in 1..4 : c.key[j] \in {"*", <<s, i, d, y>>[j]}
  BY Zenon DEF Matches
<1> DEFINE combo == <<s, i, d, y>>
<1>5. combo[1] = s /\ combo[2] = i /\ combo[3] = d /\ combo[4] = y
  BY <1>3
<1> HIDE DEF combo
<1>6. (\A j \in 1..4 : c.key[j] \in {"*", combo[j]}) <=>
        /\ c.key[1] \in {"*", s} /\ c.key[2] \in {"*", i}
        /\ c.key[3] \in {"*", d} /\ c.key[4] \in {"*", y}
  BY <1>2, <1>5
<1> QED
  BY <1>4, <1>6, Zenon DEF combo

\* Which cells match a combination.
LEMMA Candidates ==
  ASSUME NEW s, NEW i, NEW d, NEW y, NEW o
  PROVE  o \in Table /\ Matches(o, <<s, i, d, y>>) <=>
           \/ s = "NORMAL" /\ o = NormalCell
           \/ s = "KALIBRASI_KURANG" /\ o = RecalibrateCell
           \/ s = "WARNING" /\ o = AnyWarning
           \/ s = "CRITICAL" /\ o = AnyCritical
           \/ s = "WARNING" /\ i \in Known /\ d \in DriveTypes /\ o = OwnWarning(i, d)
           \/ s = "WARNING" /\ i \in Known /\ d \in DriveTypes /\ y \in {">6bln", "tidak-tahu"}
              /\ o = OwnOverdue(i, d, y)
           \/ s = "CRITICAL" /\ i \in Known /\ d \in DriveTypes /\ o = OwnCritical(i, d)
<1> DEFINE M(c) == Matches(c, <<s, i, d, y>>)
<1>3. \A c : M(c) <=> /\ c.key[1] \in {"*", s} /\ c.key[2] \in {"*", i}
                      /\ c.key[3] \in {"*", d} /\ c.key[4] \in {"*", y}
  BY MatchingParts
<1> HIDE DEF M
<1>4. M(NormalCell) <=> s = "NORMAL"
  <2>1. NormalCell.key[1] = "NORMAL" /\ NormalCell.key[2] = "*" /\ NormalCell.key[3] = "*" /\ NormalCell.key[4] = "*"
    BY DEF NormalCell
  <2> QED
    BY <2>1, <1>3
<1>5. M(RecalibrateCell) <=> s = "KALIBRASI_KURANG"
  <2>1. /\ RecalibrateCell.key[1] = "KALIBRASI_KURANG" /\ RecalibrateCell.key[2] = "*"
        /\ RecalibrateCell.key[3] = "*" /\ RecalibrateCell.key[4] = "*"
    BY DEF RecalibrateCell
  <2> QED
    BY <2>1, <1>3
<1>6. (M(AnyWarning) <=> s = "WARNING") /\ (M(AnyCritical) <=> s = "CRITICAL")
  BY <1>3, OwnKeys
<1>7. \A e \in Known, f \in DriveTypes :
        /\ M(OwnWarning(e, f)) <=> s = "WARNING" /\ e = i /\ f = d
        /\ M(OwnCritical(e, f)) <=> s = "CRITICAL" /\ e = i /\ f = d
        /\ \A g \in {">6bln", "tidak-tahu"} :
             M(OwnOverdue(e, f, g)) <=> s = "WARNING" /\ e = i /\ f = d /\ g = y
  BY <1>3, OwnKeys DEF Known, DriveTypes
<1>8. o \in Table <=>
        \/ o = NormalCell \/ o = RecalibrateCell \/ o = AnyWarning \/ o = AnyCritical
        \/ \E e \in Known, f \in DriveTypes : o = OwnWarning(e, f) \/ o = OwnCritical(e, f)
        \/ \E e \in Known, f \in DriveTypes, g \in {">6bln", "tidak-tahu"} : o = OwnOverdue(e, f, g)
  <2>1. o \in FallbackCells <=> o = AnyWarning \/ o = AnyCritical
    BY DEF FallbackCells, AnyWarning, AnyCritical
  <2>2. o \in WarningCells <=> \E e \in Known, f \in DriveTypes : o = OwnWarning(e, f)
    BY DEF WarningCells, OwnWarning
  <2>3. o \in CriticalCells <=> \E e \in Known, f \in DriveTypes : o = OwnCritical(e, f)
    BY DEF CriticalCells, OwnCritical
  <2>4. o \in OverdueCells <=>
          \E e \in Known, f \in DriveTypes, g \in {">6bln", "tidak-tahu"} : o = OwnOverdue(e, f, g)
    BY DEF OverdueCells, OwnOverdue
  <2> QED
    BY <2>1, <2>2, <2>3, <2>4 DEF Table
<1>9. o \in Table /\ M(o) <=>
           \/ s = "NORMAL" /\ o = NormalCell
           \/ s = "KALIBRASI_KURANG" /\ o = RecalibrateCell
           \/ s = "WARNING" /\ o = AnyWarning
           \/ s = "CRITICAL" /\ o = AnyCritical
           \/ s = "WARNING" /\ i \in Known /\ d \in DriveTypes /\ o = OwnWarning(i, d)
           \/ s = "WARNING" /\ i \in Known /\ d \in DriveTypes /\ y \in {">6bln", "tidak-tahu"}
              /\ o = OwnOverdue(i, d, y)
           \/ s = "CRITICAL" /\ i \in Known /\ d \in DriveTypes /\ o = OwnCritical(i, d)
  BY <1>4, <1>5, <1>6, <1>7, <1>8
<1> QED
  BY <1>9, Zenon DEF M

\* A key without a wildcard beats one with, and one with a single wildcard the
\* fallbacks with three.
LEMMA CountingWildcards ==
  ASSUME NEW i \in Known, NEW d \in DriveTypes, NEW y \in {">6bln", "tidak-tahu"}
  PROVE  /\ Wildcards(OwnOverdue(i, d, y)) = 0
         /\ Wildcards(OwnWarning(i, d)) = 1 /\ Wildcards(OwnCritical(i, d)) = 1
         /\ Wildcards(AnyWarning) = 3 /\ Wildcards(AnyCritical) = 3
<1>1. i # "*" /\ d # "*" /\ y # "*"
  BY DEF Known, DriveTypes
<1>2. \A c : Wildcards(c) = Cardinality({j \in 1..4 : c.key[j] = "*"})
  BY Zenon DEF Wildcards
<1> DEFINE stars(c) == {j \in 1..4 : c.key[j] = "*"}
<1>3. stars(OwnOverdue(i, d, y)) = {}
  BY <1>1, OwnKeys
<1>4. stars(OwnWarning(i, d)) = {4} /\ stars(OwnCritical(i, d)) = {4}
  BY <1>1, OwnKeys
<1>5. stars(AnyWarning) = 2..4 /\ stars(AnyCritical) = 2..4
  BY OwnKeys
<1>6. Cardinality({4}) = 1 /\ Cardinality({}) = 0
  BY FS_Singleton, FS_EmptySet
<1>7. Cardinality(2..4) = 3
  <2>1. 2 \in Int /\ 4 \in Int /\ ~(2 > 4) /\ 4 - 2 + 1 = 3
    OBVIOUS
  <2> QED
    BY <2>1, FS_Interval
<1> QED
  BY <1>2, <1>3, <1>4, <1>5, <1>6, <1>7

\* Lookup returns the one cell that beats every other match.
LEMMA Winner ==
  ASSUME NEW s, NEW i, NEW d, NEW y, NEW w,
         w \in Table /\ Matches(w, <<s, i, d, y>>),
         Wildcards(w) \in Nat,
         \A o : o \in Table /\ Matches(o, <<s, i, d, y>>) =>
                  o = w \/ (Wildcards(o) \in Nat /\ Wildcards(w) < Wildcards(o))
  PROVE  Lookup(s, i, d, y) = {w}
<1> DEFINE matching == {c \in Table : Matches(c, <<s, i, d, y>>)}
<1>1. w \in matching /\ \A o \in matching : o = w \/ (Wildcards(o) \in Nat /\ Wildcards(w) < Wildcards(o))
  OBVIOUS
<1>2. Lookup(s, i, d, y) = {c \in matching : \A o \in matching : Wildcards(c) <= Wildcards(o)}
  BY DEF Lookup
<1> HIDE DEF matching
<1>3. \A o \in matching : Wildcards(w) <= Wildcards(o)
  BY <1>1
<1>4. \A c \in matching : (\A o \in matching : Wildcards(c) <= Wildcards(o)) => c = w
  BY <1>1
<1> QED
  BY <1>1, <1>2, <1>3, <1>4

\* The table covers every combination, known to it or not, and never twice: what
\* rules.go asks of a correct table.
THEOREM OneCell ==
  ASSUME NEW s \in Statuses, NEW i, NEW d, NEW y
  PROVE  \E c \in Table : Lookup(s, i, d, y) = {c}
<1> DEFINE own == i \in Known /\ d \in DriveTypes
           late == y \in {">6bln", "tidak-tahu"}
           M(c) == c \in Table /\ Matches(c, <<s, i, d, y>>)
<1>1. /\ s = "NORMAL" => \A c : M(c) <=> c = NormalCell
      /\ s = "KALIBRASI_KURANG" => \A c : M(c) <=> c = RecalibrateCell
      /\ s = "WARNING" /\ ~own => \A c : M(c) <=> c = AnyWarning
      /\ s = "WARNING" /\ own /\ ~late => \A c : M(c) <=> c \in {AnyWarning, OwnWarning(i, d)}
      /\ s = "WARNING" /\ own /\ late =>
           \A c : M(c) <=> c \in {AnyWarning, OwnWarning(i, d), OwnOverdue(i, d, y)}
      /\ s = "CRITICAL" /\ ~own => \A c : M(c) <=> c = AnyCritical
      /\ s = "CRITICAL" /\ own => \A c : M(c) <=> c \in {AnyCritical, OwnCritical(i, d)}
  BY Candidates
<1>2. \A w : /\ M(w) /\ Wildcards(w) \in Nat
             /\ \A o : M(o) => o = w \/ (Wildcards(o) \in Nat /\ Wildcards(w) < Wildcards(o))
             => \E c \in Table : Lookup(s, i, d, y) = {c}
  <2> SUFFICES ASSUME NEW w, M(w), Wildcards(w) \in Nat,
                      \A o : M(o) => o = w \/ (Wildcards(o) \in Nat /\ Wildcards(w) < Wildcards(o))
               PROVE  \E c \in Table : Lookup(s, i, d, y) = {c}
    OBVIOUS
  <2>1. Lookup(s, i, d, y) = {w}
    BY Winner
  <2> QED
    BY <2>1
<1> HIDE DEF M
<1>3. Wildcards(NormalCell) \in Nat /\ Wildcards(RecalibrateCell) \in Nat
  <2>1. \A c : Wildcards(c) = Cardinality({j \in 1..4 : c.key[j] = "*"})
    BY Zenon DEF Wildcards
  <2>2. IsFiniteSet(1..4)
    <3>1. 1 \in Int /\ 4 \in Int
      OBVIOUS
    <3> QED
      BY <3>1, FS_Interval
  <2>3. \A S \in SUBSET (1..4) : Cardinality(S) \in Nat
    BY <2>2, FS_Subset, FS_CardinalityType
  <2> QED
    BY <2>1, <2>3
<1>4. Wildcards(AnyWarning) = 3 /\ Wildcards(AnyCritical) = 3
  BY CountingWildcards DEF Known, DriveTypes
<1>5. own => Wildcards(OwnWarning(i, d)) = 1 /\ Wildcards(OwnCritical(i, d)) = 1
  BY CountingWildcards
<1>6. own /\ late => Wildcards(OwnOverdue(i, d, y)) = 0
  BY CountingWildcards
<1> HIDE DEF own, late
<1>7. CASE s \in {"NORMAL", "KALIBRASI_KURANG"}
  BY <1>1, <1>2, <1>3, <1>7
<1>8. CASE s = "WARNING"
  BY <1>1, <1>2, <1>4, <1>5, <1>6, <1>8
<1>9. CASE s = "CRITICAL"
  BY <1>1, <1>2, <1>4, <1>5, <1>9
<1> QED
  BY <1>7, <1>8, <1>9 DEF Statuses

\* A cell that Lookup finds for a status is in the table and of that status.
LEMMA LookupStatus ==
  ASSUME NEW s \in Statuses, NEW i, NEW d, NEW y, NEW c \in Lookup(s, i, d, y)
  PROVE  c \in Table /\ c.key[1] = s
<1>1. c \in Table /\ c.key[1] \in {"*", s}
  BY DEF Lookup, Matches
<1>2. c.key[1] \in Statuses
  BY <1>1, TableShape DEF NormalCell, RecalibrateCell, Statuses
<1> QED
  BY <1>1, <1>2 DEF Statuses

-----------------------------------------------------------------------------
(* Numbers and diagnoses. *)

\* The numbers and words of a cell's texts: only the checklist has numbers, none of
\* them negative, no text names a fault, and a step's ordinal has one digit.
LEMMA CellContents ==
  ASSUME NEW c \in Table
  PROVE  /\ c.hours \in Nat /\ c.urgency \subseteq Nat
         /\ Len(c.checklist) \in 0..9
         /\ \A i \in DOMAIN c.checklist :
              c.checklist[i].nums \subseteq Nat /\ c.checklist[i].word # "diagnosis"
         /\ \A t \in {c.gate, c.escalateIf} : \A i \in DOMAIN t :
              t[i].nums = {} /\ t[i].word # "diagnosis"
<1> DEFINE Calm(t) == \A i \in DOMAIN t : t[i].nums = {} /\ t[i].word # "diagnosis"
           Counted(t) == /\ Len(t) \in 0..9
                         /\ \A i \in DOMAIN t : t[i].nums \subseteq Nat /\ t[i].word # "diagnosis"
<1>1. Calm(Gate) /\ Calm(<<>>) /\ Calm(<<Plain({})>>)
  BY DEF Gate, Plain
<1>2. ASSUME NEW drive, NEW n \in 0..9 PROVE Counted(Checklist(drive, n))
  <2>1. Len(Checklist(drive, n)) = n /\ DOMAIN Checklist(drive, n) = 1..n
    BY DEF Checklist
  <2>2. \A i \in 1..n : Checklist(drive, n)[i].word \in {"plain", "periksa"}
    BY DEF Checklist, Plain
  <2>3. \A i \in 1..n : Checklist(drive, n)[i].nums \in {{}, {100, 10000}}
    BY DEF Checklist, Plain
  <2> QED BY <2>1, <2>2, <2>3
<1>3. Counted(<<>>) /\ Counted(<<Plain({200}), Plain({}), Plain({})>>)
  <2>1. Counted(<<>>)
    OBVIOUS
  <2>2. Counted(<<Plain({200}), Plain({}), Plain({})>>)
    BY DEF Plain
  <2> QED BY <2>1, <2>2
<1> HIDE DEF Calm, Counted
<1>4. Counted(c.checklist) /\ Calm(c.gate) /\ Calm(c.escalateIf)
  <2>1. CASE c = NormalCell
    BY <1>1, <1>3, <2>1 DEF NormalCell
  <2>2. CASE c = RecalibrateCell
    BY <1>1, <1>3, <2>2 DEF RecalibrateCell
  <2>3. CASE c \notin {NormalCell, RecalibrateCell}
    BY <1>1, <1>2, <2>3, TableShape
  <2> QED BY <2>1, <2>2, <2>3
<1>5. c.hours \in Nat /\ c.urgency \subseteq Nat
  BY TableShape DEF NormalCell, RecalibrateCell
<1> QED
  BY <1>4, <1>5 DEF Calm, Counted

\* A text in which nothing but vetted numbers and no diagnosis appears.
TextVetted(t, z, c) ==
  \A i \in DOMAIN t : t[i].word # "diagnosis" /\ \A n \in t[i].nums : Vetted(n, z, c)

\* What holds of two texts holds of the one said after the other.
LEMMA ConcatVetted ==
  ASSUME NEW z, NEW c, NEW s \in Seq(Phrases), NEW t \in Seq(Phrases),
         TextVetted(s, z, c), TextVetted(t, z, c)
  PROVE  TextVetted(s \o t, z, c)
<1> SUFFICES ASSUME NEW i \in DOMAIN (s \o t)
             PROVE  (s \o t)[i].word # "diagnosis" /\ \A n \in (s \o t)[i].nums : Vetted(n, z, c)
  BY DEF TextVetted
<1>1. \/ i \in DOMAIN s /\ (s \o t)[i] = s[i]
      \/ i - Len(s) \in DOMAIN t /\ (s \o t)[i] = t[i - Len(s)]
  OBVIOUS
<1> QED
  BY <1>1 DEF TextVetted

\* A reply made from the cell alone is vetted, whatever was measured.
LEMMA StaticVetted ==
  ASSUME NEW c \in Table, NEW z
  PROVE  TextVetted(StaticAnswer(c) \o StaticNextStep(c), z, c)
<1> DEFINE numbered == [i \in 1..Len(c.checklist) |->
                          [c.checklist[i] EXCEPT !.nums = @ \cup {100 * i}]]
<1>1. c.gate \in Seq(Phrases) /\ c.checklist \in Seq(Phrases) /\ c.escalateIf \in Seq(Phrases)
  BY CellTexts DEF Texts
<1>2. ASSUME NEW n \in NumbersOf(c.checklist) PROVE Vetted(n, z, c)
  <2>1. n \in Nat
    BY CellContents DEF NumbersOf
  <2>2. n # NoZ /\ Abs(n) = n
    BY <2>1, ScoresAssumption DEF Abs
  <2> QED BY <2>1, <2>2 DEF Vetted
<1>3. TextVetted(c.gate, z, c) /\ TextVetted(c.escalateIf, z, c)
  BY CellContents DEF TextVetted
<1>4. TextVetted(c.checklist, z, c)
  <2>1. \A i \in DOMAIN c.checklist : c.checklist[i].nums \subseteq NumbersOf(c.checklist)
    BY DEF NumbersOf
  <2> QED BY <1>2, <2>1, CellContents DEF TextVetted
<1>5. TextVetted(numbered, z, c) /\ numbered \in Seq(Phrases)
  <2>1. ASSUME NEW i \in 1..Len(c.checklist)
        PROVE  /\ numbered[i] \in Phrases /\ numbered[i].word # "diagnosis"
               /\ \A n \in numbered[i].nums : Vetted(n, z, c)
    <3>1. c.checklist[i] \in Phrases /\ i \in DOMAIN c.checklist /\ i \in 1..9
      <4>1. i \in DOMAIN c.checklist
        BY <1>1
      <4>2. Len(c.checklist) \in 0..9
        BY CellContents
      <4> QED BY <1>1, <4>1, <4>2, Element
    <3>2. /\ numbered[i].word = c.checklist[i].word
          /\ numbered[i].nums = c.checklist[i].nums \cup {100 * i}
          /\ numbered[i] = [word |-> c.checklist[i].word, nums |-> c.checklist[i].nums \cup {100 * i}]
      BY <3>1 DEF Phrases
    <3>3. Vetted(100 * i, z, c)
      BY <3>1 DEF Vetted, Abs
    <3>4. c.checklist[i].nums \cup {100 * i} \in SUBSET Int
      BY <3>1 DEF Phrases
    <3>5. numbered[i] \in Phrases
      BY <3>1, <3>2, <3>4 DEF Phrases
    <3> QED BY <1>4, <3>1, <3>2, <3>3, <3>5 DEF TextVetted
  <2>2. DOMAIN numbered = 1..Len(c.checklist) /\ Len(c.checklist) \in Nat
    BY CellContents
  <2>3. numbered \in Seq(Phrases)
    BY NumberedTexts
  <2> HIDE DEF numbered
  <2> QED BY <2>1, <2>2, <2>3 DEF TextVetted
<1>6. TextVetted(StaticAnswer(c), z, c)
  <2>1. StaticAnswer(c) = c.gate \o numbered \o c.escalateIf
    BY DEF StaticAnswer
  <2> HIDE DEF numbered
  <2>2. TextVetted(c.gate \o numbered, z, c) /\ c.gate \o numbered \in Seq(Phrases)
    BY <1>1, <1>3, <1>5, ConcatVetted
  <2>3. TextVetted((c.gate \o numbered) \o c.escalateIf, z, c)
    BY <1>1, <1>3, <2>2, ConcatVetted
  <2> QED BY <2>1, <2>3
<1>7. TextVetted(StaticNextStep(c), z, c)
  <2>1. CASE c.checklist # <<>>
    <3>1. StaticNextStep(c) = <<c.checklist[1]>> /\ 1 \in DOMAIN c.checklist
      BY <1>1, <2>1 DEF StaticNextStep
    <3> QED BY <1>4, <3>1 DEF TextVetted
  <2>2. CASE c.checklist = <<>>
    BY <1>3, <2>2 DEF StaticNextStep
  <2> QED BY <2>1, <2>2
<1>8. StaticAnswer(c) \in Seq(Phrases) /\ StaticNextStep(c) \in Seq(Phrases)
  BY StaticReplies DEF Texts
<1> QED
  BY <1>6, <1>7, <1>8, ConcatVetted

\* So is whatever the guard lets through.
LEMMA GuardVetted ==
  ASSUME NEW c \in Table, NEW z \in Scores \cup {NoZ}, NEW p \in Completions,
         GuardAccepts(p, c, AllowedNumbersFor(z))
  PROVE  TextVetted(p.jawaban \o p.langkah, z, c)
<1> DEFINE said == p.jawaban \o p.langkah
           allowed == AllowedNumbersFor(z) \cup CellNumbers(c)
<1>1. p.jawaban \in Seq(Phrases) /\ p.langkah \in Seq(Phrases)
  BY CompletionsAssumption DEF CompletionType, Texts
<1>2. said \in Seq(Phrases)
  BY <1>1
<1>3. /\ \A n \in ExtractNumbers(said) : NumberAllowed(n, allowed)
      /\ Says(said, "diagnosis") = {}
  BY DEF GuardAccepts
<1>4. ExtractNumbers(c.gate) = {} /\ ExtractNumbers(c.escalateIf) = {}
  BY CellContents DEF ExtractNumbers, NumbersOf
<1>5. ExtractNumbers(c.checklist) \subseteq NumbersOf(c.checklist) /\ NumbersOf(c.checklist) \subseteq Nat
  <2>1. NumbersOf(c.checklist) \subseteq Nat
    BY CellContents DEF NumbersOf
  <2> QED BY <2>1 DEF ExtractNumbers, Abs
<1>6. allowed \subseteq ({300, 600, z} \cup {100 * c.hours} \cup c.urgency
                          \cup NumbersOf(c.checklist)) \ {NoZ}
      /\ allowed \subseteq Int
  <2>1. AllowedNumbersFor(z) \subseteq {300, 600, z} /\ AllowedNumbersFor(z) \subseteq Int
    BY ScoresAssumption DEF AllowedNumbersFor
  <2>2. CellNumbers(c) \subseteq {100 * c.hours} \cup c.urgency \cup NumbersOf(c.checklist)
    BY <1>4, <1>5 DEF CellNumbers
  <2>3. 100 * c.hours \in Int /\ c.urgency \subseteq Int
    BY CellContents
  <2>4. allowed \subseteq Int
    BY <1>5, <2>1, <2>2, <2>3
  <2> QED BY <2>1, <2>2, <2>4, ScoresAssumption
<1> HIDE DEF said, allowed
<1>7. ASSUME NEW i \in DOMAIN said
      PROVE  said[i].word # "diagnosis" /\ \A n \in said[i].nums : Vetted(n, z, c)
  <2>1. said[i].word # "diagnosis"
    BY <1>3, <1>7 DEF Says
  <2>2. ASSUME NEW n \in said[i].nums PROVE Vetted(n, z, c)
    <3>1. n \in Int
      <4>1. said[i] \in Phrases
        BY <1>2, <1>7, Element
      <4> QED BY <2>2, <4>1 DEF Phrases
    <3>2. Abs(n) \in ExtractNumbers(said)
      BY <1>7, <2>2 DEF ExtractNumbers, NumbersOf
    <3>3. NumberAllowed(Abs(n), allowed)
      BY <1>3, <3>2
    <3>4. Abs(n) \in Nat
      BY <3>1 DEF Abs
    <3>5. CASE Abs(n) % 100 = 0 /\ Abs(n) >= 100 /\ Abs(n) <= 900
      <4>1. Abs(n) = 100 * (Abs(n) \div 100) /\ Abs(n) \div 100 \in 1..9
        BY <3>4, <3>5
      <4> QED BY <4>1 DEF Vetted
    <3>6. CASE \E a \in allowed : Abs(Abs(n) - a) < 5 \/ <<Abs(n), a>> \in HalfNear
      <4>1. PICK a \in allowed : Abs(Abs(n) - a) < 5 \/ <<Abs(n), a>> \in HalfNear
        BY <3>6
      <4>2. a \in Int /\ a - 5 <= Abs(n) /\ Abs(n) <= a + 5
        <5>1. a \in Int
          BY <1>6
        <5>2. ASSUME NEW m \in Nat, <<m, a>> \in HalfNear PROVE Abs(m - a) = 5
          BY <5>2, DoublesAssumption
        <5>3. ASSUME NEW m \in Nat, Abs(m - a) < 5 \/ Abs(m - a) = 5
              PROVE  a - 5 <= m /\ m <= a + 5
          BY <5>1, <5>3 DEF Abs
        <5> QED BY <3>4, <4>1, <5>1, <5>2, <5>3
      <4> QED BY <1>6, <4>2 DEF Vetted
    <3> QED BY <3>3, <3>5, <3>6 DEF NumberAllowed
  <2> QED BY <2>1, <2>2
<1>8. TextVetted(said, z, c)
  BY <1>7 DEF TextVetted
<1> QED BY <1>8 DEF said

-----------------------------------------------------------------------------
(* Type correctness. *)

\* Spec keeps TypeOK: a turn has what the next step of Send needs.
THEOREM TypeCorrect == Spec => []TypeOK
<1>1. Init => TypeOK
  BY DEF Init, TypeOK, InFlight, Outcomes
<1>2. TypeOK /\ [Next]_vars => TypeOK'
  <2> SUFFICES ASSUME TypeOK, [Next]_vars PROVE TypeOK'
    OBVIOUS
  <2> USE DEF InFlight, Outcomes, Goto, database
  <2>1. ASSUME NEW r \in Requests, Refuse(r) PROVE TypeOK'
    BY <2>1 DEF TypeOK, Refuse
  <2>2. ASSUME NEW r \in Requests, Arrive(r) PROVE TypeOK'
    <3>1. PICK a \in Asks : FindMachine(r, a)
      BY <2>2 DEF Arrive
    <3> QED
      BY <3>1 DEF TypeOK, FindMachine
  <2>3. ASSUME NEW r \in Requests, FindInspection(r) PROVE TypeOK'
    <3>1. row[ask[r].inspection] \in Rows
      BY <2>3 DEF TypeOK, FindInspection, Asks
    <3> QED
      BY <2>3, <3>1 DEF TypeOK, FindInspection
  <2>4. ASSUME NEW r \in Requests, JoinBaseline(r) PROVE TypeOK'
    <3>1. fact[r].quality \in Qualities
      BY <2>4 DEF TypeOK, JoinBaseline, Rows
    <3> QED
      BY <2>4, <3>1 DEF TypeOK, JoinBaseline
  <2>5. ASSUME NEW r \in Requests, JoinBaselineFails(r) PROVE TypeOK'
    BY <2>5 DEF TypeOK, JoinBaselineFails
  <2>6. ASSUME NEW r \in Requests, AnswerDanger(r) PROVE TypeOK'
    <3>1. PICK c \in LookupFor(r, "CRITICAL") :
            /\ cell' = [cell EXCEPT ![r] = c]
            /\ reply' = [reply EXCEPT ![r] = [StaticReply(c) EXCEPT !.escalated = TRUE]]
      BY <2>6 DEF AnswerDanger
    <3>2. c \in Table
      BY LookupStatus DEF LookupFor, Statuses
    <3>3. [StaticReply(c) EXCEPT !.escalated = TRUE] \in Replies
      BY <3>2, EscalatedReplies
    <3> QED
      BY <2>6, <3>1, <3>2, <3>3 DEF TypeOK, AnswerDanger
  <2>7. ASSUME NEW r \in Requests, AskModel(r) PROVE TypeOK'
    <3>1. PICK c \in LookupFor(r, fact[r].status) : cell' = [cell EXCEPT ![r] = c]
      BY <2>7 DEF AskModel
    <3>2. c \in Table
      <4>1. fact[r] \in Rows
        BY <2>7 DEF TypeOK, AskModel
      <4>2. fact[r].status \in Statuses
        BY <4>1 DEF Rows
      <4> QED
        BY <4>2, LookupStatus DEF LookupFor
    <3>3. /\ pc[r] = "joined" /\ pc' = [pc EXCEPT ![r] = "calling"]
          /\ UNCHANGED <<owner, current, row, ask, fact, quality, reply>>
      BY <2>7 DEF AskModel
    <3> QED
      BY <3>1, <3>2, <3>3 DEF TypeOK
  <2>8. ASSUME NEW r \in Requests, ModelUnavailable(r) PROVE TypeOK'
    <3>1. StaticReply(cell[r]) \in Replies
      BY <2>8, TypedReplies DEF TypeOK, ModelUnavailable
    <3> QED
      BY <2>8, <3>1 DEF TypeOK, ModelUnavailable
  <2>9. ASSUME NEW r \in Requests, NEW c \in Completions, ModelReplies(r, c) PROVE TypeOK'
    <3>1. StaticReply(cell[r]) \in Replies /\ GuardReply(c, cell[r]) \in Replies
      BY <2>9, TypedReplies DEF TypeOK, ModelReplies
    <3> DEFINE y == IF GuardAccepts(c, cell[r], AllowedNumbersFor(fact[r].z))
                      THEN GuardReply(c, cell[r]) ELSE StaticReply(cell[r])
    <3>2. y \in Replies /\ reply' = [reply EXCEPT ![r] = y]
      <4>1. y \in Replies
        <5>1. CASE GuardAccepts(c, cell[r], AllowedNumbersFor(fact[r].z))
          BY <3>1, <5>1
        <5>2. CASE ~GuardAccepts(c, cell[r], AllowedNumbersFor(fact[r].z))
          BY <3>1, <5>2
        <5> QED
          BY <5>1, <5>2
      <4> QED
        BY <2>9, <4>1 DEF ModelReplies
    <3> HIDE DEF y
    <3>3. /\ pc[r] = "calling" /\ pc' = [pc EXCEPT ![r] = "answered"]
          /\ UNCHANGED <<owner, current, row, ask, fact, quality, cell>>
      BY <2>9 DEF ModelReplies
    <3> QED
      BY <3>2, <3>3 DEF TypeOK
  <2>10. ASSUME NEW r \in Requests, Fail(r) PROVE TypeOK'
    BY <2>10 DEF TypeOK, Fail
  <2>11. ASSUME Environment PROVE TypeOK'
    BY <2>11 DEF TypeOK, Environment, DeleteMachine, Recalibrate
  <2>12. CASE UNCHANGED vars
    BY <2>12 DEF TypeOK, vars
  <2> QED
    BY <2>1, <2>2, <2>3, <2>4, <2>5, <2>6, <2>7, <2>8, <2>9, <2>10, <2>11, <2>12
    DEF Next, Send
<1> QED
  BY <1>1, <1>2, PTL DEF Spec

-----------------------------------------------------------------------------
(* The inductive invariant, one turn at a time. *)

\* A reply y to the question a about the facts f, made from cell c.
ReplyOK(a, f, c, y) ==
  /\ y.escalated = a.danger
  /\ y.technician = c.technician
  /\ a.danger => y.technician /\ y.source = "fallback_static"
  /\ a.danger \/ f.status \in {"WARNING", "CRITICAL"} => SaysFirst(y.answer \o y.next)

\* The cells for the question a about the facts f.
CellsFor(a, f) ==
  Lookup(IF a.danger THEN "CRITICAL" ELSE f.status, f.indicator, a.context[1], a.context[2])

\* A turn at p with what it knows: the facts are those of the inspection asked
\* about, and the cell is the only one the table has for them, of the status that
\* decides.
TurnOK(p, a, f, q, c, y) ==
  /\ p \in {"found", "joined", "calling", "answered"} =>
       f = row[a.inspection] /\ f.machine = a.machine
  /\ p \in {"joined", "calling", "answered"} => q \in {"", row[a.inspection].quality}
  /\ p \in {"calling", "answered"} => CellsFor(a, f) = {c}
  /\ p = "calling" => ~a.danger /\ c.key[1] = f.status
  /\ p = "answered" =>
       /\ c.key[1] = (IF a.danger THEN "CRITICAL" ELSE f.status)
       /\ ReplyOK(a, f, c, y)

TurnsOK ==
  \A r \in Requests : TurnOK(pc[r], ask[r], fact[r], quality[r], cell[r], reply[r])

\* In a turn without danger the cell alone, and the model through the guard, give
\* a reply in order.
LEMMA RepliesInOrder ==
  ASSUME TypeOK, NEW r \in Requests, pc[r] = "calling", ~ask[r].danger,
         cell[r].key[1] = fact[r].status
  PROVE  /\ ReplyOK(ask[r], fact[r], cell[r], StaticReply(cell[r]))
         /\ \A c \in Completions :
              GuardAccepts(c, cell[r], AllowedNumbersFor(fact[r].z)) =>
                ReplyOK(ask[r], fact[r], cell[r], GuardReply(c, cell[r]))
<1>1. cell[r] \in Table /\ ask[r] \in Asks
  BY DEF TypeOK, InFlight
<1>2. ask[r].danger = FALSE
  BY <1>1 DEF Asks
<1>3. fact[r].status \in {"WARNING", "CRITICAL"} => cell[r].gate = Gate
  BY <1>1, TableShape DEF NormalCell, RecalibrateCell
<1>4. ReplyOK(ask[r], fact[r], cell[r], StaticReply(cell[r]))
  <2> DEFINE y == StaticReply(cell[r])
  <2>1. y.escalated = FALSE /\ y.answer = StaticAnswer(cell[r]) /\ y.next = StaticNextStep(cell[r])
    BY DEF StaticReply, Reply
  <2>2. y.technician = cell[r].technician
    BY DEF StaticReply, Reply
  <2>3. fact[r].status \in {"WARNING", "CRITICAL"} => SaysFirst(y.answer \o y.next)
    BY <1>1, <1>3, <2>1, StaticSafe
  <2> HIDE DEF y
  <2>4. ReplyOK(ask[r], fact[r], cell[r], y)
    BY <1>2, <2>1, <2>2, <2>3 DEF ReplyOK
  <2> QED
    BY <2>4 DEF y
<1>5. ASSUME NEW c \in Completions, GuardAccepts(c, cell[r], AllowedNumbersFor(fact[r].z))
      PROVE  ReplyOK(ask[r], fact[r], cell[r], GuardReply(c, cell[r]))
  <2> DEFINE y == GuardReply(c, cell[r])
  <2>1. y.escalated = FALSE /\ y.answer = c.jawaban /\ y.next = c.langkah
    BY DEF GuardReply, Reply
  <2>2. y.technician = cell[r].technician
    BY DEF GuardReply, Reply
  <2>3. ASSUME fact[r].status \in {"WARNING", "CRITICAL"}
        PROVE  SaysFirst(y.answer \o y.next)
    <3>1. cell[r].gate # <<>>
      BY <1>3, <2>3 DEF Gate
    <3>2. ShutdownPrecedesInspection(c.jawaban \o c.langkah)
      BY <1>5, <3>1 DEF GuardAccepts
    <3>3. c.jawaban \in Seq(Phrases) /\ c.langkah \in Seq(Phrases)
      BY CompletionsAssumption DEF CompletionType, Texts
    <3>4. c.jawaban \o c.langkah \in Texts
      BY <3>3 DEF Texts
    <3>5. SaysFirst(c.jawaban \o c.langkah)
      BY <3>2, <3>4, GuardSafe
    <3> QED
      BY <2>1, <3>5
  <2> HIDE DEF y
  <2>4. ReplyOK(ask[r], fact[r], cell[r], y)
    BY <1>2, <2>1, <2>2, <2>3 DEF ReplyOK
  <2> QED
    BY <2>4 DEF y
<1> QED
  BY <1>4, <1>5

\* The reply to danger is in order.
LEMMA DangerInOrder ==
  ASSUME NEW a \in Asks, a.danger, NEW f, NEW c \in Table, c.key[1] = "CRITICAL"
  PROVE  ReplyOK(a, f, c, [StaticReply(c) EXCEPT !.escalated = TRUE])
<1> DEFINE p == StaticReply(c)
           y == [p EXCEPT !.escalated = TRUE]
<1>1. p \in Replies
  BY TypedReplies
<1>2. p.answer = StaticAnswer(c) /\ p.next = StaticNextStep(c) /\ p.source = "fallback_static"
  BY DEF StaticReply, Reply
<1>3. p.technician = c.technician
  BY DEF StaticReply, Reply
<1>4. /\ y.answer = p.answer /\ y.next = p.next /\ y.source = p.source
      /\ y.technician = p.technician /\ y.escalated = TRUE
  <2> HIDE DEF p
  <2> QED
    BY <1>1 DEF Replies
<1>5. c.gate = Gate /\ c.technician
  <2>1. NormalCell.key[1] # "CRITICAL" /\ RecalibrateCell.key[1] # "CRITICAL"
    BY DEF NormalCell, RecalibrateCell
  <2>2. c \notin {NormalCell, RecalibrateCell}
    BY <2>1
  <2> QED
    BY <2>2, TableShape
<1>6. SaysFirst(y.answer \o y.next)
  BY <1>2, <1>4, <1>5, StaticSafe
<1>7. a.danger = TRUE
  BY DEF Asks
<1> HIDE DEF p, y
<1>8. ReplyOK(a, f, c, y)
  BY <1>2, <1>3, <1>4, <1>5, <1>6, <1>7 DEF ReplyOK
<1> QED
  BY <1>8 DEF p, y

\* The turn of s keeps what it knows.
Undisturbed(s) ==
  /\ pc'[s] = pc[s] /\ ask'[s] = ask[s] /\ fact'[s] = fact[s]
  /\ quality'[s] = quality[s] /\ cell'[s] = cell[s] /\ reply'[s] = reply[s]

\* A step of one turn that leaves it in order leaves all in order.
LEMMA OneTurn ==
  ASSUME TurnsOK, row' = row, NEW r \in Requests,
         \A s \in Requests \ {r} : Undisturbed(s),
         TurnOK(pc[r], ask[r], fact[r], quality[r], cell[r], reply[r])'
  PROVE  TurnsOK'
<1> SUFFICES ASSUME NEW s \in Requests
             PROVE  TurnOK(pc[s], ask[s], fact[s], quality[s], cell[s], reply[s])'
  BY DEF TurnsOK
<1>1. CASE s = r
  BY <1>1
<1>2. CASE s # r
  <2>1. TurnOK(pc[s], ask[s], fact[s], quality[s], cell[s], reply[s])
    BY DEF TurnsOK
  <2>2. Undisturbed(s)
    BY <1>2
  <2> QED
    BY <2>1, <2>2 DEF TurnOK, Undisturbed
<1> QED
  BY <1>1, <1>2

\* Every step leaves the turns in order.
LEMMA TurnStep ==
  ASSUME TypeOK, TurnsOK, [Next]_vars
  PROVE  TurnsOK'
<1> USE DEF Goto, database
<1>1. ASSUME NEW r \in Requests, Refuse(r) PROVE TurnsOK'
  <2>1. row' = row /\ \A s \in Requests \ {r} : Undisturbed(s)
    BY <1>1 DEF Refuse, Undisturbed, TypeOK
  <2>2. pc'[r] = "refused"
    BY <1>1 DEF Refuse, TypeOK
  <2>3. TurnOK(pc[r], ask[r], fact[r], quality[r], cell[r], reply[r])'
    BY <2>2 DEF TurnOK
  <2> QED
    BY <2>1, <2>3, OneTurn
<1>2. ASSUME NEW r \in Requests, Arrive(r) PROVE TurnsOK'
  <2>1. row' = row /\ \A s \in Requests \ {r} : Undisturbed(s)
    BY <1>2 DEF Arrive, FindMachine, Undisturbed, TypeOK
  <2>2. pc'[r] \in {"owned", "notfound"}
    BY <1>2 DEF Arrive, FindMachine, TypeOK
  <2>3. TurnOK(pc[r], ask[r], fact[r], quality[r], cell[r], reply[r])'
    BY <2>2 DEF TurnOK
  <2> QED
    BY <2>1, <2>3, OneTurn
<1>3. ASSUME NEW r \in Requests, FindInspection(r) PROVE TurnsOK'
  <2>1. row' = row /\ \A s \in Requests \ {r} : Undisturbed(s)
    BY <1>3 DEF FindInspection, Undisturbed, TypeOK
  <2>2. CASE row[ask[r].inspection].machine = ask[r].machine
    <3>1. /\ pc'[r] = "found" /\ ask'[r] = ask[r] /\ fact'[r] = row[ask[r].inspection]
      BY <1>3, <2>2 DEF FindInspection, TypeOK
    <3>2. TurnOK(pc[r], ask[r], fact[r], quality[r], cell[r], reply[r])'
      BY <2>1, <2>2, <3>1 DEF TurnOK
    <3> QED
      BY <2>1, <3>2, OneTurn
  <2>3. CASE row[ask[r].inspection].machine # ask[r].machine
    <3>1. pc'[r] = "notfound"
      BY <1>3, <2>3 DEF FindInspection, TypeOK
    <3>2. TurnOK(pc[r], ask[r], fact[r], quality[r], cell[r], reply[r])'
      BY <3>1 DEF TurnOK
    <3> QED
      BY <2>1, <3>2, OneTurn
  <2> QED
    BY <2>2, <2>3
<1>4. ASSUME NEW r \in Requests, JoinBaseline(r) \/ JoinBaselineFails(r) PROVE TurnsOK'
  <2>1. row' = row /\ \A s \in Requests \ {r} : Undisturbed(s)
    BY <1>4 DEF JoinBaseline, JoinBaselineFails, Undisturbed, TypeOK
  <2>2. /\ pc[r] = "found" /\ pc'[r] = "joined" /\ ask'[r] = ask[r] /\ fact'[r] = fact[r]
        /\ quality'[r] \in {"", fact[r].quality}
    BY <1>4 DEF JoinBaseline, JoinBaselineFails, TypeOK
  <2>3. TurnOK(pc[r], ask[r], fact[r], quality[r], cell[r], reply[r])
    BY DEF TurnsOK
  <2>4. TurnOK(pc[r], ask[r], fact[r], quality[r], cell[r], reply[r])'
    BY <2>1, <2>2, <2>3 DEF TurnOK
  <2> QED
    BY <2>1, <2>4, OneTurn
<1>5. ASSUME NEW r \in Requests, AnswerDanger(r) PROVE TurnsOK'
  <2>1. row' = row /\ \A s \in Requests \ {r} : Undisturbed(s)
    BY <1>5 DEF AnswerDanger, Undisturbed, TypeOK
  <2>2. /\ pc[r] = "joined" /\ ask[r].danger /\ pc'[r] = "answered"
        /\ ask'[r] = ask[r] /\ fact'[r] = fact[r] /\ quality'[r] = quality[r]
    BY <1>5 DEF AnswerDanger, TypeOK
  <2>3. PICK c \in LookupFor(r, "CRITICAL") :
          /\ cell'[r] = c
          /\ reply'[r] = [StaticReply(c) EXCEPT !.escalated = TRUE]
    BY <1>5 DEF AnswerDanger, TypeOK
  <2>4. c \in Table /\ c.key[1] = "CRITICAL"
    BY LookupStatus DEF LookupFor, Statuses
  <2>5. CellsFor(ask[r], fact[r]) = {c}
    <3>1. CellsFor(ask[r], fact[r]) = LookupFor(r, "CRITICAL")
      BY <2>2 DEF CellsFor, LookupFor
    <3>2. \E o \in Table : LookupFor(r, "CRITICAL") = {o}
      BY OneCell DEF LookupFor, Statuses
    <3> QED
      BY <2>3, <3>1, <3>2
  <2>6. ask[r] \in Asks
    BY <2>2 DEF TypeOK, InFlight
  <2>7. ReplyOK(ask[r], fact[r], c, [StaticReply(c) EXCEPT !.escalated = TRUE])
    BY <2>2, <2>4, <2>6, DangerInOrder
  <2>8. TurnOK(pc[r], ask[r], fact[r], quality[r], cell[r], reply[r])
    BY DEF TurnsOK
  <2>9. ReplyOK(ask'[r], fact'[r], cell'[r], reply'[r])
    BY <2>2, <2>3, <2>7
  <2>10. CellsFor(ask'[r], fact'[r]) = {cell'[r]}
    BY <2>2, <2>3, <2>5
  <2>11. TurnOK(pc[r], ask[r], fact[r], quality[r], cell[r], reply[r])'
    BY <2>1, <2>2, <2>3, <2>4, <2>8, <2>9, <2>10 DEF TurnOK
  <2> QED
    BY <2>1, <2>11, OneTurn
<1>6. ASSUME NEW r \in Requests, AskModel(r) PROVE TurnsOK'
  <2>1. row' = row /\ \A s \in Requests \ {r} : Undisturbed(s)
    BY <1>6 DEF AskModel, Undisturbed, TypeOK
  <2>2. /\ pc[r] = "joined" /\ ~ask[r].danger /\ pc'[r] = "calling"
        /\ ask'[r] = ask[r] /\ fact'[r] = fact[r] /\ quality'[r] = quality[r]
    BY <1>6 DEF AskModel, TypeOK
  <2>3. PICK c \in LookupFor(r, fact[r].status) : cell'[r] = c
    BY <1>6 DEF AskModel, TypeOK
  <2>4. fact[r] \in Rows
    BY <2>2 DEF TypeOK
  <2>5. fact[r].status \in Statuses
    BY <2>4 DEF Rows
  <2>6. c.key[1] = fact[r].status
    BY <2>5, LookupStatus DEF LookupFor
  <2>7. TurnOK(pc[r], ask[r], fact[r], quality[r], cell[r], reply[r])
    BY DEF TurnsOK
  <2>8. CellsFor(ask[r], fact[r]) = {c}
    <3>1. CellsFor(ask[r], fact[r]) = LookupFor(r, fact[r].status)
      BY <2>2 DEF CellsFor, LookupFor
    <3>2. \E o \in Table : LookupFor(r, fact[r].status) = {o}
      BY <2>5, OneCell DEF LookupFor
    <3> QED
      BY <2>3, <3>1, <3>2
  <2>9. CellsFor(ask'[r], fact'[r]) = {cell'[r]}
    BY <2>2, <2>3, <2>8
  <2>10. TurnOK(pc[r], ask[r], fact[r], quality[r], cell[r], reply[r])'
    BY <2>1, <2>2, <2>3, <2>6, <2>7, <2>9 DEF TurnOK
  <2> QED
    BY <2>1, <2>10, OneTurn
<1>7. ASSUME NEW r \in Requests,
             ModelUnavailable(r) \/ \E c \in Completions : ModelReplies(r, c)
      PROVE  TurnsOK'
  <2>1. row' = row /\ \A s \in Requests \ {r} : Undisturbed(s)
    BY <1>7 DEF ModelUnavailable, ModelReplies, Undisturbed, TypeOK
  <2>2. /\ pc[r] = "calling" /\ pc'[r] = "answered" /\ ask'[r] = ask[r]
        /\ fact'[r] = fact[r] /\ quality'[r] = quality[r] /\ cell'[r] = cell[r]
    BY <1>7 DEF ModelUnavailable, ModelReplies, TypeOK
  <2>3. \/ reply'[r] = StaticReply(cell[r])
        \/ \E c \in Completions :
             /\ GuardAccepts(c, cell[r], AllowedNumbersFor(fact[r].z))
             /\ reply'[r] = GuardReply(c, cell[r])
    BY <1>7 DEF ModelUnavailable, ModelReplies, TypeOK
  <2>4. TurnOK(pc[r], ask[r], fact[r], quality[r], cell[r], reply[r])
    BY DEF TurnsOK
  <2>5. ~ask[r].danger /\ cell[r].key[1] = fact[r].status
    BY <2>2, <2>4 DEF TurnOK
  <2>6. ReplyOK(ask[r], fact[r], cell[r], reply'[r])
    BY <2>2, <2>3, <2>5, RepliesInOrder
  <2>7. ReplyOK(ask'[r], fact'[r], cell'[r], reply'[r])
    BY <2>2, <2>6
  <2>8. TurnOK(pc[r], ask[r], fact[r], quality[r], cell[r], reply[r])'
    BY <2>1, <2>2, <2>4, <2>5, <2>7 DEF TurnOK
  <2> QED
    BY <2>1, <2>8, OneTurn
<1>8. ASSUME NEW r \in Requests, Fail(r) PROVE TurnsOK'
  <2>1. row' = row /\ \A s \in Requests \ {r} : Undisturbed(s)
    BY <1>8 DEF Fail, Undisturbed, TypeOK
  <2>2. pc'[r] = "failed"
    BY <1>8 DEF Fail, TypeOK
  <2>3. TurnOK(pc[r], ask[r], fact[r], quality[r], cell[r], reply[r])'
    BY <2>2 DEF TurnOK
  <2> QED
    BY <2>1, <2>3, OneTurn
<1>9. ASSUME Environment \/ UNCHANGED vars PROVE TurnsOK'
  <2>1. UNCHANGED <<row, pc, ask, fact, quality, cell, reply>>
    BY <1>9 DEF Environment, DeleteMachine, Recalibrate, vars
  <2> QED
    BY <2>1 DEF TurnsOK, TurnOK
<1> QED
  BY <1>1, <1>2, <1>3, <1>4, <1>5, <1>6, <1>7, <1>8, <1>9 DEF Next, Send

\* In every reachable state every turn is in order.
THEOREM Invariance == Spec => []TurnsOK
<1>1. Init => TurnsOK
  BY DEF Init, TurnsOK, TurnOK
<1>2. TypeOK /\ TurnsOK /\ [Next]_vars => TurnsOK'
  BY TurnStep
<1> QED
  BY <1>1, <1>2, TypeCorrect, PTL DEF Spec

\* A turn past the ownership check is about a machine of its caller, or a deleted one.
CallersOwn ==
  \A r \in Requests :
    pc[r] \in InFlight \cup {"answered"} => owner[ask[r].machine] \in {ask[r].user, Nobody}

LEMMA CallersStep ==
  ASSUME TypeOK, CallersOwn, [Next]_vars
  PROVE  CallersOwn'
<1> USE DEF Goto, database
<1> SUFFICES ASSUME NEW r \in Requests, pc'[r] \in InFlight \cup {"answered"}
             PROVE  owner'[ask'[r].machine] \in {ask'[r].user, Nobody}
  BY DEF CallersOwn
<1> DEFINE Kept == pc[r] \in InFlight \cup {"answered"} /\ ask'[r] = ask[r]
<1>1. CASE \E a \in Asks : FindMachine(r, a)
  <2>1. PICK a \in Asks : FindMachine(r, a)
    BY <1>1
  <2>2. ask'[r] = a /\ owner' = owner
    BY <2>1 DEF FindMachine, TypeOK
  <2>3. owner[a.machine] = a.user
    BY <2>1 DEF FindMachine, TypeOK, InFlight
  <2> QED BY <2>2, <2>3
<1>2. CASE Kept
  <2>1. owner[ask[r].machine] \in {ask[r].user, Nobody}
    BY <1>2 DEF CallersOwn
  <2>2. ask[r].machine \in Machines
    BY <1>2 DEF TypeOK, Asks
  <2>3. ASSUME NEW m \in Machines PROVE owner'[m] \in {owner[m], Nobody}
    <3>1. owner' = owner \/ \E d \in Machines : owner' = [owner EXCEPT ![d] = Nobody]
      BY DEF Next, Refuse, Arrive, FindMachine, Send, FindInspection, JoinBaseline,
             JoinBaselineFails, AnswerDanger, AskModel, ModelUnavailable, ModelReplies,
             Fail, Environment, DeleteMachine, Recalibrate, vars
    <3> QED BY <2>3, <3>1 DEF TypeOK
  <2> QED BY <1>2, <2>1, <2>2, <2>3
<1>3. Kept \/ \E a \in Asks : FindMachine(r, a)
  <2>1. ASSUME NEW s \in Requests, Refuse(s) \/ Fail(s) PROVE Kept
    BY <2>1 DEF Refuse, Fail, TypeOK, InFlight
  <2>2. ASSUME NEW s \in Requests, Arrive(s)
        PROVE  Kept \/ \E a \in Asks : FindMachine(r, a)
    BY <2>2 DEF Arrive, FindMachine, TypeOK
  <2>3. ASSUME NEW s \in Requests, Send(s) PROVE Kept
    <3>1. pc[s] \in InFlight /\ ask' = ask
      BY <2>3 DEF Send, FindInspection, JoinBaseline, JoinBaselineFails, AnswerDanger,
                  AskModel, ModelUnavailable, TypeOK, InFlight, Outcomes
    <3>2. \E l : pc' = [pc EXCEPT ![s] = l]
      BY <2>3 DEF Send, FindInspection, JoinBaseline, JoinBaselineFails, AnswerDanger,
                  AskModel, ModelUnavailable
    <3> QED BY <3>1, <3>2 DEF TypeOK
  <2>4. ASSUME NEW s \in Requests, NEW c \in Completions, ModelReplies(s, c) PROVE Kept
    BY <2>4 DEF ModelReplies, TypeOK, InFlight
  <2>5. ASSUME Environment \/ UNCHANGED vars PROVE Kept
    BY <2>5 DEF Environment, DeleteMachine, Recalibrate, vars
  <2> QED BY <2>1, <2>2, <2>3, <2>4, <2>5 DEF Next
<1> QED BY <1>1, <1>2, <1>3

\* A turn knows only an inspection of the machine it was checked for, and that
\* machine is nobody else's.
THEOREM OnlyOwn == Spec => []AnswersOnlyOwn
<1>1. TurnsOK /\ CallersOwn => AnswersOnlyOwn
  BY DEF TurnsOK, TurnOK, CallersOwn, AnswersOnlyOwn
<1>2. Init => CallersOwn
  BY DEF Init, CallersOwn, InFlight
<1>3. TypeOK /\ CallersOwn /\ [Next]_vars => CallersOwn'
  BY CallersStep
<1> QED
  BY <1>1, <1>2, <1>3, TypeCorrect, Invariance, PTL DEF Spec

\* Escalation and technician are decided by the question and the one cell the table
\* has for it, never by the model.
THEOREM RulesDecide == Spec => []FlagsDecidedByRules
<1>1. TypeOK /\ TurnsOK => FlagsDecidedByRules
  <2> SUFFICES ASSUME TypeOK, TurnsOK, NEW r \in Requests
               PROVE  /\ pc[r] = "joined" => Cardinality(LookupFor(r, Deciding(r))) = 1
                      /\ pc[r] \in {"calling", "answered"} => LookupFor(r, Deciding(r)) = {cell[r]}
                      /\ pc[r] = "calling" => ~ask[r].danger
                      /\ pc[r] = "answered" =>
                           /\ reply[r].escalated = ask[r].danger
                           /\ reply[r].technician = cell[r].technician
                           /\ cell[r].key[1] = Deciding(r)
                           /\ ask[r].danger => reply[r].technician /\ reply[r].source = "fallback_static"
    BY DEF FlagsDecidedByRules
  <2>1. TurnOK(pc[r], ask[r], fact[r], quality[r], cell[r], reply[r])
    BY DEF TurnsOK
  <2>2. LookupFor(r, Deciding(r)) = CellsFor(ask[r], fact[r])
    BY DEF LookupFor, Deciding, CellsFor
  <2>3. pc[r] = "joined" => Cardinality(LookupFor(r, Deciding(r))) = 1
    <3>1. pc[r] = "joined" => fact[r].status \in Statuses
      BY DEF TypeOK, Rows
    <3>2. pc[r] = "joined" => Deciding(r) \in Statuses
      BY <3>1 DEF Deciding, Statuses
    <3>3. pc[r] = "joined" => \E c \in Table : LookupFor(r, Deciding(r)) = {c}
      BY <3>2, OneCell DEF LookupFor
    <3> QED
      BY <3>3, FS_Singleton
  <2> QED
    BY <2>1, <2>2, <2>3 DEF TurnOK, ReplyOK, Deciding
<1> QED
  BY <1>1, Invariance, TypeCorrect, PTL

\* An answer about a machine in trouble says to switch it off first, whatever the
\* model sent.
THEOREM SwitchOffFirst == Spec => []ShutDownFirst
<1>1. TurnsOK => ShutDownFirst
  BY DEF TurnsOK, TurnOK, ReplyOK, SaysFirst, ShutDownFirst
<1> QED
  BY <1>1, Invariance, PTL

\* The prompt shows the quality of the baseline that produced the score, or none.
THEOREM ScoringBaseline == Spec => []QualityOfScoringBaseline
<1>1. TurnsOK => QualityOfScoringBaseline
  BY DEF TurnsOK, TurnOK, QualityOfScoringBaseline
<1> QED
  BY <1>1, Invariance, PTL

\* Where an answer comes from: it was there, or the cell or the guard has just made it.
LEMMA AnswersArise ==
  ASSUME TypeOK, [Next]_vars, NEW r \in Requests, pc'[r] = "answered"
  PROVE  \/ /\ pc[r] = "answered" /\ fact'[r] = fact[r] /\ cell'[r] = cell[r]
            /\ reply'[r] = reply[r]
         \/ reply'[r].answer = StaticAnswer(cell'[r]) /\ reply'[r].next = StaticNextStep(cell'[r])
         \/ \E c \in Completions :
              /\ GuardAccepts(c, cell'[r], AllowedNumbersFor(fact'[r].z))
              /\ reply'[r].answer = c.jawaban /\ reply'[r].next = c.langkah
<1> DEFINE Goal ==
      \/ /\ pc[r] = "answered" /\ fact'[r] = fact[r] /\ cell'[r] = cell[r]
         /\ reply'[r] = reply[r]
      \/ reply'[r].answer = StaticAnswer(cell'[r]) /\ reply'[r].next = StaticNextStep(cell'[r])
      \/ \E c \in Completions :
           /\ GuardAccepts(c, cell'[r], AllowedNumbersFor(fact'[r].z))
           /\ reply'[r].answer = c.jawaban /\ reply'[r].next = c.langkah
<1> USE DEF Goto, database
<1>1. ASSUME NEW s \in Requests,
             \/ Refuse(s) \/ Arrive(s) \/ FindInspection(s) \/ JoinBaseline(s)
             \/ JoinBaselineFails(s) \/ AskModel(s) \/ Fail(s)
      PROVE  Goal
  <2>1. pc'[s] # "answered" /\ (s # r => Undisturbed(r))
    BY <1>1 DEF TypeOK, Undisturbed, Refuse, Arrive, FindMachine, FindInspection,
       JoinBaseline, JoinBaselineFails, AskModel, Fail
  <2> QED BY <2>1 DEF Undisturbed
<1>2. ASSUME NEW s \in Requests, AnswerDanger(s) PROVE Goal
  <2>1. CASE s # r
    <3>1. Undisturbed(r)
      BY <1>2, <2>1 DEF AnswerDanger, Undisturbed, TypeOK
    <3> QED BY <3>1 DEF Undisturbed
  <2>2. CASE s = r
    <3>1. PICK c \in LookupFor(r, "CRITICAL") :
            cell'[r] = c /\ reply'[r] = [StaticReply(c) EXCEPT !.escalated = TRUE]
      BY <1>2, <2>2 DEF AnswerDanger, TypeOK
    <3>2. reply'[r].answer = StaticReply(c).answer /\ reply'[r].next = StaticReply(c).next
      BY <3>1 DEF StaticReply, Reply
    <3> QED BY <3>1, <3>2 DEF StaticReply, Reply
  <2> QED BY <2>1, <2>2
<1>3. ASSUME NEW s \in Requests,
             ModelUnavailable(s) \/ \E c \in Completions : ModelReplies(s, c)
      PROVE  Goal
  <2>1. CASE s # r
    <3>1. Undisturbed(r)
      BY <1>3, <2>1 DEF ModelUnavailable, ModelReplies, Undisturbed, TypeOK
    <3> QED BY <3>1 DEF Undisturbed
  <2>2. CASE s = r
    <3>1. fact'[r] = fact[r] /\ cell'[r] = cell[r]
      BY <1>3, <2>2 DEF ModelUnavailable, ModelReplies
    <3>2. \/ reply'[r] = StaticReply(cell[r])
          \/ \E c \in Completions :
               /\ GuardAccepts(c, cell[r], AllowedNumbersFor(fact[r].z))
               /\ reply'[r] = GuardReply(c, cell[r])
      BY <1>3, <2>2 DEF ModelUnavailable, ModelReplies, TypeOK
    <3>3. \A c : StaticReply(c).answer = StaticAnswer(c) /\ StaticReply(c).next = StaticNextStep(c)
      BY DEF StaticReply, Reply
    <3>4. \A c, k : GuardReply(c, k).answer = c.jawaban /\ GuardReply(c, k).next = c.langkah
      BY DEF GuardReply, Reply
    <3> QED BY <3>1, <3>2, <3>3, <3>4
  <2> QED BY <2>1, <2>2
<1>4. ASSUME Environment \/ UNCHANGED vars PROVE Goal
  BY <1>4 DEF Environment, DeleteMachine, Recalibrate, vars
<1> QED
  BY <1>1, <1>2, <1>3, <1>4 DEF Next, Send

\* No answer names a fault or a number nobody vetted, whatever the model sent.
THEOREM AllVetted == Spec => []EveryAnswerVetted
<1> DEFINE AnswersVetted ==
      \A r \in Requests : pc[r] = "answered" =>
        TextVetted(reply[r].answer \o reply[r].next, fact[r].z, cell[r])
<1>1. Init => AnswersVetted
  BY DEF Init
<1>2. TypeOK /\ TypeOK' /\ AnswersVetted /\ [Next]_vars => AnswersVetted'
  <2> SUFFICES ASSUME TypeOK, TypeOK', AnswersVetted, [Next]_vars,
                      NEW r \in Requests, pc'[r] = "answered"
               PROVE  TextVetted(reply'[r].answer \o reply'[r].next, fact'[r].z, cell'[r])
    BY DEF TextVetted, Vetted
  <2>1. cell'[r] \in Table /\ fact'[r] \in Rows
    BY DEF TypeOK
  <2>2. fact'[r].z \in Scores \cup {NoZ}
    BY <2>1 DEF Rows
  <2>3. CASE reply'[r].answer = StaticAnswer(cell'[r]) /\ reply'[r].next = StaticNextStep(cell'[r])
    BY <2>1, <2>3, StaticVetted
  <2>4. CASE \E c \in Completions :
               /\ GuardAccepts(c, cell'[r], AllowedNumbersFor(fact'[r].z))
               /\ reply'[r].answer = c.jawaban /\ reply'[r].next = c.langkah
    BY <2>1, <2>2, <2>4, GuardVetted
  <2>5. CASE pc[r] = "answered" /\ fact'[r] = fact[r] /\ cell'[r] = cell[r] /\ reply'[r] = reply[r]
    BY <2>5
  <2> QED BY <2>3, <2>4, <2>5, AnswersArise
<1>3. AnswersVetted => EveryAnswerVetted
  BY DEF TextVetted, EveryAnswerVetted
<1> QED
  BY <1>1, <1>2, <1>3, TypeCorrect, PTL DEF Spec

\* Rounding to one decimal stays within the guard's tolerance, save from halfway.
LEMMA RoundingTolerated ==
  ASSUME NEW z \in Int, ~Halfway(z), FormatFloat1(z) >= 0
  PROVE  FormatFloat1(z) \in Int /\ Abs(FormatFloat1(z) - z) < 5
<1>1. CASE z >= 0
  <2>1. z % 10 \in 0..9 /\ z % 10 # 5
    BY DEF Halfway
  <2>2. FormatFloat1(z) = IF z % 10 < 5 THEN z - (z % 10) ELSE z - (z % 10) + 10
    BY <1>1, <2>1 DEF FormatFloat1, Abs
  <2> QED BY <2>1, <2>2 DEF Abs
<1>2. CASE z < 0
  <2> DEFINE m == -z
  <2>1. m \in Nat /\ m > 0 /\ m % 10 \in 0..9 /\ m % 10 <= m
    BY <1>2
  <2>2. m % 10 # 5
    BY DEF Halfway
  <2>3. FormatFloat1(z) = -(IF m % 10 < 5 THEN m - (m % 10) ELSE m - (m % 10) + 10)
    BY <1>2, <2>1, <2>2 DEF FormatFloat1, Abs
  <2>4. m % 10 < 5 /\ m - (m % 10) = 0
    BY <2>1, <2>3
  <2> QED BY <2>1, <2>3, <2>4 DEF Abs
<1> QED BY <1>1, <1>2

\* A model may quote what its prompt shows, except a negative score or one halfway
\* between two decimals.
THEOREM MayQuote == Spec => []FactsMayBeQuoted
<1>1. ASSUME NEW z \in Scores \cup {NoZ}, NEW c \in Table, NEW n \in PromptNumbers(z, c), n >= 0
      PROVE  \/ NumberAllowed(n, AllowedNumbersFor(z) \cup CellNumbers(c))
             \/ z # NoZ /\ Halfway(z) /\ n = FormatFloat1(z)
  <2> DEFINE allowed == AllowedNumbersFor(z) \cup CellNumbers(c)
  <2>1. ASSUME NEW k \in 1..9 PROVE NumberAllowed(100 * k, allowed)
    BY DEF NumberAllowed
  <2>2. ASSUME NEW a \in allowed, a \in Nat PROVE NumberAllowed(a, allowed)
    <3>1. Abs(a - a) < 5
      BY <2>2 DEF Abs
    <3> QED BY <2>2, <3>1 DEF NumberAllowed
  <2>3. \A t \in {c.gate, c.checklist, c.escalateIf} : NumbersOf(t) \subseteq Nat
    BY CellContents DEF NumbersOf
  <2>4. ASSUME NEW t \in {c.gate, c.checklist, c.escalateIf}, NEW m \in NumbersOf(t)
        PROVE  NumberAllowed(m, allowed)
    <3>1. m \in Nat /\ Abs(m) = m
      BY <2>3, <2>4 DEF Abs
    <3>2. m \in allowed
      BY <2>4, <3>1 DEF CellNumbers, ExtractNumbers
    <3> QED BY <2>2, <3>1, <3>2
  <2>5. CASE n \in LabelNumbers \cup {300, 600}
    <3>1. \E k \in 1..9 : n = 100 * k
      BY <2>5 DEF LabelNumbers
    <3> QED BY <2>1, <3>1
  <2>6. CASE z # NoZ /\ n = FormatFloat1(z) /\ ~Halfway(z)
    <3>1. z \in Int /\ z \in allowed
      BY <2>6, ScoresAssumption DEF AllowedNumbersFor
    <3>2. Abs(n - z) < 5
      BY <1>1, <2>6, <3>1, RoundingTolerated
    <3> QED BY <3>1, <3>2 DEF NumberAllowed
  <2>7. CASE n \in {100 * c.hours} \cup c.urgency
    <3>1. n \in Nat /\ n \in allowed
      BY <2>7, CellContents DEF CellNumbers
    <3> QED BY <2>2, <3>1
  <2>8. CASE n \in {100 * i : i \in DOMAIN c.checklist}
    <3>1. Len(c.checklist) \in 0..9
      BY CellContents
    <3>2. PICK i \in DOMAIN c.checklist : n = 100 * i
      BY <2>8
    <3>3. i \in 1..9
      <4>1. c.checklist \in Seq(Phrases)
        BY CellTexts DEF Texts
      <4>2. i \in 1..Len(c.checklist)
        BY <4>1, Element
      <4> QED BY <3>1, <4>2
    <3> QED BY <2>1, <3>2, <3>3
  <2> QED
    BY <2>4, <2>5, <2>6, <2>7, <2>8 DEF PromptNumbers
<1>2. TypeOK => FactsMayBeQuoted
  <2> SUFFICES ASSUME TypeOK, NEW r \in Requests, pc[r] = "calling",
                      NEW n \in PromptNumbers(fact[r].z, cell[r]), n >= 0
               PROVE  \/ NumberAllowed(n, AllowedNumbersFor(fact[r].z) \cup CellNumbers(cell[r]))
                      \/ /\ fact[r].z # NoZ /\ Halfway(fact[r].z)
                         /\ n = FormatFloat1(fact[r].z)
    BY DEF FactsMayBeQuoted
  <2>1. cell[r] \in Table /\ fact[r] \in Rows
    BY DEF TypeOK
  <2>2. fact[r].z \in Scores \cup {NoZ}
    BY <2>1 DEF Rows
  <2> QED BY <1>1, <2>1, <2>2
<1> QED
  BY <1>2, TypeCorrect, PTL
=============================================================================
