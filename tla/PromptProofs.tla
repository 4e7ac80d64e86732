----------------------------- MODULE PromptProofs ---------------------------
(***************************************************************************)
(* Proofs about Prompt: what RenderPrompt makes of every turn and of every *)
(* conversation, by induction over the lines of the template and of what   *)
(* has been emitted.                                                       *)
(***************************************************************************)
EXTENDS Prompt, AdvisoryProofs, SequenceTheorems, WellFoundedInduction

-----------------------------------------------------------------------------
(* Induction and recursion. *)

\* A set of numbers that is not empty has a least one.
LEMMA LeastNumber ==
  ASSUME NEW T \in SUBSET Nat, T # {}
  PROVE  \E m \in T : \A k \in T : ~ (k < m)
<1> DEFINE R == {ss \in Nat \X Nat : ss[1] < ss[2]}
<1>1. IsWellFoundedOn(R, Nat)
  BY NatLessThanWellFounded, Zenon DEF OpToRel
<1>2. \A x, y \in Nat : x < y => <<x, y>> \in R
  OBVIOUS
<1> HIDE DEF R
<1>3. PICK m \in T : \A k \in T : ~ (<<k, m>> \in R)
  BY <1>1, WFMin, Zenon
<1> QED
  BY <1>2, <1>3

\* Induction, over the set of the numbers for which a claim holds.
LEMMA Induction ==
  ASSUME NEW S, 0 \in S, \A n \in Nat : n \in S => n + 1 \in S
  PROVE  Nat \subseteq S
<1> SUFFICES ASSUME Nat \ S # {} PROVE FALSE
  OBVIOUS
<1>1. PICK m \in Nat \ S : \A k \in Nat \ S : ~ (k < m)
  BY LeastNumber
<1>2. m - 1 \in Nat /\ m - 1 < m
  BY <1>1
<1>3. m - 1 \in S
  BY <1>1, <1>2
<1> QED
  BY <1>1, <1>2, <1>3

\* f is defined up to N by recursion: f[0] is given, f[n] is made from f[n - 1] by step.
Unfolds(f, S, N, base, step) ==
  /\ f \in [0..N -> S]
  /\ f[0] = base
  /\ \A n \in 1..N : f[n] = step[<<n, f[n - 1]>>]

\* There is such a function.
LEMMA Recursion ==
  ASSUME NEW S, NEW base \in S, NEW N \in Nat, NEW step \in [(1..N) \X S -> S]
  PROVE  \E f : Unfolds(f, S, N, base, step)
<1> DEFINE Rec(f, k) == /\ f \in [0..k -> S]
                        /\ \A n \in 0..k : f[n] = IF n = 0 THEN base ELSE step[<<n, f[n - 1]>>]
           Good == {k \in Nat : k <= N => \E f : Rec(f, k)}
<1>1. 0 \in Good
  <2>1. Rec([n \in 0..0 |-> base], 0)
    OBVIOUS
  <2> QED BY <2>1
<1>2. ASSUME NEW k \in Nat, k \in Good PROVE k + 1 \in Good
  <2> SUFFICES ASSUME k + 1 <= N PROVE \E f : Rec(f, k + 1)
    OBVIOUS
  <2>1. PICK f : Rec(f, k)
    BY <1>2
  <2> DEFINE g == [n \in 0..(k + 1) |-> IF n = k + 1 THEN step[<<k + 1, f[k]>>] ELSE f[n]]
  <2>2. step[<<k + 1, f[k]>>] \in S
    BY <2>1
  <2>3. g \in [0..(k + 1) -> S]
    BY <2>1, <2>2
  <2>4. ASSUME NEW n \in 0..(k + 1)
        PROVE  g[n] = IF n = 0 THEN base ELSE step[<<n, g[n - 1]>>]
    <3>1. CASE n = k + 1
      BY <2>1, <3>1
    <3>2. CASE n # k + 1
      <4>1. n \in 0..k /\ g[n] = f[n]
        BY <3>2
      <4>2. n # 0 => n - 1 \in 0..(k + 1) /\ n - 1 # k + 1
        BY <4>1
      <4>3. n # 0 => g[n - 1] = f[n - 1]
        BY <4>2
      <4> HIDE DEF g
      <4> QED BY <2>1, <4>1, <4>3
    <3> QED BY <3>1, <3>2
  <2> QED BY <2>3, <2>4
<1>3. N \in Good
  <2> HIDE DEF Good
  <2> QED BY <1>1, <1>2, Induction
<1>4. PICK f : Rec(f, N)
  BY <1>3
<1>5. f \in [0..N -> S] /\ f[0] = base
  <2>1. 0 \in 0..N
    OBVIOUS
  <2> QED BY <1>4, <2>1
<1>6. \A n \in 1..N : f[n] = step[<<n, f[n - 1]>>]
  BY <1>4
<1> QED
  BY <1>5, <1>6 DEF Unfolds

-----------------------------------------------------------------------------
(* Blank lines. *)

\* No two blank lines in a row.
Gapless(lines) == \A i \in 2..Len(lines) : ~(IsBlank(lines[i - 1]) /\ IsBlank(lines[i]))

\* What CollapseBlankRuns keeps, line by line.
LEMMA Collapsing ==
  ASSUME NEW S, NEW lines \in Seq(S)
  PROVE  \E kept :
           /\ CollapseBlankRuns(lines) = kept[Len(lines)]
           /\ kept[0] = <<>>
           /\ \A n \in 1..Len(lines) :
                kept[n] = IF n > 1 /\ IsBlank(lines[n]) /\ IsBlank(lines[n - 1])
                          THEN kept[n - 1] ELSE Append(kept[n - 1], lines[n])
<1> DEFINE N == Len(lines)
           step == [p \in (1..N) \X Seq(S) |->
                      IF p[1] > 1 /\ IsBlank(lines[p[1]]) /\ IsBlank(lines[p[1] - 1])
                      THEN p[2] ELSE Append(p[2], lines[p[1]])]
           Def(g) == g = [n \in 0..N |->
                        IF n = 0 THEN <<>>
                        ELSE IF n > 1 /\ IsBlank(lines[n]) /\ IsBlank(lines[n - 1]) THEN g[n - 1]
                        ELSE Append(g[n - 1], lines[n])]
           kept == CHOOSE g : Def(g)
<1>1. N \in Nat /\ step \in [(1..N) \X Seq(S) -> Seq(S)] /\ <<>> \in Seq(S)
  OBVIOUS
<1>2. PICK f : Unfolds(f, Seq(S), N, <<>>, step)
  <2> HIDE DEF N, step
  <2> QED BY <1>1, Recursion
<1>3. ASSUME NEW n \in 1..N
      PROVE  step[<<n, f[n - 1]>>] =
               IF n > 1 /\ IsBlank(lines[n]) /\ IsBlank(lines[n - 1]) THEN f[n - 1]
               ELSE Append(f[n - 1], lines[n])
  <2>1. n - 1 \in 0..N
    BY <1>1
  <2> HIDE DEF step, N
  <2>2. f[n - 1] \in Seq(S)
    BY <1>2, <2>1 DEF Unfolds
  <2> USE DEF step, N
  <2>3. <<n, f[n - 1]>> \in (1..N) \X Seq(S)
    BY <2>2
  <2> QED BY <2>3
<1>4. Def(f)
  <2> DEFINE body(n) ==
        IF n = 0 THEN <<>>
        ELSE IF n > 1 /\ IsBlank(lines[n]) /\ IsBlank(lines[n - 1]) THEN f[n - 1]
        ELSE Append(f[n - 1], lines[n])
  <2> HIDE DEF step
  <2>1. ASSUME NEW n \in 0..N PROVE f[n] = body(n)
    <3>1. CASE n = 0
      BY <1>2, <3>1 DEF Unfolds
    <3>2. CASE n # 0
      <4>1. n \in 1..N
        BY <3>2
      <4> QED BY <1>2, <1>3, <3>2, <4>1 DEF Unfolds
    <3> QED BY <3>1, <3>2
  <2> HIDE DEF body
  <2>2. f = [n \in 0..N |-> body(n)]
    BY <1>2, <2>1 DEF Unfolds
  <2> QED BY <2>2 DEF body
<1>5. Def(kept)
  <2> HIDE DEF Def
  <2> QED BY <1>4
<1>6. CollapseBlankRuns(lines) = kept[N]
  BY DEF CollapseBlankRuns
<1> HIDE DEF kept
<1>7. kept[0] = <<>>
  BY <1>1, <1>5
<1>8. \A n \in 1..N :
        kept[n] = IF n > 1 /\ IsBlank(lines[n]) /\ IsBlank(lines[n - 1])
                  THEN kept[n - 1] ELSE Append(kept[n - 1], lines[n])
  <2> SUFFICES ASSUME NEW n \in 1..N
               PROVE  kept[n] = IF n > 1 /\ IsBlank(lines[n]) /\ IsBlank(lines[n - 1])
                                THEN kept[n - 1] ELSE Append(kept[n - 1], lines[n])
    OBVIOUS
  <2>1. n \in 0..N /\ n # 0
    BY <1>1
  <2> QED BY <1>5, <2>1
<1> QED BY <1>6, <1>7, <1>8

\* Lines without a gap are kept as they are.
LEMMA KeptWhole ==
  ASSUME NEW S, NEW lines \in Seq(S), NEW m \in 0..Len(lines),
         \A i \in 2..m : ~(IsBlank(lines[i - 1]) /\ IsBlank(lines[i])),
         NEW kept, kept[0] = <<>>,
         \A n \in 1..Len(lines) :
           kept[n] = IF n > 1 /\ IsBlank(lines[n]) /\ IsBlank(lines[n - 1])
                     THEN kept[n - 1] ELSE Append(kept[n - 1], lines[n])
  PROVE  kept[m] = SubSeq(lines, 1, m)
<1> DEFINE Good == {n \in Nat : n <= m => kept[n] = SubSeq(lines, 1, n)}
<1>1. 0 \in Good
  <2>1. SubSeq(lines, 1, 0) = <<>>
    OBVIOUS
  <2> QED BY <2>1
<1>2. ASSUME NEW n \in Nat, n \in Good PROVE n + 1 \in Good
  <2> SUFFICES ASSUME n + 1 <= m PROVE kept[n + 1] = SubSeq(lines, 1, n + 1)
    OBVIOUS
  <2>1. kept[n] = SubSeq(lines, 1, n)
    BY <1>2
  <2>2. kept[n + 1] = Append(kept[n], lines[n + 1])
    <3>1. n + 1 \in 1..Len(lines) /\ (n + 1) - 1 = n
      OBVIOUS
    <3>2. n + 1 > 1 => n + 1 \in 2..m
      OBVIOUS
    <3> QED BY <3>1, <3>2
  <2>3. SubSeq(lines, 1, n + 1) = SubSeq(lines, 1, n) \o <<lines[n + 1]>>
    BY SubSeqRecursiveSecond, 1 \in 1..Len(lines), n + 1 \in 1..Len(lines)
  <2>4. Append(SubSeq(lines, 1, n), lines[n + 1]) = SubSeq(lines, 1, n) \o <<lines[n + 1]>>
    OBVIOUS
  <2> QED BY <2>1, <2>2, <2>3, <2>4
<1>3. m \in Good
  <2> HIDE DEF Good
  <2> QED BY <1>1, <1>2, Induction
<1> QED BY <1>3

\* Without a gap there is nothing to collapse.
LEMMA NothingToCollapse ==
  ASSUME NEW S, NEW lines \in Seq(S), Gapless(lines)
  PROVE  CollapseBlankRuns(lines) = lines
<1>1. PICK kept :
           /\ CollapseBlankRuns(lines) = kept[Len(lines)]
           /\ kept[0] = <<>>
           /\ \A n \in 1..Len(lines) :
                kept[n] = IF n > 1 /\ IsBlank(lines[n]) /\ IsBlank(lines[n - 1])
                          THEN kept[n - 1] ELSE Append(kept[n - 1], lines[n])
  BY Collapsing
<1>2. Len(lines) \in 0..Len(lines)
  OBVIOUS
<1>3. kept[Len(lines)] = SubSeq(lines, 1, Len(lines))
  BY <1>1, <1>2, KeptWhole DEF Gapless
<1> QED BY <1>1, <1>3, SubSeqFull

\* A second blank line goes.
LEMMA OneGapCollapses ==
  ASSUME NEW S, NEW lines \in Seq(S), Gapless(lines), lines # <<>>, IsBlank(lines[Len(lines)]),
         NEW blank \in S, IsBlank(blank), NEW end \in S, ~IsBlank(end)
  PROVE  CollapseBlankRuns(Append(Append(lines, blank), end)) = Append(lines, end)
<1> DEFINE all == Append(Append(lines, blank), end)
           N == Len(lines)
<1>1. /\ all \in Seq(S) /\ N \in Nat \ {0} /\ Len(all) = N + 2
      /\ all[N + 1] = blank /\ all[N + 2] = end
      /\ \A i \in 1..N : all[i] = lines[i]
  OBVIOUS
<1>4. SubSeq(all, 1, N) = lines
  <2>1. \A i \in 1..N : all[i] \in S
    BY <1>1
  <2>2. Len(SubSeq(all, 1, N)) = N /\ SubSeq(all, 1, N) \in Seq(S)
        /\ \A i \in 1..N : SubSeq(all, 1, N)[i] = lines[i]
    BY <1>1
  <2> QED BY <2>2, SeqEqual
<1> HIDE DEF all
<1>2. PICK kept :
           /\ CollapseBlankRuns(all) = kept[Len(all)]
           /\ kept[0] = <<>>
           /\ \A n \in 1..Len(all) :
                kept[n] = IF n > 1 /\ IsBlank(all[n]) /\ IsBlank(all[n - 1])
                          THEN kept[n - 1] ELSE Append(kept[n - 1], all[n])
  BY <1>1, Collapsing
<1>3. kept[N] = SubSeq(all, 1, N)
  <2>1. N \in 0..Len(all) /\ \A i \in 2..N : ~(IsBlank(all[i - 1]) /\ IsBlank(all[i]))
    BY <1>1 DEF Gapless
  <2> QED BY <1>1, <1>2, <2>1, KeptWhole
<1>5. kept[N + 1] = kept[N]
  BY <1>1, <1>2
<1>6. kept[N + 2] = Append(kept[N + 1], end)
  <2>1. N + 2 \in 1..Len(all) /\ (N + 2) - 1 = N + 1 /\ ~IsBlank(all[N + 2])
    BY <1>1
  <2> QED BY <1>1, <1>2, <2>1
<1> QED BY <1>1, <1>2, <1>3, <1>4, <1>5, <1>6 DEF all

-----------------------------------------------------------------------------
(* One line of the template. *)

\* The template has twenty-four lines.
LEMMA TemplateLines == Len(Template) = 24
BY DEF Template

\* The domains of the sequences of holes: of none, and of one.
LEMMA NoElement == DOMAIN <<>> = 1..0
<1>1. <<>> \in Seq({}) /\ Len(<<>>) = 0
  BY EmptySeq
<1> QED BY <1>1, LenProperties

\* A sequence of one.
LEMMA OneElement ==
  ASSUME NEW x
  PROVE  DOMAIN <<x>> = 1..1 /\ <<x>>[1] = x
<1>1. <<x>> \in Seq({x}) /\ Len(<<x>>) = 1 /\ <<x>>[1] = x
  OBVIOUS
<1> QED BY <1>1, LenProperties

\* A line without holes is its label, and never dropped.
LEMMA NoHoles ==
  ASSUME NEW line, NEW values, line.holes = <<>>
  PROVE  /\ Substitute(line, values) = Heading(line.label)
         /\ ~DroppedByEmptyPlaceholder(line, values)
<1> DEFINE holes == line.holes
<1>1. DOMAIN holes = 1..0
  BY NoElement
<1> HIDE DEF holes
<1>2. [i \in DOMAIN holes |-> values[holes[i]]] = <<>>
  BY <1>1
<1>3. ~ \E i \in DOMAIN holes : holes[i] \in Omittable /\ values[holes[i]] = <<>>
  BY <1>1
<1> QED
  BY <1>2, <1>3 DEF holes, Substitute, Heading, Line, DroppedByEmptyPlaceholder

\* A line with one hole carries its value, and is dropped only if it may be and the
\* value is missing.
LEMMA OneHole ==
  ASSUME NEW line, NEW values, NEW name, line.holes = <<name>>
  PROVE  /\ Substitute(line, values) = Told(line.label, values[name])
         /\ DroppedByEmptyPlaceholder(line, values) <=> name \in Omittable /\ values[name] = <<>>
<1> DEFINE holes == line.holes
<1>1. DOMAIN holes = 1..1 /\ holes[1] = name
  BY OneElement
<1> HIDE DEF holes
<1>2. [i \in DOMAIN holes |-> values[holes[i]]] = <<values[name]>>
  BY <1>1
<1>3. (\E i \in DOMAIN holes : holes[i] \in Omittable /\ values[holes[i]] = <<>>)
        <=> name \in Omittable /\ values[name] = <<>>
  BY <1>1
<1> QED
  BY <1>2, <1>3 DEF holes, Substitute, Told, Line, DroppedByEmptyPlaceholder

\* A line of text is emitted as it is.
LEMMA EmitFixed ==
  ASSUME NEW out, NEW r, NEW history, NEW label, label \notin {"{checklist}", "{history}"}
  PROVE  Emit(out, Fixed(label), r, history) = Append(out, Heading(label))
<1>1. Fixed(label).label = label /\ Fixed(label).holes = <<>>
  BY DEF Fixed, Field
<1> QED BY <1>1, NoHoles DEF Emit

\* A line with a fact is emitted with it, unless it may be left out and there is none.
LEMMA EmitScalar ==
  ASSUME NEW out, NEW r, NEW history, NEW name, name \notin {"{checklist}", "{history}"}
  PROVE  Emit(out, Scalar(name), r, history) =
           IF name \in Omittable /\ ScalarValues(r)[name] = <<>> THEN out
           ELSE Append(out, Told(name, ScalarValues(r)[name]))
<1>1. Scalar(name).label = name /\ Scalar(name).holes = <<name>>
  BY DEF Scalar, Field
<1> QED BY <1>1, OneHole DEF Emit

\* The line of the score and its thresholds goes with the score.
LEMMA EmitScore ==
  ASSUME NEW out, NEW r, NEW history
  PROVE  Emit(out, Field("z", <<"z", "z_warning", "z_critical">>), r, history) =
           IF ScalarValues(r)["z"] = <<>> THEN out
           ELSE Append(out, Line("z", <<ScalarValues(r)["z"], <<300>>, <<600>>>>))
<1> DEFINE values == ScalarValues(r)
           holes == <<"z", "z_warning", "z_critical">>
           line == Field("z", holes)
<1>1. line.label = "z" /\ line.holes = holes /\ DOMAIN holes = 1..3
      /\ holes[1] = "z" /\ holes[2] = "z_warning" /\ holes[3] = "z_critical"
  BY DEF Field
<1>4. values["z_warning"] = <<300>> /\ values["z_critical"] = <<600>>
  BY DEF ScalarValues
<1> HIDE DEF values, holes, line
<1>2. DroppedByEmptyPlaceholder(line, values) <=> values["z"] = <<>>
  BY <1>1 DEF DroppedByEmptyPlaceholder, Omittable
<1>3. Substitute(line, values) = Line("z", <<values["z"], <<300>>, <<600>>>>)
  <2>1. [i \in DOMAIN holes |-> values[holes[i]]]
          = <<values["z"], values["z_warning"], values["z_critical"]>>
    BY <1>1
  <2> QED BY <1>1, <1>4, <2>1 DEF Substitute, Line
<1> QED BY <1>1, <1>2, <1>3 DEF Emit, values, line, holes

-----------------------------------------------------------------------------
(* Sections. *)

\* Every line that a turn's prompt may have.
LinesOf(r, history) ==
  {Substitute(Template[n], ScalarValues(r)) : n \in 1..24}
    \cup {RenderChecklist(cell[r].checklist)[i] : i \in DOMAIN cell[r].checklist}
    \cup {RenderHistory(CappedHistory(history))[i] : i \in DOMAIN CappedHistory(history)}

\* The history shown is the latest turns.
LEMMA Conversation ==
  ASSUME NEW history \in Histories
  PROVE  /\ CappedHistory(history) = Latest(history)
         /\ \E T : Latest(history) \in Seq(T)
<1> DEFINE T == {history[i] : i \in DOMAIN history}
           N == Len(history)
           shown == IF N < MaxHistoryTurns THEN N ELSE MaxHistoryTurns
<1>1. history \in Seq(T) /\ MaxHistoryTurns \in Nat
  BY HistoryAssumption
<1> HIDE DEF T
<1>2. N \in Nat /\ shown \in 0..N
  BY <1>1
<1>3. Latest(history) = [i \in 1..shown |-> history[N - shown + i]]
  BY DEF Latest
<1>4. \A i \in 1..shown : N - shown + i \in 1..N /\ history[N - shown + i] \in T
  <2> HIDE DEF shown
  <2> QED BY <1>1, <1>2
<1>5. Latest(history) \in Seq(T) /\ Len(Latest(history)) = shown
  <2> DEFINE turns == Latest(history)
  <2> HIDE DEF N, shown
  <2>1. turns = [i \in 1..shown |-> turns[i]] /\ \A i \in 1..shown : turns[i] \in T
    BY <1>3, <1>4
  <2> HIDE DEF turns
  <2>2. turns \in Seq(T) /\ Len(turns) = shown
    BY <1>2, <2>1
  <2> QED BY <2>2 DEF turns
<1>6. CASE N <= MaxHistoryTurns
  <2>1. shown = N /\ CappedHistory(history) = history
    BY <1>1, <1>2, <1>6 DEF CappedHistory
  <2>2. \A i \in 1..N : Latest(history)[i] = history[i]
    BY <1>2, <1>3, <2>1
  <2> QED BY <1>1, <1>5, <2>1, <2>2, SeqEqual
<1>7. CASE ~(N <= MaxHistoryTurns)
  <2>1. shown = MaxHistoryTurns /\ CappedHistory(history) = SubSeq(history, N - shown + 1, N)
    <3>1. shown = MaxHistoryTurns
      <4> HIDE DEF N
      <4> QED BY <1>1, <1>2, <1>7
    <3> QED BY <1>1, <1>2, <1>7, <3>1 DEF CappedHistory
  <2>2. /\ CappedHistory(history) \in Seq(T) /\ Len(CappedHistory(history)) = shown
        /\ \A i \in 1..shown : CappedHistory(history)[i] = history[N - shown + i]
    <3>1. \A i \in (N - shown + 1)..N : history[i] \in T
      BY <1>1, <1>2
    <3>2. /\ SubSeq(history, N - shown + 1, N) \in Seq(T)
          /\ Len(SubSeq(history, N - shown + 1, N)) = shown
          /\ \A i \in 1..shown : SubSeq(history, N - shown + 1, N)[i] = history[N - shown + i]
      <4> HIDE DEF shown, N
      <4> QED BY <1>2, <3>1
    <3> QED BY <2>1, <3>2
  <2>3. \A i \in 1..shown : Latest(history)[i] = history[N - shown + i]
    BY <1>3
  <2> QED BY <1>5, <2>2, <2>3, SeqEqual
<1> QED BY <1>5, <1>6, <1>7

\* The lines of the two sections.
LEMMA SectionLines ==
  ASSUME NEW r, NEW history \in Histories, cell[r].checklist \in Seq(Phrases)
  PROVE  /\ RenderChecklist(cell[r].checklist) \in Seq(LinesOf(r, history))
         /\ RenderChecklist(cell[r].checklist)
              = [i \in DOMAIN cell[r].checklist |-> Line("step", <<i, cell[r].checklist[i]>>)]
         /\ Len(RenderChecklist(cell[r].checklist)) = Len(cell[r].checklist)
         /\ RenderHistory(CappedHistory(history)) \in Seq(LinesOf(r, history))
         /\ RenderHistory(CappedHistory(history))
              = [i \in DOMAIN Latest(history) |-> Spoken(Latest(history)[i])]
         /\ Len(RenderHistory(CappedHistory(history))) = Len(Latest(history))
         /\ \A lines \in {RenderChecklist(cell[r].checklist), RenderHistory(CappedHistory(history))} :
              \A i \in 1..Len(lines) : ~IsBlank(lines[i])
<1> DEFINE S == LinesOf(r, history)
           items == cell[r].checklist
           turns == Latest(history)
           steps == RenderChecklist(items)
           told == RenderHistory(turns)
<1>1. PICK T : turns \in Seq(T)
  BY Conversation
<1>2. CappedHistory(history) = turns
  BY Conversation
<1>3. /\ Len(items) \in Nat /\ DOMAIN items = 1..Len(items)
      /\ Len(turns) \in Nat /\ DOMAIN turns = 1..Len(turns)
  <2> HIDE DEF items, turns
  <2>1. items \in Seq(Phrases)
    BY DEF items
  <2> QED BY <1>1, <2>1, LenProperties
<1>4. /\ \A i \in DOMAIN items : steps[i] \in S
      /\ \A i \in DOMAIN turns : told[i] \in S
  BY <1>2 DEF LinesOf
<1>5. /\ DOMAIN steps = 1..Len(items) /\ DOMAIN told = 1..Len(turns)
  BY <1>3 DEF RenderChecklist, RenderHistory
<1>6. steps = [i \in DOMAIN items |-> Line("step", <<i, items[i]>>)]
  BY DEF RenderChecklist, Line
<1>7. told = [i \in DOMAIN turns |-> Spoken(turns[i])]
  BY DEF RenderHistory, Spoken, Told, Line
<1>8. \A i \in DOMAIN items : ~IsBlank(steps[i])
  <2>1. \A i \in DOMAIN items : steps[i].label = "step"
    BY <1>6 DEF Line
  <2> HIDE DEF items, steps
  <2> QED BY <2>1 DEF IsBlank
<1>9. \A i \in DOMAIN turns : ~IsBlank(told[i])
  <2>1. \A i \in DOMAIN turns : told[i].label \in {"operator", "asisten"}
    BY <1>7 DEF Spoken, Told, Line
  <2> HIDE DEF turns, told
  <2> QED BY <2>1 DEF IsBlank
<1>10. steps = [i \in 1..Len(items) |-> steps[i]] /\ told = [i \in 1..Len(turns) |-> told[i]]
  BY <1>3, <1>5, <1>6, <1>7
<1> HIDE DEF S, items, turns, steps, told
<1>11. steps \in Seq(S) /\ Len(steps) = Len(items)
  BY <1>3, <1>4, <1>10
<1>12. told \in Seq(S) /\ Len(told) = Len(turns)
  BY <1>3, <1>4, <1>10
<1> QED
  BY <1>2, <1>3, <1>6, <1>7, <1>8, <1>9, <1>11, <1>12 DEF S, items, turns, steps, told

\* Emitting a line of the template leaves lines of the prompt.
LEMMA EmitsLines ==
  ASSUME NEW r, NEW history \in Histories, cell[r].checklist \in Seq(Phrases),
         NEW out \in Seq(LinesOf(r, history)), NEW n \in 1..24
  PROVE  Emit(out, Template[n], r, history) \in Seq(LinesOf(r, history))
<1> DEFINE S == LinesOf(r, history)
           line == Template[n]
<1>1. Substitute(line, ScalarValues(r)) \in S
  BY DEF LinesOf
<1>2. /\ RenderChecklist(cell[r].checklist) \in Seq(S)
      /\ RenderHistory(CappedHistory(history)) \in Seq(S)
  BY SectionLines
<1>3. ASSUME NEW header, NEW lines \in Seq(S)
      PROVE  Section(out, header, lines) \in Seq(S)
  <2> HIDE DEF S
  <2>1. DropPrecedingHeader(out, header) \in Seq(S)
    <3>1. out # <<>> => SubSeq(out, 1, Len(out) - 1) \in Seq(S)
      BY DEF S
    <3> QED BY <3>1 DEF DropPrecedingHeader, S
  <2>2. out \o lines \in Seq(S)
    BY DEF S
  <2> QED BY <2>1, <2>2 DEF Section
<1>4. Append(out, Substitute(line, ScalarValues(r))) \in Seq(S)
  <2> HIDE DEF S, line
  <2>1. out \in Seq(S)
    BY DEF S
  <2> QED BY <1>1, <2>1
<1>5. Emit(out, line, r, history) \in Seq(S)
  <2> HIDE DEF S, line
  <2>1. out \in Seq(S)
    BY DEF S
  <2> QED BY <1>2, <1>3, <1>4, <2>1 DEF Emit
<1> QED BY <1>5

\* RenderPrompt, unfolded: what has been emitted after each line of the template.
Emitted(f, r, history) ==
  /\ RenderPrompt(r, history) = CollapseBlankRuns(f[24])
  /\ f[0] = <<>>
  /\ \A n \in 0..24 : f[n] \in Seq(LinesOf(r, history))
  /\ \A n \in 1..24 : f[n] = Emit(f[n - 1], Template[n], r, history)

\* There is such a function: the recursion of RenderPrompt is well defined, and every
\* line of it leaves lines of the prompt.
LEMMA Emitting ==
  ASSUME NEW r, NEW history \in Histories, cell[r].checklist \in Seq(Phrases)
  PROVE  \E f : Emitted(f, r, history)
<1> DEFINE S == LinesOf(r, history)
           step == [p \in (1..24) \X Seq(S) |-> Emit(p[2], Template[p[1]], r, history)]
           body(g, n) == IF n = 0 THEN <<>> ELSE Emit(g[n - 1], Template[n], r, history)
           Def(g) == g = [n \in 0..Len(Template) |-> body(g, n)]
           emitted == CHOOSE g : Def(g)
<1>1. step \in [(1..24) \X Seq(S) -> Seq(S)]
  <2>1. \A n \in 1..24, out \in Seq(S) : Emit(out, Template[n], r, history) \in Seq(S)
    BY EmitsLines
  <2> HIDE DEF S
  <2> QED BY <2>1
<1>2. PICK f : Unfolds(f, Seq(S), 24, <<>>, step)
  <2>1. <<>> \in Seq(S) /\ 24 \in Nat
    OBVIOUS
  <2> HIDE DEF step, S
  <2> QED BY <1>1, <2>1, Recursion
<1>3. /\ f \in [0..24 -> Seq(S)] /\ f[0] = <<>>
      /\ \A n \in 1..24 : f[n - 1] \in Seq(S) /\ f[n] = step[<<n, f[n - 1]>>]
  <2> HIDE DEF step, S
  <2> QED BY <1>2 DEF Unfolds
<1>4. \A n \in 1..24 : f[n] = Emit(f[n - 1], Template[n], r, history)
  <2> HIDE DEF S
  <2>1. \A n \in 1..24, out \in Seq(S) : step[<<n, out>>] = Emit(out, Template[n], r, history)
    OBVIOUS
  <2> HIDE DEF step
  <2> QED BY <1>3, <2>1
<1>5. Def(f)
  <2>1. ASSUME NEW n \in 0..24 PROVE f[n] = body(f, n)
    <3> HIDE DEF S, step
    <3>1. CASE n = 0
      BY <1>3, <3>1
    <3>2. CASE n \in 1..24
      <4>1. f[n] = Emit(f[n - 1], Template[n], r, history)
        BY <1>4, <3>2
      <4>2. n # 0
        BY <3>2
      <4> QED BY <4>1, <4>2
    <3> QED BY <3>1, <3>2
  <2> HIDE DEF body, S
  <2>2. f = [n \in 0..24 |-> body(f, n)]
    BY <1>3, <2>1
  <2> QED BY <2>2, TemplateLines
<1>6. Def(emitted)
  <2> HIDE DEF Def
  <2> QED BY <1>5
<1>7. RenderPrompt(r, history) = CollapseBlankRuns(emitted[24])
  BY TemplateLines DEF RenderPrompt
<1> HIDE DEF emitted
<1>8. emitted = [n \in 0..24 |-> body(emitted, n)]
  BY <1>6, TemplateLines
<1>9. emitted[0] = <<>>
  BY <1>8
<1>10. \A n \in 1..24 : emitted[n] = Emit(emitted[n - 1], Template[n], r, history)
  <2> SUFFICES ASSUME NEW n \in 1..24
               PROVE  emitted[n] = Emit(emitted[n - 1], Template[n], r, history)
    OBVIOUS
  <2>1. n \in 0..24 /\ n # 0
    OBVIOUS
  <2>2. emitted[n] = body(emitted, n)
    BY <1>8, <2>1
  <2> QED BY <2>1, <2>2
<1>11. \A n \in 0..24 : emitted[n] \in Seq(S)
  <2> DEFINE Good == {n \in Nat : n <= 24 => emitted[n] \in Seq(S)}
  <2>1. 0 \in Good
    <3> HIDE DEF S
    <3> QED BY <1>9, EmptySeq
  <2>2. ASSUME NEW n \in Nat, n \in Good PROVE n + 1 \in Good
    <3> SUFFICES ASSUME n + 1 <= 24 PROVE emitted[n + 1] \in Seq(S)
      OBVIOUS
    <3>1. n + 1 \in 1..24 /\ (n + 1) - 1 = n /\ emitted[n] \in Seq(S)
      BY <2>2
    <3>2. emitted[n + 1] = Emit(emitted[n], Template[n + 1], r, history)
      BY <1>10, <3>1
    <3> QED BY <3>1, <3>2, EmitsLines
  <2>3. Nat \subseteq Good
    <3> HIDE DEF Good
    <3> QED BY <2>1, <2>2, Induction
  <2> QED BY <2>3
<1> QED BY <1>7, <1>9, <1>10, <1>11 DEF Emitted

-----------------------------------------------------------------------------
(* The prompt, section after section. *)

\* Appending to a text without gaps.
LEMMA Appending ==
  ASSUME NEW S, NEW s \in Seq(S), NEW x, Append(s, x) \in Seq(S), Gapless(s),
         \/ ~IsBlank(x)
         \/ s = <<>>
         \/ ~IsBlank(s[Len(s)])
  PROVE  /\ x \in S
         /\ Gapless(Append(s, x))
         /\ Append(s, x) # <<>> /\ Append(s, x)[Len(Append(s, x))] = x
<1> DEFINE t == Append(s, x)
<1>1. /\ Len(s) \in Nat /\ Len(t) = Len(s) + 1 /\ t[Len(t)] = x /\ t # <<>>
      /\ \A i \in 1..Len(s) : t[i] = s[i]
  OBVIOUS
<1>2. x \in S
  BY <1>1
<1>3. s = <<>> => Len(s) = 0
  OBVIOUS
<1> HIDE DEF t
<1>4. ASSUME NEW i \in 2..Len(t), IsBlank(t[i - 1]), IsBlank(t[i]) PROVE FALSE
  <2>1. CASE i = Len(t)
    BY <1>1, <1>3, <1>4, <2>1
  <2>2. CASE i # Len(t)
    <3>1. i \in 2..Len(s) /\ i - 1 \in 1..Len(s) /\ i \in 1..Len(s)
      BY <1>1, <2>2
    <3> QED BY <1>1, <1>4, <3>1 DEF Gapless
  <2> QED BY <2>1, <2>2
<1> QED BY <1>1, <1>2, <1>4 DEF t, Gapless

\* So does a section without blank lines.
LEMMA Extending ==
  ASSUME NEW S, NEW s \in Seq(S), NEW t \in Seq(S), Gapless(s), t # <<>>,
         \A i \in 1..Len(t) : ~IsBlank(t[i])
  PROVE  /\ Gapless(s \o t)
         /\ s \o t # <<>> /\ ~IsBlank((s \o t)[Len(s \o t)])
<1> DEFINE u == s \o t
<1>1. /\ Len(s) \in Nat /\ Len(t) \in Nat /\ Len(t) > 0 /\ Len(u) = Len(s) + Len(t) /\ u # <<>>
      /\ \A i \in 1..Len(s) : u[i] = s[i]
      /\ \A i \in (Len(s) + 1)..Len(u) : u[i] = t[i - Len(s)]
  OBVIOUS
<1> HIDE DEF u
<1>2. \A i \in (Len(s) + 1)..Len(u) : i - Len(s) \in 1..Len(t) /\ ~IsBlank(u[i])
  BY <1>1
<1>3. ASSUME NEW i \in 2..Len(u), IsBlank(u[i - 1]), IsBlank(u[i]) PROVE FALSE
  <2>1. i \in 2..Len(s) /\ i - 1 \in 1..Len(s) /\ i \in 1..Len(s)
    BY <1>1, <1>2, <1>3
  <2> QED BY <1>1, <1>3, <2>1 DEF Gapless
<1>4. Len(u) \in (Len(s) + 1)..Len(u)
  BY <1>1
<1> QED BY <1>1, <1>2, <1>3, <1>4 DEF u, Gapless

\* Lines without a gap that end with text.
EndsInText(lines) == Gapless(lines) /\ lines # <<>> /\ ~IsBlank(lines[Len(lines)])

\* A fact that there always is.
LEMMA EmitKnown ==
  ASSUME NEW out, NEW r, NEW history,
         NEW name, name \notin {"{checklist}", "{history}"}, name \notin Omittable
  PROVE  Emit(out, Scalar(name), r, history) = Append(out, Told(name, ScalarValues(r)[name]))
BY EmitScalar

\* A line that goes with its value.
Optionally(out, value, line) == IF value = <<>> THEN out ELSE Append(out, line)

\* The lines it adds.
OptionalLine(value, line) == IF value = <<>> THEN <<>> ELSE <<line>>

\* A fact that there may not be.
LEMMA EmitOmittable ==
  ASSUME NEW out, NEW r, NEW history, NEW name \in {"dominant_indicator", "calibration_quality"}
  PROVE  Emit(out, Scalar(name), r, history)
           = Optionally(out, ScalarValues(r)[name], Told(name, ScalarValues(r)[name]))
<1>1. name \in Omittable /\ name \notin {"{checklist}", "{history}"}
  BY DEF Omittable
<1>2. Emit(out, Scalar(name), r, history) =
        IF name \in Omittable /\ ScalarValues(r)[name] = <<>> THEN out
        ELSE Append(out, Told(name, ScalarValues(r)[name]))
  BY <1>1, EmitScalar
<1> DEFINE value == ScalarValues(r)[name]
<1> HIDE DEF value
<1> QED BY <1>1, <1>2 DEF Optionally, value

\* Lines appended one by one are a section.
LEMMA TwoMore ==
  ASSUME NEW S, NEW s \in Seq(S), NEW x \in S, NEW y \in S
  PROVE  /\ <<x, y>> \in Seq(S)
         /\ Append(Append(s, x), y) = s \o <<x, y>>
OBVIOUS

\* The first two lines of a text.
LEMMA TwoLines ==
  ASSUME NEW S, NEW s \in Seq(S), NEW x \in S, NEW y \in S, s = <<>>
  PROVE  Append(Append(s, x), y) = <<x, y>>
<1>1. <<x, y>> \in Seq(S) /\ Append(Append(s, x), y) = s \o <<x, y>>
  BY TwoMore, Zenon
<1>2. <<>> \o <<x, y>> = <<x, y>>
  BY <1>1, ConcatEmptySeq, Zenon
<1> QED BY <1>1, <1>2, Zenon

\* A line of text.
LEMMA TextLine ==
  ASSUME NEW S, NEW s \in Seq(S), NEW t \in Seq(S), NEW x, t = Append(s, x), ~IsBlank(x), Gapless(s)
  PROVE  x \in S /\ EndsInText(t)
BY Appending DEF EndsInText

\* A line that may be left out.
LEMMA Optional ==
  ASSUME NEW S, NEW s \in Seq(S), NEW x, ~IsBlank(x), EndsInText(s),
         NEW value, Optionally(s, value, x) \in Seq(S)
  PROVE  /\ EndsInText(Optionally(s, value, x))
         /\ Optionally(s, value, x) = s \o OptionalLine(value, x)
<1>1. CASE value = <<>>
  BY <1>1, ConcatEmptySeq DEF Optionally, OptionalLine
<1>2. CASE value # <<>>
  <2> DEFINE t == Append(s, x)
  <2>1. t = Optionally(s, value, x) /\ t \in Seq(S)
    BY <1>2 DEF Optionally
  <2>2. x \in S /\ EndsInText(t)
    <3>1. Gapless(s)
      BY DEF EndsInText
    <3> HIDE DEF t
    <3>2. t = Append(s, x)
      BY DEF t
    <3> QED BY <2>1, <3>1, <3>2, TextLine
  <2>3. t = s \o <<x>>
    BY <2>2
  <2>4. OptionalLine(value, x) = <<x>>
    BY <1>2 DEF OptionalLine
  <2> HIDE DEF t
  <2> QED BY <2>1, <2>2, <2>3, <2>4
<1> QED BY <1>1, <1>2

\* The facts of the inspection.
LEMMA FirstLines ==
  ASSUME NEW r, NEW history, NEW f, Emitted(f, r, history)
  PROVE  /\ f[5] = FactLines(fact[r], quality[r])
         /\ EndsInText(f[5])
<1> DEFINE S == LinesOf(r, history)
           value == ScalarValues(r)
           title == Heading("FAKTA")
           status == Told("status", <<fact[r].status>>)
           score == Line("z", <<value["z"], <<300>>, <<600>>>>)
           indicator == Told("dominant_indicator", value["dominant_indicator"])
           known == Told("calibration_quality", value["calibration_quality"])
<1>1. f[1] = Append(f[0], title)
  <2>1. ASSUME NEW out PROVE Emit(out, Template[1], r, history) = Append(out, title)
    <3>1. Template[1] = Fixed("FAKTA")
      BY DEF Template
    <3> QED BY <3>1, EmitFixed
  <2>2. f[1] = Emit(f[0], Template[1], r, history)
    BY DEF Emitted
  <2> QED BY <2>1, <2>2
<1>2. f[2] = Append(f[1], status)
  <2>1. ASSUME NEW out PROVE Emit(out, Template[2], r, history) = Append(out, status)
    <3>1. Template[2] = Scalar("status")
      BY DEF Template
    <3>2. ScalarValues(r)["status"] = <<fact[r].status>>
      BY DEF ScalarValues
    <3>3. "status" \notin {"{checklist}", "{history}"} /\ "status" \notin Omittable
      BY DEF Omittable
    <3>4. Emit(out, Scalar("status"), r, history)
            = Append(out, Told("status", ScalarValues(r)["status"]))
      BY <3>3, EmitKnown
    <3> QED BY <3>1, <3>2, <3>4
  <2>2. f[2] = Emit(f[1], Template[2], r, history)
    BY DEF Emitted
  <2> QED BY <2>1, <2>2
<1>3. f[3] = Optionally(f[2], value["z"], score)
  <2>1. ASSUME NEW out
        PROVE Emit(out, Template[3], r, history)
                 = Optionally(out, value["z"], score)
    <3>1. Template[3] = Field("z", <<"z", "z_warning", "z_critical">>)
      BY DEF Template
    <3>2. Emit(out, Field("z", <<"z", "z_warning", "z_critical">>), r, history)
            = Optionally(out, value["z"], score)
      BY EmitScore DEF Optionally
    <3> QED BY <3>1, <3>2
  <2>2. f[3] = Emit(f[2], Template[3], r, history)
    BY DEF Emitted
  <2> QED BY <2>1, <2>2
<1>4. f[4] = Optionally(f[3], value["dominant_indicator"], indicator)
  <2>1. ASSUME NEW out
        PROVE Emit(out, Template[4], r, history)
                 = Optionally(out, value["dominant_indicator"], indicator)
    <3>1. Template[4] = Scalar("dominant_indicator")
      BY DEF Template
    <3>2. Emit(out, Scalar("dominant_indicator"), r, history)
            = Optionally(out, ScalarValues(r)["dominant_indicator"],
                         Told("dominant_indicator", ScalarValues(r)["dominant_indicator"]))
      BY EmitOmittable
    <3> QED BY <3>1, <3>2
  <2>2. f[4] = Emit(f[3], Template[4], r, history)
    BY DEF Emitted
  <2> QED BY <2>1, <2>2
<1>5. f[5] = Optionally(f[4], value["calibration_quality"], known)
  <2>1. ASSUME NEW out
        PROVE Emit(out, Template[5], r, history)
                 = Optionally(out, value["calibration_quality"], known)
    <3>1. Template[5] = Scalar("calibration_quality")
      BY DEF Template
    <3>2. Emit(out, Scalar("calibration_quality"), r, history)
            = Optionally(out, ScalarValues(r)["calibration_quality"],
                         Told("calibration_quality", ScalarValues(r)["calibration_quality"]))
      BY EmitOmittable
    <3> QED BY <3>1, <3>2
  <2>2. f[5] = Emit(f[4], Template[5], r, history)
    BY DEF Emitted
  <2> QED BY <2>1, <2>2
<1>6. /\ ~IsBlank(title) /\ ~IsBlank(status) /\ ~IsBlank(score) /\ ~IsBlank(indicator)
      /\ ~IsBlank(known)
  BY DEF IsBlank, Heading, Told, Line
<1>7. /\ OptionalLine(value["z"], score)
           = IF fact[r].z = NoZ THEN <<>>
             ELSE <<Line("z", <<<<FormatFloat1(fact[r].z)>>, <<300>>, <<600>>>>)>>
      /\ OptionalLine(value["dominant_indicator"], indicator)
           = IF fact[r].indicator = "" THEN <<>>
             ELSE <<Told("dominant_indicator", <<fact[r].indicator>>)>>
      /\ OptionalLine(value["calibration_quality"], known)
           = IF quality[r] = "" THEN <<>> ELSE <<Told("calibration_quality", <<quality[r]>>)>>
  <2>1. /\ value["z"] = IF fact[r].z = NoZ THEN <<>> ELSE <<FormatFloat1(fact[r].z)>>
        /\ value["dominant_indicator"] = IF fact[r].indicator = "" THEN <<>> ELSE <<fact[r].indicator>>
        /\ value["calibration_quality"] = IF quality[r] = "" THEN <<>> ELSE <<quality[r]>>
    BY DEF ScalarValues, Shown
  <2>2. \A x : <<x>> # <<>>
    OBVIOUS
  <2> HIDE DEF value
  <2>3. OptionalLine(value["z"], score)
           = IF fact[r].z = NoZ THEN <<>>
             ELSE <<Line("z", <<<<FormatFloat1(fact[r].z)>>, <<300>>, <<600>>>>)>>
    <3>1. CASE fact[r].z = NoZ
      BY <2>1, <3>1 DEF OptionalLine
    <3>2. CASE fact[r].z # NoZ
      <4>1. value["z"] = <<FormatFloat1(fact[r].z)>> /\ value["z"] # <<>>
        BY <2>1, <2>2, <3>2
      <4>2. OptionalLine(value["z"], score)
              = <<Line("z", <<<<FormatFloat1(fact[r].z)>>, <<300>>, <<600>>>>)>>
        BY <4>1 DEF OptionalLine, score
      <4> QED BY <3>2, <4>2
    <3> QED BY <3>1, <3>2
  <2>4. OptionalLine(value["dominant_indicator"], indicator)
           = IF fact[r].indicator = "" THEN <<>>
             ELSE <<Told("dominant_indicator", <<fact[r].indicator>>)>>
    BY <2>1, <2>2 DEF OptionalLine
  <2>5. OptionalLine(value["calibration_quality"], known)
           = IF quality[r] = "" THEN <<>> ELSE <<Told("calibration_quality", <<quality[r]>>)>>
    BY <2>1, <2>2 DEF OptionalLine
  <2> QED BY <2>3, <2>4, <2>5
<1> DEFINE e0 == f[0]  e1 == f[1]  e2 == f[2]  e3 == f[3]  e4 == f[4]  e5 == f[5]
<1>8. /\ e0 = <<>> /\ e0 \in Seq(S) /\ e1 \in Seq(S) /\ e2 \in Seq(S) /\ e3 \in Seq(S)
      /\ e4 \in Seq(S) /\ e5 \in Seq(S)
  BY DEF Emitted
<1> HIDE DEF S, value, title, status, score, indicator, known
<1>9. /\ e1 = Append(e0, title)
      /\ e2 = Append(e1, status)
      /\ e3 = Optionally(e2, value["z"], score)
      /\ e4 = Optionally(e3, value["dominant_indicator"], indicator)
      /\ e5 = Optionally(e4, value["calibration_quality"], known)
  BY <1>1, <1>2, <1>3, <1>4, <1>5
<1> HIDE DEF e0, e1, e2, e3, e4, e5
<1>10. e1 = <<title>> /\ title \in S /\ EndsInText(e1)
  <2>1. Gapless(e0)
    BY <1>8 DEF Gapless
  <2>2. title \in S /\ EndsInText(e1)
    BY <1>6, <1>8, <1>9, <2>1, TextLine
  <2> QED BY <1>8, <1>9, <2>2
<1>11. e2 = <<title, status>> /\ EndsInText(e2)
  <2>1. status \in S /\ EndsInText(e2)
    <3>1. Gapless(e1)
      BY <1>10 DEF EndsInText
    <3> QED BY <1>6, <1>8, <1>9, <3>1, TextLine
  <2>2. e2 = <<title, status>>
    <3>1. Append(Append(e0, title), status) = <<title, status>>
      BY <1>8, <1>10, <2>1, TwoLines
    <3> QED BY <1>9, <3>1
  <2> QED BY <2>1, <2>2
<1>12. EndsInText(e3) /\ e3 = e2 \o OptionalLine(value["z"], score)
  <2>1. EndsInText(e2) /\ e2 \in Seq(S) /\ ~IsBlank(score)
    BY <1>6, <1>8, <1>11
  <2> DEFINE v == value["z"]
  <2>2. Optionally(e2, v, score) \in Seq(S) /\ e3 = Optionally(e2, v, score)
    BY <1>8, <1>9
  <2> HIDE DEF v
  <2>3. EndsInText(e3) /\ e3 = e2 \o OptionalLine(v, score)
    BY <2>1, <2>2, Optional
  <2> QED BY <2>3 DEF v
<1>13. EndsInText(e4) /\ e4 = e3 \o OptionalLine(value["dominant_indicator"], indicator)
  <2>1. EndsInText(e3) /\ e3 \in Seq(S) /\ ~IsBlank(indicator)
    BY <1>6, <1>8, <1>12
  <2> DEFINE v == value["dominant_indicator"]
  <2>2. Optionally(e3, v, indicator) \in Seq(S) /\ e4 = Optionally(e3, v, indicator)
    BY <1>8, <1>9
  <2> HIDE DEF v
  <2>3. EndsInText(e4) /\ e4 = e3 \o OptionalLine(v, indicator)
    BY <2>1, <2>2, Optional
  <2> QED BY <2>3 DEF v
<1>14. EndsInText(e5) /\ e5 = e4 \o OptionalLine(value["calibration_quality"], known)
  <2>1. EndsInText(e4) /\ e4 \in Seq(S) /\ ~IsBlank(known)
    BY <1>6, <1>8, <1>13
  <2> DEFINE v == value["calibration_quality"]
  <2>2. Optionally(e4, v, known) \in Seq(S) /\ e5 = Optionally(e4, v, known)
    BY <1>8, <1>9
  <2> HIDE DEF v
  <2>3. EndsInText(e5) /\ e5 = e4 \o OptionalLine(v, known)
    BY <2>1, <2>2, Optional
  <2> QED BY <2>3 DEF v
<1>15. e5 = <<title, status>> \o OptionalLine(value["z"], score)
            \o OptionalLine(value["dominant_indicator"], indicator)
            \o OptionalLine(value["calibration_quality"], known)
  BY <1>11, <1>12, <1>13, <1>14, Zenon
<1> DEFINE scores == IF fact[r].z = NoZ THEN <<>>
                     ELSE <<Line("z", <<<<FormatFloat1(fact[r].z)>>, <<300>>, <<600>>>>)>>
           indicators == IF fact[r].indicator = "" THEN <<>>
                         ELSE <<Told("dominant_indicator", <<fact[r].indicator>>)>>
           qualities == IF quality[r] = "" THEN <<>>
                        ELSE <<Told("calibration_quality", <<quality[r]>>)>>
<1>16. /\ OptionalLine(value["z"], score) = scores
       /\ OptionalLine(value["dominant_indicator"], indicator) = indicators
       /\ OptionalLine(value["calibration_quality"], known) = qualities
  BY <1>7, Zenon
<1> HIDE DEF scores, indicators, qualities
<1>17. e5 = <<title, status>> \o scores \o indicators \o qualities
  BY <1>15, <1>16, Zenon
<1> QED
  BY <1>14, <1>17, Zenon DEF e5, title, status, scores, indicators, qualities, FactLines

\* A blank line after text.
LEMMA BlankLine ==
  ASSUME NEW S, NEW s \in Seq(S), NEW t \in Seq(S), NEW x, t = Append(s, x), IsBlank(x),
         EndsInText(s)
  PROVE  x \in S /\ Gapless(t) /\ t # <<>> /\ t[Len(t)] = x
BY Appending DEF EndsInText

\* The context, and the head of the decision.
LEMMA SecondLines ==
  ASSUME NEW r, NEW history, NEW f, Emitted(f, r, history), EndsInText(f[5])
  PROVE  /\ f[15] = f[5] \o ContextLines(ask[r].context) \o DecisionLines(cell[r])
         /\ EndsInText(f[15])
<1> DEFINE S == LinesOf(r, history)
           l6 == Told("drive_type", <<ask[r].context[1]>>)
           l7 == Told("recency", <<ask[r].context[2]>>)
           l8 == Told("machine_age", <<"given">>)
           l9 == Told("hours_per_day", <<"given">>)
           l10 == Told("has_backup", <<"given">>)
           l11 == Told("load_state", <<"given">>)
           l12 == Blank
           l13 == Heading("KEPUTUSAN SISTEM")
           l14 == Told("urgency", <<cell[r].urgency>>)
           l15 == Told("safety_gate", cell[r].gate)
<1>1. f[6] = Append(f[5], l6)
  <2>1. ASSUME NEW out PROVE Emit(out, Template[6], r, history) = Append(out, l6)
    <3>1. Template[6] = Scalar("drive_type")
      BY DEF Template
    <3>2. ScalarValues(r)["drive_type"] = <<ask[r].context[1]>>
      BY DEF ScalarValues
    <3>3. "drive_type" \notin {"{checklist}", "{history}"} /\ "drive_type" \notin Omittable
      BY DEF Omittable
    <3>4. Emit(out, Scalar("drive_type"), r, history)
            = Append(out, Told("drive_type", ScalarValues(r)["drive_type"]))
      BY <3>3, EmitKnown
    <3> QED BY <3>1, <3>2, <3>4
  <2>2. f[6] = Emit(f[5], Template[6], r, history)
    BY DEF Emitted
  <2> QED BY <2>1, <2>2
<1>2. f[7] = Append(f[6], l7)
  <2>1. ASSUME NEW out PROVE Emit(out, Template[7], r, history) = Append(out, l7)
    <3>1. Template[7] = Scalar("recency")
      BY DEF Template
    <3>2. ScalarValues(r)["recency"] = <<ask[r].context[2]>>
      BY DEF ScalarValues
    <3>3. "recency" \notin {"{checklist}", "{history}"} /\ "recency" \notin Omittable
      BY DEF Omittable
    <3>4. Emit(out, Scalar("recency"), r, history)
            = Append(out, Told("recency", ScalarValues(r)["recency"]))
      BY <3>3, EmitKnown
    <3> QED BY <3>1, <3>2, <3>4
  <2>2. f[7] = Emit(f[6], Template[7], r, history)
    BY DEF Emitted
  <2> QED BY <2>1, <2>2
<1>3. f[8] = Append(f[7], l8)
  <2>1. ASSUME NEW out PROVE Emit(out, Template[8], r, history) = Append(out, l8)
    <3>1. Template[8] = Scalar("machine_age")
      BY DEF Template
    <3>2. ScalarValues(r)["machine_age"] = <<"given">>
      BY DEF ScalarValues
    <3>3. "machine_age" \notin {"{checklist}", "{history}"} /\ "machine_age" \notin Omittable
      BY DEF Omittable
    <3>4. Emit(out, Scalar("machine_age"), r, history)
            = Append(out, Told("machine_age", ScalarValues(r)["machine_age"]))
      BY <3>3, EmitKnown
    <3> QED BY <3>1, <3>2, <3>4
  <2>2. f[8] = Emit(f[7], Template[8], r, history)
    BY DEF Emitted
  <2> QED BY <2>1, <2>2
<1>4. f[9] = Append(f[8], l9)
  <2>1. ASSUME NEW out PROVE Emit(out, Template[9], r, history) = Append(out, l9)
    <3>1. Template[9] = Scalar("hours_per_day")
      BY DEF Template
    <3>2. ScalarValues(r)["hours_per_day"] = <<"given">>
      BY DEF ScalarValues
    <3>3. "hours_per_day" \notin {"{checklist}", "{history}"} /\ "hours_per_day" \notin Omittable
      BY DEF Omittable
    <3>4. Emit(out, Scalar("hours_per_day"), r, history)
            = Append(out, Told("hours_per_day", ScalarValues(r)["hours_per_day"]))
      BY <3>3, EmitKnown
    <3> QED BY <3>1, <3>2, <3>4
  <2>2. f[9] = Emit(f[8], Template[9], r, history)
    BY DEF Emitted
  <2> QED BY <2>1, <2>2
<1>5. f[10] = Append(f[9], l10)
  <2>1. ASSUME NEW out PROVE Emit(out, Template[10], r, history) = Append(out, l10)
    <3>1. Template[10] = Scalar("has_backup")
      BY DEF Template
    <3>2. ScalarValues(r)["has_backup"] = <<"given">>
      BY DEF ScalarValues
    <3>3. "has_backup" \notin {"{checklist}", "{history}"} /\ "has_backup" \notin Omittable
      BY DEF Omittable
    <3>4. Emit(out, Scalar("has_backup"), r, history)
            = Append(out, Told("has_backup", ScalarValues(r)["has_backup"]))
      BY <3>3, EmitKnown
    <3> QED BY <3>1, <3>2, <3>4
  <2>2. f[10] = Emit(f[9], Template[10], r, history)
    BY DEF Emitted
  <2> QED BY <2>1, <2>2
<1>6. f[11] = Append(f[10], l11)
  <2>1. ASSUME NEW out PROVE Emit(out, Template[11], r, history) = Append(out, l11)
    <3>1. Template[11] = Scalar("load_state")
      BY DEF Template
    <3>2. ScalarValues(r)["load_state"] = <<"given">>
      BY DEF ScalarValues
    <3>3. "load_state" \notin {"{checklist}", "{history}"} /\ "load_state" \notin Omittable
      BY DEF Omittable
    <3>4. Emit(out, Scalar("load_state"), r, history)
            = Append(out, Told("load_state", ScalarValues(r)["load_state"]))
      BY <3>3, EmitKnown
    <3> QED BY <3>1, <3>2, <3>4
  <2>2. f[11] = Emit(f[10], Template[11], r, history)
    BY DEF Emitted
  <2> QED BY <2>1, <2>2
<1>7. f[12] = Append(f[11], l12)
  <2>1. ASSUME NEW out PROVE Emit(out, Template[12], r, history) = Append(out, l12)
    <3>1. Template[12] = Fixed("")
      BY DEF Template
    <3> QED BY <3>1, EmitFixed DEF Blank
  <2>2. f[12] = Emit(f[11], Template[12], r, history)
    BY DEF Emitted
  <2> QED BY <2>1, <2>2
<1>8. f[13] = Append(f[12], l13)
  <2>1. ASSUME NEW out PROVE Emit(out, Template[13], r, history) = Append(out, l13)
    <3>1. Template[13] = Fixed("KEPUTUSAN SISTEM")
      BY DEF Template
    <3> QED BY <3>1, EmitFixed
  <2>2. f[13] = Emit(f[12], Template[13], r, history)
    BY DEF Emitted
  <2> QED BY <2>1, <2>2
<1>9. f[14] = Append(f[13], l14)
  <2>1. ASSUME NEW out PROVE Emit(out, Template[14], r, history) = Append(out, l14)
    <3>1. Template[14] = Scalar("urgency")
      BY DEF Template
    <3>2. ScalarValues(r)["urgency"] = <<cell[r].urgency>>
      BY DEF ScalarValues
    <3>3. "urgency" \notin {"{checklist}", "{history}"} /\ "urgency" \notin Omittable
      BY DEF Omittable
    <3>4. Emit(out, Scalar("urgency"), r, history)
            = Append(out, Told("urgency", ScalarValues(r)["urgency"]))
      BY <3>3, EmitKnown
    <3> QED BY <3>1, <3>2, <3>4
  <2>2. f[14] = Emit(f[13], Template[14], r, history)
    BY DEF Emitted
  <2> QED BY <2>1, <2>2
<1>10. f[15] = Append(f[14], l15)
  <2>1. ASSUME NEW out PROVE Emit(out, Template[15], r, history) = Append(out, l15)
    <3>1. Template[15] = Scalar("safety_gate")
      BY DEF Template
    <3>2. ScalarValues(r)["safety_gate"] = cell[r].gate
      BY DEF ScalarValues
    <3>3. "safety_gate" \notin {"{checklist}", "{history}"} /\ "safety_gate" \notin Omittable
      BY DEF Omittable
    <3>4. Emit(out, Scalar("safety_gate"), r, history)
            = Append(out, Told("safety_gate", ScalarValues(r)["safety_gate"]))
      BY <3>3, EmitKnown
    <3> QED BY <3>1, <3>2, <3>4
  <2>2. f[15] = Emit(f[14], Template[15], r, history)
    BY DEF Emitted
  <2> QED BY <2>1, <2>2
<1>11. /\ IsBlank(l12)
       /\ ~IsBlank(l6) /\ ~IsBlank(l7) /\ ~IsBlank(l8) /\ ~IsBlank(l9) /\ ~IsBlank(l10) /\ ~IsBlank(l11)
       /\ ~IsBlank(l13) /\ ~IsBlank(l14) /\ ~IsBlank(l15)
  BY DEF IsBlank, Blank, Heading, Told, Line
<1> DEFINE e5 == f[5]  e6 == f[6]  e7 == f[7]  e8 == f[8]  e9 == f[9]
           e10 == f[10]  e11 == f[11]  e12 == f[12]  e13 == f[13]
           e14 == f[14]  e15 == f[15]
<1>12. /\ e5 \in Seq(S) /\ e6 \in Seq(S) /\ e7 \in Seq(S) /\ e8 \in Seq(S) /\ e9 \in Seq(S)
       /\ e10 \in Seq(S)
       /\ e11 \in Seq(S) /\ e12 \in Seq(S) /\ e13 \in Seq(S) /\ e14 \in Seq(S) /\ e15 \in Seq(S)
  BY DEF Emitted
<1> HIDE DEF S, l6, l7, l8, l9, l10, l11, l12, l13, l14, l15
<1>13. /\ e6 = Append(e5, l6) /\ e7 = Append(e6, l7) /\ e8 = Append(e7, l8)
       /\ e9 = Append(e8, l9) /\ e10 = Append(e9, l10)
       /\ e11 = Append(e10, l11) /\ e12 = Append(e11, l12)
       /\ e13 = Append(e12, l13) /\ e14 = Append(e13, l14) /\ e15 = Append(e14, l15)
  BY <1>1, <1>2, <1>3, <1>4, <1>5, <1>6, <1>7, <1>8, <1>9, <1>10
<1>14. EndsInText(e5)
  OBVIOUS
<1> HIDE DEF e5, e6, e7, e8, e9, e10, e11, e12, e13, e14, e15
<1>15. l6 \in S /\ EndsInText(e6)
  <2>1. Gapless(e5)
    BY <1>14 DEF EndsInText
  <2> QED BY <1>11, <1>12, <1>13, <2>1, TextLine
<1>16. l7 \in S /\ EndsInText(e7)
  <2>1. Gapless(e6)
    BY <1>15 DEF EndsInText
  <2> QED BY <1>11, <1>12, <1>13, <2>1, TextLine
<1>17. l8 \in S /\ EndsInText(e8)
  <2>1. Gapless(e7)
    BY <1>16 DEF EndsInText
  <2> QED BY <1>11, <1>12, <1>13, <2>1, TextLine
<1>18. l9 \in S /\ EndsInText(e9)
  <2>1. Gapless(e8)
    BY <1>17 DEF EndsInText
  <2> QED BY <1>11, <1>12, <1>13, <2>1, TextLine
<1>19. l10 \in S /\ EndsInText(e10)
  <2>1. Gapless(e9)
    BY <1>18 DEF EndsInText
  <2> QED BY <1>11, <1>12, <1>13, <2>1, TextLine
<1>20. l11 \in S /\ EndsInText(e11)
  <2>1. Gapless(e10)
    BY <1>19 DEF EndsInText
  <2> QED BY <1>11, <1>12, <1>13, <2>1, TextLine
<1>21. l12 \in S /\ Gapless(e12)
  BY <1>11, <1>12, <1>13, <1>20, BlankLine
<1>22. l13 \in S /\ EndsInText(e13)
  BY <1>11, <1>12, <1>13, <1>21, TextLine
<1>23. l14 \in S /\ EndsInText(e14)
  <2>1. Gapless(e13)
    BY <1>22 DEF EndsInText
  <2> QED BY <1>11, <1>12, <1>13, <2>1, TextLine
<1>24. l15 \in S /\ EndsInText(e15)
  <2>1. Gapless(e14)
    BY <1>23 DEF EndsInText
  <2> QED BY <1>11, <1>12, <1>13, <2>1, TextLine
<1>25. e11 = e5 \o <<l6, l7, l8, l9, l10, l11>>
  <2>1. l6 \in S /\ l7 \in S /\ l8 \in S /\ l9 \in S /\ l10 \in S /\ l11 \in S
    BY <1>15, <1>16, <1>17, <1>18, <1>19, <1>20
  <2>2. e11 = Append(Append(Append(Append(Append(Append(e5, l6), l7), l8), l9), l10), l11)
    BY <1>13
  <2>3. e5 \in Seq(S)
    BY <1>12
  <2>4. Append(Append(Append(Append(Append(Append(e5, l6), l7), l8), l9), l10), l11)
          = e5 \o <<l6, l7, l8, l9, l10, l11>>
    BY <2>1, <2>3
  <2> QED BY <2>2, <2>4, Zenon
<1>26. e15 = e11 \o <<l12, l13, l14, l15>>
  <2>1. l12 \in S /\ l13 \in S /\ l14 \in S /\ l15 \in S
    BY <1>21, <1>22, <1>23, <1>24
  <2>2. e15 = Append(Append(Append(Append(e11, l12), l13), l14), l15)
    BY <1>13
  <2>3. e11 \in Seq(S)
    BY <1>12
  <2>4. Append(Append(Append(Append(e11, l12), l13), l14), l15)
          = e11 \o <<l12, l13, l14, l15>>
    BY <2>1, <2>3
  <2> QED BY <2>2, <2>4, Zenon
<1> QED
  BY <1>24, <1>25, <1>26, Zenon DEF e5, e15, ContextLines, DecisionLines,
     l6, l7, l8, l9, l10, l11, l12, l13, l14, l15

\* The line that stands for the checklist.
LEMMA EmitChecklist ==
  ASSUME NEW out, NEW r, NEW history, NEW line, line = Fixed("{checklist}")
  PROVE  Emit(out, line, r, history) = Section(out, "langkah:", RenderChecklist(cell[r].checklist))
<1>1. line.label = "{checklist}" /\ line.holes = <<>>
  BY DEF Fixed, Field
<1>2. ~DroppedByEmptyPlaceholder(line, ScalarValues(r))
  BY <1>1, NoHoles
<1> QED BY <1>1, <1>2 DEF Emit

\* The line that stands for the conversation.
LEMMA EmitHistory ==
  ASSUME NEW out, NEW r, NEW history, NEW line, line = Fixed("{history}")
  PROVE  Emit(out, line, r, history)
           = Section(out, "RIWAYAT:", RenderHistory(CappedHistory(history)))
<1>1. line.label = "{history}" /\ line.holes = <<>>
  BY DEF Fixed, Field
<1>2. ~DroppedByEmptyPlaceholder(line, ScalarValues(r))
  BY <1>1, NoHoles
<1> QED BY <1>1, <1>2 DEF Emit

\* A line appended, and taken off again.
LEMMA OneMore ==
  ASSUME NEW S, NEW s \in Seq(S), NEW x \in S
  PROVE  /\ Append(s, x) # <<>>
         /\ Append(s, x)[Len(Append(s, x))] = x
         /\ Append(s, x) = s \o <<x>> /\ <<x>> \in Seq(S)
         /\ SubSeq(Append(s, x), 1, Len(Append(s, x)) - 1) = s
<1> DEFINE t == Append(s, x)
<1>1. /\ t \in Seq(S) /\ t # <<>> /\ Len(t) = Len(s) + 1 /\ t[Len(t)] = x /\ Len(s) \in Nat
      /\ \A i \in 1..Len(s) : t[i] = s[i]
  OBVIOUS
<1>2. t = s \o <<x>> /\ <<x>> \in Seq(S)
  OBVIOUS
<1> HIDE DEF t
<1>3. Len(t) - 1 = Len(s)
  BY <1>1
<1>4. \A i \in 1..Len(s) : t[i] \in S
  BY <1>1
<1>5. /\ SubSeq(t, 1, Len(s)) \in Seq(S) /\ Len(SubSeq(t, 1, Len(s))) = Len(s)
      /\ \A i \in 1..Len(s) : SubSeq(t, 1, Len(s))[i] = s[i]
  BY <1>1, <1>4
<1>6. SubSeq(t, 1, Len(s)) = s
  BY <1>5, SeqEqual
<1> QED BY <1>1, <1>2, <1>3, <1>6 DEF t

\* Sections put together in either order.
LEMMA Regrouped ==
  ASSUME NEW S, NEW s \in Seq(S), NEW x \in S, NEW lines \in Seq(S)
  PROVE  (s \o <<x>>) \o lines = s \o (<<x>> \o lines)
<1> DEFINE u == <<x>>
<1>1. u \in Seq(S)
  OBVIOUS
<1> HIDE DEF u
<1>2. (s \o u) \o lines = s \o (u \o lines)
  BY <1>1, ConcatAssociative
<1> QED BY <1>2 DEF u

\* A section with lines follows its header.
LEMMA SectionAdded ==
  ASSUME NEW S, NEW s \in Seq(S), NEW lines \in Seq(S), lines # <<>>, NEW label, Heading(label) \in S
  PROVE  /\ Section(Append(s, Heading(label)), label, lines) = s \o Under(label, lines)
         /\ Under(label, lines) \in Seq(S)
<1> DEFINE h == Heading(label)
<1>1. h \in S
  OBVIOUS
<1> HIDE DEF h
<1>2. Section(Append(s, h), label, lines) = Append(s, h) \o lines
  BY DEF Section
<1>3. Append(s, h) = s \o <<h>> /\ <<h>> \in Seq(S)
  BY <1>1
<1>4. (s \o <<h>>) \o lines = s \o (<<h>> \o lines)
  BY <1>1, Regrouped
<1>5. <<h>> \o lines \in Seq(S)
  BY <1>3
<1> QED BY <1>2, <1>3, <1>4, <1>5, Zenon DEF h, Under

\* A section without lines takes its header with it.
LEMMA SectionDropped ==
  ASSUME NEW S, NEW s \in Seq(S), NEW label, Heading(label) \in S
  PROVE  Section(Append(s, Heading(label)), label, <<>>) = s
<1> DEFINE h == Heading(label)
           t == Append(s, h)
<1>1. h.label = label
  BY DEF Heading, Line
<1> HIDE DEF h
<1>2. t # <<>> /\ t[Len(t)] = h /\ SubSeq(t, 1, Len(t) - 1) = s
  BY OneMore DEF h
<1> HIDE DEF t
<1>3. DropPrecedingHeader(t, label) = s
  BY <1>1, <1>2 DEF DropPrecedingHeader
<1> QED BY <1>3 DEF Section, t, h

\* Lines none of which is blank.
AllText(lines) == \A i \in 1..Len(lines) : ~IsBlank(lines[i])

\* A header and its lines, or neither.
LEMMA Sectioned ==
  ASSUME NEW S, NEW s \in Seq(S), NEW label, ~IsBlank(Heading(label)),
         Append(s, Heading(label)) \in Seq(S),
         Gapless(s), NEW lines \in Seq(S), AllText(lines)
  PROVE  /\ Heading(label) \in S
         /\ lines = <<>> => Section(Append(s, Heading(label)), label, lines) = s
         /\ lines # <<>> => Section(Append(s, Heading(label)), label, lines) = s \o Under(label, lines)
         /\ lines # <<>> => EndsInText(Section(Append(s, Heading(label)), label, lines))
<1> DEFINE h == Heading(label)
           t == Append(s, h)
<1>1. ~IsBlank(h)
  OBVIOUS
<1>2. h \in S /\ EndsInText(t)
  <2>1. t \in Seq(S) /\ t = Append(s, h)
    OBVIOUS
  <2> HIDE DEF h, t
  <2> QED BY <1>1, <2>1, TextLine
<1>4. lines = <<>> => Section(t, label, lines) = s
  BY <1>2, SectionDropped
<1>5. lines # <<>> => Section(t, label, lines) = s \o Under(label, lines)
  BY <1>2, SectionAdded
<1>6. ASSUME lines # <<>> PROVE EndsInText(Section(t, label, lines))
  <2>1. Section(t, label, lines) = t \o lines
    BY <1>6 DEF Section
  <2>2. EndsInText(t \o lines)
    <3>1. Gapless(t) /\ t \in Seq(S)
      BY <1>2 DEF EndsInText
    <3> HIDE DEF t
    <3> QED BY <1>6, <3>1, Extending DEF EndsInText, AllText
  <2> QED BY <2>1, <2>2
<1> QED BY <1>2, <1>4, <1>5, <1>6

\* The steps of the checklist.
LEMMA Steps ==
  ASSUME NEW r, NEW history \in Histories, cell[r].checklist \in Seq(Phrases),
         NEW f, Emitted(f, r, history), EndsInText(f[15])
  PROVE  /\ f[17] = f[15] \o StepLines(cell[r])
         /\ EndsInText(f[17])
<1> DEFINE S == LinesOf(r, history)
           h == Heading("langkah:")
           items == cell[r].checklist
           steps == RenderChecklist(items)
<1>1. f[16] = Append(f[15], h)
  <2>1. ASSUME NEW out PROVE Emit(out, Template[16], r, history) = Append(out, h)
    <3>1. Template[16] = Fixed("langkah:")
      BY DEF Template
    <3> QED BY <3>1, EmitFixed
  <2>2. f[16] = Emit(f[15], Template[16], r, history)
    BY DEF Emitted
  <2> QED BY <2>1, <2>2
<1>2. f[17] = Section(f[16], "langkah:", steps)
  <2>1. ASSUME NEW out PROVE Emit(out, Template[17], r, history) = Section(out, "langkah:", steps)
    <3>1. Template[17] = Fixed("{checklist}")
      BY DEF Template
    <3> QED BY <3>1, EmitChecklist
  <2>2. f[17] = Emit(f[16], Template[17], r, history)
    BY DEF Emitted
  <2> QED BY <2>1, <2>2
<1>3. /\ steps \in Seq(S) /\ Len(steps) = Len(items) /\ items \in Seq(Phrases)
      /\ steps = [i \in DOMAIN items |-> Line("step", <<i, items[i]>>)]
      /\ \A i \in 1..Len(steps) : ~IsBlank(steps[i])
  BY SectionLines
<1> DEFINE e15 == f[15]  e16 == f[16]  e17 == f[17]
<1>4. e15 \in Seq(S) /\ e16 \in Seq(S) /\ e17 \in Seq(S) /\ EndsInText(e15)
  BY DEF Emitted
<1> HIDE DEF S, h, items, steps
<1>5. e16 = Append(e15, h) /\ e17 = Section(e16, "langkah:", steps)
  BY <1>1, <1>2
<1> HIDE DEF e15, e16, e17
<1>6. steps = <<>> <=> items = <<>>
  BY <1>3, EmptySeq
<1>7. /\ steps = <<>> => e17 = e15
      /\ steps # <<>> => e17 = e15 \o Under("langkah:", steps) /\ EndsInText(e17)
  <2>1. ~IsBlank(Heading("langkah:"))
    BY DEF IsBlank, Heading, Line
  <2>2. e16 = Append(e15, Heading("langkah:"))
    BY <1>5 DEF h
  <2>3. steps \in Seq(S) /\ e15 \in Seq(S) /\ Gapless(e15) /\ AllText(steps)
        /\ Append(e15, Heading("langkah:")) \in Seq(S)
    BY <1>3, <1>4, <2>2 DEF EndsInText, AllText
  <2> QED BY <1>5, <2>1, <2>2, <2>3, Sectioned
<1>8. e15 \o <<>> = e15
  BY <1>4, ConcatEmptySeq
<1>9. e17 = e15 \o (IF items = <<>> THEN <<>> ELSE Under("langkah:", steps)) /\ EndsInText(e17)
  <2>1. CASE items = <<>>
    BY <1>4, <1>6, <1>7, <1>8, <2>1
  <2>2. CASE items # <<>>
    BY <1>6, <1>7, <2>2
  <2> QED BY <2>1, <2>2
<1>10. e17 = e15 \o (IF items = <<>> THEN <<>>
                     ELSE Under("langkah:", [i \in DOMAIN items |-> Line("step", <<i, items[i]>>)]))
  BY <1>3, <1>9
<1> QED
  BY <1>9, <1>10, Zenon DEF e15, e17, h, items, StepLines

\* The end of the decision.
LEMMA ThirdLines ==
  ASSUME NEW r, NEW history, NEW f, Emitted(f, r, history), EndsInText(f[17])
  PROVE  /\ f[20] = f[17] \o LimitLines(cell[r])
         /\ Gapless(f[20]) /\ f[20] # <<>> /\ f[20][Len(f[20])] = Blank
<1> DEFINE S == LinesOf(r, history)
           l18 == Told("escalate_if", cell[r].escalateIf)
           l19 == Told("recheck_hours", <<cell[r].hours>>)
           l20 == Blank
<1>1. f[18] = Append(f[17], l18)
  <2>1. ASSUME NEW out PROVE Emit(out, Template[18], r, history) = Append(out, l18)
    <3>1. Template[18] = Scalar("escalate_if")
      BY DEF Template
    <3>2. ScalarValues(r)["escalate_if"] = cell[r].escalateIf
      BY DEF ScalarValues
    <3>3. "escalate_if" \notin {"{checklist}", "{history}"} /\ "escalate_if" \notin Omittable
      BY DEF Omittable
    <3>4. Emit(out, Scalar("escalate_if"), r, history)
            = Append(out, Told("escalate_if", ScalarValues(r)["escalate_if"]))
      BY <3>3, EmitKnown
    <3> QED BY <3>1, <3>2, <3>4
  <2>2. f[18] = Emit(f[17], Template[18], r, history)
    BY DEF Emitted
  <2> QED BY <2>1, <2>2
<1>2. f[19] = Append(f[18], l19)
  <2>1. ASSUME NEW out PROVE Emit(out, Template[19], r, history) = Append(out, l19)
    <3>1. Template[19] = Scalar("recheck_hours")
      BY DEF Template
    <3>2. ScalarValues(r)["recheck_hours"] = <<cell[r].hours>>
      BY DEF ScalarValues
    <3>3. "recheck_hours" \notin {"{checklist}", "{history}"} /\ "recheck_hours" \notin Omittable
      BY DEF Omittable
    <3>4. Emit(out, Scalar("recheck_hours"), r, history)
            = Append(out, Told("recheck_hours", ScalarValues(r)["recheck_hours"]))
      BY <3>3, EmitKnown
    <3> QED BY <3>1, <3>2, <3>4
  <2>2. f[19] = Emit(f[18], Template[19], r, history)
    BY DEF Emitted
  <2> QED BY <2>1, <2>2
<1>3. f[20] = Append(f[19], l20)
  <2>1. ASSUME NEW out PROVE Emit(out, Template[20], r, history) = Append(out, l20)
    <3>1. Template[20] = Fixed("")
      BY DEF Template
    <3> QED BY <3>1, EmitFixed DEF Blank
  <2>2. f[20] = Emit(f[19], Template[20], r, history)
    BY DEF Emitted
  <2> QED BY <2>1, <2>2
<1>4. IsBlank(l20) /\ ~IsBlank(l18) /\ ~IsBlank(l19)
  BY DEF IsBlank, Blank, Heading, Told, Line
<1> DEFINE e17 == f[17]  e18 == f[18]  e19 == f[19]  e20 == f[20]
<1>5. e17 \in Seq(S) /\ e18 \in Seq(S) /\ e19 \in Seq(S) /\ e20 \in Seq(S) /\ EndsInText(e17)
  BY DEF Emitted
<1> HIDE DEF S, l18, l19, l20
<1>6. e18 = Append(e17, l18) /\ e19 = Append(e18, l19) /\ e20 = Append(e19, l20)
  BY <1>1, <1>2, <1>3
<1> HIDE DEF e17, e18, e19, e20
<1>7. l18 \in S /\ EndsInText(e18)
  <2>1. Gapless(e17)
    BY <1>5 DEF EndsInText
  <2> QED BY <1>4, <1>5, <1>6, <2>1, TextLine
<1>8. l19 \in S /\ EndsInText(e19)
  <2>1. Gapless(e18)
    BY <1>7 DEF EndsInText
  <2> QED BY <1>4, <1>5, <1>6, <2>1, TextLine
<1>9. l20 \in S /\ Gapless(e20) /\ e20 # <<>> /\ e20[Len(e20)] = l20
  BY <1>4, <1>5, <1>6, <1>8, BlankLine
<1>10. e20 = e17 \o <<l18, l19, l20>>
  <2>1. e17 \in Seq(S) /\ l18 \in S /\ l19 \in S /\ l20 \in S
    BY <1>5, <1>7, <1>8, <1>9
  <2>2. Append(Append(Append(e17, l18), l19), l20) = e17 \o <<l18, l19, l20>>
    BY <2>1
  <2> QED BY <1>6, <2>2, Zenon
<1> QED
  BY <1>9, <1>10, Zenon DEF e17, e20, l18, l19, l20, LimitLines

\* The latest turns of the conversation.
LEMMA Turns ==
  ASSUME NEW r, NEW history \in Histories, cell[r].checklist \in Seq(Phrases),
         NEW f, Emitted(f, r, history), Gapless(f[20])
  PROVE  /\ Latest(history) = <<>> => f[22] = f[20]
         /\ Latest(history) # <<>> =>
              /\ f[22] = f[20] \o Under("RIWAYAT:", [i \in DOMAIN Latest(history) |->
                                                       Spoken(Latest(history)[i])])
              /\ EndsInText(f[22])
              /\ Under("RIWAYAT:", [i \in DOMAIN Latest(history) |-> Spoken(Latest(history)[i])])
                   \in Seq(LinesOf(r, history))
<1> DEFINE S == LinesOf(r, history)
           h == Heading("RIWAYAT:")
           turns == Latest(history)
           told == RenderHistory(CappedHistory(history))
<1>1. f[21] = Append(f[20], h)
  <2>1. ASSUME NEW out PROVE Emit(out, Template[21], r, history) = Append(out, h)
    <3>1. Template[21] = Fixed("RIWAYAT:")
      BY DEF Template
    <3> QED BY <3>1, EmitFixed
  <2>2. f[21] = Emit(f[20], Template[21], r, history)
    BY DEF Emitted
  <2> QED BY <2>1, <2>2
<1>2. f[22] = Section(f[21], "RIWAYAT:", told)
  <2>1. ASSUME NEW out PROVE Emit(out, Template[22], r, history) = Section(out, "RIWAYAT:", told)
    <3>1. Template[22] = Fixed("{history}")
      BY DEF Template
    <3> QED BY <3>1, EmitHistory
  <2>2. f[22] = Emit(f[21], Template[22], r, history)
    BY DEF Emitted
  <2> QED BY <2>1, <2>2
<1>3. /\ told \in Seq(S) /\ Len(told) = Len(turns)
      /\ told = [i \in DOMAIN turns |-> Spoken(turns[i])]
      /\ \A i \in 1..Len(told) : ~IsBlank(told[i])
  BY SectionLines
<1>4. \E T : turns \in Seq(T)
  BY Conversation
<1> DEFINE e20 == f[20]  e21 == f[21]  e22 == f[22]
<1>5. e20 \in Seq(S) /\ e21 \in Seq(S) /\ e22 \in Seq(S) /\ Gapless(e20)
  BY DEF Emitted
<1> HIDE DEF S, h, turns, told
<1>6. e21 = Append(e20, h) /\ e22 = Section(e21, "RIWAYAT:", told)
  BY <1>1, <1>2
<1> HIDE DEF e20, e21, e22
<1>7. told = <<>> <=> turns = <<>>
  BY <1>3, <1>4, EmptySeq
<1>8. /\ told = <<>> => e22 = e20
      /\ told # <<>> => e22 = e20 \o Under("RIWAYAT:", told) /\ EndsInText(e22)
      /\ told # <<>> => Under("RIWAYAT:", told) \in Seq(S)
  <2>1. ~IsBlank(Heading("RIWAYAT:"))
    BY DEF IsBlank, Heading, Line
  <2>2. e21 = Append(e20, Heading("RIWAYAT:"))
    BY <1>6 DEF h
  <2>3. told \in Seq(S) /\ e20 \in Seq(S) /\ Gapless(e20) /\ AllText(told)
        /\ Append(e20, Heading("RIWAYAT:")) \in Seq(S)
    BY <1>3, <1>5, <2>2 DEF AllText
  <2>4. Heading("RIWAYAT:") \in S
    BY <2>1, <2>3, Sectioned
  <2>5. told # <<>> => Under("RIWAYAT:", told) \in Seq(S)
    BY <2>3, <2>4, SectionAdded
  <2> QED BY <1>6, <2>1, <2>2, <2>3, <2>5, Sectioned
<1>9. told = [i \in DOMAIN Latest(history) |-> Spoken(Latest(history)[i])]
  BY <1>3 DEF turns
<1> QED
  BY <1>7, <1>8, <1>9, Zenon DEF e20, e22, turns, S

\* The end: whether or not there was a conversation, one blank line and the question.
LEMMA LastLines ==
  ASSUME NEW r, NEW history \in Histories, cell[r].checklist \in Seq(Phrases),
         NEW f, Emitted(f, r, history),
         Gapless(f[20]), f[20] # <<>>, f[20][Len(f[20])] = Blank
  PROVE  CollapseBlankRuns(f[24])
           = f[20] \o TurnLines(history) \o <<Told("user_message", <<"given">>)>>
<1> DEFINE S == LinesOf(r, history)
           turns == Latest(history)
           said == Under("RIWAYAT:", [i \in DOMAIN Latest(history) |-> Spoken(Latest(history)[i])])
           question == Told("user_message", <<"given">>)
           blank == Blank
<1>1. f[23] = Append(f[22], blank)
  <2>1. ASSUME NEW out PROVE Emit(out, Template[23], r, history) = Append(out, blank)
    <3>1. Template[23] = Fixed("")
      BY DEF Template
    <3> QED BY <3>1, EmitFixed DEF Blank
  <2>2. f[23] = Emit(f[22], Template[23], r, history)
    BY DEF Emitted
  <2> QED BY <2>1, <2>2
<1>2. f[24] = Append(f[23], question)
  <2>1. ASSUME NEW out PROVE Emit(out, Template[24], r, history) = Append(out, question)
    <3>1. Template[24] = Scalar("user_message")
      BY DEF Template
    <3>2. ScalarValues(r)["user_message"] = <<"given">>
      BY DEF ScalarValues
    <3>3. "user_message" \notin {"{checklist}", "{history}"} /\ "user_message" \notin Omittable
      BY DEF Omittable
    <3>4. Emit(out, Scalar("user_message"), r, history)
            = Append(out, Told("user_message", ScalarValues(r)["user_message"]))
      BY <3>3, EmitKnown
    <3> QED BY <3>1, <3>2, <3>4
  <2>2. f[24] = Emit(f[23], Template[24], r, history)
    BY DEF Emitted
  <2> QED BY <2>1, <2>2
<1>3. /\ turns = <<>> => f[22] = f[20]
      /\ turns # <<>> => f[22] = f[20] \o said /\ EndsInText(f[22]) /\ said \in Seq(S)
  BY Turns
<1>4. IsBlank(blank) /\ ~IsBlank(question)
  BY DEF IsBlank, Blank, Heading, Told, Line
<1> DEFINE e20 == f[20]  e22 == f[22]  e23 == f[23]  e24 == f[24]
<1>5. /\ e20 \in Seq(S) /\ e22 \in Seq(S) /\ e23 \in Seq(S) /\ e24 \in Seq(S)
      /\ Gapless(e20) /\ e20 # <<>> /\ e20[Len(e20)] = blank
  BY DEF Emitted
<1> HIDE DEF S, turns, said, question, blank
<1>6. /\ e23 = Append(e22, blank) /\ e24 = Append(e23, question)
      /\ turns = <<>> => e22 = e20
      /\ turns # <<>> => e22 = e20 \o said /\ EndsInText(e22) /\ said \in Seq(S)
  BY <1>1, <1>2, <1>3
<1> HIDE DEF e20, e22, e23, e24
<1>7. blank \in S /\ question \in S
  BY <1>5, <1>6
<1>8. CASE turns = <<>>
  <2>1. e24 = Append(Append(e20, blank), question)
    BY <1>6, <1>8
  <2>2. CollapseBlankRuns(Append(Append(e20, blank), question)) = Append(e20, question)
    <3>1. IsBlank(e20[Len(e20)])
      BY <1>4, <1>5
    <3> QED BY <1>4, <1>5, <1>7, <3>1, OneGapCollapses
  <2>3. Append(e20, question) = e20 \o <<question>> /\ e20 \o <<>> = e20
    BY <1>5, <1>7
  <2>4. CollapseBlankRuns(e24) = (e20 \o <<>>) \o <<question>>
    BY <2>1, <2>2, <2>3, Zenon
  <2> QED BY <1>8, <2>4, Zenon DEF e20, e24, turns, said, question, blank, TurnLines
<1>9. CASE turns # <<>>
  <2>1. e22 = e20 \o said /\ EndsInText(e22) /\ said \in Seq(S)
    BY <1>6, <1>9
  <2>2. Gapless(e23)
    BY <1>4, <1>5, <1>6, <2>1, BlankLine
  <2>3. EndsInText(e24)
    BY <1>4, <1>5, <1>6, <2>2, TextLine
  <2>4. CollapseBlankRuns(e24) = e24
    <3>1. Gapless(e24)
      BY <2>3 DEF EndsInText
    <3> QED BY <1>5, <3>1, NothingToCollapse
  <2>5. e24 = e23 \o <<question>> /\ e23 = e22 \o <<blank>>
    <3>1. Append(e23, question) = e23 \o <<question>>
      BY <1>5, <1>7
    <3>2. Append(e22, blank) = e22 \o <<blank>>
      BY <1>5, <1>7
    <3> QED BY <1>6, <3>1, <3>2, Zenon
  <2>6. (e20 \o said) \o <<blank>> = e20 \o (said \o <<blank>>)
    <3> DEFINE end == <<blank>>
    <3>1. end \in Seq(S)
      BY <1>7
    <3> HIDE DEF end
    <3>2. (e20 \o said) \o end = e20 \o (said \o end)
      BY <1>5, <2>1, <3>1, ConcatAssociative
    <3> QED BY <3>2 DEF end
  <2>7. CollapseBlankRuns(e24) = (e20 \o (said \o <<blank>>)) \o <<question>>
    BY <2>1, <2>4, <2>5, <2>6, Zenon
  <2> QED BY <1>9, <2>7, Zenon DEF e20, e24, turns, said, question, blank, TurnLines
<1> QED BY <1>8, <1>9 DEF turns

\* Every prompt is the reference one.
LEMMA Rendered ==
  ASSUME NEW r, NEW history \in Histories, cell[r].checklist \in Seq(Phrases)
  PROVE  RenderPrompt(r, history)
           = WholePrompt(fact[r], quality[r], cell[r], ask[r].context, history)
<1>1. PICK f : Emitted(f, r, history)
  BY Emitting
<1>2. f[5] = FactLines(fact[r], quality[r]) /\ EndsInText(f[5])
  BY <1>1, FirstLines
<1>3. f[15] = f[5] \o ContextLines(ask[r].context) \o DecisionLines(cell[r]) /\ EndsInText(f[15])
  BY <1>1, <1>2, SecondLines
<1>4. f[17] = f[15] \o StepLines(cell[r]) /\ EndsInText(f[17])
  BY <1>1, <1>3, Steps
<1>5. f[20] = f[17] \o LimitLines(cell[r]) /\ Gapless(f[20]) /\ f[20] # <<>>
      /\ f[20][Len(f[20])] = Blank
  BY <1>1, <1>4, ThirdLines
<1>6. CollapseBlankRuns(f[24])
        = f[20] \o TurnLines(history) \o <<Told("user_message", <<"given">>)>>
  BY <1>1, <1>5, LastLines
<1>7. RenderPrompt(r, history) = CollapseBlankRuns(f[24])
  BY <1>1 DEF Emitted
<1> QED BY <1>2, <1>3, <1>4, <1>5, <1>6, <1>7, Zenon DEF WholePrompt

-----------------------------------------------------------------------------
\* The model is told the truth and all of it: whatever the inspection, the decision
\* and the conversation, RenderPrompt sends the reference prompt (prompt.go,
\* RenderPrompt; the facts and the quality are those of the inductive invariant
\* TurnsOK).
THEOREM WholeTruth == Spec => []PromptIsWhole
<1>1. TypeOK /\ TurnsOK => PromptIsWhole
  <2> SUFFICES ASSUME TypeOK, TurnsOK, NEW r \in Requests, pc[r] = "calling",
                      NEW history \in Histories
               PROVE  \E known \in {"", row[ask[r].inspection].quality} :
                        RenderPrompt(r, history)
                          = WholePrompt(row[ask[r].inspection], known, cell[r], ask[r].context, history)
    BY Zenon DEF PromptIsWhole
  <2>1. cell[r].checklist \in Seq(Phrases)
    <3>1. cell[r] \in Table
      BY DEF TypeOK
    <3> QED BY <3>1, CellTexts DEF Texts
  <2>2. fact[r] = row[ask[r].inspection] /\ quality[r] \in {"", row[ask[r].inspection].quality}
    BY Zenon DEF TurnsOK, TurnOK
  <2>3. RenderPrompt(r, history)
          = WholePrompt(fact[r], quality[r], cell[r], ask[r].context, history)
    BY <2>1, Rendered
  <2> QED BY <2>2, <2>3, Zenon
<1> QED
  BY <1>1, TypeCorrect, Invariance, PTL
=============================================================================
