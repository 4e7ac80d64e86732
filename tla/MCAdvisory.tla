------------------------------ MODULE MCAdvisory ----------------------------
(* The instance of Advisory that TLC checks. The model answers with up to two *)
(* phrases and one for the next step: each telling word, a quoted score, and  *)
(* a number nobody gave it. Histories are empty, at the cap, and beyond it.   *)
EXTENDS Prompt

MCContexts == {<<"belt", ">6bln">>, <<"belt", "1-6bln">>, <<"direct-drive", "tidak-tahu">>}
MCIndicators == {"", "kurtosis"}
\* 1.25 and 1.35 lie halfway between two decimals. As doubles, 1.35 alone is above
\* the half and shown as the next decimal, and 1.4 - 1.35 alone is below 0.05.
MCScores == {344, 125, 135}
MCHalfUp == {135}
MCHalfNear == {<<140, 135>>}
MCScoresSigned == {-62, 344}
MCQualities == {"baik", "rendah"}

MCPhrases ==
  {[word |-> w, nums |-> {}] : w \in {"matikan", "periksa", "diagnosis"}}
    \cup {Plain({140}), Plain({4200})}
MCTexts(n) == UNION {[1..k -> MCPhrases] : k \in 0..n}
MCCompletions ==
  [json : {TRUE}, jawaban : MCTexts(2), langkah : MCTexts(1), claim : {TRUE}]
    \cup [json : {FALSE}, jawaban : {<<>>}, langkah : {<<>>}, claim : {FALSE}]
MCHistories ==
  {[i \in 1..n |-> [role |-> IF i % 2 = 1 THEN "user" ELSE "assistant", content |-> i]] :
     n \in {0, 8, 9, 19}}
=============================================================================
