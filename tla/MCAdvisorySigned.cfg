\* A machine that sounds healthier than its baseline: its z-score is negative.
SPECIFICATION Spec
CONSTANTS
  Users = {u1}
  Machines = {m1}
  Inspections = {i1}
  Requests = {r1}
  Contexts <- MCContexts
  Indicators <- MCIndicators
  Scores <- MCScoresSigned
  Qualities <- MCQualities
  Completions <- MCCompletions
  MaxHistoryTurns = 8
  Histories <- MCHistories
  NoZ = NoZ
  HalfUp <- MCHalfUp
  HalfNear <- MCHalfNear
  Nobody = Nobody
  Unknown = Unknown
INVARIANT
  SuppliedScoreMayBeQuoted
