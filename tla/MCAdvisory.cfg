\* One turn about an inspection of two machines of two users.
SPECIFICATION FairSpec
CONSTANTS
  Users = {u1, u2}
  Machines = {m1, m2}
  Inspections = {i1}
  Requests = {r1}
  Contexts <- MCContexts
  Indicators <- MCIndicators
  Scores <- MCScores
  Qualities <- MCQualities
  Completions <- MCCompletions
  MaxHistoryTurns = 8
  Histories <- MCHistories
  NoZ = NoZ
  HalfUp <- MCHalfUp
  HalfNear <- MCHalfNear
  Nobody = Nobody
  Unknown = Unknown
INVARIANTS
  TypeOK
  AnswersOnlyOwn
  FlagsDecidedByRules
  ShutDownFirst
  EveryAnswerVetted
  FactsMayBeQuoted
  QualityOfScoringBaseline
  PromptIsWhole
PROPERTIES
  EveryTurnAnswered
