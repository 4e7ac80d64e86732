\* One inspection and two calibrations of two machines share one connection;
\* the process may die at any time.
SPECIFICATION InspectionFairSpec
CONSTANTS
  Machines = {m1, m2}
  Calibrations = {c1, c2}
  Inspections = {i1}
  NoMachine = NoMachine
  NoBaseline = NoBaseline
  PoolSize = 1
INVARIANTS
  InspectionTypeOK
  ScoreTraceable
  EvidenceOnlyOfAnomalies
PROPERTIES
  NeverFalselyUncalibrated
  DeletionSettles
  EveryInspectionAnswered
