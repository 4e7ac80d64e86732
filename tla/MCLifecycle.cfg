\* Three calibrations of one machine, a pool of two connections; a process that
\* may be told to end, killed and started again, any number of times.
SPECIFICATION LifecycleFairSpec
CONSTANTS
  Machines = {m1}
  Calibrations = {c1, c2, c3}
  NoMachine = NoMachine
  PoolSize = 2
  ShutdownTimeout = 1
INVARIANTS
  LifecycleTypeOK
  OneActivePerMachine
  NeverStuck
  OnceCalibratedAlwaysActive
  AnswerIsTrue
  AudioFollowsRow
  ExitIsOrderly
PROPERTIES
  ImplementsRegister
  AnsweredInAnyLife
  ShutdownEnds
