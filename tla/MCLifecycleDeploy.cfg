\* One calibration and one deploy are enough.
SPECIFICATION LifecycleSpec
CONSTANTS
  Machines = {m1}
  Calibrations = {c1}
  NoMachine = NoMachine
  PoolSize = 1
  ShutdownTimeout = 1
INVARIANT RequestsSurviveADeploy
