SPECIFICATION TimedFairSpec
CONSTANTS
  MaxAttempts = 3
  MaxCrashes = 1
  MaxWipes = 1
  EnvBase = 1
  EnvMax = 2
  EnvJitter = 150
  Interval = 3
  Breath = 1
  Pause = 1
  HttpTimeout = 2
  Latency = 1
  Collection = 1
  SilenceCap = 20
INVARIANTS
  TypeOK
  TimedTypeOK
  SecondRegistrationHasCause
  SilenceBounded
  LoopBounded
PROPERTIES
  ReportsResume
