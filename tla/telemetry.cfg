SPECIFICATION FairSpec
CONSTANTS
  None = None
  SensorNames <- MCSensorNames
  GpuNames <- MCGpuNames
  StatsTimeout = 1
  SlurmTimeout = 2
  MaxJobs = 1
  JobLimit = 1
  MaxMoved = 2
INVARIANTS
  TypeOK
  NoChildLeft
  SampleFitsSchema
  TrafficCountedOnce
  CollectionBounded
  SeriesDistinct
  SlurmShownAsHeard
PROPERTIES
  CollectReturns
  OnlyUndecodableCosts
