SPECIFICATION Spec
CONSTANTS
  OfflineTimeout = 1
  Limit <- MCLimit
  MaxReading = 2
  Sensors = {s1, s2}
INVARIANTS
  TypeOK
  KindDecides
  StatusMeansWhatItSays
PROPERTY RisingNeverHeals
