SPECIFICATION Spec
CONSTANTS
  Nodes = {n1}
  NoNode = NoNode
  Cooldown = 1
  OfflineTimeout = 1
  Reports = {"empty", "text"}
  Arrivals = {"ok", "hot"}
  LostAcks = TRUE
  StoreMayFail = TRUE
  Prompt = FALSE
  MaxRestarts = 1
INVARIANTS
  TypeOK
  NoLostWake
  OpenAlertIsTracked
  AlertWasTrue
PROPERTY KeepsPromise
