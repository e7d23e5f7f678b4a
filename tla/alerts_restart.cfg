SPECIFICATION FairSpec
CONSTANTS
  Nodes = {n1}
  NoNode = NoNode
  Cooldown = 1
  OfflineTimeout = 1
  Reports = {"text"}
  Arrivals = {"ok"}
  LostAcks = FALSE
  StoreMayFail = FALSE
  Prompt = TRUE
  MaxRestarts = 1
PROPERTY EventuallyTold
