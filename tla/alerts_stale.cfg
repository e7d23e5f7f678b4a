SPECIFICATION Spec
CONSTANTS
  Nodes = {n1, n2}
  NoNode = NoNode
  Cooldown = 1
  OfflineTimeout = 1
  Reports = {}
  Arrivals = {"ok"}
  LostAcks = FALSE
  StoreMayFail = FALSE
  Prompt = TRUE
  MaxRestarts = 0
SYMMETRY Symmetry
INVARIANT OfflineWasTrue
