SPECIFICATION FairSpec
CONSTANTS
  Procs = {p}
  None = None
  Stale = Stale
  Gated = Gated
  Own = System
  Overlap = FALSE
  Mishaps <- OneKill
PROPERTIES
  ServesAgain
