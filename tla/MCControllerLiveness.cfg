SPECIFICATION Spec
CONSTANTS
  Key = Key
  Keys = {Key}
  MaxFailures = 0
  Specs = {good, bad}
  BadSpecs = {bad}
  Drift = Drift
  NoSite = NoSite
  NoChild = NoChild
  NoOwner = NoOwner
  Foreign = Foreign
  MaxSites = 2
  MaxLag = 2
  Attempts = 2
  Budgets <- TwoOrThreeOfThem
PROPERTIES
  Converges
  DeletionCompletes
\* The controller may idle forever at a name nobody uses any more.
CHECK_DEADLOCK FALSE
