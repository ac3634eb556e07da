SPECIFICATION KubectlSpec
CONSTANTS
  Objects <- MCObjects
  Everywhere = Everywhere
  None = None
  MostChanges = 2
  Valued = {n, replicas}
  Counts = {replicas}
  Numerals = {three}
  Switches = {w}
  Unknown = {z}
  Plain = {get, three}
  Dashes = dashes
  MostWords = 5
INVARIANTS
  ScreenFollows
  FlagsAnywhere
CHECK_DEADLOCK FALSE
