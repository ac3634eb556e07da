SPECIFICATION Spec
CONSTANTS
  Valued = {n, replicas}
  Counts = {replicas}
  Numerals = {three}
  Switches = {w}
  Unknown = {z}
  Plain = {exec, ls, three}
  Dashes = dashes
  Unset = unset
  MostWords = 5
INVARIANTS
  CommandKeptAway
CHECK_DEADLOCK FALSE
