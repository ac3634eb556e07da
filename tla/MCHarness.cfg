SPECIFICATION HarnessSpec
CONSTANTS
  Cases = 2
  Kinds = {website, pod}
  Opaque = {}
  MaxRuns = 3
  MaxMeddling = 2
  MaxFaults = 2
  MaxOutput = 2
  PipeSize = 1
  MaxPrints = 4
  MaxCalls = 3
  NoResult = NoResult
  Running = Running
CHECK_DEADLOCK FALSE
INVARIANTS
  ResultCarriesOutput
  JudgedCleanly
PROPERTIES
  AnswersAgree
  NeverHeldUp
  GroupIsGone
  EveryCallReturns
  BeginSucceeds
