SPECIFICATION FairSpec
CONSTANTS
  Instances = {a, b}
  Nobody = Nobody
  LeaseDuration = 5
  RenewDeadline = 2
  RetryPeriod = 1
  LookEvery = 1
  MaxDelay = 1
  Mishaps <- OneOfEach
INVARIANTS
  OneLeader
  QuickHandover
PROPERTIES
  SomeoneWorks
  StopsWhenTold
