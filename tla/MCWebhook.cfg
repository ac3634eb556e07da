SPECIFICATION WebhookSpec
CONSTANTS
  Procs = {p}
  None = None
  Stale = Stale
  Gated = Gated
  Own = System
  Overlap = FALSE
  Mishaps <- SomeOfEach
  Names = {a}
  Owners = {platform, team}
  Platform = platform
  Empty = Empty
  Unlabelled = Unlabelled
  BadOwner = BadOwner
  NoPod = NoPod
  NoList = NoList
  MaxDowns = 2
  LeafLifetime = 8
  RotateEvery = 2
  AuthorityLifetime = 30
  MaxLate = 1
  MaxFails = 2
  MaxTime = 40
  ContainerNames = {"app", "sidecar"}
  Resources = {"cpu", "memory"}
  MostContainers = 2
  Absent = Absent
  Refused = Refused
  Handlers = {h1, h2, h3}
  VerdictNames = {pod1, pod2}
  Verdicts = {allowed, denied}
  Nothing = Nothing
  MaxAnswers = 4
  MaxDeletes = 1
  MaxErrors = 1
CHECK_DEADLOCK FALSE
INVARIANTS
  ListenerIsRegistered
  RegisteredAfterPolicy
  JudgedPodsAreOwned
  ServedLeafTrusted
  StoredAsPromised
  PatchesFit
PROPERTIES
  StopsWhenTold
  ProtectedStays
  NamespaceEmpties
  SecondPassChangesNothing
  VerdictsKept
