\* Three keys: two in the queue behind the one in processing, so that order,
\* starvation and re-queueing at Done all happen.
SPECIFICATION Spec
CONSTANTS
  Keys = {k1, k2, k3}
  NoKey = NoKey
  MaxFailures = 1
INVARIANTS
  QueuedOnce
  NeverDropped
  BackoffIsCurrent
PROPERTIES
  EachKeyAlone
  HintsKept
  WorkerEnds
