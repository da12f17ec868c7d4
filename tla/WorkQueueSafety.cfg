SPECIFICATION FairSpec
CONSTANTS
  Work = {w1, w2, w3}
  Suspensions = {s1, s2}
  Background = {bg}
  None = None
INVARIANTS
  TypeOK
  OneScheduled
  SuspensionHolds
  SuspensionMutexAlive
PROPERTIES
  ImplementsContract
  DestructionEnds
  EventuallySettled
