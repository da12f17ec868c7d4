SPECIFICATION FairSpec
CONSTANTS
  Scripts = {a, b, c}
  Sources = {e, f}
  None = None
INVARIANTS
  TypeOK
  TextArrived
  ThrowHalts
PROPERTIES
  EvaluatesInOrder
  EventuallyEvaluated
