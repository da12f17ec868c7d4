SPECIFICATION FairSpec
CONSTANTS
  Requests = {r1, r2}
  Local = {r2}
  MaxRetries = 3
CHECK_DEADLOCK FALSE
INVARIANTS
  TypeOK
  SuccessHasContent
  ErrorMeansFailure
PROPERTIES
  OneAnswer
  DisposedSilent
  RequestTold
