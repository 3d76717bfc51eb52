SPECIFICATION Spec
CONSTANTS
  MaxUid = 2
  Initial = 1
  Large = {1}
  CanDelete = TRUE
  DeleteRetrieved = {TRUE, FALSE}
  OtherClient = TRUE
  Configurations = {TRUE, FALSE}
  MaxRequests = 2
  MaxCrashes = 1
INVARIANTS ListingCurrent
PROPERTIES DeletesOnlyHeld DeleteDone RetrieveDone
CHECK_DEADLOCK FALSE
