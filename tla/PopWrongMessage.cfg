SPECIFICATION Spec
CONSTANTS
  MaxUid = 2
  Initial = 2
  Large = {1}
  CanDelete = TRUE
  DeleteRetrieved = {FALSE}
  OtherClient = TRUE
  Configurations = {}
  MaxRequests = 2
  MaxCrashes = 0
INVARIANTS OnlySpecifiedDeleted
CHECK_DEADLOCK FALSE
