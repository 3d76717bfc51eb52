SPECIFICATION Spec
CONSTANTS
  Accounts = {"x"}
  Headers <- MCLate
  Subjects = {"a", "b"}
  Folders = {"inbox"}
  Flags = {}
  Bare = {FALSE}
  Zone = 0
  Detaching = FALSE
  CacheSize = 4
  MaxMessages = 4
INVARIANT NoCycle
CHECK_DEADLOCK FALSE
