SPECIFICATION Spec
CONSTANTS
  Accounts = {"x"}
  Headers <- MCHeaders
  Subjects = {"a"}
  Folders = {"inbox", "trash"}
  Flags = {"hidden"}
  Bare = {FALSE}
  Zone = 0
  Detaching = FALSE
  CacheSize = 0
  MaxMessages = 3
INVARIANTS ThreadExists ResponseExists NoCycle
PROPERTIES ArrivalEndsWait AncestorsKept
