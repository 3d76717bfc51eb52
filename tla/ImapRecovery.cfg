SPECIFICATION Spec
CONSTANTS
  m1 = m1
  m2 = m2
  m3 = m3
  FolderOf <- MCApart
  Initial = {m1}
  Flags = {"seen"}
  CanDelete = TRUE
  Requests = {"synchronize", "exportUpdates", "delete", "updateFlags"}
  Others = {"arrive", "set", "delete", "remove"}
  Meanwhile = FALSE
  Faults = {"loss", "refusal", "partial", "crash"}
  MaxFaults = 1
PROPERTIES SynchronizationAgrees PendingKept
