SPECIFICATION Spec
CONSTANTS
  m1 = m1
  m2 = m2
  m3 = m3
  FolderOf <- MCTwoAndOne
  Initial = {m1, m2}
  Flags = {"seen"}
  CanDelete = TRUE
  Requests = {"synchronize", "exportUpdates", "retrieveAll"}
  Others = {"arrive", "set"}
  Meanwhile = TRUE
  Faults = {"partial"}
  MaxFaults = 1
SYMMETRY Symmetry
PROPERTIES LiveKept RecordKept UnreadWasReadElsewhere
