SPECIFICATION Spec
CONSTANTS
  a1 = a1  a2 = a2  src1 = src1  src2 = src2  snk1 = snk1  snk2 = snk2
  c1 = c1  c2 = c2  c3 = c3  l1 = l1  l2 = l2  m1 = m1  m2 = m2
  p1 = p1  p2 = p2  server = server  Null = Null  NoAction = NoAction
  Account = {a1, a2}
  Source = {src1, src2}
  Sink = {}
  AccountOf <- MCSourceAccountOf
  ClientAction = {c1, c2, c3}
  LocalAction = {}
  ProcessOf <- MCProcessOf
  Message = {}
  OwnerOf <- MCNoOwnerOf
  External = {}
  MaxActive = 2
  MaxActivePerProcess = 2
  MaxCrashes = 0
  Mute = {src1}
  Offered = {"retrieveMessages", "delete", "move", "flag", "folder", "copyToLocal", "cancel"}
SYMMETRY SameProcess
INVARIANTS ServiceExclusive ConcurrencyLimited RetrievalFlagged
PROPERTIES DispatchInOrder
CHECK_DEADLOCK FALSE
