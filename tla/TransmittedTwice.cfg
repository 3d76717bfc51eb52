SPECIFICATION Spec
CONSTANTS
  a1 = a1  a2 = a2  src1 = src1  src2 = src2  snk1 = snk1  snk2 = snk2
  c1 = c1  c2 = c2  c3 = c3  l1 = l1  l2 = l2  m1 = m1  m2 = m2
  p1 = p1  p2 = p2  server = server  Null = Null  NoAction = NoAction
  Account = {a1}
  Source = {src1}
  Sink = {snk1}
  AccountOf <- MCOneAccountOf
  ClientAction = {c1, c3}
  LocalAction = {l1}
  ProcessOf <- MCProcessOf
  Message = {m1, m2}
  OwnerOf <- MCOwnerOf
  External = {}
  MaxActive = 2
  MaxActivePerProcess = 1
  MaxCrashes = 0
  Mute = {}
  Offered = {"transmit"}
INVARIANTS TransmittedOnce
CHECK_DEADLOCK FALSE
