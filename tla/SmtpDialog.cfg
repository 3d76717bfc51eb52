SPECIFICATION Spec
CONSTANTS
  m1 = m1  m2 = m2  m3 = m3  NoMessage = NoMessage
  Message = {m1, m2, m3}
  Invalid = {m3}
  External = {}
  ChunksOf <- MCChunksOf
  RecipientsOf <- MCRecipientsOf
  UseTLS = TRUE
  Configurations = {FALSE}
  MultiLine = {220, 334, 354, 550}
  MaxBatches = 2
INVARIANTS TypeOK ReportedIsAccepted AcceptedIntact NoStandstill Released
PROPERTIES ImplementsSink
CHECK_DEADLOCK FALSE
