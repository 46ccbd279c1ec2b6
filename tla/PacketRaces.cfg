SPECIFICATION Spec
CONSTANTS
  p1 = p1  p2 = p2  i1 = i1  i2 = i2  e1 = e1  e2 = e2  h1 = h1  h2 = h2
  Procs = {p1, p2}
  NoInputs = NoInputs  NoFile = NoFile
  Inputs = {i1}
  Evidence = {e1}
  Hashes = {h1}
  MaxVersion = 2
  RequestedStatuses = {}
  PdfsChange = FALSE
SYMMETRY ProcSymmetry
INVARIANTS
  ReadyMeansDelivered
PROPERTIES
  OneReservationPerRequest
  StartKeepsDelivery
  SupersededStaysUndelivered
  PacketHistoryKept
