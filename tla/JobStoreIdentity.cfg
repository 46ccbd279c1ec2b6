SPECIFICATION Spec
CONSTANTS
  p1 = p1  p2 = p2  r1 = r1  r2 = r2  f1 = f1  f2 = f2
  e1 = e1  e2 = e2  a1 = a1  a2 = a2
  Procs = {p1, p2}
  Free = Free
  MaxId = 3
  Stamps = {1}
  NoReq = NoReq  NoJob = NoJob  NoText = NoText  NoJournal = NoJournal  NoDraft = NoDraft
  Reqs = {r1, r2}
  Fallbacks = {f1, f2}
  Evidence = {e1, e2}
  Assessments = {a1}
  Qualifying = {a1}
  Hashes = {h1}
  Receipts = {}
  MaxVersion = 0
  Candidates <- MCCandidates
  RequestedStatuses = {}
  MaxEvents = 3
  StampsRepeat = TRUE
SYMMETRY ProcSymmetry
INVARIANTS
  OperationsSeeNoHalfWrittenJob
  OneJobPerRequisition
PROPERTIES
  CreationIsNovel
  EvidenceNeverRegresses
  ImplementsPromise
