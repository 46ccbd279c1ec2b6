SPECIFICATION FairSpec
CONSTANTS
  p1 = p1  p2 = p2  r1 = r1  r2 = r2  f1 = f1  f2 = f2
  e1 = e1  e2 = e2  a1 = a1  a2 = a2
  Procs = {p1, p2}
  Free = Free
  MaxId = 1
  Stamps = {1, 2, 3}
  NoReq = NoReq  NoJob = NoJob  NoText = NoText  NoJournal = NoJournal  NoDraft = NoDraft
  Reqs = {r1}
  Fallbacks = {f1}
  Evidence = {e1, e2}
  Assessments = {a1, a2}
  Qualifying = {a1}
  Hashes = {h1, h2}
  Receipts = {x1}
  MaxVersion = 2
  Candidates <- MCOneOpportunity
  RequestedStatuses = {"applied", "new"}
  MaxEvents = 3
  StampsRepeat = FALSE
INVARIANTS
  HistoryExplainsStatus
PROPERTIES
  JournalsAreReplayed
