SPECIFICATION Spec
CONSTANTS
  c1 = c1  c2 = c2  c3 = c3
  Postings = {p1}
  Snapshots <- MCSnapshots
  Times = {1, 2}
  Contexts = {c1, c2, c3}
  Approved <- MCApproved
  Excluded <- MCExcluded
  Outcomes = {"qualifying", "excluded"}
  Reviewers = {r1}
  NoRow = NoRow  NoDecision = NoDecision  NoJob = NoJob  NoRead = NoRead  NotYet = NotYet  Idle = Idle
  MaxRevision = 4
INVARIANTS
  DeliveredUnderReviewedUrl
