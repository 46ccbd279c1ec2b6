\* Batches of two reviews are delivered, cut short and delivered again while
\* the criteria are edited and approved anew.
SPECIFICATION Spec
CONSTANTS
  a = a
  b = b
  c = c
  home = home
  away = away
  tbd = tbd
  days = days
  r1 = r1
  f1 = f1
  f2 = f2
  short = short
  long = long
  Postings = {a, b, c}
  TextSubjects = {"place"}
  RangeSubjects = {"deadline"}
  Texts = {home, away, tbd}
  Vague = {tbd}
  Units = {days}
  Spellings = {short, long}
  NoValue = NoValue
  Stated <- StatedByPosting
  Verified = {a, b}
  Documents <- CriteriaDocuments
  NoDocument = NoDocument
  Versions = {1, 2}
  IdentityOf <- Identities
  Reqs = {r1}
  NoReq = NoReq
  Fallbacks = {f1, f2}
  Batches <- Deliveries
  NoIndex = NoIndex
  Idle = Idle
  MaxDeliveries = 2
INVARIANTS NoJobIsExcluded OnlyTheExcludedAreRejected RunsAccountForEveryItem ChangedCriteriaStopTheBatch
PROPERTIES RecordedMeansIndexed
