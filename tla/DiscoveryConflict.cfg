\* A batch whose three postings are found to be one after another the same job,
\* delivered twice.
SPECIFICATION Spec
CONSTANTS
  a = a
  b = b
  c = c
  home = home
  away = away
  tbd = tbd
  days = days
  r1 = r1
  f1 = f1
  f2 = f2
  short = short
  long = long
  Postings = {a, b, c}
  TextSubjects = {"place"}
  RangeSubjects = {"deadline"}
  Texts = {home, away, tbd}
  Vague = {tbd}
  Units = {days}
  Spellings = {short, long}
  NoValue = NoValue
  Stated <- StatedByPosting
  Verified = {a, b}
  Documents <- CriteriaDocuments
  NoDocument = NoDocument
  Versions = {1, 2}
  IdentityOf <- Identities
  Reqs = {r1}
  NoReq = NoReq
  Fallbacks = {f1, f2}
  Batches <- Replayed
  NoIndex = NoIndex
  Idle = Idle
  MaxDeliveries = 2
INVARIANT FinishedDeliveriesMerge
