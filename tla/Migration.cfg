\* Two migrations of one workspace meet each other, other writers, errors and
\* deaths, and are tried again.  No symmetry: a liveness property is checked.
SPECIFICATION FairSpec
CONSTANTS
  m1 = m1
  m2 = m2
  Migrators <- Two
  Torn = Torn
  Free = Free
  Beginnings <- Prototype
  MaxSaves = 1
  MaxJobs = 1
  MaxFaults = 2
  FailingSteps = {"backed", "created", "rebuilding"}
INVARIANTS OriginalIsKept RestoredMeansOriginal
PROPERTIES JobsSurvive RetriesMigrate
CHECK_DEADLOCK FALSE
