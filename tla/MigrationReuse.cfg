\* One migration that has written the configuration and released the lock, and
\* whose indexes cannot be rebuilt then, beside a process that creates jobs.
SPECIFICATION Spec
CONSTANTS
  m1 = m1
  m2 = m2
  Migrators = {m1}
  Torn = Torn
  Free = Free
  Beginnings <- EveryLayout
  MaxSaves = 0
  MaxJobs = 2
  MaxFaults = 1
  FailingSteps = {"rebuilding"}
INVARIANT NumbersAreNeverReused
CHECK_DEADLOCK FALSE
