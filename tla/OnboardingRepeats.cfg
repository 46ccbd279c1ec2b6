SPECIFICATION Spec
CONSTANTS
  Connectors = {linear, gmail}
  linear = linear  gmail = gmail
  Undecided = Undecided
  NoFile = NoFile
  Modes = {"full", "quick_start"}
  RepeatsStages = TRUE
INVARIANT SavedStateLoads
