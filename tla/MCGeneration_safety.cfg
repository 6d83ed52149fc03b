SPECIFICATION Spec
CONSTANTS
  Hosts = {a, b}
  Free = Free
  Commands <- MCCommands
  a = a
  b = b
  Kinds = {"rejected", "valid"}
  MaxTokens = 1
  MaxSteps = 1
  MaxDrafts = 2
  MaxIncidents = 2
  Crashes = TRUE
INVARIANTS OneSession RecordTruthful
PROPERTIES GeneratedEarned
CHECK_DEADLOCK FALSE
