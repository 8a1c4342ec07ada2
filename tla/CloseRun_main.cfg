SPECIFICATION Spec
CONSTANTS
  Findings = {"unbalanced", "duplicate", "cost_center"}
  RaisedBy <- MCRaisedBy
  Blocking = {"unbalanced"}
  Consulted = {"unbalanced", "duplicate"}
  Automatic <- ByThePolicy
  BlocksCompletion <- ImplementedOnly
  MaxExecutions = 2
  MaxFaults = 2
  Crashes = TRUE
INVARIANTS
  TypeOK
  CompletionEarned
  RunTellsSteps
PROPERTIES
  ReviewedFirst
CHECK_DEADLOCK FALSE
