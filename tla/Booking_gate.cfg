SPECIFICATION Spec
CONSTANTS
  r1 = r1
  r2 = r2
  p1 = p1
  q1 = q1
  Runs <- TwoRuns
  Proposals <- Rerun
  RunOf <- MCRunOf
  Payloads <- Edited
  Generated <- Generates
  Edits = {"early"}
  WellFormed <- Edited
  Balanced <- Edited
  DateOf <- MCDateOf
  HashOf <- MCHashOf
  Automatic = {q1}
  Consulted <- OneProposal
  AutoBook = TRUE
  Submitters = {s1}
  Reviewers = {v1}
  ShadowModes = {FALSE, TRUE}
  WritesFlag = TRUE
  EngineWired = TRUE
  Faults = {"lost_response", "lock_read", "db", "crash"}
  Outside = {"switch", "grant", "lock"}
  MaxDecisions = 1
  NoPayload = NoPayload
  NoHash = NoHash
  NoProposal = NoProposal
INVARIANTS
  RowsTellTheTruth
  ShadowHoldsEverything
PROPERTIES
  NeverAgain
