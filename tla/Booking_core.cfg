SPECIFICATION Spec
CONSTANTS
  r1 = r1
  r2 = r2
  p1 = p1
  q1 = q1
  Runs <- OneRun
  Proposals <- OneProposal
  RunOf <- MCRunOf
  Payloads <- Edited
  Generated <- Generates
  Edits = {"early"}
  WellFormed <- Edited
  Balanced <- Edited
  DateOf <- MCDateOf
  HashOf <- MCHashOf
  Automatic = {p1}
  Consulted <- OneProposal
  AutoBook = TRUE
  Submitters = {s1, s2}
  Reviewers = {v1, v2}
  ShadowModes = {FALSE}
  WritesFlag = TRUE
  EngineWired = TRUE
  Faults = {"lost_response", "db", "crash"}
  Outside = {}
  MaxDecisions = 2
  NoPayload = NoPayload
  NoHash = NoHash
  NoProposal = NoProposal
INVARIANTS
  TypeOK
  PostedBytesApproved
  ApprovalSpentOnce
  RowsTellTheTruth
PROPERTIES
  KeepsContract
  NeverAgain
SYMMETRY Symmetry
