SPECIFICATION Spec
CONSTANTS
  r1 = r1
  r2 = r2
  p1 = p1
  q1 = q1
  Runs <- OneRun
  Proposals <- OneProposal
  RunOf <- MCRunOf
  Payloads <- Edited
  Generated <- Generates
  Edits = {"early"}
  WellFormed <- Edited
  Balanced <- Edited
  DateOf <- MCDateOf
  HashOf <- MCHashOf
  Automatic = {}
  Consulted <- OneProposal
  AutoBook = FALSE
  Submitters = {s1}
  Reviewers = {v1}
  ShadowModes = {FALSE}
  WritesFlag = TRUE
  EngineWired = TRUE
  Faults = {}
  Outside = {"lock"}
  MaxDecisions = 1
  NoPayload = NoPayload
  NoHash = NoHash
  NoProposal = NoProposal
INVARIANTS
  NothingSentIntoLock
