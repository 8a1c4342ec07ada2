SPECIFICATION Spec
CONSTANTS
  r1 = r1
  r2 = r2
  p1 = p1
  q1 = q1
  Runs <- OneRun
  Proposals <- OneProposal
  RunOf <- MCRunOf
  Payloads <- Plain
  Generated <- Generates
  Edits = {}
  WellFormed <- Plain
  Balanced <- Plain
  DateOf <- MCDateOf
  HashOf <- MCHashOf
  Automatic = {p1}
  Consulted <- OneProposal
  AutoBook = TRUE
  Submitters = {s1, s2}
  Reviewers = {v1}
  ShadowModes = {FALSE}
  WritesFlag = TRUE
  EngineWired = TRUE
  Faults = {}
  Outside = {}
  MaxDecisions = 2
  NoPayload = NoPayload
  NoHash = NoHash
  NoProposal = NoProposal
INVARIANTS
  OneVoucherPerProposal
