SPECIFICATION FairSpec
CONSTANTS
  Processes <- TwoProcesses
  Calls <- TwoCalls
  ServedBy <- MCServedBy
  Consents = {k1}
  Methods = {"verify", "callback", "disconnect"}
  Faults = {"lost_response", "transient", "crash"}
  MaxIssued = 3
  Rotations = {0, 1}
  NoCall = NoCall
  NoProcess = NoProcess
  NoConsent = NoConsent
INVARIANTS
  SingleFlight
  ConsentSpentOnce
  TokenUsable
PROPERTIES
  OnlyConsentConnects
  RotationAdvances
  EveryCallEnds
