SPECIFICATION Spec
CONSTANTS
  Environments <- MCEnvironments
  DemoRow = TRUE
  EngineWired = TRUE
  MaxConsents = 2
  MaxRuns = 1
  MaxRestarts = 1
  MaxToggles = 1
INVARIANTS
  SwitchedForThisGrant
  ShadowNeverBesideWrites
  RunTellsSource

