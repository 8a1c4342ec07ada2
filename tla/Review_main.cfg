SPECIFICATION Spec
CONSTANTS
  w1 = w1
  w2 = w2
  Workers = {w1, w2}
  Entered = {"rent", "late", "cash"}
  Periods = {1, 2}
  Catalogue <- MCCatalogue
  SupplierInvoices <- MCInvoices
  historyWindowMonths = 1
  MaxBooks = 3
  MaxRuns = 2
  MaterialityThreshold = 20000
  AutomationAmountLimit = 15000
  Days = 3
  ActiveAccounts = {2440, 2641, 2990, 5010}
  FinancialYears <- MCYears
  costCenterRequiredAccounts = {5010}
  projectRequiredAccounts = {}
  requireDocumentationForInputVat = TRUE
  amountDeviationThreshold = 50
  vatRates = {0, 6, 12, 25}
  DimensionRules <- MCDimensionRules
  AccrualRules <- MCAccrualRules
INVARIANTS
  MergeKeepsTheWorst
  WrongBlocks
  NoInvoiceTwiceUnseen
  AutomaticEarned
SYMMETRY Symmetry
CHECK_DEADLOCK FALSE
