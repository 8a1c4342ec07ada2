SPECIFICATION Spec
CONSTANTS
  w1 = w1
  w2 = w2
  Workers = {w1, w2}
  Entered = {"rent", "fee", "late"}
  Periods = {1, 2}
  Days = 2
  FinancialYears <- MCYears
  Catalogue <- MCCatalogue
  Corrected <- MCCorrected
  Invoices <- MCInvoices
  Demo <- MCDemo
  OthersRows <- MCOthersRows
  suppliers <- MCSuppliers
  Customers <- MCCustomers
  historyWindowMonths = 1
  VOUCHER_DETAIL_CONCURRENCY = 2
  ChunkSize = 1
  MaxImports = 2
  MaxFaults = 1
  MaxChanges = 4
  Files = {}
INVARIANTS
  HistoryIsWhole
  ImportIsWhole
  LedgerAgrees
SYMMETRY Symmetry
CHECK_DEADLOCK FALSE
