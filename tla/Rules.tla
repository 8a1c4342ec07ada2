------------------------------- MODULE Rules --------------------------------
(***************************************************************************)
(* The rules (packages/rules/src): eight validations and ten anomaly rules *)
(* as functions of the ledger a run loaded, and the corrections that       *)
(* generateProposals derives from the consolidated findings.               *)
(*                                                                         *)
(* There is one series of vouchers, so an id orders vouchers of one date.  *)
(* A rule returns findings in the order the code pushes them, because      *)
(* consolidation keeps the first. 0 and "" stand for null.                 *)
(*                                                                         *)
(* ctx is a RuleContext: period, lock, current and history (vouchers in    *)
(* the adapter's order), invoices, and processed, the source keys on       *)
(* record.                                                                 *)
(***************************************************************************)
EXTENDS Decision, Period, SequencesExt

CONSTANTS
  ActiveAccounts,                 \* accounts of the chart that are active
  FinancialYears,                 \* pairs of first and last day
  costCenterRequiredAccounts,
  projectRequiredAccounts,
  requireDocumentationForInputVat,
  amountDeviationThreshold,       \* in hundredths
  vatRates,                       \* in percent
  DimensionRules,                 \* cost center by account (client rules)
  AccrualRules                    \* accrual account by <<supplier, account>>

INPUT_VAT == 2641
ClearingAccounts == {2440, INPUT_VAT, 1510, 2611}
VAT_TOLERANCE_ORE == 100

ASSUME PolicyAssumption ==
  /\ FinancialYears \subseteq Nat \X Nat
  /\ requireDocumentationForInputVat \in BOOLEAN
  /\ amountDeviationThreshold \in Nat
  /\ vatRates \subseteq Nat
  /\ costCenterRequiredAccounts \subseteq Nat
  /\ projectRequiredAccounts \subseteq Nat

-----------------------------------------------------------------------------
(* Vouchers *)

Net(row) == row.debit - row.credit
voucherTotalDebit(v) == SumFunction([i \in DOMAIN v.rows |-> v.rows[i].debit])
voucherTotalCredit(v) == SumFunction([i \in DOMAIN v.rows |-> v.rows[i].credit])
\* The adapter's order.
Before(u, v) == u.date < v.date \/ (u.date = v.date /\ u.id < v.id)
CostRow(row) == row.account \notin ClearingAccounts
costRows(v) == {i \in DOMAIN v.rows : CostRow(v.rows[i]) /\ Net(v.rows[i]) # 0}
netOf(v) == SumFunction([i \in costRows(v) |-> Net(v.rows[i])])

\* The first row on the input VAT account with a debit, as a set of at most one.
VatRow(v) ==
  LET rows == {i \in DOMAIN v.rows : v.rows[i].account = INPUT_VAT /\ v.rows[i].debit > 0}
  IN  {i \in rows : \A j \in rows : i <= j}

\* A file on the voucher, or on its supplier invoice.
Documented(ctx, v) ==
  \/ v.file
  \/ \E i \in ctx.invoices : i.number = v.invoice /\ i.file

AboutVoucher(v) == [NoSubject EXCEPT !.voucher = v.id, !.supplier = v.supplier]
AboutRow(v, i) ==
  [AboutVoucher(v) EXCEPT !.row = i, !.account = v.rows[i].account]

isPeriodLocked(ctx) == ctx.lock # 0 /\ periodEnd(ctx.period) <= ctx.lock
Env(ctx) == [period |-> ctx.period, locked |-> isPeriodLocked(ctx)]

-----------------------------------------------------------------------------
(* Lists, item by item *)

Each(list, Found(_)) == FlattenSeq([n \in DOMAIN list |-> Found(list[n])])
Only(hit, found) == IF hit THEN <<found>> ELSE << >>

-----------------------------------------------------------------------------
(* What the history says *)

HistoryRows(ctx) ==
  UNION {{n} \X DOMAIN ctx.history[n].rows : n \in DOMAIN ctx.history}
RowAt(ctx, at) == ctx.history[at[1]].rows[at[2]]

\* The postings of a supplier that its profile counts.
Postings(ctx, supplier) ==
  {at \in HistoryRows(ctx) : /\ ctx.history[at[1]].supplier = supplier
                             /\ at[2] \in costRows(ctx.history[at[1]])}
accountUsage(ctx, account) ==
  Cardinality({at \in HistoryRows(ctx) : RowAt(ctx, at).account = account})
HistoryPeriods(ctx) ==
  {periodKeyOf(ctx.history[n].date) : n \in DOMAIN ctx.history}

\* sorted(k): the smallest of the amounts with k of them up to it.
median(amounts) ==
  LET UpTo(a) == {n \in DOMAIN amounts : amounts[n] <= a}
      sorted(k) == Min({a \in ToSet(amounts) : Cardinality(UpTo(a)) >= k})
      mid == Len(amounts) \div 2
  IN  CASE Len(amounts) = 0 -> 0
        [] Len(amounts) % 2 = 1 -> sorted(mid + 1)
        [] OTHER -> (sorted(mid) + sorted(mid + 1) + 1) \div 2

netAmounts(ctx, supplier) ==
  Each(ctx.history, LAMBDA v :
    Only(v.supplier = supplier /\ netOf(v) # 0, netOf(v)))

\* The code most often seen on an account's rows, the earlier one on a tie.
dominantVatCode(ctx, account) ==
  LET coded == {at \in HistoryRows(ctx) : /\ RowAt(ctx, at).account = account
                                          /\ RowAt(ctx, at).vat # ""}
      Seen(code) == {at \in coded : RowAt(ctx, at).vat = code}
      codes == {RowAt(ctx, at).vat : at \in coded}
      Earlier(a, b) == a[1] < b[1] \/ (a[1] = b[1] /\ a[2] < b[2])
      Beats(c, d) ==
        \/ Cardinality(Seen(c)) > Cardinality(Seen(d))
        \/ /\ Cardinality(Seen(c)) = Cardinality(Seen(d))
           /\ \E a \in Seen(c) : \A b \in Seen(d) : Earlier(a, b)
  IN  {c \in codes : \A d \in codes \ {c} : Beats(c, d)}

\* Supplier and account pairs booked in 70 % of the history periods.
RecurringRows(ctx, supplier, account) ==
  Each(ctx.history, LAMBDA v : Each(v.rows, LAMBDA row :
    Only(/\ v.supplier = supplier
         /\ row.account = account /\ CostRow(row) /\ Net(row) > 0,
         [date |-> v.date, net |-> Net(row)])))

findRecurringCosts(ctx) ==
  {cost \in {[supplier |-> ctx.history[at[1]].supplier,
              account |-> RowAt(ctx, at).account] : at \in HistoryRows(ctx)} :
     LET rows == RecurringRows(ctx, cost.supplier, cost.account)
         periods == {periodKeyOf(rows[k].date) : k \in DOMAIN rows}
     IN  /\ cost.supplier # ""
         /\ periods # {}
         /\ 10 * Cardinality(periods) >= 7 * Cardinality(HistoryPeriods(ctx))}

medianNet(ctx, cost) ==
  LET rows == RecurringRows(ctx, cost.supplier, cost.account)
  IN  median([k \in DOMAIN rows |-> rows[k].net])

-----------------------------------------------------------------------------
(* Rules: what each pushes, voucher by voucher and row by row *)

OnRows(v, rows, Finding(_)) ==
  FlattenSeq([i \in DOMAIN v.rows |-> Only(i \in rows, Finding(i))])

Failed == {"validationsFailed"}
Unruled == {"noDeterministicRule"}
NoRule == [NEUTRAL_SIGNALS EXCEPT !.deterministicRuleMatch = 0]

(* The mandatory validations *)

validateBalanced(ctx) ==
  Each(ctx.current, LAMBDA v :
    LET off == voucherTotalDebit(v) - voucherTotalCredit(v)
    IN  Only(off # 0, emitFinding(Env(ctx),
          [type |-> "unbalanced_voucher", class |-> "unbalanced_voucher",
           severity |-> critical, subject |-> AboutVoucher(v), amount |-> Abs(off),
           signals |-> [NoRule EXCEPT !.reconciliationImpact = 0], shut |-> Failed])))

validateAccounts(ctx) ==
  Each(ctx.current, LAMBDA v :
    OnRows(v, {i \in DOMAIN v.rows : v.rows[i].account \notin ActiveAccounts}, LAMBDA i :
      emitFinding(Env(ctx),
        [type |-> "unknown_or_inactive_account", class |-> "invalid_account",
         severity |-> critical, subject |-> AboutRow(v, i), amount |-> Abs(Net(v.rows[i])),
         signals |-> NoRule, shut |-> Failed])))

InFinancialYear(date) == \E y \in FinancialYears : y[1] <= date /\ date <= y[2]
validateFinancialYear(ctx) ==
  Each(ctx.current, LAMBDA v :
    Only(~InFinancialYear(v.date), emitFinding(Env(ctx),
      [type |-> "date_outside_financial_year", class |-> "date_outside_financial_year",
       severity |-> critical, subject |-> AboutVoucher(v), amount |-> voucherTotalDebit(v),
       signals |-> NoRule, shut |-> Failed \cup {"requiresProfessionalJudgement"}])))

validatePeriodNotLocked(ctx) ==
  Each(ctx.current, LAMBDA v :
    Only(ctx.lock # 0 /\ v.date <= ctx.lock, emitFinding(Env(ctx),
      [type |-> "period_locked", class |-> "period_locked",
       severity |-> critical, subject |-> AboutVoucher(v), amount |-> voucherTotalDebit(v),
       signals |-> NoRule, shut |-> Failed \cup {"periodNotOpen", "periodLocked"}])))

\* The first VAT row against all other debits of the voucher.
PlausibleVat(v, i) ==
  LET others == {j \in DOMAIN v.rows : /\ v.rows[j].account # INPUT_VAT
                                       /\ v.rows[j].account >= 1000}
      net == SumFunction([j \in others |-> v.rows[j].debit])
  IN  \/ net = 0
      \/ \E rate \in vatRates :
           Abs((net * rate + 50) \div 100 - v.rows[i].debit) <= VAT_TOLERANCE_ORE
validateVat(ctx) ==
  Each(ctx.current, LAMBDA v :
    OnRows(v, {i \in VatRow(v) : ~PlausibleVat(v, i)}, LAMBDA i :
      emitFinding(Env(ctx),
        [type |-> "implausible_vat", class |-> "implausible_vat",
         severity |-> high, subject |-> AboutRow(v, i), amount |-> v.rows[i].debit,
         signals |-> [NoRule EXCEPT !.vatConsistency = 0],
         shut |-> Failed \cup {"vatTreatmentUncertain"}])))

\* Of the class of ruleMissingDocumentation, but about the row.
validateInputVatDocumentation(ctx) ==
  Each(ctx.current, LAMBDA v :
    OnRows(v, {i \in VatRow(v) : requireDocumentationForInputVat /\ ~Documented(ctx, v)},
      LAMBDA i : emitFinding(Env(ctx),
        [type |-> "input_vat_without_documentation", class |-> "missing_documentation",
         severity |-> high, subject |-> AboutRow(v, i), amount |-> v.rows[i].debit,
         signals |-> [NoRule EXCEPT !.documentCompleteness = 0, !.vatConsistency = 20],
         shut |-> Failed \cup {"documentationMissing", "vatTreatmentUncertain"}])))

MissesDimension(row) ==
  \/ row.account \in costCenterRequiredAccounts /\ row.cc = ""
  \/ row.account \in projectRequiredAccounts /\ row.project = ""
validateRequiredDimensions(ctx) ==
  Each(ctx.current, LAMBDA v :
    OnRows(v, {i \in DOMAIN v.rows : MissesDimension(v.rows[i])}, LAMBDA i :
      emitFinding(Env(ctx),
        [type |-> "missing_required_dimension", class |-> "missing_dimension",
         severity |-> medium, subject |-> AboutRow(v, i), amount |-> Abs(Net(v.rows[i])),
         signals |-> [NoRule EXCEPT !.dimensionConsistency = 0], shut |-> Failed])))

\* Booked again in the period, or a source key on record.
Earlier(ctx, v) == {u \in ToSet(ctx.current) : Before(u, v)}
SourceRecordSeen(ctx, v) ==
  \/ <<"supplier_invoice", v.invoice>> \in ctx.processed
  \/ \E u \in Earlier(ctx, v) : u.invoice = v.invoice
validateDuplicateSourceRecords(ctx) ==
  Each(ctx.current, LAMBDA v :
    Only(v.invoice # "" /\ SourceRecordSeen(ctx, v), emitFinding(Env(ctx),
      [type |-> "duplicate_source_record", class |-> "duplicate_source_record",
       severity |-> critical, subject |-> AboutVoucher(v), amount |-> voucherTotalDebit(v),
       signals |-> [NoRule EXCEPT !.duplicateRisk = 0, !.reconciliationImpact = 0],
       shut |-> Failed])))

collectSourceKeys(ctx) ==
  LET vouchers == ToSet(ctx.current)
  IN  {<<"supplier_invoice", v.invoice>> : v \in {u \in vouchers : u.invoice # ""}}
        \cup {<<"customer_invoice", v.sale>> : v \in {u \in vouchers : u.sale # ""}}

notImplementedFinding(ctx, step) ==
  emitFinding(Env(ctx),
    [type |-> "step_not_implemented", class |-> step, severity |-> high,
     subject |-> NoSubject, amount |-> 0,
     signals |-> [NoRule EXCEPT !.reconciliationImpact = 0],
     shut |-> Failed \cup {"requiresProfessionalJudgement"}])

(* The anomaly rules *)

ruleUnusualAccountForSupplier(ctx) ==
  Each(ctx.current, LAMBDA v :
    LET known == Postings(ctx, v.supplier) # {}
        used == {RowAt(ctx, at).account : at \in Postings(ctx, v.supplier)}
    IN  OnRows(v, {i \in costRows(v) : v.supplier # "" /\ v.rows[i].account \notin used},
          LAMBDA i : emitFinding(Env(ctx),
            [type |-> "unusual_account_for_supplier", class |-> "unusual_account_for_supplier",
             severity |-> IF known THEN medium ELSE low,
             subject |-> AboutRow(v, i), amount |-> Abs(Net(v.rows[i])),
             signals |-> IF known THEN [NoRule EXCEPT !.historicalConsistency = 10]
                                  ELSE [NoRule EXCEPT !.historicalConsistency = 30,
                                                      !.counterpartyIdentityMatch = 30],
             shut |-> Unruled])))

ruleDeviatingVatCode(ctx) ==
  Each(ctx.current, LAMBDA v :
    OnRows(v, {i \in costRows(v) : v.rows[i].vat # "" /\
                 \E code \in dominantVatCode(ctx, v.rows[i].account) : code # v.rows[i].vat},
      LAMBDA i : emitFinding(Env(ctx),
        [type |-> "deviating_vat_code", class |-> "deviating_vat_code",
         severity |-> medium, subject |-> AboutRow(v, i), amount |-> Abs(Net(v.rows[i])),
         signals |-> [NoRule EXCEPT !.vatConsistency = 15, !.historicalConsistency = 40],
         shut |-> Unruled \cup {"vatTreatmentUncertain"}])))

\* In hundredths; any amount but 0 deviates by 100 % from a median of 0.
relativeDeviation(actual, baseline) ==
  IF baseline = 0 THEN 100 ELSE (100 * Abs(actual - baseline)) \div Abs(baseline)
ruleUnusualAmount(ctx) ==
  Each(ctx.current, LAMBDA v :
    LET amounts == netAmounts(ctx, v.supplier)
        deviation == relativeDeviation(netOf(v), median(amounts))
    IN  Only(/\ v.supplier # "" /\ Len(amounts) >= 3
             /\ netOf(v) # 0 /\ deviation > amountDeviationThreshold,
          emitFinding(Env(ctx),
            [type |-> "unusual_amount_for_supplier", class |-> "unusual_amount_for_supplier",
             severity |-> IF deviation > 200 THEN high ELSE medium,
             subject |-> AboutVoucher(v), amount |-> netOf(v),
             signals |-> [NoRule EXCEPT !.historicalConsistency = 35,
               !.amountConsistency = Greater(0, 100 - deviation \div 2)],
             shut |-> Unruled])))

\* Of the class of validateDuplicateSourceRecords.
rulePossibleDuplicate(ctx) ==
  Each(ctx.current, LAMBDA v :
    Only(v.supplier # "" /\ \E u \in Earlier(ctx, v) :
           /\ u.supplier = v.supplier /\ u.date = v.date
           /\ voucherTotalDebit(u) = voucherTotalDebit(v),
      emitFinding(Env(ctx),
        [type |-> "possible_duplicate", class |-> "duplicate_source_record",
         severity |-> high, subject |-> AboutVoucher(v), amount |-> voucherTotalDebit(v),
         signals |-> [NoRule EXCEPT !.duplicateRisk = 5, !.reconciliationImpact = 30],
         shut |-> Unruled])))

ruleMissingDocumentation(ctx) ==
  Each(ctx.current, LAMBDA v :
    Only(v.sale = "" /\ ~Documented(ctx, v), emitFinding(Env(ctx),
      [type |-> "missing_documentation", class |-> "missing_documentation",
       severity |-> high, subject |-> AboutVoucher(v), amount |-> voucherTotalDebit(v),
       signals |-> [NoRule EXCEPT !.documentCompleteness = 0],
       shut |-> Unruled \cup {"documentationMissing"}])))

\* Of the class of validateRequiredDimensions. That the account was used before
\* is asked as well, but decides nothing.
ruleMissingDimension(ctx) ==
  Each(ctx.current, LAMBDA v :
    OnRows(v, {i \in costRows(v) : /\ v.rows[i].account \in costCenterRequiredAccounts
                                   /\ v.rows[i].cc = ""},
      LAMBDA i : emitFinding(Env(ctx),
        [type |-> "missing_cost_center_or_project", class |-> "missing_dimension",
         severity |-> low, subject |-> AboutRow(v, i), amount |-> Abs(Net(v.rows[i])),
         signals |-> [NoRule EXCEPT !.dimensionConsistency = 10], shut |-> Unruled])))

ruleWrongPeriod(ctx) ==
  Each(ctx.current, LAMBDA v :
    Only(\E i \in ctx.invoices : /\ i.number = v.invoice
                                 /\ periodKeyOf(i.date) # periodKeyOf(v.date),
      emitFinding(Env(ctx),
        [type |-> "transaction_in_wrong_period", class |-> "transaction_in_wrong_period",
         severity |-> medium, subject |-> AboutVoucher(v), amount |-> voucherTotalDebit(v),
         signals |-> [NoRule EXCEPT !.historicalConsistency = 50, !.reconciliationImpact = 40],
         shut |-> Unruled \cup {"requiresProfessionalJudgement"}])))

ruleManualVoucherUnusual(ctx) ==
  Each(ctx.current, LAMBDA v :
    LET rare == {i \in costRows(v) : accountUsage(ctx, v.rows[i].account) < 3}
        total == voucherTotalDebit(v)
        large == total >= MaterialityThreshold
    IN  Only(v.manual /\ (rare # {} \/ large), emitFinding(Env(ctx),
          [type |-> "manual_voucher_unusual", class |-> "manual_voucher_unusual",
           severity |-> IF large THEN high ELSE medium,
           subject |-> AboutVoucher(v), amount |-> total,
           signals |-> [NoRule EXCEPT !.historicalConsistency = IF rare # {} THEN 20 ELSE 60],
           shut |-> Unruled \cup {"requiresProfessionalJudgement"}])))

isResultAccount(account) == account >= 3000
ruleBalanceInsteadOfResult(ctx) ==
  Each(ctx.current, LAMBDA v :
    LET postings == Postings(ctx, v.supplier)
        alwaysResult == /\ v.supplier # "" /\ Cardinality(postings) >= 3
                        /\ \A at \in postings : isResultAccount(RowAt(ctx, at).account)
    IN  OnRows(v, {i \in costRows(v) : alwaysResult /\ ~isResultAccount(v.rows[i].account)},
          LAMBDA i : emitFinding(Env(ctx),
            [type |-> "balance_account_where_history_uses_result_account",
             class |-> "balance_instead_of_result",
             severity |-> medium, subject |-> AboutRow(v, i), amount |-> Abs(Net(v.rows[i])),
             signals |-> [NoRule EXCEPT !.historicalConsistency = 15,
                                        !.reconciliationImpact = 50],
             shut |-> Unruled \cup {"requiresProfessionalJudgement"}])))

\* A supplier that appears at all is not missing.
ruleMissingRecurringCost(ctx) ==
  LET present == {v.supplier : v \in ToSet(ctx.current)}
      missing == SetToSeq({cost \in findRecurringCosts(ctx) : cost.supplier \notin present})
      Missing(cost) ==
        emitFinding(Env(ctx),
          [type |-> "missing_recurring_cost", class |-> "missing_recurring_cost",
           severity |-> high,
           subject |-> [NoSubject EXCEPT !.supplier = cost.supplier, !.account = cost.account],
           amount |-> medianNet(ctx, cost),
           signals |-> [NoRule EXCEPT !.documentCompleteness = 20,
                                      !.historicalConsistency = 10,
                                      !.reconciliationImpact = 30],
           shut |-> Unruled \cup {"documentationMissing"}])
  IN  [k \in DOMAIN missing |-> Missing(missing[k])]

COMPLETENESS_GROUP(ctx) ==
  validateInputVatDocumentation(ctx)
    \o ruleMissingDocumentation(ctx) \o ruleMissingRecurringCost(ctx) \o ruleWrongPeriod(ctx)

\* Mutated form: leaves the dimensions to the anomaly rule of the same class.
LedgerWithoutDimensions(ctx) ==
  validateBalanced(ctx) \o validateAccounts(ctx) \o validateFinancialYear(ctx)
    \o validatePeriodNotLocked(ctx) \o validateVat(ctx) \o validateDuplicateSourceRecords(ctx)
    \o ruleUnusualAccountForSupplier(ctx) \o ruleDeviatingVatCode(ctx)
    \o ruleUnusualAmount(ctx) \o rulePossibleDuplicate(ctx) \o ruleMissingDimension(ctx)
    \o ruleManualVoucherUnusual(ctx) \o ruleBalanceInsteadOfResult(ctx)

LEDGER_GROUP(ctx) ==
  validateBalanced(ctx) \o validateAccounts(ctx) \o validateFinancialYear(ctx)
    \o validatePeriodNotLocked(ctx) \o validateVat(ctx)
    \o validateRequiredDimensions(ctx) \o validateDuplicateSourceRecords(ctx)
    \o ruleUnusualAccountForSupplier(ctx) \o ruleDeviatingVatCode(ctx)
    \o ruleUnusualAmount(ctx) \o rulePossibleDuplicate(ctx) \o ruleMissingDimension(ctx)
    \o ruleManualVoucherUnusual(ctx) \o ruleBalanceInsteadOfResult(ctx)

-----------------------------------------------------------------------------
(* Corrections *)

Row(account, debit, credit, cc) ==
  [account |-> account, debit |-> debit, credit |-> credit, cc |-> cc,
   project |-> "", vat |-> ""]

\* The body of a correction: what its hash covers.
Reclassify(ctx, account, amount) ==
  [kind |-> <<"reclassify", account>>, date |-> periodEnd(ctx.period),
   rows |-> <<Row(account, amount, 0, DimensionRules[account]),
              Row(account, 0, amount, "")>>]
Accrue(ctx, supplier, account, amount) ==
  [kind |-> <<"accrue", supplier>>, date |-> periodEnd(ctx.period),
   rows |-> <<Row(account, amount, 0, ""),
              Row(AccrualRules[<<supplier, account>>], 0, amount, "")>>]

AccrueSignals ==
  [NEUTRAL_SIGNALS EXCEPT !.documentCompleteness = 20, !.amountConsistency = 60]

\* The issues a client rule corrects, by key. The signals and the gates are the
\* correction's own: what the rules said of the voucher does not reach it.
generateProposals(ctx, items) ==
  LET Dimension(item) ==
        /\ item.type \in {"missing_required_dimension", "missing_cost_center_or_project"}
        /\ item.subject.account \in DOMAIN DimensionRules
      Recurring(item) ==
        /\ item.type = "missing_recurring_cost"
        /\ <<item.subject.supplier, item.subject.account>> \in DOMAIN AccrualRules
      Correction(item) ==
        LET amount == Abs(item.amount)
            locked == isPeriodLocked(ctx)
        IN  IF Dimension(item)
            THEN [body |-> Reclassify(ctx, item.subject.account, amount),
                  decision |-> Assess(amount, locked, NEUTRAL_SIGNALS, {})]
            ELSE [body |-> Accrue(ctx, item.subject.supplier, item.subject.account, amount),
                  decision |-> Assess(amount, locked, AccrueSignals, {"documentationMissing"})]
  IN  [k \in {j \in DOMAIN items : Dimension(items[j]) \/ Recurring(items[j])} |->
         Correction(items[k])]

proposalBalances(body) == voucherTotalDebit(body) = voucherTotalCredit(body)
=============================================================================
