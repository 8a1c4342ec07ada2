--------------------------- MODULE MCPeriodReview ---------------------------
(***************************************************************************)
(* Instances of PeriodReview: two periods of three days with one period of *)
(* history, a supplier with a rent that recurs, and client rules that      *)
(* correct a missing cost center and accrue a missing rent.                *)
(***************************************************************************)
EXTENDS PeriodReview, TLC

CONSTANT Entered   \* names of the vouchers that can be entered

Rent == 5010
Payables == 2440
Cash == 1930
AccruedCosts == 2990

Debit(account, amount, cc) == Row(account, amount, 0, cc)
Credit(account, amount, cc) == Row(account, 0, amount, cc)

Voucher(date, supplier, invoice, file, rows) ==
  [date |-> date, manual |-> supplier = "", file |-> file, invoice |-> invoice,
   sale |-> "", supplier |-> supplier, rows |-> rows]

(* rent: a supplier's invoice without a cost center; late: the same invoice in
   the next period, with VAT; cash: an unbalanced manual voucher without a
   document, with an implausible VAT, over the automation limit. *)
Named ==
  [rent |-> Voucher(1, "landlord", "f1", TRUE,
              <<Debit(Rent, 10000, ""), Credit(Payables, 10000, "")>>),
   late |-> Voucher(4, "landlord", "f1", FALSE,
              <<Debit(Rent, 8000, "A"), Debit(INPUT_VAT, 2000, ""),
                Credit(Payables, 10000, "")>>),
   cash |-> Voucher(5, "", "", FALSE,
              <<Debit(Rent, 18000, ""), Debit(INPUT_VAT, 3000, ""), Credit(Cash, 18000, "")>>)]

MCCatalogue == {Named[n] : n \in Entered}
MCInvoices == {[number |-> "f1", date |-> 1, file |-> TRUE]}
MCYears == {<<1, 4>>, <<6, 6>>}   \* a gap, where cash falls
MCDimensionRules == Rent :> "A"
MCAccrualRules == <<"landlord", Rent>> :> AccruedCosts
Symmetry == Permutations(Workers)
=============================================================================
