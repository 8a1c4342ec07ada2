------------------------------ MODULE MCImport ------------------------------
(***************************************************************************)
(* Instances of Import: two periods of two days, one of history, in one    *)
(* financial year, over three vouchers.                                    *)
(***************************************************************************)
EXTENDS Import, TLC

CONSTANT Entered   \* names of the vouchers that can be entered

Amount(milli) == [text |-> FALSE, milli |-> milli]
Text(milli) == [text |-> TRUE, milli |-> milli]
Row(account, debit, credit, removed) ==
  [account |-> account, debit |-> debit, credit |-> credit, costCenter |-> "",
   removed |-> removed]

Voucher(number, date, type, reference, text, rows) ==
  [year |-> 1, series |-> 1, number |-> number, date |-> date, type |-> type,
   reference |-> reference, text |-> text, rows |-> rows]

Struck(v) == [v EXCEPT !.rows = [n \in DOMAIN @ |-> [@[n] EXCEPT !.removed = TRUE]]]

(* rent: in the first period, can be struck out altogether; its text names one
   supplier inside the name of another. fee: in the first period; its text names
   two suppliers, and another client holds a transaction with the id of its
   second row. late: in the second period, for an invoice of the first; can be
   corrected. *)
Named ==
  [rent |-> Voucher(1, 1, "MANUAL", "", {"ren", "stad", "lokal"},
              <<Row(5010, Amount(500), Amount(0), FALSE),
                Row(1910, Text(-500), Amount(0), FALSE)>>),
   fee |-> Voucher(2, 2, "", "", {"bank", "stad", "avgift"},
              <<Row(6570, Text(25990), Amount(0), FALSE),
                Row(1930, Amount(0), Amount(25990), FALSE)>>),
   late |-> Voucher(3, 3, "SUPPLIERINVOICE", "f1", {"bank"},
              <<Row(5010, Text(80000), Text(0), FALSE),
                Row(2440, Amount(0), Amount(80000), FALSE)>>)]

Recorded == [Named.late EXCEPT !.rows =
               <<Row(5010, Text(80000), Text(0), TRUE),
                 Row(5020, Amount(80000), Text(0), FALSE),
                 Row(2440, Amount(0), Amount(80000), FALSE)>>]

MCCatalogue == {Named[n] : n \in Entered}
MCCorrected == Named.rent :> Struck(Named.rent) @@ Named.late :> Recorded
MCSuppliers == <<[number |-> "1", name |-> {"stad"}, short |-> FALSE],
                 [number |-> "2", name |-> {"ren", "stad"}, short |-> FALSE],
                 [number |-> "3", name |-> {"bank"}, short |-> FALSE],
                 [number |-> "4", name |-> {"ren", "stad", "lokal"}, short |-> TRUE]>>
MCInvoices == {[number |-> "f1", supplier |-> "2", date |-> 1, total |-> Text(80000),
                vouchers |-> <<[year |-> 1, series |-> 0, number |-> 3]>>,
                flat |-> [year |-> 1, series |-> 1, number |-> 3]]}
MCYears == {[id |-> 1, from |-> 1, to |-> 4]}
MCDemo == {[id |-> <<0, 1, 1>>, date |-> 1, manual |-> TRUE, file |-> FALSE,
            invoice |-> "", sale |-> "", supplier |-> "", customer |-> "",
            rows |-> <<[id |-> <<0, 1, 1, 1>>, account |-> 1930, debit |-> 0,
                        credit |-> 0, costCenter |-> ""]>>]}
MCOthersRows == {<<1, 1, 2, 2>>}
MCCustomers == << >>
Symmetry == Permutations(Workers)

-----------------------------------------------------------------------------
(* What TLC evaluates of Wire before it starts *)

Words == UNION {suppliers[k].name : k \in DOMAIN suppliers}

\* "Never a guess between candidates" (wire.ts): for every text, a supplier is taken
\* only if the text names it, and names no other but inside its name; and what is
\* named alone is taken.
ASSUME NeverAGuess ==
  \A text \in SUBSET Words :
    LET taken == supplierNumberForText(text)
    IN  /\ taken # "" => \E k \in Matches(text) :
             /\ suppliers[k].number = taken
             /\ \A j \in Matches(text) : suppliers[j].name \subseteq suppliers[k].name
        /\ \A k \in DOMAIN suppliers : Matches(text) = {k} => taken = suppliers[k].number

\* "Without float drift" (wire.ts): whole ore come out the same as number and as
\* text, and with their sign.
ASSUME AmountsAgree ==
  \A ore \in -150..150 :
    kronorToOre(Amount(10 * ore)) = ore /\ kronorToOre(Text(10 * ore)) = ore

\* What balances in Fortnox balances in the rules, before and after a correction:
\* struck rows are gone.
ASSUME BalanceSurvives ==
  \A w \in MCCatalogue \cup {MCCorrected[v] : v \in MCCatalogue \cap DOMAIN MCCorrected} :
    LET rows == Rows(w)
    IN  MapThenSumSet(LAMBDA n : rows[n].debit - rows[n].credit, DOMAIN rows) = 0
=============================================================================
