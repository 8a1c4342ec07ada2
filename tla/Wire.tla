-------------------------------- MODULE Wire --------------------------------
(***************************************************************************)
(* What Fortnox sends and what the rules get to see: the mapping of wire.ts*)
(* from a voucher and a supplier invoice as they arrive to those of the    *)
(* domain.                                                                 *)
(*                                                                         *)
(* An amount arrives as a decimal number or as text, in thousandths of a   *)
(* krona. A text and a supplier's name are sets of words; a name is in a   *)
(* text, or in another name, when all of its words are. A series is a      *)
(* number, to be compared. "", 0 and NoId stand for null.                  *)
(***************************************************************************)
EXTENDS Integers, Sequences, FiniteSets

CONSTANTS
  suppliers,   \* the supplier register, as listed
  Customers    \* customer of each customer invoice

ASSUME RegisterAssumption ==
  \A k \in DOMAIN suppliers : IsFiniteSet(suppliers[k].name)

NoId == <<>>

\* Financial year, series and number: numbers restart every year.
voucherIdOf(w) == <<w.year, w.series, w.number>>

\* A number is rounded to whole ore, a text is cut off after its second decimal.
\* Halves of an ore, which toFixed rounds by their binary form, do not arrive.
kronorToOre(amount) ==
  LET size == IF amount.milli < 0 THEN -amount.milli ELSE amount.milli
      ore == IF amount.text THEN size \div 10 ELSE (size + 5) \div 10
  IN  IF amount.milli < 0 THEN -ore ELSE ore

-----------------------------------------------------------------------------
(* The supplier a text names *)

\* Suppliers with a name of four characters or more that is in the text.
Matches(text) ==
  {k \in DOMAIN suppliers : ~suppliers[k].short /\ suppliers[k].name \subseteq text}

\* The first of those with the longest name.
Longest(found) ==
  CHOOSE k \in found : \A j \in found :
    LET Length(n) == Cardinality(suppliers[n].name)
    IN  Length(j) < Length(k) \/ (Length(j) = Length(k) /\ k <= j)

\* The supplier of a text that names one, or names one inside the name of
\* another.
supplierNumberForText(text) ==
  LET found == Matches(text)
      longest == suppliers[Longest(found)]
  IN  IF /\ found # {}
         /\ \/ Cardinality({suppliers[k].number : k \in found}) = 1
            \/ \A k \in found : suppliers[k].name \subseteq longest.name
      THEN longest.number ELSE ""

-----------------------------------------------------------------------------
(* Vouchers and invoices *)

Kept(w) == SelectSeq(w.rows, LAMBDA r : ~r.removed)

\* The rows that count, numbered anew.
Rows(w) ==
  [n \in DOMAIN Kept(w) |->
     [id |-> voucherIdOf(w) \o <<n>>,
      account |-> Kept(w)[n].account,
      debit |-> kronorToOre(Kept(w)[n].debit),
      credit |-> kronorToOre(Kept(w)[n].credit),
      costCenter |-> Kept(w)[n].costCenter]]

\* files: ids of the vouchers with a file; supplierOf: supplier of each supplier
\* invoice on the list.
mapVoucher(w, files, supplierOf) ==
  LET invoice == IF w.type = "SUPPLIERINVOICE" THEN w.reference ELSE ""
      sale == IF w.type = "INVOICE" THEN w.reference ELSE ""
      Of(register, key) == IF key \in DOMAIN register THEN register[key] ELSE ""
  IN  [id |-> voucherIdOf(w), date |-> w.date, manual |-> w.type \in {"MANUAL", ""},
       file |-> voucherIdOf(w) \in files, invoice |-> invoice, sale |-> sale,
       supplier |-> IF Of(supplierOf, invoice) # "" THEN supplierOf[invoice]
                    ELSE supplierNumberForText(w.text),
       customer |-> Of(Customers, sale), rows |-> Rows(w)]

\* files: numbers of the supplier invoices with a file. The voucher is the first
\* of the references, else that of the flat fields, if it is complete.
mapSupplierInvoice(w, files) ==
  LET Complete(ref) == ref.series # 0 /\ ref.year # 0 /\ ref.number # 0
      refs == (IF w.vouchers # <<>> THEN <<w.vouchers[1]>> ELSE <<>>) \o <<w.flat>>
      known == SelectSeq(refs, Complete)
  IN  [number |-> w.number, supplier |-> w.supplier, date |-> w.date,
       total |-> kronorToOre(w.total), file |-> w.number \in files,
       voucher |-> IF known # <<>> THEN voucherIdOf(known[1]) ELSE NoId]
=============================================================================
