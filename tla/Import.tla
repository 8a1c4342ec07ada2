------------------------------- MODULE Import -------------------------------
(***************************************************************************)
(* Step 1 of the close runs of a client, importPeriod of readiness.ts, with*)
(* the reads of the adapter (real-adapter.ts) and the copies it leaves     *)
(* (upsertImportedRecords, replaceTransactions), await by await; and       *)
(* Fortnox, where vouchers are entered and corrected, invoices registered  *)
(* and cancelled and periods locked meanwhile.                             *)
(*                                                                         *)
(* A list is read at one moment: pages and retries are in FortnoxHttp. Of  *)
(* the kinds of record an import stores, vouchers are modelled, which a    *)
(* later import reads. The order of vouchers, which follows from what they *)
(* are, is left out. What PeriodReview takes for one step is here in full. *)
(***************************************************************************)
EXTENDS Period, Wire, FiniteSetsExt

CONSTANTS
  Periods,                      \* periods an import may be started for
  Workers,                      \* concurrent imports
  FinancialYears,               \* records [id, from, to]
  Catalogue, Corrected,         \* wire vouchers, and what correcting one makes of it
  Invoices,                     \* supplier invoices, as they arrive
  Files,                        \* ids of the vouchers with a file
  Demo,                         \* vouchers of the demo dataset
  OthersRows,                   \* ids of transactions other clients hold
  historyWindowMonths, VOUCHER_DETAIL_CONCURRENCY, ChunkSize,
  MaxImports, MaxFaults,        \* bounds: imports started, imports broken off
  MaxChanges                    \* bound: changes in Fortnox

ASSUME ImportAssumption ==
  /\ Periods \subseteq Nat \ {0}
  /\ historyWindowMonths \in Nat
  /\ VOUCHER_DETAIL_CONCURRENCY \in Nat \ {0} /\ ChunkSize \in Nat \ {0}
  /\ MaxImports \in Nat /\ MaxFaults \in Nat /\ MaxChanges \in Nat

\* A supplier invoice has the number Fortnox gave it, and a supplier.
ASSUME InvoicesAssumption ==
  /\ \A i, j \in Invoices : i.number = j.number => i.supplier = j.supplier
  /\ \A i \in Invoices : i.supplier # ""

VARIABLES
  books,      \* Fortnox: vouchers
  register,   \* Fortnox: what became of each supplier invoice
  lock,       \* Fortnox: lockedThrough, 0 when nothing is
  connected,  \* whether the client's grant is there; else it is on demo data
  copies,     \* imported_records of kind voucher
  tx,         \* transactions, as [id, period]
  import,     \* state of each worker
  started, faults, changes,
  unsettled   \* history: periods with copies made while open, or cut short

fortnox == <<books, register, lock, connected>>
tables == <<copies, tx>>
vars == <<fortnox, tables, import, started, faults, changes, unsettled>>

\* of: the period being listed; left: ids to ask for, or rows to insert; got: what
\* was fetched; pending: copies to store; known: the sub-ledger the adapter
\* shares, once loaded, as a set of one; had: history, ids there when the import began.
Idle == [pc |-> "idle", period |-> 0, real |-> FALSE, lock |-> 0, todo |-> {},
         of |-> 0, left |-> {}, got |-> {}, pending |-> {}, known |-> {},
         history |-> {}, current |-> {}, invoices |-> {}, had |-> {},
         trusted |-> {}]

-----------------------------------------------------------------------------
(* What is read *)

InPeriod(vouchers, period) == {v \in vouchers : periodKeyOf(v.date) = period}

financialYearFor(date) == {y \in FinancialYears : y.from <= date /\ date <= y.to}

\* What Fortnox holds. A voucher is of the financial year its period begins in,
\* and keeps its id and its date when it is corrected; rows that are struck stay
\* struck, and a voucher that has no others gets none. The ids of demo vouchers
\* have a form of their own.
ASSUME BooksAssumption ==
  /\ \A v \in Catalogue :
       /\ v.date \in Nat \ {0}
       /\ \E y \in financialYearFor(periodStart(periodKeyOf(v.date))) : v.year = y.id
  /\ \A v \in DOMAIN Corrected :
       /\ voucherIdOf(Corrected[v]) = voucherIdOf(v) /\ Corrected[v].date = v.date
       /\ Rows(v) = << >> => Rows(Corrected[v]) = << >>
  /\ \A v \in Demo : \A w \in Catalogue : v.id # voucherIdOf(w)

\* Comparison of ids, and the order in which vouchers and rows are stored.
Below(a, b) == \E n \in DOMAIN a : a[n] < b[n] /\ \A m \in 1..(n - 1) : a[m] = b[m]
Before(u, v) == u.date < v.date \/ (u.date = v.date /\ Below(u.id, v.id))

\* The ids whose details are asked for at once, and what one statement stores.
Pool(ids) == {x \in ids : Cardinality({y \in ids : Below(y, x)}) < VOUCHER_DETAIL_CONCURRENCY}
Chunk(rows) == {x \in rows : Cardinality({y \in rows : Before(y, x)}) < ChunkSize}

\* The heads of the list, by id.
Heads(period) ==
  {voucherIdOf(w) : w \in {v \in InPeriod(books, period) :
     \E y \in financialYearFor(periodStart(period)) : v.year = y.id}}

\* Supplier invoices that are not cancelled.
Listed == {i \in Invoices : register[i] = "booked"}

Shared == {mapSupplierInvoice(i, {}) : i \in Listed}

supplierNumberByInvoice(known) ==
  [n \in {i.number : i \in known} |->
     (CHOOSE i \in known : i.number = n).supplier]

Detail(r, id) ==
  LET w == CHOOSE v \in books : voucherIdOf(v) = id
      known == CHOOSE k \in r.known : TRUE
  IN  mapVoucher(w, Files, supplierNumberByInvoice(known))

\* Mutated form: the list is asked for again.
LedgerInvoicesAnew(r) ==
  {i \in Shared : periodKeyOf(i.date) \in
     previousPeriods(r.period, historyWindowMonths) \cup {r.period}}

\* allSupplierInvoices of the ledger.
LedgerInvoices(r) ==
  {i \in UNION r.known : periodKeyOf(i.date) \in
     previousPeriods(r.period, historyWindowMonths) \cup {r.period}}

-----------------------------------------------------------------------------
(* Fortnox, and the client *)

Init ==
  /\ books = {} /\ register = [i \in Invoices |-> "none"] /\ lock = 0
  /\ connected = FALSE
  /\ copies = {} /\ tx = {}
  /\ import = [w \in Workers |-> Idle]
  /\ started = 0 /\ faults = 0 /\ changes = 0
  /\ unsettled = {}

Outside ==
  /\ changes < MaxChanges
  /\ changes' = changes + 1
  /\ UNCHANGED <<tables, import, started, faults, unsettled>>

\* A voucher is entered, or corrected: rows of it are struck and others added.
Enter(v) ==
  /\ v.date > lock
  /\ voucherIdOf(v) \notin {voucherIdOf(w) : w \in books}
  /\ books' = books \cup {v}
  /\ UNCHANGED <<register, lock, connected>> /\ Outside

Correct(v) ==
  /\ v \in books /\ v \in DOMAIN Corrected
  /\ v.date > lock
  /\ books' = (books \ {v}) \cup {Corrected[v]}
  /\ UNCHANGED <<register, lock, connected>> /\ Outside

Register(i) ==
  /\ register[i] = "none"
  /\ register' = [register EXCEPT ![i] = "booked"]
  /\ UNCHANGED <<books, lock, connected>> /\ Outside

Cancel(i) ==
  /\ register[i] = "booked"
  /\ register' = [register EXCEPT ![i] = "cancelled"]
  /\ UNCHANGED <<books, lock, connected>> /\ Outside

Lock(period) ==
  /\ periodEnd(period) > lock
  /\ lock' = periodEnd(period)
  /\ UNCHANGED <<books, register, connected>> /\ Outside

Connect ==
  /\ ~connected
  /\ connected' = TRUE
  /\ UNCHANGED <<books, register, lock>> /\ Outside

-----------------------------------------------------------------------------
(* An import *)

\* Work on the tables or reads of one worker.
Set(w, state) == import' = [import EXCEPT ![w] = state]
Reads == UNCHANGED <<fortnox, changes, tables, started, faults, unsettled>>

\* The source is resolved, the reference data and the lock are read; without a
\* financial year for the period the import ends there.
Begin(w, period) ==
  /\ import[w].pc = "idle"
  /\ started < MaxImports
  /\ connected => financialYearFor(periodStart(period)) # {}
  /\ started' = started + 1
  /\ Set(w, [Idle EXCEPT !.pc = "history", !.period = period, !.real = connected,
                         !.lock = lock, !.had = Heads(period),
                         !.todo = previousPeriods(period, historyWindowMonths)])
  /\ UNCHANGED <<fortnox, changes, tables, faults, unsettled>>

\* Mutated form: whatever is there was copied when it could not change.
cacheableAlways(r, period) == r.real

\* Demo data and open periods are read afresh.
cacheable(r, period) == r.real /\ r.lock # 0 /\ periodEnd(period) <= r.lock

\* The period to read next: the history, oldest first, then the own.
Oldest(r) == IF r.todo = {} THEN r.period ELSE Min(r.todo)

Storing(r, period) == r.pc \in {"store", "persist"} /\ r.of = period

cachedVouchers(period) == InPeriod(copies, period)

\* A locked period of the history, read from the copies of an earlier import.
TakeCopies(w) ==
  LET p == Oldest(import[w])
      cached == cachedVouchers(p)
      doubtful == p \in unsettled \/ \E u \in Workers : Storing(import[u], p)
  IN  /\ import[w].pc = "history" /\ import[w].todo # {}
      /\ cacheable(import[w], p) /\ cached # {}
      /\ Set(w, [import[w] EXCEPT !.todo = @ \ {p}, !.history = @ \cup cached,
                   !.trusted = IF doubtful THEN @ ELSE @ \cup {p}])
      /\ Reads

DemoVouchers(period) == InPeriod(Demo, period)

\* listVouchers: the heads; demo data is there at once.
ListVouchers(w) ==
  LET r == import[w]
      p == Oldest(r)
  IN  /\ r.pc = "history"
      /\ ~(r.todo # {} /\ cacheable(r, p) /\ cachedVouchers(p) # {})
      /\ Set(w, IF r.real
           THEN [r EXCEPT !.of = p, !.left = Heads(p),
                          !.pc = IF financialYearFor(periodStart(p)) = {} \/ r.known # {}
                                 THEN "details" ELSE "shared"]
           ELSE [r EXCEPT !.of = p, !.got = DemoVouchers(p), !.pc = "details"])
      /\ Reads

\* The lists every period needs are loaded once.
LoadShared(w) ==
  /\ import[w].pc = "shared"
  /\ Set(w, [import[w] EXCEPT !.pc = "details", !.known = {Shared}])
  /\ Reads

\* An answer to one of the requests in flight. A voucher without rows is dropped.
FetchDetail(w, id) ==
  LET r == import[w]
      v == Detail(r, id)
  IN  /\ r.pc = "details"
      /\ id \in Pool(r.left)
      /\ Set(w, [r EXCEPT !.left = @ \ {id},
                           !.got = IF v.rows = << >> THEN @ ELSE @ \cup {v}])
      /\ Reads

\* Where an import goes on when its copies are stored.
Stored(r) ==
  IF r.pending # {} THEN r
  ELSE [r EXCEPT !.pc = IF @ = "store" THEN "history" ELSE "delete"]

\* All details are there: of a period of the history, or of the own.
PeriodRead(w) ==
  LET r == import[w]
      copied == IF cacheable(r, r.of) THEN r.got ELSE {}
  IN  /\ r.pc = "details" /\ r.left = {}
      /\ Set(w, Stored(
           IF r.todo # {}
           THEN [r EXCEPT !.history = @ \cup r.got, !.got = {}, !.todo = @ \ {r.of},
                          !.trusted = @ \cup {r.of}, !.pending = copied, !.pc = "store"]
           ELSE [r EXCEPT !.current = r.got, !.got = {}, !.pending = r.got,
                          !.invoices = LedgerInvoices(r), !.pc = "persist"]))
      /\ Reads

\* A chunk of copies is stored, over those of the same vouchers.
StoreCopies(w) ==
  LET r == import[w]
      chunk == Chunk(r.pending)
  IN  /\ r.pc \in {"store", "persist"}
      /\ copies' = {c \in copies : c.id \notin {v.id : v \in chunk}} \cup chunk
      /\ unsettled' = IF cacheable(r, r.of) THEN unsettled ELSE unsettled \cup {r.of}
      /\ Set(w, Stored([r EXCEPT !.pending = @ \ chunk]))
      /\ UNCHANGED <<fortnox, changes, tx, started, faults>>

\* What there is to insert.
TransactionsOf(r) == UNION {{[id |-> v.rows[n].id, date |-> v.date] : n \in DOMAIN v.rows} :
                              v \in r.current}

DeleteTransactions(w) ==
  /\ import[w].pc = "delete"
  /\ tx' = {t \in tx : t.period # import[w].period}
  /\ Set(w, [import[w] EXCEPT !.pc = "insert", !.left = TransactionsOf(import[w])])
  /\ UNCHANGED <<fortnox, changes, copies, started, faults, unsettled>>

\* An id of a transaction is taken once, by whichever client.
Taken == {t.id : t \in tx} \cup OthersRows

\* A chunk is inserted, or refused as a whole, which ends the import.
InsertTransactions(w) ==
  LET r == import[w]
      chunk == Chunk(r.left)
  IN  /\ r.pc = "insert" /\ r.left # {}
      /\ {t.id : t \in chunk} \cap Taken = {}
      /\ tx' = tx \cup {[id |-> t.id, period |-> r.period] : t \in chunk}
      /\ Set(w, [r EXCEPT !.left = @ \ chunk])
      /\ UNCHANGED <<fortnox, changes, copies, started, faults, unsettled>>

InsertRefused(w) ==
  LET chunk == Chunk(import[w].left)
  IN  /\ import[w].pc = "insert"
      /\ {t.id : t \in chunk} \cap Taken # {}
      /\ Set(w, Idle)
      /\ Reads

\* The audit event, and the rest of the close run with its ledger.
Finish(w) ==
  /\ import[w].pc = "insert" /\ import[w].left = {}
  /\ Set(w, Idle)
  /\ Reads

\* Mutated form: a voucher that cannot be read is left out.
SkipDetail(w) ==
  /\ import[w].pc = "details" /\ import[w].left # {}
  /\ faults < MaxFaults
  /\ faults' = faults + 1
  /\ \E id \in Pool(import[w].left) :
       Set(w, [import[w] EXCEPT !.left = @ \ {id}])
  /\ UNCHANGED <<fortnox, changes, tables, started, unsettled>>

\* A request or a statement fails, or the process dies.
Break(w) ==
  /\ import[w].pc # "idle"
  /\ faults < MaxFaults
  /\ faults' = faults + 1
  /\ unsettled' = IF import[w].pending = {} THEN unsettled ELSE unsettled \cup {import[w].of}
  /\ Set(w, Idle)
  /\ UNCHANGED <<fortnox, changes, tables, started>>

Import(w) ==
  \/ \E p \in Periods : Begin(w, p)
  \/ TakeCopies(w)
  \/ ListVouchers(w)
  \/ LoadShared(w)
  \/ \E id \in import[w].left : FetchDetail(w, id)
  \/ PeriodRead(w)
  \/ StoreCopies(w)
  \/ DeleteTransactions(w)
  \/ InsertTransactions(w)
  \/ InsertRefused(w)
  \/ Finish(w)
  \/ Break(w)

Next ==
  \/ \E v \in Catalogue : Enter(v)
  \/ \E v \in books : Correct(v)
  \/ \E i \in Invoices : Register(i) \/ Cancel(i)
  \/ \E p \in Periods : Lock(p)
  \/ Connect
  \/ \E w \in Workers : Import(w)

Spec == Init /\ [][Next]_vars

-----------------------------------------------------------------------------
(* Properties *)

\* What cannot change in a locked period.
Plain(v) == <<v.id, v.date, v.rows>>
PlainBooks(period) ==
  {<<voucherIdOf(v), v.date, Rows(v)>> :
     v \in {u \in InPeriod(books, period) : Rows(u) # << >>}}

\* As much as the code keeps of "a period Fortnox reports as locked cannot change"
\* (readiness.ts): the history of a locked period that a run
\* reviews against is that of the books: every voucher, with the rows that count and no other;
\* read from Fortnox or from copies, whatever imports ran beside or before it;
\* unless copies of the period were made while it was open, or by an import that
\* was cut short or not through with them.
HistoryIsWhole ==
  \A w \in Workers : \A p \in import[w].trusted :
    cacheable(import[w], p) =>
      {Plain(v) : v \in InPeriod(import[w].history, p)} = PlainBooks(p)

\* An import leaves out no voucher of its period: those that were there when it
\* began are in what it hands to the rules, but for those whose rows have all
\* been struck; and each is there once.
ImportIsWhole ==
  \A w \in Workers :
    LET r == import[w]
        ids == {v.id : v \in r.current}
    IN  r.real /\ r.pc \in {"persist", "delete", "insert"} =>
          /\ r.had \subseteq ids \cup {voucherIdOf(v) : v \in {u \in books : Rows(u) = << >>}}
          /\ Cardinality(ids) = Cardinality(r.current)

\* The sub-ledger does not change under a run: the vouchers it reviews carry the
\* suppliers of exactly the invoices it reviews them against, whatever is
\* registered or cancelled meanwhile and whichever period they are of.
LedgerAgrees ==
  \A w \in Workers :
    \A v \in import[w].current : \A i \in import[w].invoices :
      v.invoice = i.number => v.supplier = i.supplier

=============================================================================
