---------------------------- MODULE PeriodReview ----------------------------
(***************************************************************************)
(* What the close runs of a client find, run after run: the period and its *)
(* history loaded from Fortnox or from the copies of an earlier run (step  *)
(* 1, readiness.ts), the rules of steps 6 and 7 and the source keys step 7 *)
(* reads and records (analysis.ts), the issues and the corrections that    *)
(* step 10 derives (consolidate.ts), and the booking of a correction,      *)
(* which puts a voucher in the books that the next run will read.          *)
(*                                                                         *)
(* Nothing keeps two requests from running a close run of the same client  *)
(* at once: each worker is one executeCloseRun. The rules are functions of *)
(* what a run read, so all of them are evaluated where the last of them    *)
(* is, in step 7. The step rows and the review are in CloseRun, approvals  *)
(* and the gate in Booking.                                                *)
(*                                                                         *)
(* Vouchers are only ever added to the books, numbered in one series.      *)
(***************************************************************************)
EXTENDS Rules

CONSTANTS
  Periods,             \* periods a run can be started for
  Catalogue,           \* vouchers that can be entered in Fortnox, without id
  SupplierInvoices,    \* the supplier invoices registered in Fortnox
  historyWindowMonths,
  Workers,             \* concurrent calls of executeCloseRun
  MaxBooks,            \* bound: vouchers in the books
  MaxRuns              \* bound: close runs started

ASSUME ReviewAssumption ==
  /\ Periods \subseteq Nat \ {0}
  /\ historyWindowMonths \in Nat
  /\ MaxBooks \in Nat /\ MaxRuns \in Nat

\* Amounts are whole numbers of ore.
IsLedgerRows(rows) ==
  /\ Len(rows) \in Nat /\ DOMAIN rows = 1..Len(rows)
  /\ \A i \in DOMAIN rows : rows[i].debit \in Int /\ rows[i].credit \in Int

ASSUME CatalogueAssumption ==
  \A v \in Catalogue : v.date \in Nat \ {0} /\ IsLedgerRows(v.rows)

VARIABLES
  books,      \* the vouchers in Fortnox, numbered by entry
  lock,       \* lockedThrough in Fortnox, 0 when nothing is locked
  cache,      \* imported_records: numbers of the vouchers with a stored copy
  processed,  \* processed_source_records
  offers,     \* booking proposals, of all runs
  run,        \* each worker's close run: what it has read
  runs,       \* runs started
  filed       \* history: what each reviewed voucher's runs said of its invoice

vars == <<books, lock, cache, processed, offers, run, runs, filed>>

bookedKey(body) == <<"booked", body>>
History(period) == previousPeriods(period, historyWindowMonths)

\* listVouchers, as numbers and as vouchers
In(period, upto) == {n \in 1..upto : periodKeyOf(books[n].date) = period}
Vouchers(numbers) ==
  LET Rank(n) == Cardinality({m \in numbers : Before(books[m], books[n])})
  IN  [k \in 1..Cardinality(numbers) |-> books[CHOOSE n \in numbers : Rank(n) = k - 1]]

Idle == [pc |-> "idle", period |-> 0, lock |-> 0, upto |-> 0,
         history |-> {}, processed |-> {}, raw |-> << >>,
         overlapped |-> FALSE, id |-> 0]

-----------------------------------------------------------------------------
(* What a run finds *)

BlockingSteps ==
  <<"customer_and_supplier_invoices", "bank_and_tax_account_transactions",
    "accruals_and_depreciations", "recurring_journal_entries">>

\* ensureRuleContext, with the keys step 7 read
RuleContext(r) ==
  [period |-> r.period, lock |-> r.lock,
   current |-> Vouchers(In(r.period, r.upto)),
   history |-> Vouchers(r.history),
   invoices |-> {i \in SupplierInvoices :
                   periodKeyOf(i.date) \in History(r.period) \cup {r.period}},
   processed |-> r.processed]

rawFindings(r) ==
  LET ctx == RuleContext(r)
      NotImplemented(step) == notImplementedFinding(ctx, step)
  IN  [k \in DOMAIN BlockingSteps |-> NotImplemented(BlockingSteps[k])]
        \o COMPLETENESS_GROUP(ctx) \o LEDGER_GROUP(ctx)
        \o <<NotImplemented("balance_reconciliations")>>

Issues(r) == consolidateFindings(r.raw)

\* A correction an earlier run booked is shown as such.
StatusOf(r, body) ==
  IF bookedKey(body) \in r.processed THEN "already_booked" ELSE "simulated"

\* The proposals of step 10.
Offers(r, items) ==
  LET proposals == generateProposals(RuleContext(r), items)
  IN  {[run |-> r.id, issue |-> k, amount |-> Abs(items[k].amount),
        body |-> proposals[k].body, level |-> proposals[k].decision.level,
        locked |-> isPeriodLocked(RuleContext(r)),
        status |-> StatusOf(r, proposals[k].body)] :
         k \in {j \in DOMAIN proposals : proposalBalances(proposals[j].body)}}

-----------------------------------------------------------------------------
(* Fortnox *)

Init ==
  /\ books = << >>
  /\ lock = 0
  /\ cache = {}
  /\ processed = {}
  /\ offers = {}
  /\ run = [w \in Workers |-> Idle]
  /\ runs = 0
  /\ filed = {}

Book(v) ==
  books' = Append(books,
    [id |-> Len(books) + 1, date |-> v.date, manual |-> v.manual, file |-> v.file,
     invoice |-> v.invoice, sale |-> v.sale, supplier |-> v.supplier, rows |-> v.rows])

\* A voucher is booked in an open period.
Enter(v) ==
  /\ Len(books) < MaxBooks
  /\ v.date > lock
  /\ Book(v)
  /\ UNCHANGED <<lock, cache, processed, offers, run, runs, filed>>

Lock(period) ==
  /\ periodEnd(period) > lock
  /\ lock' = periodEnd(period)
  /\ UNCHANGED <<books, cache, processed, offers, run, runs, filed>>

-----------------------------------------------------------------------------
(* A close run *)

\* Step 1 of a new run. A history period that is locked is read from its
\* copies, if there are any, and copied if there are none. Without a financial
\* year for the period nothing is loaded, and the run has no ledger to review.
AgentReadiness(w, period) ==
  LET locked == {p \in History(period) : lock # 0 /\ periodEnd(p) <= lock}
      Copies(p) == In(p, Len(books)) \cap cache
      Fetched(p) == IF p \in locked /\ Copies(p) # {} THEN Copies(p) ELSE In(p, Len(books))
  IN  /\ run[w].pc = "idle"
      /\ runs < MaxRuns
      /\ InFinancialYear(periodStart(period))
      /\ runs' = runs + 1
      /\ run' = [run EXCEPT ![w] =
           [Idle EXCEPT !.pc = "loaded", !.period = period, !.lock = lock,
                        !.upto = Len(books), !.id = runs + 1,
                        !.history = UNION {Fetched(p) : p \in History(period)}]]
      /\ cache' = cache \cup UNION {Fetched(p) : p \in locked} \cup In(period, Len(books))
      /\ UNCHANGED <<books, lock, processed, offers, filed>>

\* Mutated form: the rules get no keys of earlier runs.
ListNothing(w) ==
  /\ run[w].pc = "loaded"
  /\ run' = [run EXCEPT ![w].pc = "listed"]
  /\ UNCHANGED <<books, lock, cache, processed, offers, runs, filed>>

\* Step 7 up to its first await: the keys of earlier runs.
ListProcessedSourceKeys(w) ==
  LET others == {u \in Workers \ {w} : run[u].pc = "listed"}
  IN  /\ run[w].pc = "loaded"
      /\ run' = [u \in Workers |->
           CASE u = w -> [run[u] EXCEPT !.pc = "listed", !.processed = processed,
                                        !.overlapped = others # {}]
             [] u \in others -> [run[u] EXCEPT !.overlapped = TRUE]
             [] OTHER -> run[u]]
      /\ UNCHANGED <<books, lock, cache, processed, offers, runs, filed>>

\* The rest of step 7.
RecordProcessedSourceKeys(w) ==
  /\ run[w].pc = "listed"
  /\ processed' = processed \cup collectSourceKeys(RuleContext(run[w]))
  /\ run' = [run EXCEPT ![w].pc = "reviewed", ![w].raw = rawFindings(run[w])]
  /\ UNCHANGED <<books, lock, cache, offers, runs, filed>>

\* Step 10.
ConsolidateFindings(w) ==
  LET items == Issues(run[w])
      duplicates == {items[k].subject.voucher : k \in
                       {j \in DOMAIN items : "duplicate_source_record" \in items[j].types}}
  IN  /\ run[w].pc = "reviewed"
      /\ offers' = offers \cup Offers(run[w], items)
      /\ filed' = filed \cup
           {[voucher |-> n, flagged |-> n \in duplicates, overlapped |-> run[w].overlapped] :
              n \in In(run[w].period, run[w].upto)}
      /\ run' = [run EXCEPT ![w] = Idle]
      /\ UNCHANGED <<books, lock, cache, processed, runs>>

\* The process dies, or a statement of the steps is refused, which blocks step
\* 10. Executed again, the run has no ledger and files nothing about a voucher.
Crash(w) ==
  /\ run[w].pc # "idle"
  /\ run' = [run EXCEPT ![w] = Idle]
  /\ UNCHANGED <<books, lock, cache, processed, offers, runs, filed>>

\* An approved correction is submitted, once its key is not on record. Fortnox
\* refuses a voucher of a locked period.
Submit(o) ==
  LET Settle(status) == offers' = (offers \ {o}) \cup {[o EXCEPT !.status = status]}
  IN  /\ o.status = "simulated"
      /\ \/ /\ bookedKey(o.body) \in processed
            /\ Settle("already_booked")
            /\ UNCHANGED <<books, processed>>
         \/ /\ bookedKey(o.body) \notin processed
            /\ o.body.date > lock /\ InFinancialYear(o.body.date)
            /\ Len(books) < MaxBooks
            /\ Book([date |-> o.body.date, manual |-> TRUE, file |-> FALSE,
                        invoice |-> "", sale |-> "", supplier |-> "",
                        rows |-> o.body.rows])
            /\ processed' = processed \cup {bookedKey(o.body)}
            /\ Settle("submitted")
      /\ UNCHANGED <<lock, cache, run, runs, filed>>

Next ==
  \/ \E v \in Catalogue : Enter(v)
  \/ \E p \in Periods : Lock(p)
  \/ \E w \in Workers :
       \/ \E p \in Periods : AgentReadiness(w, p)
       \/ ListProcessedSourceKeys(w)
       \/ RecordProcessedSourceKeys(w)
       \/ ConsolidateFindings(w)
       \/ Crash(w)
  \/ \E o \in offers : Submit(o)

Spec == Init /\ [][Next]_vars

-----------------------------------------------------------------------------
(* Properties *)

\* The runs about to file what they found.
Reviewed == {w \in Workers : run[w].pc = "reviewed"}

\* Consolidation (findings.ts) loses nothing: every observation is in exactly one
\* issue, and an issue is as severe, as restrictive, as blocking and as unsure
\* as the worst of the observations it stands for.
MergeKeepsTheWorst ==
  \A w \in Reviewed :
    LET raw == run[w].raw
        items == Issues(run[w])
        Of(k) == {raw[n] : n \in {m \in DOMAIN raw : raw[m].key = k}}
    IN  /\ DOMAIN items = {raw[n].key : n \in DOMAIN raw}
        /\ \A k \in DOMAIN items :
             /\ items[k].severity = Max({d.severity : d \in Of(k)})
             /\ LevelRank[items[k].level] = Max({LevelRank[d.level] : d \in Of(k)})
             /\ items[k].score = Min({d.score : d \in Of(k)})
             /\ items[k].blocking <=> \E d \in Of(k) : isBlockingType(d.type)
             /\ items[k].consultant <=> \E d \in Of(k) : d.consultant
             /\ items[k].types = {d.type : d \in Of(k)}
             /\ items[k].occurrences = Cardinality({n \in DOMAIN raw : raw[n].key = k})

\* What is wrong with a voucher that a run has in front of it, by class of issue.
Wrong(r, v) ==
  LET OnRow(Bad(_)) == \E i \in DOMAIN v.rows : Bad(v.rows[i])
      Document == v.file \/ \E s \in SupplierInvoices : s.number = v.invoice /\ s.file
  IN  {c \in {"unbalanced_voucher", "invalid_account", "date_outside_financial_year",
              "period_locked", "missing_dimension", "missing_documentation"} :
         CASE c = "unbalanced_voucher" ->
                SumFunction([i \in DOMAIN v.rows |-> Net(v.rows[i])]) # 0
           [] c = "invalid_account" -> OnRow(LAMBDA row : row.account \notin ActiveAccounts)
           [] c = "date_outside_financial_year" ->
                \A y \in FinancialYears : v.date \notin y[1]..y[2]
           [] c = "period_locked" -> v.date <= r.lock
           [] c = "missing_dimension" -> OnRow(LAMBDA row :
                \/ row.account \in costCenterRequiredAccounts /\ row.cc = ""
                \/ row.account \in projectRequiredAccounts /\ row.project = "")
           [] c = "missing_documentation" ->
                /\ requireDocumentationForInputVat /\ ~Document
                /\ OnRow(LAMBDA row : row.account = INPUT_VAT /\ row.debit > 0)}

\* A voucher the run reports as clear, which no issue is about (consolidate.ts),
\* has nothing wrong with it; and whatever is wrong with a voucher holds the
\* period: an issue of that class about it blocks, whichever rule saw it first and
\* however the observations were merged.
WrongBlocks ==
  \A w \in Reviewed :
    LET items == Issues(run[w])
    IN  \A n \in In(run[w].period, run[w].upto) : \A c \in Wrong(run[w], books[n]) :
          \E k \in DOMAIN items :
            k[2] = c /\ items[k].subject.voucher = n /\ items[k].blocking

\* As much as the code keeps of "the same source record must never be booked twice"
\* (validations.ts): a supplier invoice booked by two vouchers is pointed out on one
\* of them by the runs that reviewed them, whatever the periods, whatever became of those
\* runs, and whenever the vouchers were entered; unless both runs were between
\* reading and recording the source keys at the same time.
NoInvoiceTwiceUnseen ==
  \A e, f \in filed :
    LET invoice == books[e.voucher].invoice
        Flagged(n) == \E g \in filed : g.voucher = n /\ g.flagged
    IN  /\ e.voucher # f.voucher
        /\ invoice # "" /\ invoice = books[f.voucher].invoice
        /\ ~e.overlapped /\ ~f.overlapped
        => Flagged(e.voucher) \/ Flagged(f.voucher)

\* A correction of level automatic, which a client's policy approves without a
\* human, is within the client's limit, immaterial and in a period that was open,
\* balances, and moves nothing between accounts: it only changes dimensions.
AutomaticEarned ==
  \A o \in offers :
    o.level = "automatic" =>
      /\ o.amount <= AutomationAmountLimit
      /\ ~isMaterial(o.amount)
      /\ ~o.locked
      /\ \A i \in DOMAIN o.body.rows :
           LET same == {j \in DOMAIN o.body.rows :
                          o.body.rows[j].account = o.body.rows[i].account}
           IN  SumFunction([j \in same |-> Net(o.body.rows[j])]) = 0
=============================================================================
