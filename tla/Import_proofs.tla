--------------------------- MODULE Import_proofs ----------------------------
(***************************************************************************)
(* Proofs about Import, for every number of imports, vouchers, invoices and*)
(* periods, whatever happens in Fortnox meanwhile: an import sees one      *)
(* sub-ledger, leaves no voucher of its period out, and has the history of *)
(* a locked period as it is in the books, read or copied.                  *)
(***************************************************************************)
EXTENDS Import, FiniteSetTheorems, WellFoundedInduction, TLAPS

-----------------------------------------------------------------------------
(* One sub-ledger *)

\* The domain's form of every invoice there may be.
Ledger == {mapSupplierInvoice(i, {}) : i \in Invoices}

\* The vouchers carry the suppliers of these invoices.
Carry(vouchers, known) ==
  \A v \in vouchers : \A i \in known : v.invoice = i.number => v.supplier = i.supplier

Whole(r) ==
  DOMAIN r = {"pc", "period", "real", "lock", "todo", "of", "left", "got", "pending",
              "known", "history", "current", "invoices", "had", "trusted"}

\* The sub-ledger is loaded once, before the first detail is asked for.
LoadedOnce(r) ==
  /\ \A k \in r.known : r.known = {k} /\ k \subseteq Ledger
  /\ ~r.real => r.known = {}
  /\ r.pc = "shared" => r.real /\ r.known = {}
  /\ r.pc = "details" /\ r.left # {} => r.known # {}
  /\ r.pc \in {"history", "store"} => r.left = {}

\* What was read is read with it.
ReadWithIt(r) ==
  /\ r.pc \in {"history", "shared", "details", "store"} => r.current = {}
  /\ r.pc # "details" => r.got = {}
  /\ r.invoices \subseteq UNION r.known
  /\ \A k \in r.known : Carry(r.got, k) /\ Carry(r.current, k)

LedgerInv ==
  /\ import = [w \in Workers |-> import[w]]
  /\ \A w \in Workers : /\ Whole(import[w])
                        /\ LoadedOnce(import[w])
                        /\ ReadWithIt(import[w])

\* A worker that moves to a whole read, with nothing loaded twice, keeps the invariant.
LEMMA SetKeeps ==
  ASSUME LedgerInv, NEW w \in Workers, NEW e, Set(w, e),
         Whole(e), LoadedOnce(e), ReadWithIt(e)
  PROVE  LedgerInv'
<1>1. /\ import' = [u \in Workers |-> IF u = w THEN e ELSE import[u]]
  BY DEF LedgerInv, Set
<1>2. import'[w] = e /\ \A u \in Workers \ {w} : import'[u] = import[u]
  BY <1>1
<1>3. import' = [u \in Workers |-> import'[u]]
  BY <1>1
<1>4. ASSUME NEW u \in Workers
      PROVE  Whole(import'[u]) /\ LoadedOnce(import'[u]) /\ ReadWithIt(import'[u])
  <2>1. CASE u = w
    BY <1>2, <2>1
  <2>2. CASE u # w
    BY <1>2, <2>2 DEF LedgerInv
  <2> QED
    BY <2>1, <2>2
<1>5. \A u \in Workers : /\ Whole(import[u])'
                         /\ LoadedOnce(import[u])'
                         /\ ReadWithIt(import[u])'
  BY <1>4 DEF Whole, LoadedOnce, ReadWithIt
<1> QED
  BY <1>3, <1>5 DEF LedgerInv

\* Mapping an invoice keeps its number and its supplier.
LEMMA MappedInvoice ==
  ASSUME NEW i
  PROVE  /\ mapSupplierInvoice(i, {}).number = i.number
         /\ mapSupplierInvoice(i, {}).supplier = i.supplier
BY DEF mapSupplierInvoice

\* Invoices of the ledger with one number have one supplier, and have one.
LEMMA OneSupplier ==
  ASSUME NEW i \in Ledger, NEW j \in Ledger, i.number = j.number
  PROVE  i.supplier = j.supplier /\ i.supplier # ""
<1>1. PICK a \in Invoices : i = mapSupplierInvoice(a, {})
  BY DEF Ledger
<1>2. PICK b \in Invoices : j = mapSupplierInvoice(b, {})
  BY DEF Ledger
<1>3. /\ i.number = a.number /\ i.supplier = a.supplier
      /\ j.number = b.number /\ j.supplier = b.supplier
  BY <1>1, <1>2, MappedInvoice
<1> QED
  BY <1>3, InvoicesAssumption

\* A voucher mapped with the suppliers of a ledger carries them.
LEMMA MappedCarries ==
  ASSUME NEW w, NEW k \in SUBSET Ledger
  PROVE  LET v == mapVoucher(w, Files, supplierNumberByInvoice(k))
         IN  \A i \in k : v.invoice = i.number => v.supplier = i.supplier
<1> DEFINE supplierOf == supplierNumberByInvoice(k)
           invoice == IF w.type = "SUPPLIERINVOICE" THEN w.reference ELSE ""
           v == mapVoucher(w, Files, supplierOf)
<1>1. /\ DOMAIN supplierOf = {i.number : i \in k}
      /\ \A n \in DOMAIN supplierOf :
           supplierOf[n] = (CHOOSE i \in k : i.number = n).supplier
  BY DEF supplierNumberByInvoice
<1>2. ASSUME NEW i \in k
      PROVE  i.number \in DOMAIN supplierOf /\ supplierOf[i.number] = i.supplier
             /\ i.supplier # ""
  <2> DEFINE j == CHOOSE j \in k : j.number = i.number
  <2>1. i.number \in DOMAIN supplierOf /\ supplierOf[i.number] = j.supplier
    BY <1>1
  <2>2. j \in k /\ j.number = i.number
    OBVIOUS
  <2> HIDE DEF j, supplierOf
  <2>3. i \in Ledger /\ j \in Ledger
    BY <2>2
  <2>4. i.supplier = j.supplier /\ i.supplier # ""
    BY <2>2, <2>3, OneSupplier
  <2> QED
    BY <2>1, <2>4
<1> HIDE DEF supplierOf
<1>3. /\ v.invoice = invoice
      /\ v.supplier = IF (IF invoice \in DOMAIN supplierOf THEN supplierOf[invoice]
                                                          ELSE "") # ""
                        THEN supplierOf[invoice] ELSE supplierNumberForText(w.text)
  BY DEF mapVoucher
<1> HIDE DEF v
<1>4. \A i \in k : v.invoice = i.number => v.supplier = i.supplier
  BY <1>2, <1>3
<1> QED
  BY <1>4 DEF v, supplierOf

-----------------------------------------------------------------------------
(* The actions *)

\* An import that begins keeps the invariant.
LEMMA BeginKeeps ==
  ASSUME LedgerInv, NEW w \in Workers, NEW period, Begin(w, period)
  PROVE  LedgerInv'
<1> DEFINE todo == previousPeriods(period, historyWindowMonths)
           had == Heads(period)
           e == [Idle EXCEPT !.pc = "history", !.period = period, !.real = connected,
                             !.lock = lock, !.had = had, !.todo = todo]
<1>1. Set(w, e)
  BY DEF Begin
<1> HIDE DEF todo, had
<1>2. Whole(Idle) /\ Idle.left = {} /\ Idle.got = {} /\ Idle.known = {}
      /\ Idle.current = {} /\ Idle.invoices = {}
  BY DEF Idle, Whole
<1>3. /\ Whole(e) /\ e.pc = "history" /\ e.left = {} /\ e.got = {} /\ e.known = {}
      /\ e.current = {} /\ e.invoices = {}
  BY <1>2 DEF Whole
<1> HIDE DEF e
<1>4. LoadedOnce(e) /\ ReadWithIt(e)
  BY <1>3 DEF LoadedOnce, ReadWithIt
<1> QED
  BY <1>1, <1>3, <1>4, SetKeeps

\* An import that ends leaves nothing behind.
LEMMA EndKeeps ==
  ASSUME LedgerInv, NEW w \in Workers, Set(w, Idle)
  PROVE  LedgerInv'
<1>1. Whole(Idle) /\ LoadedOnce(Idle) /\ ReadWithIt(Idle)
  BY DEF Whole, LoadedOnce, ReadWithIt, Idle
<1> QED
  BY <1>1, SetKeeps

\* What a step leaves alone: all that the invariant is about but pc, left and got.
Alike(e, r) ==
  /\ e.real = r.real /\ e.known = r.known
  /\ e.current = r.current /\ e.invoices = r.invoices

\* Taking the copies already stored keeps the invariant.
LEMMA TakeCopiesKeeps ==
  ASSUME LedgerInv, NEW w \in Workers, TakeCopies(w)
  PROVE  LedgerInv'
<1> DEFINE r == import[w]
<1>1. Whole(r) /\ LoadedOnce(r) /\ ReadWithIt(r) /\ r.pc = "history"
  BY DEF LedgerInv, TakeCopies
<1>2. PICK todo, history, trusted :
        Set(w, [r EXCEPT !.todo = todo, !.history = history, !.trusted = trusted])
  BY DEF TakeCopies
<1> DEFINE e == [r EXCEPT !.todo = todo, !.history = history, !.trusted = trusted]
<1> HIDE DEF r
<1>3. /\ Whole(e) /\ Alike(e, r)
      /\ e.pc = r.pc /\ e.left = r.left /\ e.got = r.got
  BY <1>1 DEF Whole, Alike
<1> HIDE DEF e
<1>4. LoadedOnce(e) /\ ReadWithIt(e)
  BY <1>1, <1>3 DEF Alike, LoadedOnce, ReadWithIt
<1>5. Set(w, e)
  BY <1>2 DEF e, r
<1> QED
  BY <1>3, <1>4, <1>5, SetKeeps

\* Listing the vouchers keeps the invariant.
LEMMA ListVouchersKeeps ==
  ASSUME LedgerInv, NEW w \in Workers, ListVouchers(w)
  PROVE  LedgerInv'
<1> DEFINE r == import[w]
           p == Oldest(r)
           heads == Heads(p)
           noYear == financialYearFor(periodStart(p)) = {}
           pc == IF noYear \/ r.known # {} THEN "details" ELSE "shared"
           demo == DemoVouchers(p)
           real == [r EXCEPT !.of = p, !.left = heads, !.pc = pc]
           mock == [r EXCEPT !.of = p, !.got = demo, !.pc = "details"]
<1>1. Whole(r) /\ LoadedOnce(r) /\ ReadWithIt(r) /\ r.pc = "history"
  BY DEF LedgerInv, ListVouchers
<1>2. Set(w, IF r.real THEN real ELSE mock)
  BY DEF ListVouchers
<1>3. noYear => heads = {}
  BY DEF Heads
<1>4. CASE r.real
  <2> HIDE DEF r, p, heads, noYear
  <2>1. /\ Whole(real) /\ Alike(real, r)
        /\ real.pc = pc /\ real.left = heads /\ real.got = r.got
    BY <1>1 DEF Whole, Alike
  <2> HIDE DEF real
  <2>2. LoadedOnce(real)
    BY <1>1, <1>3, <1>4, <2>1 DEF Alike, LoadedOnce
  <2>3. ReadWithIt(real)
    BY <1>1, <2>1 DEF Alike, ReadWithIt
  <2>4. Set(w, real)
    BY <1>2, <1>4
  <2> QED
    BY <2>1, <2>2, <2>3, <2>4, SetKeeps
<1>5. CASE ~r.real
  <2> HIDE DEF r, p, demo
  <2>1. /\ Whole(mock) /\ Alike(mock, r)
        /\ mock.pc = "details" /\ mock.left = r.left /\ mock.got = demo
    BY <1>1 DEF Whole, Alike
  <2> HIDE DEF mock
  <2>2. r.known = {} /\ r.left = {}
    BY <1>1, <1>5 DEF LoadedOnce
  <2>3. LoadedOnce(mock) /\ ReadWithIt(mock)
    BY <1>1, <2>1, <2>2 DEF Alike, LoadedOnce, ReadWithIt
  <2>4. Set(w, mock)
    BY <1>2, <1>5
  <2> QED
    BY <2>1, <2>3, <2>4, SetKeeps
<1> QED
  BY <1>4, <1>5

\* Loading what the periods share keeps the invariant.
LEMMA LoadSharedKeeps ==
  ASSUME LedgerInv, NEW w \in Workers, LoadShared(w)
  PROVE  LedgerInv'
<1> DEFINE r == import[w]
           shared == Shared
           e == [r EXCEPT !.pc = "details", !.known = {shared}]
<1>1. Whole(r) /\ LoadedOnce(r) /\ ReadWithIt(r) /\ r.pc = "shared" /\ Set(w, e)
  BY DEF LedgerInv, LoadShared
<1>2. shared \subseteq Ledger
  BY DEF Shared, Listed, Ledger
<1> HIDE DEF r, shared
<1>3. /\ Whole(e) /\ e.pc = "details" /\ e.known = {shared} /\ e.real = r.real
      /\ e.left = r.left /\ e.got = r.got /\ e.current = r.current
      /\ e.invoices = r.invoices
  BY <1>1 DEF Whole
<1> HIDE DEF e
<1>4. r.real /\ r.invoices = {} /\ r.got = {} /\ r.current = {}
  BY <1>1 DEF LoadedOnce, ReadWithIt
<1>5. LoadedOnce(e) /\ ReadWithIt(e)
  BY <1>2, <1>3, <1>4 DEF LoadedOnce, ReadWithIt, Carry
<1> QED
  BY <1>1, <1>3, <1>5, SetKeeps DEF e, r, shared

\* Fetching one voucher keeps the invariant.
LEMMA FetchDetailKeeps ==
  ASSUME LedgerInv, NEW w \in Workers, NEW id, FetchDetail(w, id)
  PROVE  LedgerInv'
<1> DEFINE r == import[w]
           v == Detail(r, id)
           got == IF v.rows = << >> THEN r.got ELSE r.got \cup {v}
           left == r.left \ {id}
           e == [r EXCEPT !.left = left, !.got = got]
<1>1. Whole(r) /\ LoadedOnce(r) /\ ReadWithIt(r) /\ r.pc = "details" /\ r.left # {}
  BY DEF LedgerInv, FetchDetail, Pool
<1>2. Set(w, e)
  <2>1. Set(w, [import[w] EXCEPT !.left = @ \ {id},
                                 !.got = IF v.rows = << >> THEN @ ELSE @ \cup {v}])
    BY DEF FetchDetail
  <2>2. Whole(import[w])
    BY <1>1
  <2> HIDE DEF v
  <2> QED
    BY <2>1, <2>2 DEF Whole
<1>3. PICK k \in r.known : r.known = {k} /\ k \in SUBSET Ledger
  BY <1>1 DEF LoadedOnce
<1>4. \A i \in k : v.invoice = i.number => v.supplier = i.supplier
  <2> DEFINE b == CHOOSE x \in books : voucherIdOf(x) = id
  <2>1. (CHOOSE x \in r.known : TRUE) = k
    BY <1>3
  <2>2. v = mapVoucher(b, Files, supplierNumberByInvoice(k))
    BY <2>1 DEF Detail
  <2> HIDE DEF v, b
  <2> QED
    BY <1>3, <2>2, MappedCarries
<1>5. Carry(got, k)
  <2>1. Carry(r.got, k)
    BY <1>1, <1>3 DEF ReadWithIt
  <2>2. got \subseteq r.got \cup {v}
    OBVIOUS
  <2> HIDE DEF v, got
  <2> QED
    BY <1>4, <2>1, <2>2 DEF Carry
<1> HIDE DEF r, got, left, v
<1>6. /\ Whole(e) /\ Alike(e, r)
      /\ e.pc = r.pc /\ e.left = left /\ e.got = got
  BY <1>1 DEF Whole, Alike
<1> HIDE DEF e
<1>7. LoadedOnce(e) /\ ReadWithIt(e)
  BY <1>1, <1>3, <1>5, <1>6 DEF Alike, LoadedOnce, ReadWithIt
<1> QED
  BY <1>2, <1>6, <1>7, SetKeeps

\* A read that goes on to store is the read it was.
LEMMA StoredIs ==
  ASSUME NEW r, Whole(r)
  PROVE  /\ Whole(Stored(r)) /\ Alike(Stored(r), r)
         /\ Stored(r).left = r.left /\ Stored(r).got = r.got
         /\ \/ Stored(r).pc = r.pc
            \/ Stored(r).pc = IF r.pc = "store" THEN "history" ELSE "delete"
BY DEF Stored, Whole, Alike

\* A period read to its end keeps the invariant.
LEMMA PeriodReadKeeps ==
  ASSUME LedgerInv, NEW w \in Workers, PeriodRead(w)
  PROVE  LedgerInv'
<1> DEFINE r == import[w]
           copied == IF cacheable(r, r.of) THEN r.got ELSE {}
           invoices == LedgerInvoices(r)
           past == [r EXCEPT !.history = @ \cup r.got, !.got = {}, !.todo = @ \ {r.of},
                             !.trusted = @ \cup {r.of}, !.pending = copied,
                             !.pc = "store"]
           own == [r EXCEPT !.current = r.got, !.got = {}, !.pending = r.got,
                            !.invoices = invoices, !.pc = "persist"]
<1>1. /\ Whole(r) /\ LoadedOnce(r) /\ ReadWithIt(r) /\ r.pc = "details" /\ r.left = {}
      /\ Set(w, Stored(IF r.todo # {} THEN past ELSE own))
  BY DEF LedgerInv, PeriodRead
<1>2. invoices \subseteq UNION r.known
  BY DEF LedgerInvoices
<1>3. CASE r.todo # {}
  <2> HIDE DEF r, copied
  <2>1. /\ Whole(past) /\ Alike(past, r)
        /\ past.pc = "store" /\ past.left = r.left /\ past.got = {}
    BY <1>1 DEF Whole, Alike
  <2> HIDE DEF past
  <2> DEFINE e == Stored(past)
  <2>2. /\ Whole(e) /\ Alike(e, r) /\ e.left = {} /\ e.got = {}
        /\ e.pc \in {"store", "history"}
    BY <1>1, <2>1, StoredIs DEF Alike
  <2>3. Set(w, e)
    BY <1>1, <1>3
  <2> HIDE DEF e
  <2>4. LoadedOnce(e) /\ ReadWithIt(e)
    BY <1>1, <2>2 DEF Alike, LoadedOnce, ReadWithIt, Carry
  <2> QED
    BY <2>2, <2>3, <2>4, SetKeeps
<1>4. CASE r.todo = {}
  <2> HIDE DEF r, invoices
  <2>1. /\ Whole(own) /\ own.real = r.real /\ own.known = r.known
        /\ own.current = r.got /\ own.invoices = invoices
        /\ own.pc = "persist" /\ own.left = r.left /\ own.got = {}
    BY <1>1 DEF Whole
  <2> HIDE DEF own
  <2> DEFINE e == Stored(own)
  <2>2. /\ Whole(e) /\ e.real = r.real /\ e.known = r.known /\ e.current = r.got
        /\ e.invoices = invoices /\ e.left = {} /\ e.got = {}
        /\ e.pc \in {"persist", "delete"}
    BY <1>1, <2>1, StoredIs DEF Alike
  <2>3. Set(w, e)
    BY <1>1, <1>4
  <2> HIDE DEF e
  <2>4. LoadedOnce(e) /\ ReadWithIt(e)
    BY <1>1, <1>2, <2>2 DEF LoadedOnce, ReadWithIt, Carry
  <2> QED
    BY <2>2, <2>3, <2>4, SetKeeps
<1> QED
  BY <1>3, <1>4

\* Storing the copies keeps the invariant.
LEMMA StoreCopiesKeeps ==
  ASSUME LedgerInv, NEW w \in Workers, StoreCopies(w)
  PROVE  LedgerInv'
<1> DEFINE r == import[w]
           rest == r.pending \ Chunk(r.pending)
           s == [r EXCEPT !.pending = rest]
           e == Stored(s)
<1>1. /\ Whole(r) /\ LoadedOnce(r) /\ ReadWithIt(r) /\ r.pc \in {"store", "persist"}
  BY DEF LedgerInv, StoreCopies
<1>2. Set(w, e)
  <2>1. Set(w, Stored([r EXCEPT !.pending = @ \ Chunk(r.pending)]))
    BY DEF StoreCopies
  <2>2. [r EXCEPT !.pending = @ \ Chunk(r.pending)] = s
    BY <1>1 DEF Whole
  <2> QED
    BY <2>1, <2>2
<1> HIDE DEF r, rest
<1>3. /\ Whole(s) /\ Alike(s, r) /\ s.pc = r.pc /\ s.left = r.left /\ s.got = r.got
  BY <1>1 DEF Whole, Alike
<1> HIDE DEF s
<1>4. /\ Whole(e) /\ Alike(e, r) /\ e.left = r.left /\ e.got = r.got
      /\ \/ e.pc = r.pc
         \/ e.pc = IF r.pc = "store" THEN "history" ELSE "delete"
  BY <1>3, StoredIs DEF Alike
<1> HIDE DEF e
<1>5. LoadedOnce(e) /\ ReadWithIt(e)
  BY <1>1, <1>4 DEF Alike, LoadedOnce, ReadWithIt
<1> QED
  BY <1>2, <1>4, <1>5, SetKeeps

\* The transactions come last.
LEMMA TransactionsKeep ==
  ASSUME LedgerInv, NEW w \in Workers, DeleteTransactions(w) \/ InsertTransactions(w)
  PROVE  LedgerInv'
<1> DEFINE r == import[w]
<1>1. Whole(r) /\ LoadedOnce(r) /\ ReadWithIt(r) /\ r.pc \in {"delete", "insert"}
  BY DEF LedgerInv, DeleteTransactions, InsertTransactions
<1>2. PICK left : Set(w, [r EXCEPT !.pc = "insert", !.left = left])
  <2>1. CASE DeleteTransactions(w)
    BY <2>1 DEF DeleteTransactions
  <2>2. CASE InsertTransactions(w)
    <3>1. Set(w, [r EXCEPT !.left = @ \ Chunk(r.left)]) /\ r.pc = "insert"
      BY <2>2 DEF InsertTransactions
    <3>2. [r EXCEPT !.left = @ \ Chunk(r.left)]
            = [r EXCEPT !.pc = "insert", !.left = r.left \ Chunk(r.left)]
      <4> HIDE DEF r
      <4> QED
        BY <1>1, <3>1 DEF Whole
    <3> QED
      BY <3>1, <3>2
  <2> QED
    BY <2>1, <2>2
<1> DEFINE e == [r EXCEPT !.pc = "insert", !.left = left]
<1> HIDE DEF r
<1>3. Whole(e) /\ Alike(e, r) /\ e.pc = "insert" /\ e.got = r.got
  BY <1>1 DEF Whole, Alike
<1> HIDE DEF e
<1>4. LoadedOnce(e) /\ ReadWithIt(e)
  BY <1>1, <1>3 DEF Alike, LoadedOnce, ReadWithIt
<1> QED
  BY <1>2, <1>3, <1>4, SetKeeps DEF e, r

\* The invariant holds before the first import.
LEMMA LedgerInit == Init => LedgerInv
<1> SUFFICES ASSUME Init PROVE LedgerInv
  OBVIOUS
<1>1. import = [w \in Workers |-> Idle]
  BY DEF Init
<1>2. Whole(Idle) /\ LoadedOnce(Idle) /\ ReadWithIt(Idle)
  BY DEF Whole, LoadedOnce, ReadWithIt, Idle
<1>3. \A w \in Workers : import[w] = Idle
  BY <1>1
<1> QED
  BY <1>1, <1>2, <1>3 DEF LedgerInv

\* Every step keeps the invariant.
LEMMA LedgerNext == LedgerInv /\ [Next]_vars => LedgerInv'
<1> SUFFICES ASSUME LedgerInv, [Next]_vars PROVE LedgerInv'
  OBVIOUS
<1>1. ASSUME NEW w \in Workers, Import(w) PROVE LedgerInv'
  <2>1. CASE InsertRefused(w) \/ Finish(w) \/ Break(w)
    BY <2>1, EndKeeps DEF InsertRefused, Finish, Break
  <2> QED
    BY <1>1, <2>1, BeginKeeps, TakeCopiesKeeps, ListVouchersKeeps, LoadSharedKeeps,
       FetchDetailKeeps, PeriodReadKeeps, StoreCopiesKeeps, TransactionsKeep DEF Import
<1>2. CASE import' = import
  BY <1>2 DEF LedgerInv, Whole, LoadedOnce, ReadWithIt
<1>3. CASE UNCHANGED vars
  BY <1>2, <1>3 DEF vars
<1>4. ASSUME \/ \E v \in Catalogue : Enter(v)
             \/ \E v \in books : Correct(v)
             \/ \E i \in Invoices : Register(i) \/ Cancel(i)
             \/ \E p \in Periods : Lock(p)
             \/ Connect
      PROVE  LedgerInv'
  BY <1>2, <1>4 DEF Enter, Correct, Register, Cancel, Lock, Connect, Outside
<1> QED
  BY <1>1, <1>3, <1>4 DEF Next

\* The sub-ledger does not change under a run, whatever is registered or cancelled
\* in Fortnox between its reads.
THEOREM OneLedgerForARun == Spec => []LedgerAgrees
<1>1. LedgerInv => LedgerAgrees
  <2> SUFFICES ASSUME LedgerInv, NEW w \in Workers,
                      NEW v \in import[w].current, NEW i \in import[w].invoices,
                      v.invoice = i.number
               PROVE  v.supplier = i.supplier
    BY DEF LedgerAgrees
  <2>1. ReadWithIt(import[w])
    BY DEF LedgerInv
  <2>2. PICK k \in import[w].known : i \in k
    BY <2>1 DEF ReadWithIt
  <2> QED
    BY <2>1, <2>2 DEF ReadWithIt, Carry
<1> QED
  BY <1>1, LedgerInit, LedgerNext, PTL DEF Spec

-----------------------------------------------------------------------------
(* Nothing left out: the invariant *)
\* A book is entered under this id and date.
Booked(id, date) == \E b \in books : voucherIdOf(b) = id /\ b.date = date
BooksStruck == {voucherIdOf(v) : v \in {u \in books : Rows(u) = << >>}}
Ids(vouchers) == {v.id : v \in vouchers}
PlainOf(vouchers) == {Plain(v) : v \in vouchers}

\* What is in the books is of its year, and there is one voucher of an id.
BooksInv ==
  /\ lock \in Nat
  /\ \A b \in books :
       /\ b.date \in Nat \ {0}
       /\ \E y \in financialYearFor(periodStart(periodKeyOf(b.date))) : b.year = y.id
       /\ \A v \in Demo : v.id # voucherIdOf(b)
  /\ \A a, b \in books : voucherIdOf(a) = voucherIdOf(b) => a = b

\* Where an import is: the lock only moves on, and what is read now is still to do.
Underway(r) ==
  /\ r.period \in Nat /\ r.todo \subseteq Nat
  /\ r.real => r.lock \in Nat /\ r.lock <= lock /\ r.had \subseteq Heads(r.period)
  /\ r.pc \in {"shared", "details"} =>
       IF r.todo = {} THEN r.of = r.period ELSE r.of \in r.todo
  /\ r.pc \in {"store", "persist"} => r.of \in Nat
  /\ r.pending # {} <=> r.pc \in {"store", "persist"}

\* What is asked for, fetched and handed on are vouchers in the books, each once.
Fetches(r) ==
  /\ \A v \in r.got \cup r.pending : periodKeyOf(v.date) = r.of
  /\ ~r.real => r.got \cup r.pending \subseteq Demo
  /\ r.real =>
       /\ \A v \in r.got \cup r.pending : Booked(v.id, v.date)
       /\ IsFiniteSet(r.got) /\ IsFiniteSet(r.current)
       /\ \A u, v \in r.got : u.id = v.id => u = v
       /\ \A u, v \in r.current : u.id = v.id => u = v
       /\ r.pc \in {"shared", "details"} =>
            r.left \subseteq Heads(r.of) /\ \A v \in r.got : v.id \notin r.left

\* Nothing that was there is lost on the way.
LosesNothing(r) ==
  r.real =>
    /\ r.pc \in {"shared", "details"} /\ r.todo = {} =>
         r.had \subseteq r.left \cup Ids(r.got) \cup BooksStruck
    /\ r.pc \in {"persist", "delete", "insert"} =>
         r.had \subseteq Ids(r.current) \cup BooksStruck

\* The reading of a locked period: what is fetched, and what is left to fetch.
ReadsWhole(r) ==
  r.pc \in {"shared", "details"} /\ cacheable(r, r.of) =>
    /\ PlainOf(r.got) \subseteq PlainBooks(r.of)
    /\ \A x \in PlainBooks(r.of) : x[1] \in r.left \/ x \in PlainOf(r.got)

\* The history, period by period.
Remembers(r) ==
  /\ r.trusted \cap r.todo = {} /\ r.trusted \subseteq Nat
  /\ \A v \in r.history : periodKeyOf(v.date) \notin r.todo
  /\ \A p \in r.trusted : cacheable(r, p) =>
       PlainOf(InPeriod(r.history, p)) = PlainBooks(p)

\* An import that stores a locked period completes its copies.
Completes(r) ==
  r.pc \in {"store", "persist"} /\ cacheable(r, r.of) =>
    /\ PlainOf(r.pending) \subseteq PlainBooks(r.of)
    /\ r.of \in unsettled
       \/ PlainBooks(r.of) \subseteq PlainOf(InPeriod(copies, r.of)) \cup PlainOf(r.pending)

\* The copies of a period that are not in doubt are those of a locked one, and
\* are all of it when nobody is storing any.
CopiesInv ==
  /\ \A c \in copies : c \in Demo \/ Booked(c.id, c.date)
  /\ \A p \in {periodKeyOf(c.date) : c \in copies} \ unsettled :
       /\ periodEnd(p) <= lock
       /\ PlainOf(InPeriod(copies, p)) \subseteq PlainBooks(p)
       /\ \/ \E u \in Workers : Storing(import[u], p)
          \/ PlainBooks(p) \subseteq PlainOf(InPeriod(copies, p))

Reading(r) ==
  /\ Underway(r) /\ Fetches(r) /\ LosesNothing(r)
  /\ ReadsWhole(r) /\ Remembers(r) /\ Completes(r)

-----------------------------------------------------------------------------
(* Dates, and what comes first *)

\* A date lies before the end of its period.
LEMMA PeriodOfDate ==
  ASSUME NEW date \in Nat \ {0}
  PROVE  periodKeyOf(date) \in Nat /\ date <= periodEnd(periodKeyOf(date))
<1> DEFINE q == (date - 1) \div Days
           m == (date - 1) % Days
<1>1. Days \in Nat /\ Days > 0 /\ date - 1 \in Nat
  BY DaysAssumption
<1>2. q \in Nat /\ m \in 0..(Days - 1) /\ date - 1 = Days * q + m
  BY <1>1
<1> HIDE DEF q, m
<1>3. (q + 1) * Days = Days * q + Days
  BY <1>1, <1>2
<1>4. periodKeyOf(date) = q + 1 /\ periodEnd(q + 1) = (q + 1) * Days
  BY DEF periodKeyOf, periodEnd, q
<1>5. Days * q \in Nat
  BY <1>1, <1>2
<1>6. date <= (q + 1) * Days
  <2> DEFINE z == Days * q
  <2> HIDE DEF z
  <2>1. z \in Nat /\ date - 1 = z + m /\ (q + 1) * Days = z + Days
    BY <1>2, <1>3, <1>5 DEF z
  <2> QED
    BY <1>1, <1>2, <2>1
<1> QED
  BY <1>2, <1>4, <1>6

\* A set of numbers that is not empty has a smallest.
LEMMA Smallest ==
  ASSUME NEW S \in SUBSET Nat, S # {}
  PROVE  Min(S) \in S
<1>1. IsWellFoundedOn(OpToRel(<, Nat), Nat)
  BY NatLessThanWellFounded, Zenon
<1>2. PICK m \in S : \A n \in S : ~(<<n, m>> \in OpToRel(<, Nat))
  BY <1>1, WFMin, Zenon
<1>3. ASSUME NEW n \in S PROVE m <= n
  <2>1. ~(<<n, m>> \in {s \in Nat \X Nat : s[1] < s[2]})
    BY <1>2, Zenon DEF OpToRel
  <2> QED
    BY <2>1
<1> QED
  BY <1>3 DEF Min

-----------------------------------------------------------------------------
(* What happens in Fortnox *)

\* Vouchers stay under their id and date, and a locked period stays as it is.
Later ==
  /\ lock <= lock'
  /\ \A id, date : Booked(id, date) => Booked(id, date)'
  /\ \A p : Heads(p) \subseteq Heads(p)'
  /\ BooksStruck \subseteq BooksStruck'
  /\ \A p \in Nat : periodEnd(p) <= lock => PlainBooks(p)' = PlainBooks(p)

\* What the bookkeeper holds stands while nobody changes it.
LEMMA NoChange ==
  ASSUME BooksInv, UNCHANGED <<books, lock>>
  PROVE  BooksInv' /\ Later
<1>1. BooksInv'
  BY DEF BooksInv
<1>2. Later
  BY DEF BooksInv, Later, Booked, Heads, BooksStruck, PlainBooks, InPeriod
<1> QED
  BY <1>1, <1>2

\* A voucher of an open period is entered, or takes the place of another.
LEMMA Replaced ==
  ASSUME BooksInv, lock' = lock, NEW old \in SUBSET books, NEW v,
         books' = (books \ old) \cup {v},
         v.date \in Nat \ {0}, v.date > lock,
         \E y \in financialYearFor(periodStart(periodKeyOf(v.date))) : v.year = y.id,
         \A d \in Demo : d.id # voucherIdOf(v),
         \A b \in books \ old : voucherIdOf(b) # voucherIdOf(v),
         \A b \in old : /\ voucherIdOf(b) = voucherIdOf(v) /\ b.date = v.date
                        /\ Rows(b) = << >> => Rows(v) = << >>
  PROVE  BooksInv' /\ Later
<1>1. BooksInv'
  BY DEF BooksInv
<1>2. \A b \in books : b \in books' \/ b \in old
  OBVIOUS
<1>3. v \in books'
  OBVIOUS
<1>4. \A id, date : Booked(id, date) => Booked(id, date)'
  BY <1>2, <1>3 DEF Booked
<1>5. ASSUME NEW p PROVE Heads(p) \subseteq Heads(p)'
  <2>1. ASSUME NEW b \in old PROVE b.year = v.year
    BY DEF voucherIdOf
  <2>2. ASSUME NEW b \in InPeriod(books, p), 
               NEW y \in financialYearFor(periodStart(p)), b.year = y.id
        PROVE  \E c \in InPeriod(books, p)' :
                 voucherIdOf(c) = voucherIdOf(b) /\ c.year = y.id
    <3>1. CASE b \in old
      <4>1. v \in InPeriod(books, p)'
        BY <1>3, <2>2, <3>1 DEF InPeriod
      <4>2. voucherIdOf(v) = voucherIdOf(b) /\ v.year = y.id
        BY <2>1, <2>2, <3>1
      <4> QED
        BY <4>1, <4>2
    <3>2. CASE b \notin old
      BY <1>2, <2>2, <3>2 DEF InPeriod
    <3> QED
      BY <3>1, <3>2
  <2>3. ASSUME NEW id \in Heads(p) PROVE id \in Heads(p)'
    <3>1. PICK b \in InPeriod(books, p), y \in financialYearFor(periodStart(p)) :
            id = voucherIdOf(b) /\ b.year = y.id
      BY <2>3 DEF Heads
    <3>2. PICK c \in InPeriod(books, p)' : id = voucherIdOf(c) /\ c.year = y.id
      BY <2>2, <3>1
    <3> QED
      BY <3>2 DEF Heads
  <2> QED
    BY <2>3
<1>6. BooksStruck \subseteq BooksStruck'
  BY <1>2, <1>3 DEF BooksStruck
<1>7. ASSUME NEW p \in Nat, periodEnd(p) <= lock
      PROVE  PlainBooks(p)' = PlainBooks(p)
  <2>1. periodKeyOf(v.date) # p
    <3>1. periodEnd(p) \in Nat /\ lock \in Nat
      BY DaysAssumption DEF periodEnd, BooksInv
    <3> QED
      BY <1>7, <3>1, PeriodOfDate
  <2>2. InPeriod(books, p)' = InPeriod(books, p)
    BY <2>1 DEF InPeriod
  <2> QED
    BY <2>2 DEF PlainBooks
<1>8. lock <= lock'
  BY DEF BooksInv
<1> QED
  BY <1>1, <1>4, <1>5, <1>6, <1>7, <1>8 DEF Later

Fortnox ==
  \/ \E v \in Catalogue : Enter(v)
  \/ \E v \in books : Correct(v)
  \/ \E i \in Invoices : Register(i) \/ Cancel(i)
  \/ \E p \in Periods : Lock(p)
  \/ Connect

\* The bookkeeper takes no voucher back and changes no locked period's books.
LEMMA FortnoxMoves ==
  ASSUME BooksInv, Fortnox
  PROVE  BooksInv' /\ Later
<1>1. ASSUME NEW v \in Catalogue, Enter(v) PROVE BooksInv' /\ Later
  <2>1. /\ books' = (books \ {}) \cup {v} /\ lock' = lock /\ v.date > lock
        /\ \A b \in books : voucherIdOf(b) # voucherIdOf(v)
    BY <1>1 DEF Enter
  <2>2. /\ v.date \in Nat \ {0}
        /\ \E y \in financialYearFor(periodStart(periodKeyOf(v.date))) : v.year = y.id
        /\ \A d \in Demo : d.id # voucherIdOf(v)
    BY BooksAssumption
  <2>3. {} \in SUBSET books
    OBVIOUS
  <2> QED
    BY <2>1, <2>2, <2>3, Replaced
<1>2. ASSUME NEW v \in books, Correct(v) PROVE BooksInv' /\ Later
  <2> DEFINE c == Corrected[v]
  <2>1. /\ v \in DOMAIN Corrected
        /\ books' = (books \ {v}) \cup {c} /\ lock' = lock /\ v.date > lock
    BY <1>2 DEF Correct
  <2>2. /\ voucherIdOf(c) = voucherIdOf(v) /\ c.date = v.date
        /\ Rows(v) = << >> => Rows(c) = << >>
    BY <2>1, BooksAssumption
  <2> HIDE DEF c
  <2>3. c.year = v.year
    BY <2>2 DEF voucherIdOf
  <2>4. /\ c.date \in Nat \ {0} /\ c.date > lock
        /\ \E y \in financialYearFor(periodStart(periodKeyOf(c.date))) : c.year = y.id
        /\ \A d \in Demo : d.id # voucherIdOf(c)
    BY <2>1, <2>2, <2>3 DEF BooksInv
  <2>5. \A b \in books \ {v} : voucherIdOf(b) # voucherIdOf(c)
    BY <2>2 DEF BooksInv
  <2>6. {v} \in SUBSET books
    OBVIOUS
  <2> QED
    BY <2>1, <2>2, <2>4, <2>5, <2>6, Replaced
<1>3. ASSUME NEW p \in Periods, Lock(p) PROVE BooksInv' /\ Later
  <2>1. books' = books /\ lock' = periodEnd(p) /\ periodEnd(p) > lock
    BY <1>3 DEF Lock
  <2>2. periodEnd(p) \in Nat
    BY ImportAssumption, DaysAssumption DEF periodEnd
  <2>3. BooksInv'
    BY <2>1, <2>2 DEF BooksInv
  <2>4. Later
    BY <2>1, <2>2 DEF BooksInv, Later, Booked, Heads, BooksStruck, PlainBooks, InPeriod
  <2> QED
    BY <2>3, <2>4
<1>4. ASSUME UNCHANGED <<books, lock>> PROVE BooksInv' /\ Later
  BY <1>4, NoChange
<1> QED
  BY <1>1, <1>2, <1>3, <1>4 DEF Fortnox, Register, Cancel, Connect

\* The copies of a period are at most replaced, unless the period is in doubt.
StillSaid(p) == PlainOf(InPeriod(copies, p)) \subseteq PlainOf(InPeriod(copies, p))'
CopiesKept ==
  /\ unsettled \subseteq unsettled'
  /\ \A p \in Nat : p \in unsettled' \/ StillSaid(p)

\* A read nobody moves stays true to the books as they and the copies move on.
LEMMA ReadingKept ==
  ASSUME NEW r, Reading(r), BooksInv, BooksInv', Later, CopiesKept
  PROVE  Reading(r)'
<1> USE DEF Reading
<1>1. lock \in Nat /\ lock' \in Nat /\ lock <= lock'
  BY DEF BooksInv, Later
<1>2. Underway(r)'
  BY <1>1 DEF Underway, Later
<1>3. Fetches(r)'
  BY DEF Fetches, Later
<1>4. LosesNothing(r)'
  BY DEF LosesNothing, Later, Ids
<1>5. \A p : cacheable(r, p)' <=> cacheable(r, p)
  BY DEF cacheable
<1>6. ASSUME NEW p \in Nat, cacheable(r, p)
      PROVE  PlainBooks(p)' = PlainBooks(p)
  <2>1. periodEnd(p) <= lock
    <3>1. periodEnd(p) \in Nat
      BY DaysAssumption DEF periodEnd
    <3> QED
      BY <1>1, <1>6, <3>1 DEF cacheable, Underway
  <2> QED
    BY <2>1 DEF Later
<1>7. ReadsWhole(r)'
  <2>1. r.pc \in {"shared", "details"} => r.of \in Nat
    BY DEF Underway
  <2> QED
    BY <1>5, <1>6, <2>1 DEF ReadsWhole, PlainOf
<1>8. Remembers(r)'
  <2>1. \A p \in r.trusted : p \in Nat
    BY DEF Remembers
  <2>2. \A p \in r.trusted : cacheable(r, p) =>
          PlainOf(InPeriod(r.history, p)) = PlainBooks(p)'
    BY <1>6, <2>1 DEF Remembers
  <2> QED
    BY <1>5, <2>2 DEF Remembers, PlainOf, InPeriod, Plain
<1>9. Completes(r)'
  <2> SUFFICES ASSUME r.pc \in {"store", "persist"}, cacheable(r, r.of)
               PROVE  /\ PlainOf(r.pending) \subseteq PlainBooks(r.of)'
                      /\ \/ r.of \in unsettled'
                         \/ PlainBooks(r.of)' \subseteq
                              PlainOf(InPeriod(copies, r.of))' \cup PlainOf(r.pending)
    BY <1>5 DEF Completes, PlainOf, Plain
  <2>1. r.of \in Nat
    BY DEF Underway
  <2>2. PlainBooks(r.of)' = PlainBooks(r.of)
    BY <1>6, <2>1
  <2> QED
    BY <2>1, <2>2 DEF Completes, CopiesKept, StillSaid
<1> QED
  BY <1>2, <1>3, <1>4, <1>7, <1>8, <1>9

\* The copies stay true while they stand and every store under way goes on.
LEMMA CopiesStay ==
  ASSUME BooksInv, BooksInv', CopiesInv, Later, UNCHANGED <<copies, unsettled>>,
         \A p \in Nat : (\E u \in Workers : Storing(import[u], p))
                          => \E u \in Workers : Storing(import[u], p)'
  PROVE  CopiesInv'
<1>1. \A c \in copies : c \in Demo \/ Booked(c.id, c.date)'
  BY DEF CopiesInv, Later
<1>2. ASSUME NEW c \in copies, periodKeyOf(c.date) \notin unsettled
      PROVE  LET p == periodKeyOf(c.date)
             IN  /\ periodEnd(p) <= lock'
                 /\ PlainOf(InPeriod(copies, p)) \subseteq PlainBooks(p)'
                 /\ \/ \E u \in Workers : Storing(import[u], p)'
                    \/ PlainBooks(p)' \subseteq PlainOf(InPeriod(copies, p))
  <2> DEFINE p == periodKeyOf(c.date)
  <2>1. /\ periodEnd(p) <= lock
        /\ PlainOf(InPeriod(copies, p)) \subseteq PlainBooks(p)
        /\ \/ \E u \in Workers : Storing(import[u], p)
           \/ PlainBooks(p) \subseteq PlainOf(InPeriod(copies, p))
    BY <1>2 DEF CopiesInv
  <2>2. Plain(c) \in PlainBooks(p)
    BY <2>1 DEF PlainOf, InPeriod
  <2>3. p \in Nat
    <3>1. PICK b \in books : c.date = b.date
      BY <2>2 DEF PlainBooks, InPeriod, Plain
    <3> QED
      BY <3>1, PeriodOfDate DEF BooksInv
  <2>4. PlainBooks(p)' = PlainBooks(p)
    BY <2>1, <2>3 DEF Later
  <2>5. periodEnd(p) <= lock'
    <3>1. periodEnd(p) \in Nat
      BY <2>3, DaysAssumption DEF periodEnd
    <3> QED
      BY <2>1, <3>1 DEF Later, BooksInv
  <2> QED
    BY <2>1, <2>3, <2>4, <2>5
<1> QED
  BY <1>1, <1>2 DEF CopiesInv, PlainOf, InPeriod, Plain

-----------------------------------------------------------------------------
(* The actions of an import *)

ReadInv ==
  /\ LedgerInv /\ BooksInv /\ CopiesInv
  /\ \A w \in Workers : Reading(import[w])

\* A step of one import, which leaves the books alone.
LEMMA StepKeeps ==
  ASSUME ReadInv, NEW w \in Workers, NEW e, Set(w, e), UNCHANGED <<books, lock>>,
         CopiesKept, Reading(e)'
  PROVE  BooksInv' /\ \A u \in Workers : Reading(import[u])'
<1>1. BooksInv' /\ Later
  BY NoChange DEF ReadInv
<1>2. /\ import'[w] = e
      /\ \A u \in Workers \ {w} : import'[u] = import[u]
  BY DEF ReadInv, LedgerInv, Set
<1>3. ASSUME NEW u \in Workers PROVE Reading(import[u])'
  <2>1. CASE u = w
    <3>1. PICK r : r = e
      OBVIOUS
    <3> QED
      BY <1>2, <2>1
  <2>2. CASE u # w
    <3>1. PICK r : r = import[u]
      OBVIOUS
    <3>2. Reading(r)'
      BY <1>1, <3>1, ReadingKept DEF ReadInv
    <3>3. r = import'[u]
      BY <1>2, <2>2, <3>1
    <3> QED
      BY <3>2, <3>3
  <2> QED
    BY <2>1, <2>2
<1> QED
  BY <1>1, <1>3

\* A step that stores nothing.
LEMMA ReadStepKeeps ==
  ASSUME ReadInv, NEW w \in Workers, NEW e, Set(w, e), UNCHANGED <<books, lock>>,
         UNCHANGED <<copies, unsettled>>, Reading(e),
         import[w].pc \notin {"store", "persist"}
  PROVE  BooksInv' /\ CopiesInv' /\ \A u \in Workers : Reading(import[u])'
<1>1. BooksInv' /\ Later
  BY NoChange DEF ReadInv
<1>2. CopiesKept
  BY DEF CopiesKept, StillSaid, PlainOf, InPeriod
<1>3. Reading(e)'
  BY <1>1, <1>2, ReadingKept DEF ReadInv
<1>4. \A u \in Workers \ {w} : import'[u] = import[u]
  BY DEF ReadInv, LedgerInv, Set
<1>5. ASSUME NEW p \in Nat, NEW u \in Workers, Storing(import[u], p)
      PROVE  Storing(import[u], p)'
  BY <1>4, <1>5 DEF Storing
<1>6. CopiesInv'
  BY <1>1, <1>5, CopiesStay DEF ReadInv
<1> QED
  BY <1>2, <1>3, <1>6, StepKeeps

\* A worker without an import has read nothing.
LEMMA IdleReads == BooksInv => Whole(Idle) /\ Reading(Idle)
<1>1. Whole(Idle) /\ Underway(Idle)
  BY DEF Idle, Whole, Underway
<1>2. Fetches(Idle) /\ LosesNothing(Idle)
  BY FS_EmptySet DEF Idle, Fetches, LosesNothing
<1>3. ReadsWhole(Idle) /\ Remembers(Idle) /\ Completes(Idle)
  BY DEF Idle, ReadsWhole, Remembers, Completes
<1> QED
  BY <1>1, <1>2, <1>3 DEF Reading

\* An import that begins leaves the books, the copies and every read true.
LEMMA BeginReads ==
  ASSUME ReadInv, NEW w \in Workers, NEW period \in Periods, Begin(w, period)
  PROVE  BooksInv' /\ CopiesInv' /\ \A u \in Workers : Reading(import[u])'
<1> DEFINE todo == previousPeriods(period, historyWindowMonths)
           had == Heads(period)
           e == [Idle EXCEPT !.pc = "history", !.period = period, !.real = connected,
                             !.lock = lock, !.had = had, !.todo = todo]
<1>1. Set(w, e)
  BY DEF Begin
<1>2. /\ period \in Nat /\ todo \subseteq Nat
  BY ImportAssumption DEF previousPeriods
<1>3. lock \in Nat /\ had \subseteq Heads(period)
  BY DEF ReadInv, BooksInv
<1> HIDE DEF todo, had
<1>4. /\ Idle.got = {} /\ Idle.pending = {} /\ Idle.current = {}
      /\ Idle.trusted = {} /\ Idle.history = {} /\ Whole(Idle)
  BY DEF Idle, Whole
<1>5. /\ e.pc = "history" /\ e.period = period /\ e.lock = lock /\ e.had = had
      /\ e.todo = todo /\ e.got = {} /\ e.pending = {} /\ e.current = {}
      /\ e.trusted = {} /\ e.history = {}
  BY <1>4 DEF Whole
<1> HIDE DEF e
<1>6. Reading(e)
  <2>1. Underway(e)
    BY <1>2, <1>3, <1>5 DEF Underway
  <2>2. Fetches(e)
    BY <1>5, FS_EmptySet DEF Fetches
  <2>3. LosesNothing(e) /\ ReadsWhole(e) /\ Remembers(e) /\ Completes(e)
    BY <1>5 DEF LosesNothing, ReadsWhole, Remembers, Completes
  <2> QED
    BY <2>1, <2>2, <2>3 DEF Reading
<1> QED
  BY <1>1, <1>6, ReadStepKeeps DEF Begin, fortnox, tables

\* Listing the vouchers leaves the books, the copies and every read true.
LEMMA ListReads ==
  ASSUME ReadInv, NEW w \in Workers, ListVouchers(w)
  PROVE  BooksInv' /\ CopiesInv' /\ \A u \in Workers : Reading(import[u])'
<1> DEFINE r == import[w]
           p == Oldest(r)
           heads == Heads(p)
           pc == IF financialYearFor(periodStart(p)) = {} \/ r.known # {}
                 THEN "details" ELSE "shared"
           demo == DemoVouchers(p)
           real == [r EXCEPT !.of = p, !.left = heads, !.pc = pc]
           mock == [r EXCEPT !.of = p, !.got = demo, !.pc = "details"]
           e == IF r.real THEN real ELSE mock
<1>1. /\ Whole(r) /\ Reading(r) /\ r.pc = "history" /\ r.got = {} /\ Set(w, e)
      /\ r.left = {}
  BY DEF ReadInv, LedgerInv, LoadedOnce, ReadWithIt, ListVouchers
<1>2. IF r.todo = {} THEN p = r.period ELSE p \in r.todo
  BY <1>1, Smallest DEF Reading, Underway, Oldest
<1>3. \A v \in demo : v \in Demo /\ periodKeyOf(v.date) = p
  BY DEF DemoVouchers, InPeriod
<1>4. \A x \in PlainBooks(p) : x[1] \in heads
  <2> SUFFICES ASSUME NEW b \in InPeriod(books, p) PROVE voucherIdOf(b) \in heads
    BY DEF PlainBooks
  <2>1. b \in books /\ periodKeyOf(b.date) = p
    BY DEF InPeriod
  <2>2. \E y \in financialYearFor(periodStart(p)) : b.year = y.id
    BY <2>1 DEF ReadInv, BooksInv
  <2> QED
    BY <2>2 DEF Heads
<1>5. heads = Heads(p)
  OBVIOUS
<1> HIDE DEF r, p, heads, demo
<1>6. CASE r.real
  <2>1. /\ real.pc = pc /\ real.of = p /\ real.left = heads /\ real.got = {}
        /\ real.period = r.period /\ real.todo = r.todo /\ real.real = r.real
        /\ real.lock = r.lock /\ real.had = r.had /\ real.pending = r.pending
        /\ real.current = r.current /\ real.history = r.history
        /\ real.trusted = r.trusted
    BY <1>1 DEF Whole
  <2> HIDE DEF real
  <2>2. pc \in {"shared", "details"}
    OBVIOUS
  <2> HIDE DEF pc
  <2>3. \A q : cacheable(real, q) <=> cacheable(r, q)
    BY <2>1 DEF cacheable
  <2>4. r.pending = {}
    BY <1>1 DEF Reading, Underway
  <2>5. Underway(real)
    BY <1>1, <1>2, <2>1, <2>2, <2>4 DEF Reading, Underway
  <2>6. Fetches(real)
    BY <1>1, <1>5, <2>1, <2>2, <2>4 DEF Reading, Fetches
  <2>7. LosesNothing(real)
    BY <1>1, <1>2, <1>5, <1>6, <2>1, <2>2 DEF Reading, LosesNothing, Underway
  <2>8. ReadsWhole(real)
    BY <1>4, <2>1 DEF ReadsWhole, PlainOf
  <2>9. Remembers(real) /\ Completes(real)
    BY <1>1, <2>1, <2>2, <2>3 DEF Reading, Remembers, Completes
  <2>10. Reading(real)
    BY <2>5, <2>6, <2>7, <2>8, <2>9 DEF Reading
  <2>11. e = real
    BY <1>6
  <2> QED
    BY <1>1, <2>10, <2>11, ReadStepKeeps DEF r, ListVouchers, Reads, fortnox, tables
<1>7. CASE ~r.real
  <2>1. /\ mock.pc = "details" /\ mock.of = p /\ mock.got = demo
        /\ mock.period = r.period /\ mock.todo = r.todo /\ mock.real = r.real
        /\ mock.pending = r.pending /\ mock.history = r.history
        /\ mock.trusted = r.trusted
    BY <1>1 DEF Whole
  <2> HIDE DEF mock
  <2>2. r.pending = {}
    BY <1>1 DEF Reading, Underway
  <2>3. \A q : ~cacheable(mock, q) /\ ~cacheable(r, q)
    BY <1>7, <2>1 DEF cacheable
  <2>4. Underway(mock)
    BY <1>1, <1>2, <1>7, <2>1, <2>2 DEF Reading, Underway
  <2>5. Fetches(mock) /\ LosesNothing(mock)
    BY <1>3, <1>7, <2>1, <2>2 DEF Fetches, LosesNothing
  <2>6. ReadsWhole(mock) /\ Remembers(mock) /\ Completes(mock)
    BY <1>1, <2>1, <2>3 DEF Reading, ReadsWhole, Remembers, Completes
  <2>7. Reading(mock)
    BY <2>4, <2>5, <2>6 DEF Reading
  <2>8. e = mock
    BY <1>7
  <2> QED
    BY <1>1, <2>7, <2>8, ReadStepKeeps DEF r, ListVouchers, Reads, fortnox, tables
<1> QED
  BY <1>6, <1>7

\* Loading what the periods share leaves the books, the copies and every read true.
LEMMA SharedReads ==
  ASSUME ReadInv, NEW w \in Workers, LoadShared(w)
  PROVE  BooksInv' /\ CopiesInv' /\ \A u \in Workers : Reading(import[u])'
<1> DEFINE r == import[w]
           known == {Shared}
           e == [r EXCEPT !.pc = "details", !.known = known]
<1>1. Whole(r) /\ Reading(r) /\ r.pc = "shared" /\ Set(w, e)
  BY DEF ReadInv, LedgerInv, LoadShared
<1> HIDE DEF r, known
<1>2. /\ e.pc = "details" /\ e.of = r.of /\ e.left = r.left /\ e.got = r.got
      /\ e.period = r.period /\ e.todo = r.todo /\ e.real = r.real
      /\ e.lock = r.lock /\ e.had = r.had /\ e.pending = r.pending
      /\ e.current = r.current /\ e.history = r.history
      /\ e.trusted = r.trusted
  BY <1>1 DEF Whole
<1> HIDE DEF e
<1>3. \A q : cacheable(e, q) <=> cacheable(r, q)
  BY <1>2 DEF cacheable
<1>4. Underway(e) /\ Fetches(e)
  BY <1>1, <1>2 DEF Reading, Underway, Fetches
<1>5. LosesNothing(e)
  BY <1>1, <1>2 DEF Reading, LosesNothing
<1>6. ReadsWhole(e) /\ Remembers(e) /\ Completes(e)
  BY <1>1, <1>2, <1>3 DEF Reading, ReadsWhole, Remembers, Completes
<1>7. Reading(e)
  BY <1>4, <1>5, <1>6 DEF Reading
<1> QED
  BY <1>1, <1>7, ReadStepKeeps DEF r, LoadShared, Reads, fortnox, tables

\* Taking stored copies leaves the books, the copies and every read true.
LEMMA TakeReads ==
  ASSUME ReadInv, NEW w \in Workers, TakeCopies(w)
  PROVE  BooksInv' /\ CopiesInv' /\ \A u \in Workers : Reading(import[u])'
<1> DEFINE r == import[w]
           p == Oldest(r)
           cached == cachedVouchers(p)
           doubtful == p \in unsettled \/ \E u \in Workers : Storing(import[u], p)
           todo == r.todo \ {p}
           history == r.history \cup cached
           trusted == IF doubtful THEN r.trusted ELSE r.trusted \cup {p}
           e == [r EXCEPT !.todo = todo, !.history = history, !.trusted = trusted]
<1>1. /\ Whole(r) /\ Reading(r) /\ r.pc = "history" /\ r.todo # {} /\ cached # {}
      /\ cacheable(r, p)
  BY DEF ReadInv, LedgerInv, TakeCopies
<1>2. Set(w, e)
  <2>1. Set(w, [import[w] EXCEPT !.todo = @ \ {p}, !.history = @ \cup cached,
                   !.trusted = IF doubtful THEN @ ELSE @ \cup {p}])
    BY DEF TakeCopies
  <2>2. Whole(import[w])
    BY <1>1
  <2> HIDE DEF cached, doubtful, p
  <2> QED
    BY <2>1, <2>2 DEF Whole
<1>3. p \in r.todo /\ p \in Nat
  BY <1>1, Smallest DEF Reading, Underway, Oldest
<1>4. \A v \in cached : periodKeyOf(v.date) = p
  BY DEF cachedVouchers, InPeriod
<1>5. doubtful \/ PlainOf(cached) = PlainBooks(p)
  <2>1. PICK c \in cached : TRUE
    BY <1>1
  <2>2. c \in copies /\ periodKeyOf(c.date) = p
    BY <2>1 DEF cachedVouchers, InPeriod
  <2>3. SUFFICES ASSUME ~doubtful PROVE PlainOf(cached) = PlainBooks(p)
    OBVIOUS
  <2>4. p \in {periodKeyOf(x.date) : x \in copies} \ unsettled
    BY <2>2, <2>3
  <2>5. /\ PlainOf(InPeriod(copies, p)) \subseteq PlainBooks(p)
        /\ \/ \E u \in Workers : Storing(import[u], p)
           \/ PlainBooks(p) \subseteq PlainOf(InPeriod(copies, p))
    BY <2>4 DEF ReadInv, CopiesInv
  <2>6. cached = InPeriod(copies, p)
    BY DEF cachedVouchers
  <2> HIDE DEF p, cached
  <2> QED
    BY <2>3, <2>5, <2>6
<1> HIDE DEF r, p, cached, doubtful
<1>6. /\ e.pc = "history" /\ e.of = r.of /\ e.left = r.left /\ e.got = r.got
      /\ e.period = r.period /\ e.todo = todo /\ e.real = r.real
      /\ e.lock = r.lock /\ e.had = r.had /\ e.pending = r.pending
      /\ e.current = r.current /\ e.history = history /\ e.trusted = trusted
  BY <1>1 DEF Whole
<1> HIDE DEF e
<1>7. \A q : cacheable(e, q) <=> cacheable(r, q)
  BY <1>6 DEF cacheable
<1>8. Underway(e) /\ Fetches(e) /\ LosesNothing(e)
  BY <1>1, <1>6 DEF Reading, Underway, Fetches, LosesNothing
<1>9. ReadsWhole(e) /\ Completes(e)
  BY <1>1, <1>6 DEF Reading, ReadsWhole, Completes, Underway
<1>10. Remembers(e)
  <2>1. /\ r.trusted \cap r.todo = {} /\ r.trusted \subseteq Nat
        /\ \A v \in r.history : periodKeyOf(v.date) \notin r.todo
        /\ \A q \in r.trusted : cacheable(r, q) =>
             PlainOf(InPeriod(r.history, q)) = PlainBooks(q)
    BY <1>1 DEF Reading, Remembers
  <2>2. trusted \cap todo = {} /\ trusted \subseteq Nat
    BY <1>3, <2>1
  <2>3. \A v \in history : periodKeyOf(v.date) \notin todo
    BY <1>4, <2>1
  <2>4. InPeriod(history, p) = cached
    BY <1>3, <1>4, <2>1 DEF InPeriod
  <2>5. \A q : q # p => InPeriod(history, q) = InPeriod(r.history, q)
    BY <1>4 DEF InPeriod
  <2>6. \A q \in trusted : cacheable(r, q) =>
          PlainOf(InPeriod(history, q)) = PlainBooks(q)
    BY <1>3, <1>5, <2>1, <2>4, <2>5
  <2> QED
    BY <1>6, <1>7, <2>2, <2>3, <2>6 DEF Remembers
<1>11. Reading(e)
  BY <1>8, <1>9, <1>10 DEF Reading
<1> QED
  BY <1>1, <1>2, <1>11, ReadStepKeeps DEF r, TakeCopies, Reads, fortnox, tables

\* Fetching one voucher leaves the books, the copies and every read true.
LEMMA FetchReads ==
  ASSUME ReadInv, NEW w \in Workers, NEW id, FetchDetail(w, id)
  PROVE  BooksInv' /\ CopiesInv' /\ \A u \in Workers : Reading(import[u])'
<1> DEFINE r == import[w]
           v == Detail(r, id)
           got == IF v.rows = << >> THEN r.got ELSE r.got \cup {v}
           left == r.left \ {id}
           e == [r EXCEPT !.left = left, !.got = got]
<1>1. /\ Whole(r) /\ Reading(r) /\ r.pc = "details" /\ id \in r.left /\ r.real
      /\ r.current = {}
  <2>1. r.pc = "details" /\ id \in r.left
    BY DEF FetchDetail, Pool
  <2> QED
    BY <2>1 DEF ReadInv, LedgerInv, LoadedOnce, ReadWithIt
<1>2. Set(w, e)
  <2>1. Set(w, [import[w] EXCEPT !.left = @ \ {id},
                                 !.got = IF v.rows = << >> THEN @ ELSE @ \cup {v}])
    BY DEF FetchDetail
  <2>2. Whole(import[w])
    BY <1>1
  <2> HIDE DEF v
  <2> QED
    BY <2>1, <2>2 DEF Whole
<1>3. PICK b \in books : /\ voucherIdOf(b) = id /\ periodKeyOf(b.date) = r.of
                         /\ Plain(v) = <<id, b.date, Rows(b)>>
                         /\ v.id = id /\ v.date = b.date /\ v.rows = Rows(b)
  <2>1. id \in Heads(r.of)
    BY <1>1 DEF Reading, Fetches
  <2>2. PICK a \in books : voucherIdOf(a) = id /\ periodKeyOf(a.date) = r.of
    BY <2>1 DEF Heads, InPeriod
  <2> DEFINE b == CHOOSE x \in books : voucherIdOf(x) = id
  <2>3. b \in books /\ voucherIdOf(b) = id
    BY <2>2
  <2> HIDE DEF b
  <2>4. b = a
    BY <2>2, <2>3 DEF ReadInv, BooksInv
  <2>5. v.id = id /\ v.date = b.date /\ v.rows = Rows(b)
    BY <2>3 DEF Detail, mapVoucher, b
  <2> QED
    BY <2>2, <2>3, <2>4, <2>5 DEF Plain
<1>4. \A a \in books : voucherIdOf(a) = id => a = b
  BY <1>3 DEF ReadInv, BooksInv
<1> HIDE DEF r, v
<1>5. /\ e.pc = "details" /\ e.of = r.of /\ e.left = left /\ e.got = got
      /\ e.period = r.period /\ e.todo = r.todo /\ e.real = r.real
      /\ e.lock = r.lock /\ e.had = r.had /\ e.pending = r.pending
      /\ e.current = r.current /\ e.history = r.history
      /\ e.trusted = r.trusted
  BY <1>1 DEF Whole
<1> HIDE DEF e
<1>6. \A q : cacheable(e, q) <=> cacheable(r, q)
  BY <1>5 DEF cacheable
<1>7. Underway(e)
  BY <1>1, <1>5 DEF Reading, Underway
<1>8. Fetches(e)
  <2>1. /\ \A x \in r.got \cup r.pending :
             Booked(x.id, x.date) /\ periodKeyOf(x.date) = r.of
        /\ IsFiniteSet(r.got)
        /\ \A x, y \in r.got : x.id = y.id => x = y
        /\ r.left \subseteq Heads(r.of) /\ \A x \in r.got : x.id \notin r.left
    BY <1>1 DEF Reading, Fetches
  <2>2. Booked(v.id, v.date) /\ periodKeyOf(v.date) = r.of
    BY <1>3 DEF Booked
  <2>3. \A x \in got \cup r.pending : Booked(x.id, x.date) /\ periodKeyOf(x.date) = r.of
    BY <2>1, <2>2
  <2>4. IsFiniteSet(got)
    BY <2>1, FS_AddElement
  <2>5. \A x, y \in got : x.id = y.id => x = y
    BY <1>1, <1>3, <2>1
  <2>6. left \subseteq Heads(r.of) /\ \A x \in got : x.id \notin left
    BY <1>3, <2>1
  <2> QED
    BY <1>1, <1>5, <2>3, <2>4, <2>5, <2>6, FS_EmptySet DEF Fetches
<1>9. LosesNothing(e)
  <2>1. r.left \cup Ids(r.got) \cup BooksStruck \subseteq left \cup Ids(got) \cup BooksStruck
    BY <1>3 DEF Ids, BooksStruck
  <2> QED
    BY <1>1, <1>5, <2>1 DEF Reading, LosesNothing
<1>10. ReadsWhole(e)
  <2> SUFFICES ASSUME cacheable(r, r.of)
               PROVE  /\ PlainOf(got) \subseteq PlainBooks(r.of)
                      /\ \A x \in PlainBooks(r.of) : x[1] \in left \/ x \in PlainOf(got)
    BY <1>5, <1>6 DEF ReadsWhole
  <2>1. /\ PlainOf(r.got) \subseteq PlainBooks(r.of)
        /\ \A x \in PlainBooks(r.of) : x[1] \in r.left \/ x \in PlainOf(r.got)
    BY <1>1 DEF Reading, ReadsWhole
  <2>2. v.rows # << >> => Plain(v) \in PlainBooks(r.of)
    BY <1>3 DEF PlainBooks, InPeriod
  <2>3. \A x \in PlainBooks(r.of) :
          x[1] = id => v.rows # << >> /\ x = Plain(v)
    BY <1>3, <1>4 DEF PlainBooks, InPeriod
  <2>4. /\ PlainOf(r.got) \subseteq PlainOf(got)
        /\ PlainOf(got) \subseteq
             PlainOf(r.got) \cup (IF v.rows = << >> THEN {} ELSE {Plain(v)})
        /\ v.rows # << >> => Plain(v) \in PlainOf(got)
    BY DEF PlainOf
  <2> HIDE DEF got
  <2> QED
    BY <2>1, <2>2, <2>3, <2>4
<1>11. Remembers(e) /\ Completes(e)
  BY <1>1, <1>5, <1>6 DEF Reading, Remembers, Completes
<1>12. Reading(e)
  BY <1>7, <1>8, <1>9, <1>10, <1>11 DEF Reading
<1> QED
  BY <1>1, <1>2, <1>12, ReadStepKeeps DEF r, FetchDetail, Reads, fortnox, tables

\* Going on when the copies are stored changes the place only.
LEMMA StoredGoesOn ==
  ASSUME NEW r, Whole(r)
  PROVE  LET e == Stored(r)
         IN  /\ Whole(e) /\ Alike(e, r) /\ e.left = r.left /\ e.got = r.got
             /\ e.of = r.of /\ e.period = r.period /\ e.todo = r.todo
             /\ e.lock = r.lock /\ e.had = r.had /\ e.pending = r.pending
             /\ e.history = r.history /\ e.trusted = r.trusted
             /\ e.pc = IF r.pending # {} THEN r.pc
                       ELSE IF r.pc = "store" THEN "history" ELSE "delete"
BY DEF Stored, Whole, Alike

\* A period read to its end leaves the books, the copies and every read true.
LEMMA PeriodReads ==
  ASSUME ReadInv, NEW w \in Workers, PeriodRead(w)
  PROVE  BooksInv' /\ CopiesInv' /\ \A u \in Workers : Reading(import[u])'
<1> DEFINE r == import[w]
           copied == IF cacheable(r, r.of) THEN r.got ELSE {}
           invoices == LedgerInvoices(r)
           history == r.history \cup r.got
           todo == r.todo \ {r.of}
           trusted == r.trusted \cup {r.of}
           past == [r EXCEPT !.history = history, !.got = {}, !.todo = todo,
                             !.trusted = trusted, !.pending = copied, !.pc = "store"]
           own == [r EXCEPT !.current = r.got, !.got = {}, !.pending = r.got,
                            !.invoices = invoices, !.pc = "persist"]
<1>1. /\ Whole(r) /\ Reading(r) /\ r.pc = "details" /\ r.left = {} /\ r.current = {}
  BY DEF ReadInv, LedgerInv, ReadWithIt, PeriodRead
<1>2. Set(w, Stored(IF r.todo # {} THEN past ELSE own))
  <2>1. Set(w, Stored(
           IF r.todo # {}
           THEN [r EXCEPT !.history = @ \cup r.got, !.got = {}, !.todo = @ \ {r.of},
                          !.trusted = @ \cup {r.of}, !.pending = copied, !.pc = "store"]
           ELSE own))
    BY DEF PeriodRead
  <2> HIDE DEF r, copied, own
  <2>2. [r EXCEPT !.history = @ \cup r.got, !.got = {}, !.todo = @ \ {r.of},
                  !.trusted = @ \cup {r.of}, !.pending = copied, !.pc = "store"] = past
    BY <1>1 DEF Whole
  <2> QED
    BY <2>1, <2>2
<1> HIDE DEF r, copied, invoices
<1>3. /\ r.of \in Nat /\ r.todo \subseteq Nat /\ r.period \in Nat
      /\ IF r.todo = {} THEN r.of = r.period ELSE r.of \in r.todo
      /\ r.real => r.lock \in Nat /\ r.lock <= lock /\ r.had \subseteq Heads(r.period)
  BY <1>1 DEF Reading, Underway
<1>4. /\ r.pending = {}
      /\ \A v \in r.got : periodKeyOf(v.date) = r.of
      /\ ~r.real => r.got \subseteq Demo
      /\ r.real => /\ \A v \in r.got : Booked(v.id, v.date)
                   /\ IsFiniteSet(r.got) /\ \A u, v \in r.got : u.id = v.id => u = v
  BY <1>1 DEF Reading, Underway, Fetches
<1>5. cacheable(r, r.of) => PlainOf(r.got) = PlainBooks(r.of)
  BY <1>1 DEF Reading, ReadsWhole
<1>6. CASE r.todo # {}
  <2> DEFINE e == Stored(past)
  <2>1. /\ Whole(past) /\ past.pc = "store" /\ past.of = r.of /\ past.got = {}
        /\ past.period = r.period /\ past.todo = todo /\ past.real = r.real
        /\ past.lock = r.lock /\ past.had = r.had /\ past.pending = copied
        /\ past.current = r.current /\ past.history = history
        /\ past.trusted = trusted
    BY <1>1 DEF Whole
  <2> HIDE DEF past
  <2>2. /\ e.of = r.of /\ e.got = {}
        /\ e.period = r.period /\ e.todo = todo /\ e.real = r.real
        /\ e.lock = r.lock /\ e.had = r.had /\ e.pending = copied
        /\ e.current = r.current /\ e.history = history
        /\ e.trusted = trusted
        /\ e.pc = IF copied # {} THEN "store" ELSE "history"
    BY <2>1, StoredGoesOn DEF Alike
  <2> HIDE DEF e
  <2>3. \A q : cacheable(e, q) <=> cacheable(r, q)
    BY <2>2 DEF cacheable
  <2>4. Underway(e)
    BY <1>3, <2>2 DEF Underway
  <2>5. Fetches(e)
    <3>1. copied \subseteq r.got
      BY DEF copied
    <3> QED
      BY <1>1, <1>4, <2>2, <3>1, FS_EmptySet DEF Fetches
  <2>6. LosesNothing(e) /\ ReadsWhole(e)
    BY <2>2 DEF LosesNothing, ReadsWhole
  <2>7. Remembers(e)
    <3>1. /\ r.trusted \cap r.todo = {} /\ r.trusted \subseteq Nat
          /\ \A v \in r.history : periodKeyOf(v.date) \notin r.todo
          /\ \A q \in r.trusted : cacheable(r, q) =>
               PlainOf(InPeriod(r.history, q)) = PlainBooks(q)
      BY <1>1 DEF Reading, Remembers
    <3>2. trusted \cap todo = {} /\ trusted \subseteq Nat
      BY <1>3, <3>1
    <3>3. \A v \in history : periodKeyOf(v.date) \notin todo
      BY <1>4, <3>1
    <3>4. InPeriod(history, r.of) = r.got
      BY <1>3, <1>4, <1>6, <3>1 DEF InPeriod
    <3>5. \A q : q # r.of => InPeriod(history, q) = InPeriod(r.history, q)
      BY <1>4 DEF InPeriod
    <3>6. \A q \in trusted : cacheable(r, q) =>
            PlainOf(InPeriod(history, q)) = PlainBooks(q)
      BY <1>5, <3>1, <3>4, <3>5
    <3> QED
      BY <2>2, <2>3, <3>2, <3>3, <3>6 DEF Remembers
  <2>8. Completes(e)
    BY <1>5, <2>2, <2>3 DEF Completes, copied
  <2>9. Reading(e)
    BY <2>4, <2>5, <2>6, <2>7, <2>8 DEF Reading
  <2>10. Set(w, e)
    BY <1>2, <1>6 DEF e
  <2> QED
    BY <1>1, <2>9, <2>10, ReadStepKeeps DEF r, PeriodRead, Reads, fortnox, tables
<1>7. CASE r.todo = {}
  <2> DEFINE e == Stored(own)
  <2>1. /\ Whole(own) /\ own.pc = "persist" /\ own.of = r.of /\ own.got = {}
        /\ own.period = r.period /\ own.todo = r.todo /\ own.real = r.real
        /\ own.lock = r.lock /\ own.had = r.had /\ own.pending = r.got
        /\ own.current = r.got /\ own.history = r.history
        /\ own.trusted = r.trusted
    BY <1>1 DEF Whole
  <2> HIDE DEF own
  <2>2. /\ e.of = r.of /\ e.got = {}
        /\ e.period = r.period /\ e.todo = r.todo /\ e.real = r.real
        /\ e.lock = r.lock /\ e.had = r.had /\ e.pending = r.got
        /\ e.current = r.got /\ e.history = r.history
        /\ e.trusted = r.trusted
        /\ e.pc = IF r.got # {} THEN "persist" ELSE "delete"
    BY <2>1, StoredGoesOn DEF Alike
  <2> HIDE DEF e
  <2>3. \A q : cacheable(e, q) <=> cacheable(r, q)
    BY <2>2 DEF cacheable
  <2>4. Underway(e)
    BY <1>3, <2>2 DEF Underway
  <2>5. Fetches(e)
    BY <1>4, <2>2, FS_EmptySet DEF Fetches
  <2>6. LosesNothing(e)
    BY <1>1, <1>7, <2>2 DEF Reading, LosesNothing
  <2>7. ReadsWhole(e) /\ Remembers(e)
    BY <1>1, <2>2, <2>3 DEF Reading, ReadsWhole, Remembers
  <2>8. Completes(e)
    BY <1>5, <2>2, <2>3 DEF Completes
  <2>9. Reading(e)
    BY <2>4, <2>5, <2>6, <2>7, <2>8 DEF Reading
  <2>10. Set(w, e)
    BY <1>2, <1>7 DEF e
  <2> QED
    BY <1>1, <2>9, <2>10, ReadStepKeeps DEF r, PeriodRead, Reads, fortnox, tables
<1> QED
  BY <1>6, <1>7

\* A chunk of copies takes the place of copies that say the same.
LEMMA ChunkReplaces ==
  ASSUME ReadInv, NEW r, Reading(r), NEW chunk \in SUBSET r.pending,
         UNCHANGED <<books, lock>>,
         copies' = {c \in copies : c.id \notin {v.id : v \in chunk}} \cup chunk,
         unsettled \subseteq unsettled', cacheable(r, r.of) \/ r.of \in unsettled',
         r.pc \in {"store", "persist"}
  PROVE  CopiesKept
<1> SUFFICES ASSUME NEW q \in Nat, q \notin unsettled', NEW c \in InPeriod(copies, q)
             PROVE  \E d \in InPeriod(copies, q)' : Plain(d) = Plain(c)
  BY DEF CopiesKept, StillSaid, PlainOf, Plain
<1>1. c \in copies /\ periodKeyOf(c.date) = q
  BY DEF InPeriod
<1>2. CASE c.id \notin {v.id : v \in chunk}
  <2>1. c \in InPeriod(copies, q)'
    BY <1>1, <1>2 DEF InPeriod
  <2> QED
    BY <2>1
<1>3. CASE c.id \in {v.id : v \in chunk}
  <2>1. PICK v \in chunk : v.id = c.id
    BY <1>3
  <2>2. q \in {periodKeyOf(x.date) : x \in copies} \ unsettled
    BY <1>1
  <2>3. PlainOf(InPeriod(copies, q)) \subseteq PlainBooks(q)
    BY <2>2 DEF ReadInv, CopiesInv
  <2>4. Plain(c) \in PlainBooks(q)
    BY <2>3 DEF PlainOf
  <2>5. PICK b \in books : Plain(c) = <<voucherIdOf(b), b.date, Rows(b)>>
    BY <2>4 DEF PlainBooks, InPeriod
  <2>6. voucherIdOf(b) = v.id /\ b.date = c.date
    BY <2>1, <2>5 DEF Plain
  <2>7. r.real /\ Booked(v.id, v.date) /\ periodKeyOf(v.date) = r.of
    BY <2>6 DEF Reading, Fetches, ReadInv, BooksInv
  <2>8. v.date = c.date
    BY <2>6, <2>7 DEF Booked, ReadInv, BooksInv
  <2>9. q = r.of
    BY <1>1, <2>7, <2>8
  <2>10. Plain(v) \in PlainBooks(q)
    BY <2>9 DEF Reading, Completes, PlainOf
  <2>11. PICK a \in books : Plain(v) = <<voucherIdOf(a), a.date, Rows(a)>>
    BY <2>10 DEF PlainBooks, InPeriod
  <2>12. voucherIdOf(a) = v.id
    BY <2>11 DEF Plain
  <2>13. a = b
    BY <2>6, <2>12 DEF ReadInv, BooksInv
  <2>14. Plain(v) = Plain(c)
    BY <2>5, <2>11, <2>13
  <2>15. v \in InPeriod(copies, q)'
    BY <1>1, <2>8 DEF InPeriod
  <2> QED
    BY <2>14, <2>15
<1> QED
  BY <1>2, <1>3

\* Storing the copies leaves the books, the copies and every read true.
LEMMA StoreReads ==
  ASSUME ReadInv, NEW w \in Workers, StoreCopies(w)
  PROVE  BooksInv' /\ CopiesInv' /\ \A u \in Workers : Reading(import[u])'
<1>1. PICK r : r = import[w]
  OBVIOUS
<1> DEFINE chunk == Chunk(r.pending)
           rest == r.pending \ chunk
           s == [r EXCEPT !.pending = rest]
           e == Stored(s)
<1>2. /\ Whole(r) /\ Reading(r) /\ r.pc \in {"store", "persist"}
      /\ r.got = {} /\ r.of \in Nat
  BY <1>1 DEF ReadInv, LedgerInv, ReadWithIt, Reading, Underway, StoreCopies
<1>3. /\ copies' = {c \in copies : c.id \notin {v.id : v \in chunk}} \cup chunk
      /\ unsettled' = IF cacheable(r, r.of) THEN unsettled ELSE unsettled \cup {r.of}
      /\ UNCHANGED <<books, lock>>
  BY <1>1 DEF StoreCopies, fortnox
<1>4. chunk \in SUBSET r.pending
  BY DEF Chunk
<1>5. Set(w, e)
  <2>1. Set(w, Stored([r EXCEPT !.pending = @ \ Chunk(r.pending)]))
    BY <1>1 DEF StoreCopies
  <2>2. [r EXCEPT !.pending = @ \ Chunk(r.pending)] = s
    BY <1>2 DEF Whole
  <2> QED
    BY <2>1, <2>2
<1> HIDE DEF chunk
<1>6. /\ Whole(s) /\ s.pc = r.pc /\ s.of = r.of /\ s.got = r.got
      /\ s.period = r.period /\ s.todo = r.todo /\ s.real = r.real
      /\ s.lock = r.lock /\ s.had = r.had /\ s.pending = rest
      /\ s.current = r.current /\ s.history = r.history /\ s.trusted = r.trusted
  BY <1>2 DEF Whole
<1> HIDE DEF s
<1>7. /\ e.of = r.of /\ e.got = r.got
      /\ e.period = r.period /\ e.todo = r.todo /\ e.real = r.real
      /\ e.lock = r.lock /\ e.had = r.had /\ e.pending = rest
      /\ e.current = r.current /\ e.history = r.history /\ e.trusted = r.trusted
      /\ e.pc = IF rest # {} THEN r.pc
                ELSE IF r.pc = "store" THEN "history" ELSE "delete"
  BY <1>6, StoredGoesOn DEF Alike
<1> HIDE DEF e
<1>8. BooksInv' /\ Later
  BY <1>3, NoChange DEF ReadInv
<1>9. CopiesKept
  BY <1>2, <1>3, <1>4, ChunkReplaces
<1>10. Reading(r)'
  BY <1>2, <1>8, <1>9, ReadingKept DEF ReadInv
<1>11. \A q : cacheable(e, q) <=> cacheable(r, q)
  BY <1>7 DEF cacheable
<1>12. InPeriod(chunk, r.of) = chunk /\ \A q : q # r.of => InPeriod(chunk, q) = {}
  BY <1>2, <1>4 DEF Reading, Fetches, InPeriod
<1>13. \A q : /\ PlainOf(InPeriod(copies, q))' \subseteq
                   PlainOf(InPeriod(copies, q)) \cup PlainOf(InPeriod(chunk, q))
              /\ PlainOf(InPeriod(chunk, q)) \subseteq PlainOf(InPeriod(copies, q))'
  BY <1>3 DEF PlainOf, InPeriod, Plain
<1>14. PlainOf(r.pending) = PlainOf(rest) \cup PlainOf(chunk)
  BY <1>4 DEF PlainOf
<1>15. cacheable(r, r.of) /\ r.of \notin unsettled' =>
         /\ PlainOf(r.pending) \subseteq PlainBooks(r.of)
         /\ PlainBooks(r.of) \subseteq PlainOf(InPeriod(copies, r.of))' \cup PlainOf(rest)
  <2> SUFFICES ASSUME cacheable(r, r.of), r.of \notin unsettled'
               PROVE  /\ PlainOf(r.pending) \subseteq PlainBooks(r.of)
                      /\ PlainBooks(r.of) \subseteq
                           PlainOf(InPeriod(copies, r.of))' \cup PlainOf(rest)
    OBVIOUS
  <2>1. /\ PlainOf(r.pending) \subseteq PlainBooks(r.of)
        /\ PlainBooks(r.of) \subseteq PlainOf(InPeriod(copies, r.of)) \cup PlainOf(r.pending)
    BY <1>2, <1>3 DEF Reading, Completes
  <2>2. PlainOf(InPeriod(copies, r.of)) \subseteq PlainOf(InPeriod(copies, r.of))'
    BY <1>2, <1>9 DEF CopiesKept, StillSaid
  <2> QED
    BY <1>12, <1>13, <1>14, <2>1, <2>2
<1>16. Reading(e)'
  <2>1. Underway(e)'
    BY <1>2, <1>7, <1>10 DEF Reading, Underway
  <2>2. Fetches(e)'
    <3>1. rest \subseteq r.pending
      OBVIOUS
    <3> HIDE DEF rest
    <3> QED
      BY <1>2, <1>7, <1>10, <3>1 DEF Reading, Fetches
  <2>3. LosesNothing(e)' /\ ReadsWhole(e)'
    BY <1>2, <1>7, <1>10, <1>11 DEF Reading, LosesNothing, ReadsWhole
  <2>4. Remembers(e)'
    BY <1>2, <1>7, <1>10, <1>11 DEF Reading, Remembers, cacheable
  <2>5. Completes(e)'
    <3>1. cacheable(e, e.of)' => cacheable(r, r.of)
      BY <1>7, <1>11 DEF cacheable
    <3>2. cacheable(r, r.of) => PlainOf(r.pending) \subseteq PlainBooks(r.of)
      BY <1>2 DEF Reading, Completes
    <3>3. PlainBooks(r.of)' = PlainBooks(r.of)
      BY <1>3 DEF PlainBooks, InPeriod
    <3>4. PlainOf(rest)' = PlainOf(rest)
      BY DEF PlainOf, Plain
    <3> SUFFICES ASSUME cacheable(r, r.of)
                 PROVE  /\ PlainOf(rest) \subseteq PlainBooks(r.of)'
                        /\ \/ r.of \in unsettled'
                           \/ PlainBooks(r.of)' \subseteq
                                PlainOf(InPeriod(copies, r.of))' \cup PlainOf(rest)
      BY <1>7, <3>1, <3>4 DEF Completes
    <3> QED
      BY <1>14, <1>15, <3>2, <3>3
  <2> QED
    BY <2>1, <2>2, <2>3, <2>4, <2>5 DEF Reading
<1>17. BooksInv' /\ \A u \in Workers : Reading(import[u])'
  BY <1>3, <1>5, <1>9, <1>16, StepKeeps
<1>18. CopiesInv'
  <2>1. ASSUME NEW c \in copies' PROVE c \in Demo \/ Booked(c.id, c.date)'
    <3>1. CASE c \in copies
      BY <1>3, <3>1 DEF ReadInv, CopiesInv, Booked
    <3>2. CASE c \in r.pending
      BY <1>2, <1>3, <3>2 DEF Reading, Fetches, Booked
    <3> QED
      BY <1>3, <1>4, <2>1, <3>1, <3>2
  <2>2. ASSUME NEW p \in {periodKeyOf(c.date) : c \in copies'} \ unsettled'
        PROVE  /\ periodEnd(p) <= lock'
               /\ PlainOf(InPeriod(copies, p))' \subseteq PlainBooks(p)'
               /\ \/ \E u \in Workers : Storing(import[u], p)'
                  \/ PlainBooks(p)' \subseteq PlainOf(InPeriod(copies, p))'
    <3>1. PlainBooks(p)' = PlainBooks(p) /\ lock' = lock
      BY <1>3 DEF PlainBooks, InPeriod
    <3>2. \/ p = r.of
          \/ p # r.of /\ p \in {periodKeyOf(c.date) : c \in copies} \ unsettled
      <4>1. PICK c \in copies' : p = periodKeyOf(c.date)
        BY <2>2
      <4>2. c \in chunk => p = r.of
        BY <1>2, <1>4, <4>1 DEF Reading, Fetches
      <4> QED
        BY <1>3, <2>2, <4>1, <4>2
    <3>3. /\ import'[w] = e
          /\ \A u \in Workers \ {w} : import'[u] = import[u]
      BY <1>5 DEF ReadInv, LedgerInv, Set
    <3>4. InPeriod(copies, p) # {} /\ p \notin unsettled =>
            /\ periodEnd(p) <= lock
            /\ PlainOf(InPeriod(copies, p)) \subseteq PlainBooks(p)
            /\ \/ \E u \in Workers : Storing(import[u], p)
               \/ PlainBooks(p) \subseteq PlainOf(InPeriod(copies, p))
      <4> SUFFICES ASSUME InPeriod(copies, p) # {}, p \notin unsettled
                   PROVE  p \in {periodKeyOf(c.date) : c \in copies} \ unsettled
        BY DEF ReadInv, CopiesInv
      <4> QED
        BY DEF InPeriod
    <3>5. CASE p = r.of
      <4>1. cacheable(r, r.of) /\ r.of \notin unsettled
        BY <1>3, <2>2, <3>5
      <4>2. periodEnd(p) <= lock
        <5>1. r.lock \in Nat /\ r.lock <= lock /\ periodEnd(r.of) <= r.lock
          BY <1>2, <4>1 DEF Reading, Underway, cacheable
        <5>2. periodEnd(r.of) \in Nat /\ lock \in Nat
          BY <1>2, DaysAssumption DEF periodEnd, ReadInv, BooksInv
        <5> QED
          BY <3>5, <5>1, <5>2
      <4>3. PlainOf(InPeriod(copies, p)) \subseteq PlainBooks(p)
        <5>1. InPeriod(copies, p) = {} => PlainOf(InPeriod(copies, p)) = {}
          BY DEF PlainOf
        <5> QED
          BY <3>4, <3>5, <4>1, <5>1
      <4>4. /\ PlainOf(r.pending) \subseteq PlainBooks(p)
            /\ PlainBooks(p) \subseteq PlainOf(InPeriod(copies, p))' \cup PlainOf(rest)
        BY <1>15, <2>2, <3>5, <4>1
      <4>5. PlainOf(InPeriod(copies, p))' \subseteq PlainBooks(p)
        BY <1>12, <1>13, <1>14, <3>5, <4>3, <4>4
      <4>6. CASE rest = {}
        <5>1. PlainOf(rest) = {}
          BY <4>6 DEF PlainOf
        <5> QED
          BY <3>1, <4>2, <4>4, <4>5, <5>1
      <4>7. CASE rest # {}
        <5>1. Storing(e, p)
          BY <1>2, <1>7, <3>5, <4>7 DEF Storing
        <5>2. Storing(import[w], p)'
          BY <3>3, <5>1 DEF Storing
        <5> QED
          BY <3>1, <4>2, <4>5, <5>2
      <4> QED
        BY <4>6, <4>7
    <3>6. CASE p # r.of /\ p \in {periodKeyOf(c.date) : c \in copies} \ unsettled
      <4>1. /\ periodEnd(p) <= lock
            /\ PlainOf(InPeriod(copies, p)) \subseteq PlainBooks(p)
            /\ \/ \E u \in Workers : Storing(import[u], p)
               \/ PlainBooks(p) \subseteq PlainOf(InPeriod(copies, p))
        BY <3>6 DEF ReadInv, CopiesInv
      <4>2. p \in Nat
        <5>1. PICK c \in InPeriod(copies, p) : TRUE
          BY <3>6 DEF InPeriod
        <5>2. Plain(c) \in PlainBooks(p)
          BY <4>1 DEF PlainOf
        <5>3. PICK b \in books : periodKeyOf(b.date) = p
          BY <5>2 DEF PlainBooks, InPeriod
        <5> QED
          BY <5>3, PeriodOfDate DEF ReadInv, BooksInv
      <4>3. PlainOf(InPeriod(copies, p))' = PlainOf(InPeriod(copies, p))
        <5>1. PlainOf(InPeriod(chunk, p)) = {}
          BY <1>12, <3>6 DEF PlainOf
        <5>2. PlainOf(InPeriod(copies, p)) \subseteq PlainOf(InPeriod(copies, p))'
          BY <1>9, <2>2, <4>2 DEF CopiesKept, StillSaid
        <5> QED
          BY <1>13, <5>1, <5>2
      <4>4. ASSUME NEW u \in Workers, Storing(import[u], p)
            PROVE  Storing(import[u], p)'
        <5>1. u # w
          BY <1>1, <3>6, <4>4 DEF Storing
        <5> QED
          BY <3>3, <4>4, <5>1 DEF Storing
      <4> QED
        BY <3>1, <4>1, <4>3, <4>4
    <3> QED
      BY <3>2, <3>5, <3>6
  <2> QED
    BY <2>1, <2>2 DEF CopiesInv
<1> QED
  BY <1>17, <1>18

\* Replacing the transactions leaves the books, the copies and every read true.
LEMMA InsertReads ==
  ASSUME ReadInv, NEW w \in Workers, DeleteTransactions(w) \/ InsertTransactions(w)
  PROVE  BooksInv' /\ CopiesInv' /\ \A u \in Workers : Reading(import[u])'
<1> DEFINE r == import[w]
<1>1. /\ Whole(r) /\ Reading(r) /\ r.pc \in {"delete", "insert"} /\ r.got = {}
      /\ UNCHANGED <<books, lock, copies, unsettled>>
  BY DEF ReadInv, LedgerInv, ReadWithIt, DeleteTransactions, InsertTransactions, fortnox
<1>2. PICK left : Set(w, [r EXCEPT !.pc = "insert", !.left = left])
  <2>1. CASE DeleteTransactions(w)
    BY <2>1 DEF DeleteTransactions
  <2>2. CASE InsertTransactions(w)
    <3>1. Set(w, [r EXCEPT !.left = @ \ Chunk(r.left)]) /\ r.pc = "insert"
      BY <2>2 DEF InsertTransactions
    <3>2. [r EXCEPT !.left = @ \ Chunk(r.left)]
            = [r EXCEPT !.pc = "insert", !.left = r.left \ Chunk(r.left)]
      <4> HIDE DEF r
      <4> QED
        BY <1>1, <3>1 DEF Whole
    <3> QED
      BY <3>1, <3>2
  <2> QED
    BY <2>1, <2>2
<1> DEFINE e == [r EXCEPT !.pc = "insert", !.left = left]
<1> HIDE DEF r
<1>3. /\ e.pc = "insert" /\ e.of = r.of /\ e.got = r.got
      /\ e.period = r.period /\ e.todo = r.todo /\ e.real = r.real
      /\ e.lock = r.lock /\ e.had = r.had /\ e.pending = r.pending
      /\ e.current = r.current /\ e.history = r.history /\ e.trusted = r.trusted
  BY <1>1 DEF Whole
<1>4. Set(w, e)
  BY <1>2
<1> HIDE DEF e
<1>5. \A q : cacheable(e, q) <=> cacheable(r, q)
  BY <1>3 DEF cacheable
<1>6. Underway(e) /\ Fetches(e)
  BY <1>1, <1>3 DEF Reading, Underway, Fetches
<1>7. LosesNothing(e)
  BY <1>1, <1>3 DEF Reading, LosesNothing
<1>8. ReadsWhole(e) /\ Remembers(e) /\ Completes(e)
  BY <1>1, <1>3, <1>5 DEF Reading, ReadsWhole, Remembers, Completes
<1>9. Reading(e)
  BY <1>6, <1>7, <1>8 DEF Reading
<1> QED
  BY <1>1, <1>4, <1>9, ReadStepKeeps DEF r

\* An import ends, or is broken off: what it had still to store is in doubt.
LEMMA EndReads ==
  ASSUME ReadInv, NEW w \in Workers, InsertRefused(w) \/ Finish(w) \/ Break(w)
  PROVE  BooksInv' /\ CopiesInv' /\ \A u \in Workers : Reading(import[u])'
<1>1. PICK r : r = import[w]
  OBVIOUS
<1>2. Set(w, Idle) /\ UNCHANGED <<books, lock, copies>> /\ Reading(r)
  BY <1>1 DEF ReadInv, InsertRefused, Finish, Break, Reads, fortnox, tables
<1>3. BooksInv' /\ Later
  BY <1>2, NoChange DEF ReadInv
<1>4. unsettled' = unsettled \/ unsettled' = unsettled \cup {r.of}
  BY <1>1 DEF InsertRefused, Finish, Break, Reads
<1>5. CopiesKept
  BY <1>2, <1>4 DEF CopiesKept, StillSaid, PlainOf, InPeriod, Plain
<1>6. Reading(Idle)'
  <2>1. Reading(Idle)
    BY IdleReads DEF ReadInv
  <2> QED
    BY <1>3, <1>5, <2>1, ReadingKept DEF ReadInv
<1>7. \A p : Storing(r, p) => p \in unsettled'
  <2>1. CASE InsertRefused(w) \/ Finish(w)
    BY <1>1, <2>1 DEF InsertRefused, Finish, Storing
  <2>2. CASE Break(w)
    BY <1>1, <1>2, <2>2 DEF Break, Reading, Underway, Storing
  <2> QED
    BY <2>1, <2>2
<1>8. \A u \in Workers \ {w} : import'[u] = import[u]
  BY <1>2 DEF ReadInv, LedgerInv, Set
<1>9. CopiesInv'
  <2>1. \A c \in copies : c \in Demo \/ Booked(c.id, c.date)'
    BY <1>3 DEF ReadInv, CopiesInv, Later
  <2>2. ASSUME NEW p \in {periodKeyOf(c.date) : c \in copies} \ unsettled'
        PROVE  /\ periodEnd(p) <= lock
               /\ PlainOf(InPeriod(copies, p)) \subseteq PlainBooks(p)
               /\ \/ \E u \in Workers : Storing(import[u], p)'
                  \/ PlainBooks(p) \subseteq PlainOf(InPeriod(copies, p))
    <3>1. p \in {periodKeyOf(c.date) : c \in copies} \ unsettled
      BY <1>4, <2>2
    <3>2. /\ periodEnd(p) <= lock
          /\ PlainOf(InPeriod(copies, p)) \subseteq PlainBooks(p)
          /\ \/ \E u \in Workers : Storing(import[u], p)
             \/ PlainBooks(p) \subseteq PlainOf(InPeriod(copies, p))
      BY <3>1 DEF ReadInv, CopiesInv
    <3>3. ASSUME NEW u \in Workers, Storing(import[u], p)
          PROVE  Storing(import[u], p)'
      <4>1. u # w
        BY <1>1, <1>7, <2>2, <3>3
      <4> QED
        BY <1>8, <3>3, <4>1 DEF Storing
    <3> QED
      BY <3>2, <3>3
  <2>3. \A p : PlainBooks(p)' = PlainBooks(p)
    BY <1>2 DEF PlainBooks, InPeriod
  <2>4. \A p : PlainOf(InPeriod(copies, p))' = PlainOf(InPeriod(copies, p))
    BY <1>2 DEF PlainOf, InPeriod, Plain
  <2> QED
    BY <1>2, <2>1, <2>2, <2>3, <2>4 DEF CopiesInv
<1> QED
  BY <1>2, <1>5, <1>6, <1>9, StepKeeps

\* The books, the copies and every read are true in the initial state.
LEMMA ReadInit == Init => ReadInv
<1> SUFFICES ASSUME Init PROVE ReadInv
  OBVIOUS
<1>1. LedgerInv
  BY LedgerInit
<1>2. BooksInv
  BY DEF Init, BooksInv
<1>3. CopiesInv
  BY DEF Init, CopiesInv
<1>4. \A w \in Workers : import[w] = Idle
  BY DEF Init
<1>5. \A w \in Workers : Reading(import[w])
  BY <1>2, <1>4, IdleReads
<1> QED
  BY <1>1, <1>2, <1>3, <1>5 DEF ReadInv

\* Outside the import, the copies and the imports stay.
LEMMA OutsideReads ==
  ASSUME ReadInv, BooksInv', Later, UNCHANGED <<copies, unsettled, import>>
  PROVE  CopiesInv' /\ \A u \in Workers : Reading(import[u])'
<1>1. CopiesKept
  BY DEF CopiesKept, StillSaid, PlainOf, InPeriod, Plain
<1>2. ASSUME NEW u \in Workers PROVE Reading(import[u])'
  <2>1. PICK r : r = import[u]
    OBVIOUS
  <2>2. Reading(r)'
    BY <1>1, <2>1, ReadingKept DEF ReadInv
  <2>3. r = import'[u]
    BY <2>1
  <2> QED
    BY <2>2, <2>3
<1>3. CopiesInv'
  BY CopiesStay DEF ReadInv, Storing
<1> QED
  BY <1>2, <1>3

\* Every step keeps the books, the copies and every read true.
LEMMA ReadNext == ReadInv /\ [Next]_vars => ReadInv'
<1> SUFFICES ASSUME ReadInv, [Next]_vars PROVE ReadInv'
  OBVIOUS
<1>1. LedgerInv'
  BY LedgerNext DEF ReadInv
<1>2. ASSUME NEW w \in Workers, Import(w)
      PROVE  BooksInv' /\ CopiesInv' /\ \A u \in Workers : Reading(import[u])'
  BY <1>2, BeginReads, TakeReads, ListReads, SharedReads, FetchReads, PeriodReads,
     StoreReads, InsertReads, EndReads DEF Import
<1>3. CASE Fortnox
  <2>1. BooksInv' /\ Later
    BY <1>3, FortnoxMoves DEF ReadInv
  <2>2. UNCHANGED <<copies, unsettled, import>>
    BY <1>3 DEF Fortnox, Enter, Correct, Register, Cancel, Lock, Connect, Outside, tables
  <2> QED
    BY <1>1, <2>1, <2>2, OutsideReads DEF ReadInv
<1>4. CASE UNCHANGED vars
  <2>1. UNCHANGED <<books, lock, copies, unsettled, import>>
    BY <1>4 DEF vars, fortnox, tables
  <2>2. BooksInv' /\ Later
    BY <2>1, NoChange DEF ReadInv
  <2> QED
    BY <1>1, <2>1, <2>2, OutsideReads DEF ReadInv
<1> QED
  BY <1>1, <1>2, <1>3, <1>4 DEF Next, Fortnox, ReadInv

\* The history of a locked period is that of the books, read or copied.
THEOREM LockedHistoryIsTheBooks == Spec => []HistoryIsWhole
<1>1. ReadInv => HistoryIsWhole
  BY DEF ReadInv, Reading, Remembers, HistoryIsWhole, PlainOf
<1> QED
  BY <1>1, ReadInit, ReadNext, PTL DEF Spec

\* No voucher is left out, or there twice.
THEOREM NothingIsLeftOut == Spec => []ImportIsWhole
<1>1. ASSUME ReadInv PROVE ImportIsWhole
  <2> SUFFICES ASSUME NEW w \in Workers, import[w].real,
                      import[w].pc \in {"persist", "delete", "insert"}
               PROVE  LET r == import[w]
                          ids == {v.id : v \in r.current}
                      IN  /\ r.had \subseteq ids \cup BooksStruck
                          /\ Cardinality(ids) = Cardinality(r.current)
    BY DEF ImportIsWhole, BooksStruck
  <2>1. PICK r : r = import[w]
    OBVIOUS
  <2>2. Reading(r) /\ r.real /\ r.pc \in {"persist", "delete", "insert"}
    BY <1>1, <2>1 DEF ReadInv
  <2> DEFINE ids == {v.id : v \in r.current}
             idOf == [v \in r.current |-> v.id]
  <2>3. r.had \subseteq ids \cup BooksStruck
    BY <2>2 DEF Reading, LosesNothing, Ids
  <2>4. IsFiniteSet(r.current) /\ \A u, v \in r.current : u.id = v.id => u = v
    BY <2>2 DEF Reading, Fetches
  <2>5. idOf \in Bijection(r.current, ids)
    BY <2>4 DEF Bijection, Injection, Surjection, IsInjective
  <2>6. Cardinality(ids) = Cardinality(r.current)
    BY <2>4, <2>5, FS_Bijection DEF ExistsBijection
  <2> QED
    BY <2>1, <2>3, <2>6
<1> QED
  BY <1>1, ReadInit, ReadNext, PTL DEF Spec
=============================================================================
