# Verification of the close-run and booking engine

TLA+ models of the monthly-close service in this repository, the TLC runs that
check them on small instances, and the theorems TLAPS proves about them.

The service reads a client's ledger from Fortnox, runs a fixed table of fourteen
review steps over it (a *close run*), files *findings*, turns some of them into
*booking proposals*, lets a policy or a consultant decide them, and books what is
approved as vouchers in Fortnox behind a write gate. Node processes serve HTTP
requests over one PostgreSQL database; no handler runs in a transaction, so every
`await` is a point where any other call may run.

## 1. The parts of the system

| Part | Source | State it keeps | Operations |
|---|---|---|---|
| Close-run engine | `packages/workflow/src/engine.ts`, `packages/domain/src/state-machine.ts`, `workflow-steps.ts` | `close_runs.status`, 14 `close_run_steps` rows, `RunState` in memory during one call | `startCloseRun`, `executeCloseRun`, `#transition`, `getSummary` |
| Step handlers | `packages/workflow/src/steps/*.ts` | findings, review items, proposals, imported ledger | readiness/import, two analyses, consolidation, report, human review, final control |
| Review | `packages/workflow/src/review.ts` | `review_decisions`, finding, review item and proposal status | `recordReviewDecision` |
| Submission | `packages/workflow/src/submit.ts` | proposal status and hashes, `booked:` keys | `submitApprovedProposals` |
| Write gate | `packages/fortnox/src/write-policy.ts`, `real-adapter.ts` | none | `evaluateWriteGate`, `createVoucher` |
| Connection | `packages/fortnox/src/oauth/*.ts` | credential, connection and authorization-request rows; `refreshInFlight` map per process | consent, callback, `getAccessToken`, refresh, live check, disconnect |
| Resolver and configuration | `apps/api/src/config.ts`, `integrations/fortnox.ts`, `routes/integrations.ts` | the environment of the process, the client's write switch | refuse to start, which adapter a call gets, five connection routes |
| Routes | `apps/api/src/routes/index.ts`, `runtime.ts` | none | start and execute, decide, submit |
| Firm | `apps/api/src/routes/firm.ts` | clients and their policies | add a client, run a period for all, overview |
| Decision model | `packages/domain/src/decision.ts` | none (pure) | level of a finding under a policy |
| Findings | `packages/domain/src/findings.ts` | none (pure) | deduplication keys, consolidation of drafts |
| Rules | `packages/rules/src/*.ts` | none (pure) | validations, anomalies, proposals |
| Fortnox HTTP | `packages/fortnox/src/http/*.ts`, `#cached` in `real-adapter.ts` | window and queue of a rate limiter, promises of shared lists | get, list, post; retries, paging |
| Period import | `steps/readiness.ts`, `real-adapter.ts`, `packages/db` (`imported_records`, `transactions`, `processed_source_records`) | copies of vouchers, transactions, source keys | load a period and its history, list and record keys |
| Wire mapping | `packages/fortnox/src/wire.ts` | none (pure) | vouchers and invoices of Fortnox to those of the domain |
| Audit log | `packages/workflow/src/audit.ts`, `domain/src/audit.ts` | append-only events | append, redact |
| Model provider | `packages/agent/src/*.ts` | none | wording of reports |
| Web, seed, schema | `apps/web`, `scripts`, `packages/db` | tables | pages, fixtures, queries |

How they interact:

- A route calls the engine; the engine calls the handlers in table order; the
  handlers pass data to each other through `RunState`, which dies with the call,
  and to everybody else through the tables.
- Step 10 (consolidation) files findings, creates proposals, and approves some
  of them by policy. Review decides them. Submission claims what is approved and
  posts it through the adapter of the resolver; the decision route submits right
  after a decision. These three share the proposal row and meet nowhere else.
- A run reads its period and the periods before it at step 1, runs the rules over
  them at steps 6 and 7, and merges what they found at step 10. It leaves copies of
  what it read, source keys and booked keys behind; these, and the vouchers it
  books, are what later runs of the same client read.
- Every adapter asks the connection service for an access token; concurrent
  refreshes share one promise within a process and a compare-and-set between
  processes.
- The resolver reads the connection row and the environment each time a run or a
  submission starts, and gives it a real adapter, one on demo data, or none. The
  adapter reads the tokens at every request: a grant that changes changes what is
  read and booked under way.

What is hard in it, and the property that answers it (PROJECT.json lists every
hazard with its line):

- *claim against decision*: a proposal can be edited, rejected or approved again
  while a submitter has it in hand → `PostedBytesApproved`, `ApprovalSpentOnce`,
  `RowsTellTheTruth`, `OneVoucherPerProposal`;
- *checked values that go stale*: switch and lock are read once per batch, and what
  is compared with the lock is not the date of what is sent → `NothingSentIntoLock`,
  which is refuted;
- *a lost answer or a refused statement between post and record* →
  `ApprovalSpentOnce`, `RowsTellTheTruth`, `NeverAgain`;
- *the same correction found by two runs*, which the code may book twice →
  `NeverAgain`, which says from when on it cannot;
- *a failure between any two statements of a close run, then a second execution*
  → `CompletionEarned`, `RunTellsSteps`, `ReviewedFirst`;
- *refreshes, consents, checks and disconnects of one credential* →
  `SingleFlight`, `OnlyConsentConnects`, `RotationAdvances`, `TokenUsable`,
  `ConsentSpentOnce`, `EveryCallEnds`;
- *settings, switch, row and tokens that are read one after the other while each
  may change, over restarts* → `SwitchedForThisGrant`, `ShadowNeverBesideWrites`,
  `RunTellsSource`;
- *an import of many reads and writes over books that change, beside another* →
  `HistoryIsWhole`, `ImportIsWhole`, `LedgerAgrees`;
- *formats that say the same thing in several ways* → `AmountsAgree`,
  `BalanceSurvives`, `NeverAGuess`, which TLC evaluates before `import_main`;
- *requests for a whole firm that fail, overlap or die half-way* → `OneExecutor`,
  `RunsAreWhole`, `OneResultPerClient`, `EveryRequestEnds`,
  `NeverCompleteUnlooked`;
- *concurrent requests behind one limiter and one shared load, with retries and
  pages* → `WindowKept`, `ReadersAgree`, `FailureNotCached`, `CreateSentOnce`,
  `EveryCallEnds`;
- *the same issue seen by several rules, the same invoice by several runs* →
  `MergeKeepsTheWorst`, `WrongBlocks`, `NoInvoiceTwiceUnseen`;
- *scores, gates and thresholds that together let a correction be booked without
  a human* → `AutomaticEarned`.

## 2. The modules

| Module | Models |
|---|---|
| `Booking` | a booking proposal from step 10 to its voucher: close runs, reviewers, submitters, the client's switch, grant and lock |
| `BookingContract` | what the booking machinery promises: approvals and vouchers only |
| `Booking_proofs` | theorems about `Booking` |
| `CloseRun` | one close run: run row, step rows, findings, queue, over repeated executions, failures and crashes |
| `CloseRun_proofs` | theorems about `CloseRun` |
| `Connection` | one client's credential, in several processes: consent, rotation, live check, disconnect |
| `Connection_proofs` | theorems about `Connection` |
| `FortnoxHttp` | the calls of one adapter: limiter, requests, retries, pages, shared lists |
| `FortnoxHttp_proofs` | theorems about `FortnoxHttp` |
| `Decision` | scores, gates and levels; deduplication keys and the merge of findings |
| `Rules` | the rules of steps 6, 7 and 10: validations, anomalies, proposals |
| `Period` | dates and periods |
| `Wire` | what the rules get to see of a voucher and an invoice of Fortnox |
| `Import` | step 1: concurrent imports of a client, the copies they leave, and Fortnox meanwhile |
| `Import_proofs` | theorems about `Import` |
| `PeriodReview` | the runs of one client, one after the other or at once, and the books between them |
| `PeriodReview_proofs` | theorems about `PeriodReview`, and lemmas about `Rules` and `Decision` |
| `Grant` | whose books runs and submissions reach and whether they may write: environment, row, tokens, switch |
| `Grant_proofs` | theorems about `Grant` |
| `Firm` | the requests of a firm: clients and policies, runs that are started, run-all, overview |
| `Firm_proofs` | theorems about `Firm` |
| `MC...` | the values TLC is given for the module of that name |

`Booking` composes the four kinds of processes that meet at a proposal and
implements `BookingContract` through the mapping `Grants`, `Ledger`. `CloseRun`
and `Booking` overlap at step 10 on purpose: `CloseRun` has the step's effect on
findings and queue inside the loop of the engine, `Booking` its statements on
proposals and decisions against reviewers and submitters; step 13's submission
is one more submitter in `Booking`. `PeriodReview` extends
`Rules`, which extends `Decision`; it has what findings and proposals *say*,
which `CloseRun` and `Booking` take as constants, and in exchange takes an
approval and a submission as one step.

`Grant` composes what the others split: it has the connection row of `Connection`
with the company its tokens are of, the switch and the gate of `Booking`, the
start of `CloseRun` and the reads of `Import`, each at the level of the statements
that touch the grant. `Connection` has the tokens in full instead, `Booking` sees a
grant that is there or not (`conn.connected`), `FortnoxHttp` a token that takes any
time. `Import` extends `Wire` and opens up the import that
`PeriodReview` takes for one step; `Firm` opens up the start that `CloseRun` takes
for its initial state, and in exchange takes an execution as one step.

### Booking

*State.* `status`, `decisions`, `finding` (finding and review item), `processed`
(the `booked:` keys) are tables. `conn` is the connection row as far as booking
reads it, `lock` the lock in Fortnox, `posted` the vouchers in Fortnox. `run`,
`rev`, `sub` are the local variables of each running call: what a call read
before an `await` is its own snapshot. `token` is a history variable: the
decision that last made the proposal `approved_shadow`, which a voucher keeps; a
submission's `stood` is history too: the lock there was in Fortnox when the batch
asked for it, whatever it was told.

*Actions.* One per awaited statement, named for what it does:
`LedgerReview`, `Consolidate`, `Propose`, `PolicyCheck`, `PolicyDecide`,
`PolicyApprove`, `QueueReviews` (steps 7 and 10, `consolidate.ts`); `ReadProposal`,
`InsertDecision`, `ApplyStatus`, `CloseFinding` (`review.ts`); `Resolve`,
`ListCandidates`, `ReadSwitch`, `ReadLock`, `ReadBooked`, `Consider`,
`MarkAlreadyBooked`, `Claim`, `PostAccepted`/`PostRefused`, `RecordSubmitted`,
`RecordKey`, `RecordFailure`, `FinishBatch` (`submit.ts`); `SetWrites`,
`Disconnect`, `Reconnect`, `LockBooks` around them. `RecordingFails`,
`AbortBatch`, `AbortReview` are the refused statements and the crashes; what the
catch block around the post covers leads to `RecordFailure`, what it does not
ends the call.

*Abstractions.* A voucher body is a model value with a date, a balance, a
well-formedness and a hash given by constants. A proposal's identity is that of
its finding: a re-run's `delete` and `insert` give the same proposal a fresh
status and keep the finding's decisions, which is what the keys of the tables do.
A call handles a run's proposals in any order. `EngineWired` says whether the engine
was given `fortnoxWritesEnabled`, as its options and its tests allow. The runtime gives
it none, and then the gate refuses everything: of the program as it is started, what
the modules say of vouchers says what it would do once that is set right. The
theorems are for both values.

### CloseRun

*State.* `run`, `step`, `finding`, `queued` are tables; `exec` is the call of
`executeCloseRun` under way with what its handlers tell each other (`ledger`,
`raw`), the outcome to record and the verdict to write.

*Actions.* `Execute` (the run row), `Visit` (the head of the loop and the first
transition), one action per handler (`AgentReadiness`, `Analyse`,
`StepNotImplemented`, `ConsolidateFindings`, `AccountantReport`, `HumanReview`,
`FinalControl`), `Record`, `RecordFailure`, `Summarise`, `Finish`, `Crash`,
`RecordReviewDecision`. A transition is a row update followed by an audit append:
`Transition` lets either fail, and sends what they throw to the `catch` of the
source or out of the call, whichever encloses it.

*Abstractions.* What the rules raise is a constant (`RaisedBy`); it appears in
`RunState` only when the ledger is there. Calls of `executeCloseRun` on one run
do not overlap: every caller executes a run in the request or command that
started it, or again after that returned.

### Connection

*State.* `cred`, `requests` are rows; `issued`, `live`, `aged`, `expired` are
Fortnox's side of the grant; `flight` is `refreshInFlight` of each process and
`call` the local state of each call, with the process that serves it (`at`) and,
as history, whether a consent was stored since it read the credential
(`renewed`). The n-th pair of tokens Fortnox issues is the number n. `ServedBy`
says which processes a call may be served by; a call is a tab, a job or an
adapter, and meets the others of its process in `flight` and those of other
processes in the rows only.

*Actions.* `getAccessToken` is `Start`, `ReadCredential`, `Decide`,
`RereadCredential`, `AskAccepted`/`AskFails`/`AskDenied`, `DropCredential`,
`MarkReconnect`, `Rotate`, `ReadWinner`; the live check adds `CheckCompany`,
`RecordCheck`; consent is `BeginAuthorization`, `Consume`,
`ExchangeAccepted`/`ExchangeRefused`, `MarkRefused`, `SaveCredential`,
`MarkConnected` and the live check; disconnecting is `StartDisconnect`, `Revoke`,
`DeleteCredential`, `MarkDisconnected`; `ExpireRequest` is an authorization request
nobody came back to. `AgeTokens` and `ExpireTokens` are the clock: an access token
lives an hour and a call takes seconds, so a token ages only at a time without
calls, and tokens run out in the order they were issued.

*Abstractions.* The statements on the connection row are steps here that may fail
and be interleaved; what the row says after them is `Grant`'s.

### FortnoxHttp

*State.* `stamps` and `queue` are the limiter; `cache` is the promise `#cached`
holds; `call` the state of each call of the adapter; `items` the list at Fortnox.
`wire` is history: the requests of the last window, each with its caller, its age and
how old its slot was when it went out.

*Actions.* `Request` (get, post) and `Cached` (a shared list) begin a call;
`WaitForSlot` is a turn of the limiter, whose sleep is the guard; `Send` is
the end of `getAccessToken` and the request, any time after the slot; `Answer`,
`AnswerTransient`, `CallFails` are the ways a request ends; `Resume` ends a back-off. `Tick` is time, `AddItem` Fortnox.

*Abstractions.* A tick is a second. There is one shared list, which grows at its
end, and only up to `MaxItems`: a load is not chased by the list for ever. Each
call is made once. Ages are counted up to the window, where the limiter drops a
stamp.

### Decision, Rules

Pure operators: `computeDecisionScore`, `decide` with its gates, `emitFinding`
(what becomes of a rule's observation), `buildDeduplicationKey`,
`consolidateFindings` as a recursive function over the drafts in their order; one
operator per rule, returning what the code emits in the order it does, in two
groups (`COMPLETENESS_GROUP`, `LEDGER_GROUP`); `generateProposals`. A rule reads a
context record: period, lock, current and historical vouchers, invoices, keys.
Amounts are öre, signals whole percents and scores ten-thousandths, days are
numbered through and a period is a fixed number of days. Reasons, evidence,
titles and rule versions, which are texts, are left out.

### PeriodReview

*State.* `books`, `lock` are Fortnox's; `cache` (`imported_records`), `processed`
(`processed_source_records`), `offers` (proposals) are tables; `run[w]` is the
`RunState` of a worker, one `executeCloseRun`. Two workers, because the route that
executes a run (`routes/index.ts:114-124`) has no guard per client. `filed` is
history: for each reviewed voucher, whether the run called it a duplicate.

*Actions.* `AgentReadiness` (step 1 with its import), `ListProcessedSourceKeys` and
`RecordProcessedSourceKeys` (the two ends of step 7, with the rules of steps 6 and
7 between), `ConsolidateFindings` (step 10), `Crash`; `Submit` books a correction,
`Enter` any other voucher, `Lock` locks a period.

*Abstractions.* The reads of one import, the statements of step 10, and those of
one submission, are one step each: the interleavings they hide are those of
`CloseRun` and `Booking`. Vouchers are only added, in one series; a lock only
moves forward. Copies are read in order of date (`listImportedRecordPayloads`
has no `ORDER BY`; the order decides a tie of `dominantVatCode` and nothing
else). A finding about a voucher always carries its supplier, where some rules
leave it out; no key and no decision reads it.

### Period, Wire, Import

*State.* `books`, `register`, `lock` are Fortnox's, `connected` the client's grant;
`copies` (`imported_records` of kind voucher) and `tx` (`transactions`) are
tables. `import[w]` is one import: the periods it has still to read, the details
it has still to ask for, what it has got, the copies it has still to store, and
the sub-ledger its adapter shares. `unsettled`, `trusted`, `had` are history, for what the
properties except.

*Actions.* `Begin` (source, reference data, lock); `TakeCopies` or `ListVouchers`
for each period of the history, oldest first, and then the own; `LoadShared` (the
first use of the shared lists); `FetchDetail`, one answer to the pool of
`mapWithConcurrency`; `PeriodRead`; `StoreCopies`, one chunk of
`upsertImportedRecords`; `DeleteTransactions`, `InsertTransactions`,
`InsertRefused`; `Finish`; `Break`. Around them `Enter`, `Correct`, `Register`,
`Cancel`, `Lock`, `Connect` in Fortnox.

*Abstractions.* A list is read at one moment, its pages are in `FortnoxHttp`. A
text and a name are sets of words: what matters is which name is in which text
and in which other name. Of the lists of the own period, read side by side, those
that cannot meet the vouchers are left out, and so are the copies of kinds that
are never read.

### Grant

*State.* `env` is the environment of the process, `row` and `credential` the
connection row and the tokens (as the company they are of; a history field of
the row says which consent it is of). `callback`, `disconnect`, `check`, `toggle` are
requests between two statements; `exec` an execution of a run between resolving
its source and the end of its import, `sub` a submission between resolving its
adapter and the post. `runs` has what the row of each run says of its source,
and what was read.

*Actions.* `Restart` under any environment `loadAppConfig` accepts;
`SaveCredential`, `MarkConnected`, `ConsentFails`, `DeleteCredential`,
`MarkDisconnected`, `GrantDies`, `AskFortnox`, `RecordCheck` (`connection.ts`);
`ReadForSwitch`, `SetWrites` (the switch); `StartExecution`, `RecordSource`,
`Readiness`, `ReadLedger`, `EndImport`, `ImportFails`; `Resolve`, `ReadSwitch`,
`Post`, `EndSubmission`.

*Abstractions.* One request of each kind at a time; a run books one voucher,
approved as it is. A restart stands for a crash too.

### Firm

*State.* `clients`, `policies`, `periods`, `runs` are tables, a run with the state of
its steps and, instead of the time it was created, the runs there were before it;
`worker[w]` is a request: the client whose turn it is, the clients
still to come, the results so far. `before` and `seen` are history.

*Actions.* The four requests `CreateClient`, `RunOne`, `RunAll`, `Overview`;
`InsertPolicy`; `NextClient`, `Respond` (the loops); `UpsertPeriod`, `CreateRun`,
`CreateRefused`, `InsertSteps` (`startCloseRun`); `StartExecution`, `NoPolicy`,
`EndExecution`; `CountClient`; `Fail`, `Crash`; `Tick`, the millisecond in the id of
a run.

In each component module a few definitions are the *mutated forms* of others (a
dropped guard, a missing reset); no action uses them. Each property is shown to
depend on the code by exchanging one of these for the definition it is a mutated
form of: the property then fails.

## 3. The runs

| Run | Instance | Asks |
|---|---|---|
| `booking_core` | one proposal, two submitters, two reviewers, policy approval, one edited body with an earlier date, lost answers, refused statements, crashes, two decisions | Does every voucher carry approved bytes and spend its own approval? Do the rows tell the truth about Fortnox? Is what has a key, and nobody at it who has not read the key, never booked again? Does `Booking` implement `BookingContract`? |
| `booking_gate` | two runs that find the same correction, one of them for a reviewer who may edit it, one for the policy; shadow mode and live; one submitter, lost answers, refused statements, crashes, a lock that moves or cannot be read, a switch turned and a grant lost and renewed under way | Do the rows tell the truth, also of what another run booked? Is nothing booked again? Does shadow mode hold everything back? |
| `booking_reapproved` | two submitters, one reviewer | refuted: one voucher per proposal |
| `booking_date` | one submitter, one reviewer; an edited body with an earlier date, books that are locked | refuted: nothing is sent that is dated into the locked period |
| `connection_main` | two processes, one call of the first and one of either, at the same time or again and again; a consent, live checks, disconnects, timeouts, lost answers, crashes of a process; three pairs of tokens, a credential never or once rotated | One refresh at a time in each process, codes spent once, fresh tokens, no credential but by consent, no newer pair overwritten, every call ends |
| `closerun_main` | two executions, two failures anywhere, crashes, decisions at any time, three findings (blocking, for a consultant, by policy), a step table that can be completed | Is completion earned? Does the run row tell what the step rows tell? Is review completed over reviewed findings? |
| `http_main` | two readers of a shared list of up to two pages, one call of any kind, tokens that take any time, two slots in a window of one tick, two retries | Is the window kept but for one request by each call whose slot had left it? Is a list whole and the same for all, a create sent once, a failure not kept? Does every call end? |
| `review_main` | two workers, two runs of two periods, three vouchers (a rent, the same invoice again in the next period, an unbalanced manual voucher on a date outside the financial years) and the corrections booked between | Does a merged finding keep the worst? Does what is wrong block? Is an invoice booked twice pointed out? Is what is automatic harmless? |
| `import_main` | two workers, two imports of two periods of two days with one of history; three vouchers, two of which can be corrected or struck; one invoice; a row id another client holds; pool of two, chunks of one; four changes in Fortnox, one failure | Is the history of a locked period that of the books? Is no voucher left out, and the sub-ledger one for the whole run? Before it starts: is a supplier never guessed, for any text, and are amounts and balances kept? |
| `grant_main` | seven environments, three of which are refused and one of which has `SHADOW_MODE` mistyped; a client with the demo row; two consents, one run, one request for the switch, one restart | Is every voucher posted under a switch turned on for its grant? Does no run read beside an open switch in shadow mode? Does the run row tell the source? |
| `firm_main` | two workers, three requests, two clients one of which is seeded, one period, two milliseconds, one failure | Is a run held by one request, whole when executed? Does run-all give each client one result, the overview the latest runs? Does every request end? |
| `firm_unlooked` | the same | refuted: no period is reported complete that was not looked at |

The bounds are enough for the cases they are there for: two submitters and two
reviewers are what a race needs, two decisions what a second approval needs; two
runs what a rediscovered correction needs. Proposals do not interact in a batch
beyond the key set, which `booking_gate` exercises with two. In `booking_core`
submitters, and reviewers, are taken for each other (symmetry): no definition names one.
It leaves lock, switch and grant alone, which only stop a submission; `booking_gate`
moves them. Two executions and
two failures give every pair of (failure, recovery); three pairs of tokens a
rotation on top of a rotation, or a consent against a rotation; a credential that
may have been rotated a count the consent starts over, and two calls, of one
process or of two, the shared promise and the compare-and-set. `MaxDecisions`
bounds only how many decisions a reviewer adds to those recorded or under way, and
`MaxIssued`, `MaxExecutions`
and `MaxFaults` bound counters in guards; no other guard mentions a bound.

`closerun_main` sets `BlocksCompletion` to the implemented steps. With the table
of the code the steps without implementation carry work too, no run can ever be
completed, and `CompletionEarned` would hold for want of a completed run. The
theorem about it is for every table. The run allows the system to stop (all
executions used up and everything decided), hence no deadlock check. In `http_main`
each call is made once, in the runs of `PeriodReview`, `Import` and `Firm` books,
imports and requests are used up;
then nothing more happens. Everywhere else deadlock is checked.

`http_main` needs no more than two slots: with three calls and their pages a
third request always competes, and back-off and a slow token outlast the window of
one tick. `review_main` has
periods of three days and a history of one period, so that the rules that need
one earlier voucher can fire; those that need three (a supplier's usual amount,
a supplier always on result accounts) are there with too little history only.
Every class of `WrongBlocks`, automatic and reviewed offers, a correction found booked, a
flagged invoice and an accrual that is booked do occur.

`import_main` has periods of two days, so that a voucher can be before or at the
end of a period that is locked, and enough changes for a voucher to be entered,
copied while its period is open, corrected and locked; the cases its properties
except do occur in it, and the properties fail without the exceptions. Chunks
of one and a pool of two make every partial store and every order of answers
happen. The invoice is of an earlier period than the voucher that refers to it. In
`grant_main` two consents are what it takes for a switch to outlive its grant, and
one restart for a row to outlive its environment. In `firm_main` two
milliseconds are an id that is taken and one that is not, two workers a client
that is added during run-all. `MaxChanges`, `MaxImports`, `MaxFaults`, `MaxConsents`,
`MaxRestarts`, `MaxToggles`, `MaxClock` and `MaxRequests` bound counters in guards.

### Fairness

- `Booking` has no liveness property. As the runtime wires the engine nothing is ever
  booked; wired otherwise a refused statement or a crash after the claim leaves a
  proposal `submitting` for good (see below), and no code calls submission again.
- `Connection!FairSpec`: weak fairness of the steps of a started call, by the 15
  second timeout of `token-client.ts`, and because node runs every continuation.
  Nothing requires that tokens expire, calls are made or consents are given.
- `FortnoxHttp!FairSpec`: time passes, and the steps of each call are weakly fair:
  the limiter's sleep and the back-off are timers, and a request is answered or
  aborted after 30 seconds (`client.ts:179`).
- `Firm!Spec`: weak fairness of the steps of each request, one condition per worker,
  by the same scheduling: the statement a request waits for is answered, or `Fail`
  takes its place. An execution ends, as what it waits for does.

## 4. What disagrees with the documentation

Three runs end in a counterexample; PROJECT.json quotes the line each contradicts.
Where a voucher is posted in one, the engine has been given the write flag, which
the runtime does not give it.

1. `booking_reapproved`: recording a decision writes `approved_shadow` over
   `submitting`, and over a status that became `submitted` after it was read. The
   next submitter claims the proposal again, and its voucher is posted twice
   (`docs/shadow-mode.md:52-53`).
2. `booking_date`: the gate compares the date of the proposal's row with the lock
   (`submit.ts:115`); the voucher carries that of the edited body, and is sent into
   a locked period, against `docs/autonomi.md:85`. A lock that cannot be read counts
   as no lock (`submit.ts:81`), with the same result.
3. `firm_unlooked`: a run is inserted by one statement and its steps by the next.
   In between, and for good if the process dies there, the summary of the run
   says completed: of no steps none is missing (`state-machine.ts:111-112`).

Seen while modelling, and not given runs of their own; where a property that is
checked would be false by one of these, it excepts the case by name. Booking and
review:
- The runtime (`runtime.ts:61`) does not hand `FORTNOX_WRITES_ENABLED` to the engine,
  whose flag is then off (`engine.ts:196`): the gate refuses what the decision route
  submits, though `routes/index.ts:263` says an approval is booked right away.
- With a lost answer the voucher exists, no key is recorded, and the proposal another
  run makes of the same correction is booked too (`submit.ts:168`); and without any
  fault, two submissions that read the keys (`submit.ts:87`) before either records one
  book the same bytes, each of its own run's proposal. Both against
  `docs/autonomi.md:93`. `NeverAgain` says from when on neither happens.
- A run first executed without a connection completes its review over an empty
  queue, and a second execution does not open it again (`report.ts:81-82`).
- Submission never asks which source a run was on (`submit.ts:68`): after a
  reconnect, or a move from demo data, a run on one company's books is booked in
  another's.
- A crash (or a refused statement outside the try) after the claim leaves a
  proposal `submitting`; nothing picks it up again.
- With a lost answer a voucher exists and the proposal is `submission_failed`; a
  new approval books the same proposal again (`ApprovalSpentOnce` still holds: it is
  another approval). A refused statement after the post does the same.
- A decision of kind `approve` may come with an edited body: it approves the
  simulated bytes, and `payloadFor` takes the edited ones (`submit.ts:91`,
  `submit.ts:207`). The gate refuses them; if they are booked already, the proposal
  is marked as booked though nobody approved them. `RowsTellTheTruth` therefore
  speaks of any body that came with a decision (`BodiesFor`).
- A re-run proposes a correction again whose booked form was edited: the key is
  that of the edited body.
- The switch is read once per batch; turning it off stops the next batch.
- A late reject overwrites `submitting` and even a `submitted` it had not read.
- `executeCloseRun` skips completed steps but starts with an empty `RunState`: on
  a second execution with readiness completed, the ledger is not in memory and
  the analyses that had not completed stay blocked for good.
- A failed audit append after `completed` was written turns the step to `failed`;
  a transition that is not allowed (`failed → blocked`) throws out of the loop and
  leaves the run row `running`. Step 10 failing between filing and queueing
  leaves findings nobody can decide.
- `executeCloseRun` writes `running` over `completed`; `canTransitionRun` is not
  called.

The connection, its row and its switch:
- Only the word `true`, in any case, turns a setting on: a typo in `SHADOW_MODE` turns
  shadow mode *off* (`config.ts:14`), against `config.ts:6-8`. With the two settings that
  writes need besides, the process starts and a submission gets an adapter that writes.
  It is one of the environments of `grant_main`.
- The tokens of a new grant are stored before the row that turns the switch off
  (`connection.ts:203`): a submission in between, or at any time after a crash there,
  books in the new company under the switch of the old, against
  `connection.ts:212-213`.
- `close_runs.dataSource` is written anew by an execution that reads nothing
  (`engine.ts:199`), against `schema/index.ts:141`.
- The process whose refresh token was rotated away is denied, and deletes the
  credential another has just stored (`docs/fortnox-oauth.md:157-158`).
- A request that read the row of the old grant turns the switch on for the new one;
  `SwitchedForThisGrant` names this, and the torn consent above, as the only ways.
- Adapters fetch tokens at every request: an import that is under way when
  another company is connected reads both.
- A failed consent marks a good grant as disconnected. With `auto`, a client whose
  grant is not `connected` is run on demo data if it has the demo row.
- `close_runs.dataSource` says `mock` before a run has read anything, which the
  overview counts.
- A new consent sets the rotation count to 0. A refresh that read a count of 0
  before matches it again and stores its pair over that of the consent: the loser
  does not find out, against `repositories/index.ts:688-691`. `RotationAdvances`
  names this as the only way, which the proof confirms; it needs a consent while a
  refresh of the grant before it waits for its answer. A live check that ends after a
  disconnect marks the connection `connected` without a credential. The loser of
  a rotation that finds no winner returns a token nobody stored. A lost answer to
  a refresh kills the grant at the next refresh.

Reading the ledger:
- The slot of the limiter is taken before the token is asked for (`client.ts:153`,
  `client.ts:176`): a request whose token took a refresh goes out with a slot of an
  earlier window, beside those of the current one, against `client.ts:11`.
  `WindowKept` says how many those can be.
- Copies of a run's own period are made while that is open. Once the period is locked,
  later runs take any copy at all for the whole: what was booked or corrected in
  between is missing from their history (`readiness.ts:133-134`).
- Demo data is stored as copies by the last step of an import like any other
  (`readiness.ts:192-203`); a client moved to a live account finds them once the period
  is locked, against `readiness.ts:136-137`.
- Two adapters of one client have two limiters for the limit of one token.
- What an import had not stored of a locked period when it was cut short is missing
  from the history of later runs too. `HistoryIsWhole` excepts this and the two
  above.
- The id of a transaction is that of its voucher's row, unique over all clients
  (`readiness.ts`, `schema`): the second client whose numbers meet those of another fails
  its import. Nobody reads the table. Two imports of one period at once can leave
  it incomplete or fail on each other's rows.
- Two suppliers with the same name: the first is taken, against "never a guess
  between candidates" (`wire.ts:161`); `NeverAGuess` asks that no other *name* was
  matched. An amount that arrives as text is cut off after its second decimal, one
  that arrives as a number is rounded.
- After a failed detail the rest of the pool goes on sending requests.
- Two runs that overlap between reading and recording source keys (`analysis.ts:101`,
  `analysis.ts:125`) both miss an invoice booked in both periods, against
  `validations.ts:291`. `NoInvoiceTwiceUnseen` names this as the only way.
- A second run of a period finds the source keys of the first and flags every
  supplier invoice as a duplicate (`analysis.ts:127`).

Rules and reports:
- An accrual is proposed, and booked, again when the median it is for has moved
  between two runs (`consolidate.ts:112` compares hashes of bodies).
- The correction of a row without dimension debits the absolute amount: for a
  credit row both signs are wrong (`proposals.ts:85`). A row that lacks only a
  project gets a cost center.
- Two equal corrections of one run have one hash. A batch reads the booked keys
  before its loop and does not add to them (`submit.ts:87`), so both are booked if
  they are approved in time for one batch; in a later one the second is taken for
  booked.
- Two rules about the same missing document do not merge where one names the row
  and the other the voucher. In the order the rules run, the first of the findings
  that do merge is already the worst; `MergeKeepsTheWorst` asks for any order.
- No finding ever reaches `automatic`, only corrections do.
- A client whose policy was not inserted, because the process died between the two
  statements of `createClient`, can neither be run, nor patched, nor added again (its
  organisation number is taken); its runs stay `pending`.
- `clearItemCount` counts the copies of a period, also for a run that was blocked:
  the overview then shows an automation rate of up to 100 %.
- Six audit events are written by routes without `redactAuditPayload`
  (`routes/integrations.ts:97`, `firm.ts:70` and others), against `workflow/src/audit.ts:31-33`.

## 5. What is proved

TLAPS proves these for every value of the constants that satisfies the named
assumptions (`RowsAssumption`, `SettingsAssumption`; `FindingsAssumption`,
`BoundsAssumption`; `ConnectionAssumption`, `GrantAssumption`, `FirmAssumption`,
`HttpAssumption`; `ImportAssumption`, `InvoicesAssumption`, `BooksAssumption`;
`ReviewAssumption`, `CatalogueAssumption`, `PolicyAssumption`, `AmountsAssumption`,
`DaysAssumption`), so for any number of runs, proposals, submitters, reviewers, processes, calls,
clients, consents, executions, failures, vouchers and periods. TLC evaluates them on
every run. Most say that bounds are numbers and that model values which stand for
nothing are none of the things. Those that say more:

- `InvoicesAssumption`: an invoice has one number and one supplier.
- `BooksAssumption`: what can be in Fortnox. A voucher has the financial year its
  period begins in, a correction keeps id and date, a struck row stays struck and a
  voucher of nothing but struck rows gets no others, and demo ids have a form of
  their own. The first of these leaves out a company whose first financial year
  begins inside a month: there `listVouchers` finds no year for the month and reads
  nothing (`real-adapter.ts:185-191`).
- `CatalogueAssumption`, `PolicyAssumption`: amounts are whole numbers of öre, dates
  numbers from one, and what a policy sets is of its kind.

**`Booking_proofs`**

- `TypeCorrect`: `[]TypeOK`. Inductive with `HandsOK`: a call that has a proposal
  in hand has one of the right kind. One lemma per kind of process.
- `ApprovedBytesOnly`: `[]PostedBytesApproved`. The gate looks at bytes read some
  steps before the post, so the invariant is carried by `ApprovedInHand`: the
  bytes in the hands of every submitter between its gate and its post were
  approved for that proposal. It is stable because decisions are only appended.
- `OneApprovalOneVoucher`: `[]ApprovalSpentOnce`. The strengthening `HoldersOK`
  says that an approval is at any moment in one pair of hands (a policy step or
  reviewer about to apply it, the proposal's row, a submitter between claim and
  post) and in none once it is spent. The digest lemmas (`CloseRunDigest`,
  `ReviewerDigest`, `SubmitterDigest`, `OutsideDigest`) reduce each of the
  actions to what it does to approvals: nothing, decide, apply, claim, or spend.
- `ImplementsContract`: `Spec => KeepsContract`. Initial states map to
  `ContractInit`; a decision maps to `Decide`, an accepted post to `Book` (its
  grant unspent by `HoldersOK`, its content approved by `ApprovedInHand`), every
  other step to a stutter.
- One digest lemma for the submitters (`HandDigest`: a step puts its proposal aside,
  takes one up, or goes on with it) and one for everybody else (`OthersDigest`).
- `ShadowHolds`: `[]ShadowHoldsEverything`. `GateInv` adds that whoever is past the gate
  is so with the flag and without shadow mode (`Gated`), which is fixed while the
  process lives.
- `TruthIsTold`: `[]RowsTellTheTruth`. `TruthInv` adds what will be written
  before it is (`Honest`): a key somebody has read is that of a voucher, a submitter
  about to record has posted, and one about to mark has a body that is the
  proposal's own. Vouchers, decisions and keys are never taken away, so a reviewer
  or a run that writes the row in between does no harm.
- `NeverBookedAgain`: `Spec => NeverAgain`. That bytes are booked twice the code does not
  rule out (a lost answer, two submissions at once), so the theorem says from when on it does: once the
  key is recorded and every submission at work has read it, no step creates a
  voucher with the bytes, and this stays so. `AllNewInHand` says that what a submitter
  has in hand past the gate is not among the keys it read; a submission that begins
  later reads the key, and keys are never taken away.

**`CloseRun_proofs`**

- `TypeCorrect`: `[]TypeOK`.
- `CompletionIsEarned`, `RunRowTellsSteps`: `[]CompletionEarned`,
  `[]RunTellsSteps`. `GateInv` adds `VisitedOK` (the steps before the one being
  visited have been moved off `pending`, `running`) and `VerdictOK` (the run row is
  `running` while a call is under way, and the verdict about to be written still
  holds: decisions never open a finding).
- `ReviewedBeforeDone`: `Spec => ReviewedFirst`, from `ReviewInv`: an outcome
  `completed` that human review is about to record was read from findings, and
  stays true until it is recorded.

**`Connection_proofs`**

- `TypeCorrect`: `[]TypeOK`, which holds by itself.
- `OneRefreshPerProcess`: `[]SingleFlight`. `FlightInv` ties the map to the calls in
  both directions: whoever refreshes is the one its process's map names, the one
  the map names refreshes and is of that process, and whoever waits has one to wait
  for. `Settled` is the step that needs all of it: it clears the map and resumes
  everyone who waits, in one turn of the event loop.
- `CodesSpentOnce`: `[]ConsentSpentOnce`. `ConsentInv` says that a request that is not
  consumed is in nobody's hands and its code unspent, that a consumed one is in one
  pair of hands at most, and that those hands drop it when they spend it.
- `TokensAreUsable`: `[]TokenUsable`, and from the same invariant `RotationsAdvance`:
  `Spec => RotationAdvances`. `TokenInv` says of each call that what it knows is
  `Sound`: a pair in hand is fresh; what it read is still stored or what is stored is
  fresh; and unless a consent came in between, a row with the count it read is the
  row it read. Tokens run out in order and only while nobody calls, which is what
  makes freshness survive the calls of the other processes.
- `OnlyConsents`: `Spec => OnlyConsentConnects`, from `TypeOK`: `Rotate` is an update
  that matches a row or does nothing.

**`FortnoxHttp_proofs`**

- `CreatesGoOutOnce`, `ReadersReadTheSame`, `FailuresAreForgotten`:
  `[]CreateSentOnce`, `[]ReadersAgree`, `Spec => FailureNotCached`. One invariant,
  `HttpInv`, carries the three: who is in the queue waits there, once (`QueueOK`);
  a create comes to the wire with nothing sent and is in no back-off (`CreateOK`);
  the list that loads is the one the cache holds, its pages so far are full and the
  first of the list, and whoever joined it waits for it (`LoadOK`, `SoFar`). None of
  it depends on when the limiter lets a call through.
- `WindowIsKept`: `[]WindowKept`, however long tokens take. `WindowInv` says for every age
  below the window's that the slots that young, of calls which have not sent and of
  requests on the wire, are no more than the stamps that young (`Covered`): the
  limiter drops a stamp only when it is as old as the window. A request older in
  slot than the window is a late one, and a call has one of them at most: its next
  slot is younger than its last request (`InTurn`). `Shifted` proves what the loop at
  the head of `#waitForSlot` leaves.

**`Grant_proofs`**

- `TypeCorrect`: `[]TypeOK`. Two digests (`ConnectionsDigest`, `SwitchDigest`) reduce
  the actions that touch the grant to what they do to the row and the tokens.
- `ShadowReadsBesideNoWrites`: `[]ShadowNeverBesideWrites`. Readiness reads the row
  before it reads the ledger. `ShadowInv` adds that a request for the switch which
  has passed its check turns it on only in a process that is not in shadow mode;
  what the environment is does not change while a process lives.
- `RunRowTellsSource`: `[]RunTellsSource`. `SourceInv` relates what the execution
  under way resolved to what its row says and what it has read so far.
- `SwitchIsForTheGrant`: `[]SwitchedForThisGrant`. `SwitchInv`: a switch
  that is on was turned on for the consent of its row, and a submission that read it
  holds a grant it was turned on for, unless its reads fell on both sides of a
  stored token or tokens were stored since.

**`Import_proofs`**

- `OneLedgerForARun`: `[]LedgerAgrees`. `LedgerInv` says that an import loads the
  sub-ledger once and before it asks for a detail (`LoadedOnce`), and that what it
  has read, vouchers and invoices, was read with that one (`ReadWithIt`). It needs
  `InvoicesAssumption`: an invoice has the number Fortnox gave it and a supplier
  (`wire.ts:275-276`).
- `LockedHistoryIsTheBooks`, `NothingIsLeftOut`: `[]HistoryIsWhole`, `[]ImportIsWhole`. One
  invariant, `ReadInv`, carries both. Of the world: an id is one voucher, and a locked
  period does not change (`BooksInv`); copies not in doubt are of a locked period, say
  nothing the books do not, and are all of it unless somebody is storing it
  (`CopiesInv`). Of each import: what it has, what it waits for and what was there when
  it began add up (`LosesNothing`, `ReadsWhole`); the periods behind it are as in the books
  (`Remembers`); and what it stores completes the copies (`Completes`). Two imports that
  store one period at once are why `CopiesInv` speaks of all workers: the first to end
  must leave copies that the other's chunks do not make less than whole.

**`Firm_proofs`**

- `TypeCorrect`: `[]ShapeInv`, `TypeOK` with what each kind of request has at hand at
  each of its statements (`Fit`).
- `RunsHaveOneExecutor`, `BegunRunsAreWhole`: `[]OneExecutor`, `[]RunsAreWhole`. One
  invariant, `WorkInv`, carries both: a request between `CreateRun` and `EndExecution`
  holds a run whose client and period are its own and whose rows have come as far
  as it has (`Held`), and nobody else holds it, as an id that is taken is refused
  and a run once there is never absent again.
- `OneResultForEach`: `[]OneResultPerClient`. `ResultInv` says of each loop that what is
  still to come is part of the list, that the client whose turn it is comes before
  all of it (`Listed`), and that results point to runs which are there (`Ran`). Every
  step of any request leaves runs `Grown`: none is taken away, begun again once it
  has ended, or given other runs before it.

**`PeriodReview_proofs`**

The first sections are about operators: what each rule emits (one lemma per rule, each
a draft with a key of its period and class and about the voucher it found), the
generator's corrections, the median, and the table `consolidateFindings` makes. Sums,
`FlattenSeq` and the recursion over drafts are recursive functions; what they compute
is proved from a smallest counterexample, and that they exist in the same way.

- `ReviewInvariant`: `[]ReviewInv`, which the theorems below follow from. Its parts:
  vouchers stay where they are (`BooksAreVouchers`) and runs look at some of them
  (`RunsAreRuns`), without which a run's findings would not be about anything lasting;
  each offer is as the generator made it (`OffersAreEarned`); a reviewed run holds an
  observation for whatever is wrong (`AllIsFound`).
- `WorstOfAnIssueIsKept`: `[]MergeKeepsTheWorst`. `Stands` says what an item is of the
  drafts merged into it; each draft extends it, in whatever order they come.
- `WhatIsWrongBlocks`: `[]WrongBlocks`. The observation is in `raw` by `AllIsFound`, the
  rule of its class having seen the voucher; merged with others, its issue still has
  its class and voucher, which are in the key, and blocks if any of them does.
- `DoubleInvoicesAreFlagged`: `[]NoInvoiceTwiceUnseen`. The two vouchers may be of two
  runs, of which either goes first, or of one, and a voucher may be entered between
  them. `KeysAreRecorded`: what a run has reviewed or filed has its key on record.
  `KeysArePointedOut`: a run points out what it read the key of, and one of two of its
  own. `ReadWhatWasFiled`, `OneReadTheOther`: of two runs that did not overlap, the one
  that listed the keys later read those of the other, whether that has filed or not.
  `OneIsFlagged` follows when the second of them files.
- `AutomaticIsEarned`: `[]AutomaticEarned`. `decide` gives `automatic` only with every
  gate open and below both thresholds; an accrual has a gate shut, and a
  reclassification puts what it takes from an account back on the same.

Only model-checked: liveness (`EveryCallEnds` of `Connection` and `FortnoxHttp`,
`EveryRequestEnds`), which needs fairness and `ENABLED` and is
out of the prover's reach; and what `Wire` does with texts and amounts (`NeverAGuess`,
`AmountsAgree`, `BalanceSurvives`), which TLC evaluates for all small inputs. The library's
induction theorems take an operator as a parameter, which the provers cannot instantiate;
well-foundedness of the naturals, which they can cite, does instead. The refuted
properties are counterexamples.

## 6. What is not modelled, and why

- *SIE files and the content of demo data*: a format nothing but an import of files
  reads, and a fixture in memory. Demo data is a source in `Grant` and `Import`.
- *Wire mapping of what no rule reads*: accounts, registers, customer invoices,
  payments and company information are renamings of fields. `Wire` has vouchers,
  supplier invoices, amounts and the supplier a text names.
- *Encryption of credentials and redaction of audit events*: functions on texts.
  A stored token is the number of its pair here, an audit append is a statement
  that may fail.
- *The model provider*: its text decides nothing; that the call may fail is a
  fault of `CloseRun`.
- *Tenancy*: a condition of every query. The models are about one tenant, and but for
  `Firm` about one client.
- *The patch of a policy, drafts to customers, the read-only routes*: one statement,
  texts, and reads. A policy is a constant of `Decision`.
- *The web console, migrations, test fixtures*: pages over the API and rows without
  behaviour. Tables and unique keys appear where a property needs them.
- Of the modelled parts: the state-machine helpers nothing calls
  (`nextRunnableSteps`, `canTransitionRun`); the authorization URL and the wording of
  errors; imported kinds no rule reads.

## 7. What comes next

1. Overlapping executions of one run in `CloseRun`.
2. `AmountsAgree` and `BalanceSurvives` of `Wire` for all amounts, not only small ones.
3. The patch of a policy beside a run that reads it.
