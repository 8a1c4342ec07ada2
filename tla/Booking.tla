------------------------------ MODULE Booking ------------------------------
(***************************************************************************)
(* The life of a booking proposal, from the consolidation step that        *)
(* creates it to the voucher that may come out of it.                      *)
(*                                                                         *)
(* Four kinds of processes share the proposal, decision and                *)
(* processed-source tables of one client:                                  *)
(*   - a close run, which creates proposals and may approve them by policy *)
(*     (packages/workflow/src/steps/consolidate.ts);                       *)
(*   - a reviewer, one call of recordReviewDecision                        *)
(*     (packages/workflow/src/review.ts);                                  *)
(*   - a submitter, one call of submitApprovedProposals                    *)
(*     (packages/workflow/src/submit.ts);                                  *)
(*   - the outside: the client's write switch, the OAuth grant and the     *)
(*     period lock in Fortnox.                                             *)
(* No call runs in a transaction, so an awaited statement is an action of  *)
(* its own and the values a call read before it are its own snapshot; only *)
(* updates of one finding and its review item, which nobody reads apart,   *)
(* are taken together.                                                     *)
(***************************************************************************)
EXTENDS Naturals, Sequences, FiniteSets

CONSTANTS
  Runs,         \* close runs of one client and period
  Proposals,    \* booking proposals, one per finding of a run
  RunOf,        \* the run each proposal belongs to
  Payloads,     \* voucher request bodies
  Generated,    \* simulatedFortnoxPayload of each proposal
  Edits,        \* bodies a consultant may send along with a decision
  WellFormed,   \* bodies with at least one voucher row (isVoucherPayload)
  Balanced,     \* bodies whose debit equals their credit (payloadBalances)
  DateOf,       \* transaction date of each body, from 1
  HashOf,       \* hashPayload
  Automatic,    \* proposals of decision level automatic
  Consulted,    \* proposals whose finding requires a consultant
  AutoBook,     \* the client's policy: autoBookEnabled
  Submitters,   \* concurrent calls of submitApprovedProposals
  Reviewers,    \* concurrent calls of recordReviewDecision
  ShadowModes,  \* what SHADOW_MODE may be set to
  WritesFlag,   \* FORTNOX_WRITES_ENABLED
  EngineWired,  \* the runtime hands WritesFlag to the engine
  Faults,       \* subset of FaultKinds that may happen
  Outside,      \* subset of OutsideKinds that may happen
  MaxDecisions, \* bound: decisions recorded per finding
  NoPayload,    \* null
  NoHash,       \* null
  NoProposal    \* no proposal in hand

FaultKinds == {"lost_response", "db", "lock_read", "crash"}
OutsideKinds == {"switch", "grant", "lock"}
Hashes == {HashOf[b] : b \in Payloads}
RunProposals(r) == {p \in Proposals : RunOf[p] = r}

ASSUME RowsAssumption ==
  /\ RunOf \in [Proposals -> Runs]
  /\ Generated \in [Proposals -> Payloads]
  /\ Edits \subseteq Payloads
  /\ WellFormed \subseteq Payloads
  /\ Balanced \subseteq Payloads
  /\ DateOf \in [Payloads -> Nat \ {0}]
  /\ HashOf \in [Payloads -> Hashes]
  /\ \A p \in Proposals : Generated[p] \in WellFormed \cap Balanced
  /\ Automatic \subseteq Proposals
  /\ Consulted \subseteq Proposals
  /\ NoPayload \notin Payloads
  /\ NoHash \notin Hashes
  /\ NoProposal \notin Proposals

ASSUME SettingsAssumption ==
  /\ AutoBook \in BOOLEAN
  /\ ShadowModes \subseteq BOOLEAN
  /\ WritesFlag \in BOOLEAN
  /\ EngineWired \in BOOLEAN
  /\ Faults \subseteq FaultKinds
  /\ Outside \subseteq OutsideKinds
  /\ MaxDecisions \in Nat

VARIABLES
  status,     \* status column of each proposal; "absent" before its insert
  token,      \* history: the decision that last wrote approved_shadow
  decisions,  \* approval decisions of each proposal's finding, oldest first
  finding,    \* finding status and review item of each proposal's finding
  processed,  \* booked: keys of processed_source_records
  conn,       \* the client's Fortnox connection row
  shadowMode, \* SHADOW_MODE, fixed while the system runs
  lock,       \* lockedThrough in Fortnox, 0 when nothing is locked
  posted,     \* vouchers created in Fortnox, oldest first
  run,        \* each close run's progress through steps 7 and 10
  rev,        \* each reviewer's call
  sub         \* each submitter's call

rows == <<status, token, decisions, finding, processed>>
world == <<conn, shadowMode, lock, posted>>
vars == <<rows, world, run, rev, sub>>

-----------------------------------------------------------------------------
(* Rows and locals *)

Status == {"absent", "simulated", "approved_shadow", "rejected", "submitting",
           "submitted", "submission_failed", "already_booked"}
Kinds == {"approve", "reject", "edit_proposal", "request_information"}
Approving == {"approve", "edit_proposal"}
Decision == [kind: Kinds, edited: Payloads \cup {NoPayload},
             hash: Hashes \cup {NoHash}]
FindingStatus == {"absent", "open", "approved", "rejected",
                  "information_requested"}
ItemStatus == {"none", "queued", "in_review", "decided"}
FindingRow == [status: FindingStatus, item: ItemStatus]
Voucher == [proposal: Proposals, body: Payloads, token: Nat]
RunRow == [pc: {"pending", "reviewed", "proposing", "checking", "deciding",
                "approving", "consolidated"},
           seen: SUBSET Hashes, cur: Proposals \cup {NoProposal}, token: Nat]
ReviewCall == [pc: {"idle", "read", "decided", "applied"},
               cur: Proposals \cup {NoProposal}, kind: Kinds,
               edited: Payloads \cup {NoPayload}, stale: Status, token: Nat]
InHand == {"mark", "claim", "post", "record", "key", "failed"}
SubmitPc == InHand \cup {"idle", "resolved", "listed", "switch", "lock", "loop"}
SubmitCall == [pc: SubmitPc,
               run: Runs \cup {NoProposal}, only: SUBSET Proposals,
               todo: SUBSET Proposals, cur: Proposals \cup {NoProposal},
               real: BOOLEAN, adapter: BOOLEAN, switch: BOOLEAN,
               lock: Nat, stood: Nat, \* stood: history, see ReadLock
               booked: SUBSET Hashes,
               body: Payloads \cup {NoPayload}, token: Nat]

IdleReview == [pc |-> "idle", cur |-> NoProposal, kind |-> "approve",
               edited |-> NoPayload, stale |-> "absent", token |-> 0]
IdleSubmit == [pc |-> "idle", run |-> NoProposal, only |-> {}, todo |-> {},
               cur |-> NoProposal, real |-> FALSE, adapter |-> FALSE,
               switch |-> FALSE, lock |-> 0, stood |-> 0, booked |-> {},
               body |-> NoPayload, token |-> 0]

RowsTypeOK ==
  /\ status \in [Proposals -> Status]
  /\ token \in [Proposals -> Nat]
  /\ decisions \in [Proposals -> Seq(Decision)]
  /\ finding \in [Proposals -> FindingRow]
  /\ processed \subseteq Hashes

WorldTypeOK ==
  /\ conn \in [connected: BOOLEAN, writes: BOOLEAN]
  /\ shadowMode \in BOOLEAN
  /\ lock \in Nat
  /\ posted \in Seq(Voucher)

\* Every row, local and remote record has its shape.
TypeOK ==
  /\ RowsTypeOK
  /\ WorldTypeOK
  /\ run \in [Runs -> RunRow]
  /\ rev \in [Reviewers -> ReviewCall]
  /\ sub \in [Submitters -> SubmitCall]

Init ==
  /\ status = [p \in Proposals |-> "absent"]
  /\ token = [p \in Proposals |-> 0]
  /\ decisions = [p \in Proposals |-> <<>>]
  /\ finding = [p \in Proposals |-> [status |-> "absent", item |-> "none"]]
  /\ processed = {}
  /\ conn \in [connected: {TRUE}, writes: BOOLEAN]
  /\ shadowMode \in ShadowModes
  /\ lock = 0
  /\ posted = <<>>
  /\ run = [r \in Runs |-> [pc |-> "pending", seen |-> {}, cur |-> NoProposal,
                            token |-> 0]]
  /\ rev = [v \in Reviewers |-> IdleReview]
  /\ sub = [s \in Submitters |-> IdleSubmit]

-----------------------------------------------------------------------------
(* A close run: steps 7 and 10 *)

\* Step 7 reads the client's processed keys once, for the whole run.
LedgerReview(r) ==
  /\ run[r].pc = "pending"
  /\ run' = [run EXCEPT ![r] = [@ EXCEPT !.pc = "reviewed", !.seen = processed]]
  /\ UNCHANGED <<rows, world, rev, sub>>

\* Step 10 refreshes the findings and drops the run's earlier proposals.
Consolidate(r) ==
  /\ run[r].pc = "reviewed"
  /\ run' = [run EXCEPT ![r] = [@ EXCEPT !.pc = "proposing"]]
  /\ finding' = [p \in Proposals |->
                   IF RunOf[p] = r /\ finding[p].status = "absent"
                     THEN [finding[p] EXCEPT !.status = "open"]
                     ELSE finding[p]]
  /\ status' = [p \in Proposals |-> IF RunOf[p] = r THEN "absent" ELSE status[p]]
  /\ UNCHANGED <<token, decisions, processed, world, rev, sub>>

\* Inserts one proposal; an automatic one goes on to policy approval.
Propose(r, p) ==
  LET bookedBefore == HashOf[Generated[p]] \in run[r].seen
      byPolicy == AutoBook /\ p \in Automatic /\ ~bookedBefore
  IN  /\ run[r].pc = "proposing"
      /\ RunOf[p] = r
      /\ status[p] = "absent"
      /\ status' = [status EXCEPT ![p] = IF bookedBefore THEN "already_booked"
                                                         ELSE "simulated"]
      /\ run' = IF byPolicy
                  THEN [run EXCEPT ![r] = [@ EXCEPT !.pc = "checking", !.cur = p]]
                  ELSE run
      /\ UNCHANGED <<token, decisions, finding, processed, world, rev, sub>>

\* Policy approval stops at a finding somebody has decided already.
PolicyCheck(r) ==
  LET p == run[r].cur
  IN  /\ run[r].pc = "checking"
      /\ IF decisions[p] = <<>>
           THEN /\ finding' = [finding EXCEPT ![p].item =
                                 IF @ = "none" THEN "decided" ELSE @]
                /\ run' = [run EXCEPT ![r] = [@ EXCEPT !.pc = "deciding"]]
           ELSE /\ run' = [run EXCEPT ![r] = [@ EXCEPT !.pc = "proposing",
                                                       !.cur = NoProposal]]
                /\ UNCHANGED finding
      /\ UNCHANGED <<status, token, decisions, processed, world, rev, sub>>

\* The system's own approval is bound to the hash just simulated.
PolicyDecide(r) ==
  LET p == run[r].cur
      decision == [kind |-> "approve", edited |-> NoPayload,
                   hash |-> HashOf[Generated[p]]]
  IN  /\ run[r].pc = "deciding"
      /\ decisions' = [decisions EXCEPT ![p] = Append(@, decision)]
      /\ run' = [run EXCEPT ![r] = [@ EXCEPT !.pc = "approving",
                                             !.token = Len(decisions[p]) + 1]]
      /\ UNCHANGED <<status, token, finding, processed, world, rev, sub>>

PolicyApprove(r) ==
  LET p == run[r].cur
  IN  /\ run[r].pc = "approving"
      /\ finding' = [finding EXCEPT ![p] = [@ EXCEPT !.status = "approved"]]
      /\ status' = [status EXCEPT ![p] = "approved_shadow"]
      /\ token' = [token EXCEPT ![p] = run[r].token]
      /\ run' = [run EXCEPT ![r] = [@ EXCEPT !.pc = "proposing", !.token = 0,
                                             !.cur = NoProposal]]
      /\ UNCHANGED <<decisions, processed, world, rev, sub>>

\* The review queue is filled last, leaving existing items alone.
QueueReviews(r) ==
  /\ run[r].pc = "proposing"
  /\ \A p \in RunProposals(r) : status[p] # "absent"
  /\ run' = [run EXCEPT ![r] = [@ EXCEPT !.pc = "consolidated"]]
  /\ finding' = [p \in Proposals |->
                   IF RunOf[p] = r /\ p \in Consulted /\ finding[p].item = "none"
                     THEN [finding[p] EXCEPT !.item = "queued"]
                     ELSE finding[p]]
  /\ UNCHANGED <<status, token, decisions, processed, world, rev, sub>>

-----------------------------------------------------------------------------
(* A reviewer: one call of recordReviewDecision *)

\* How many decisions of p are recorded or on their way.
Undertaken(p) ==
  Len(decisions[p])
    + Cardinality({v \in Reviewers : rev[v].pc = "read" /\ rev[v].cur = p})
    + Cardinality({r \in Runs : run[r].pc = "deciding" /\ run[r].cur = p})

ReadProposal(v, p, kind, edited) ==
  /\ rev[v].pc = "idle"
  /\ finding[p].item # "none"
  /\ Undertaken(p) < MaxDecisions
  /\ rev' = [rev EXCEPT ![v] = [pc |-> "read", cur |-> p, kind |-> kind,
                                edited |-> edited, stale |-> status[p],
                                token |-> 0]]
  /\ UNCHANGED <<rows, world, run, sub>>

\* An edit approves the edited bytes, an approval the simulated ones; a body
\* sent along with any other kind is stored and approves nothing.
ApprovedHash(p, kind, edited, stale) ==
  IF kind = "edit_proposal" /\ edited # NoPayload THEN HashOf[edited]
  ELSE IF kind = "approve" /\ stale # "absent" THEN HashOf[Generated[p]]
  ELSE NoHash

InsertDecision(v) ==
  LET p == rev[v].cur
      decision == [kind |-> rev[v].kind, edited |-> rev[v].edited,
                   hash |-> ApprovedHash(p, rev[v].kind, rev[v].edited,
                                         rev[v].stale)]
  IN  /\ rev[v].pc = "read"
      /\ decisions' = [decisions EXCEPT ![p] = Append(@, decision)]
      /\ rev' = [rev EXCEPT ![v] = [@ EXCEPT !.pc = "decided",
                                             !.token = Len(decisions[p]) + 1]]
      /\ UNCHANGED <<status, token, finding, processed, world, run, sub>>

\* The status read before the insert decides, and the update is unconditional.
ApplyStatus(v) ==
  LET p == rev[v].cur
      kind == rev[v].kind
      applies == /\ rev[v].stale \notin {"absent", "submitted"}
                 /\ kind # "request_information"
  IN  /\ rev[v].pc = "decided"
      /\ status' = IF applies
                     THEN [status EXCEPT ![p] = IF kind \in Approving
                                                  THEN "approved_shadow"
                                                  ELSE "rejected"]
                     ELSE status
      /\ token' = IF applies /\ kind \in Approving
                    THEN [token EXCEPT ![p] = rev[v].token]
                    ELSE token
      /\ rev' = [rev EXCEPT ![v].pc = "applied"]
      /\ UNCHANGED <<decisions, finding, processed, world, run, sub>>

FindingStatusByKind == [approve |-> "approved", reject |-> "rejected",
                        edit_proposal |-> "approved",
                        request_information |-> "information_requested"]
\* Mutated form: the finding's status where the item's belongs.
ReviewStatusAsFinding == [kind \in Kinds |-> FindingStatusByKind[kind]]

ReviewStatusByKind == [approve |-> "decided", reject |-> "decided",
                       edit_proposal |-> "decided",
                       request_information |-> "in_review"]

CloseFinding(v) ==
  LET p == rev[v].cur
      kind == rev[v].kind
  IN  /\ rev[v].pc = "applied"
      /\ finding' = [finding EXCEPT ![p] = [status |-> FindingStatusByKind[kind],
                                            item |-> ReviewStatusByKind[kind]]]
      /\ rev' = [rev EXCEPT ![v] = IdleReview]
      /\ UNCHANGED <<status, token, decisions, processed, world, run, sub>>

\* The call ends early: the process dies or a statement is refused.
AbortReview(v) ==
  /\ {"crash", "db"} \cap Faults # {}
  /\ rev[v].pc # "idle"
  /\ rev' = [rev EXCEPT ![v] = IdleReview]
  /\ UNCHANGED <<rows, world, run, sub>>

-----------------------------------------------------------------------------
(* A submitter: one call of submitApprovedProposals *)

\* The adapter is built for the call, with the client's switch of that moment.
Resolve(s, r, only) ==
  /\ sub[s].pc = "idle"
  /\ sub' = [sub EXCEPT ![s] =
               [IdleSubmit EXCEPT !.pc = "resolved", !.run = r, !.only = only,
                                  !.real = conn.connected,
                                  !.adapter = /\ conn.connected
                                              /\ conn.writes
                                              /\ WritesFlag
                                              /\ ~shadowMode]]
  /\ UNCHANGED <<rows, world, run, rev>>

ListCandidates(s) ==
  LET candidates == {p \in RunProposals(sub[s].run) \cap sub[s].only :
                       status[p] = "approved_shadow"}
  IN  /\ sub[s].pc = "resolved"
      /\ sub' = [sub EXCEPT ![s] =
                   IF candidates = {} THEN IdleSubmit
                   ELSE [@ EXCEPT !.pc = "listed", !.todo = candidates]]
      /\ UNCHANGED <<rows, world, run, rev>>

\* Reads the connection row again, once for the whole batch.
ReadSwitch(s) ==
  /\ sub[s].pc = "listed"
  /\ sub' = [sub EXCEPT ![s] = [@ EXCEPT !.pc = "switch",
                                         !.switch = sub[s].real /\ conn.writes]]
  /\ UNCHANGED <<rows, world, run, rev>>

\* A lock that cannot be read counts as no lock. The lock that stood in Fortnox
\* at that moment is kept beside what the batch made of it.
ReadLock(s) ==
  /\ sub[s].pc = "switch"
  /\ \E read \in {lock} \cup (IF "lock_read" \in Faults THEN {0} ELSE {}) :
       sub' = [sub EXCEPT ![s] = [@ EXCEPT !.pc = "lock", !.lock = read,
                                           !.stood = lock]]
  /\ UNCHANGED <<rows, world, run, rev>>

ReadBooked(s) ==
  /\ sub[s].pc = "lock"
  /\ sub' = [sub EXCEPT ![s] = [@ EXCEPT !.pc = "loop", !.booked = processed]]
  /\ UNCHANGED <<rows, world, run, rev>>

\* latestApproval: the last approving decision with a hash, as a set of at most one.
LatestApproval(p) ==
  LET approvals == {d \in DOMAIN decisions[p] :
                      /\ decisions[p][d].kind \in Approving
                      /\ decisions[p][d].hash # NoHash}
  IN  {decisions[p][d] : d \in {e \in approvals : \A f \in approvals : f <= e}}

\* payloadFor: the edited body when it has rows, else the simulated one.
PayloadFor(p) ==
  LET edited == {d.edited : d \in LatestApproval(p)} \cap WellFormed
  IN  IF edited = {} THEN Generated[p] ELSE CHOOSE b \in edited : TRUE

\* Mutated forms of the gate: without the hash, without shadow mode.
GateWithoutHash(s, p, body) ==
  /\ EngineWired /\ WritesFlag /\ ~shadowMode
  /\ LatestApproval(p) # {}
  /\ DateOf[Generated[p]] > sub[s].lock
  /\ body \in Balanced /\ sub[s].switch /\ sub[s].real

GateWithoutShadow(s, p, body) ==
  /\ EngineWired /\ WritesFlag
  /\ \E d \in LatestApproval(p) : d.hash = HashOf[body]
  /\ DateOf[Generated[p]] > sub[s].lock
  /\ body \in Balanced /\ sub[s].switch /\ sub[s].real

\* evaluateWriteGate on the context the batch builds, and canWrite.
GateAllows(s, p, body) ==
  /\ EngineWired /\ WritesFlag
  /\ ~shadowMode
  /\ \E d \in LatestApproval(p) : d.hash = HashOf[body]
  /\ DateOf[Generated[p]] > sub[s].lock
  /\ body \in Balanced
  /\ sub[s].switch
  /\ sub[s].real

\* Mutated form: nobody asks whether the bytes are booked.
ConsiderAnew(s, p) ==
  LET body == PayloadFor(p)
      next == IF GateAllows(s, p, body) THEN "claim" ELSE "loop"
  IN  /\ sub[s].pc = "loop"
      /\ p \in sub[s].todo
      /\ sub' = [sub EXCEPT ![s] =
                   [@ EXCEPT !.pc = next, !.todo = sub[s].todo \ {p},
                             !.cur = IF next = "loop" THEN NoProposal ELSE p,
                             !.body = IF next = "loop" THEN NoPayload ELSE body]]
      /\ UNCHANGED <<rows, world, run, rev>>

\* The next proposal of the batch: already booked, blocked, or to be claimed.
Consider(s, p) ==
  LET body == PayloadFor(p)
      next == IF HashOf[body] \in sub[s].booked THEN "mark"
              ELSE IF GateAllows(s, p, body) THEN "claim" ELSE "loop"
  IN  /\ sub[s].pc = "loop"
      /\ p \in sub[s].todo
      /\ sub' = [sub EXCEPT ![s] =
                   [@ EXCEPT !.pc = next, !.todo = sub[s].todo \ {p},
                             !.cur = IF next = "loop" THEN NoProposal ELSE p,
                             !.body = IF next = "loop" THEN NoPayload ELSE body]]
      /\ UNCHANGED <<rows, world, run, rev>>

\* The local state of s when it turns to the rest of its batch.
Continue(s) == [sub[s] EXCEPT !.pc = "loop", !.cur = NoProposal,
                              !.body = NoPayload, !.token = 0]

MarkAlreadyBooked(s) ==
  /\ sub[s].pc = "mark"
  /\ status' = [status EXCEPT ![sub[s].cur] = "already_booked"]
  /\ sub' = [sub EXCEPT ![s] = Continue(s)]
  /\ UNCHANGED <<token, decisions, finding, processed, world, run, rev>>

\* Mutated forms of the claim: from any status, from a failed one as well, and
\* taking a lost race for a booking.
ClaimUnchecked(s) ==
  /\ sub[s].pc = "claim"
  /\ status' = [status EXCEPT ![sub[s].cur] = "submitting"]
  /\ sub' = [sub EXCEPT ![s] = [@ EXCEPT !.pc = "post", !.token = token[sub[s].cur]]]
  /\ UNCHANGED <<token, decisions, finding, processed, world, run, rev>>

ClaimRetrying(s) ==
  LET p == sub[s].cur
  IN  /\ sub[s].pc = "claim"
      /\ IF status[p] \in {"approved_shadow", "submission_failed"}
           THEN /\ status' = [status EXCEPT ![p] = "submitting"]
                /\ sub' = [sub EXCEPT ![s] = [@ EXCEPT !.pc = "post",
                                                       !.token = token[p]]]
           ELSE /\ sub' = [sub EXCEPT ![s] = Continue(s)]
                /\ UNCHANGED status
      /\ UNCHANGED <<token, decisions, finding, processed, world, run, rev>>

ClaimLostIsBooked(s) ==
  LET p == sub[s].cur
  IN  /\ sub[s].pc = "claim"
      /\ IF status[p] = "approved_shadow"
           THEN /\ status' = [status EXCEPT ![p] = "submitting"]
                /\ sub' = [sub EXCEPT ![s] = [@ EXCEPT !.pc = "post",
                                                       !.token = token[p]]]
           ELSE /\ sub' = [sub EXCEPT ![s] = Continue(s)]
                /\ status' = [status EXCEPT ![p] = "already_booked"]
      /\ UNCHANGED <<token, decisions, finding, processed, world, run, rev>>

\* claimProposalForSubmission: a compare-and-set from approved_shadow.
Claim(s) ==
  LET p == sub[s].cur
  IN  /\ sub[s].pc = "claim"
      /\ IF status[p] = "approved_shadow"
           THEN /\ status' = [status EXCEPT ![p] = "submitting"]
                /\ sub' = [sub EXCEPT ![s] = [@ EXCEPT !.pc = "post",
                                                       !.token = token[p]]]
           ELSE /\ sub' = [sub EXCEPT ![s] = Continue(s)]
                /\ UNCHANGED status
      /\ UNCHANGED <<token, decisions, finding, processed, world, run, rev>>

VoucherOf(s) ==
  [proposal |-> sub[s].cur, body |-> sub[s].body, token |-> sub[s].token]

\* createVoucher succeeds, or its answer is lost after Fortnox booked it.
PostAccepted(s) ==
  /\ sub[s].pc = "post"
  /\ sub[s].adapter
  /\ posted' = Append(posted, VoucherOf(s))
  /\ \/ sub' = [sub EXCEPT ![s].pc = "record"]
     \/ /\ "lost_response" \in Faults
        /\ sub' = [sub EXCEPT ![s].pc = "failed"]
  /\ UNCHANGED <<rows, conn, shadowMode, lock, run, rev>>

\* createVoucher throws: the adapter's own guard, or Fortnox refuses.
PostRefused(s) ==
  /\ sub[s].pc = "post"
  /\ sub' = [sub EXCEPT ![s].pc = "failed"]
  /\ UNCHANGED <<rows, world, run, rev>>

RecordSubmitted(s) ==
  /\ sub[s].pc = "record"
  /\ status' = [status EXCEPT ![sub[s].cur] = "submitted"]
  /\ sub' = [sub EXCEPT ![s].pc = "key"]
  /\ UNCHANGED <<token, decisions, finding, processed, world, run, rev>>

\* The audit event after the key is inside the same try block.
RecordKey(s) ==
  /\ sub[s].pc = "key"
  /\ processed' = processed \cup {HashOf[sub[s].body]}
  /\ \/ sub' = [sub EXCEPT ![s] = Continue(s)]
     \/ /\ "db" \in Faults
        /\ sub' = [sub EXCEPT ![s].pc = "failed"]
  /\ UNCHANGED <<status, token, decisions, finding, world, run, rev>>

\* A statement after the post is refused: the catch block takes over.
RecordingFails(s) ==
  /\ "db" \in Faults
  /\ sub[s].pc \in {"record", "key"}
  /\ sub' = [sub EXCEPT ![s].pc = "failed"]
  /\ UNCHANGED <<rows, world, run, rev>>

\* Mutated form: the key is recorded whatever came of the post.
RecordFailureAndKey(s) ==
  /\ sub[s].pc = "failed"
  /\ status' = [status EXCEPT ![sub[s].cur] = "submission_failed"]
  /\ processed' = processed \cup {HashOf[sub[s].body]}
  /\ sub' = [sub EXCEPT ![s] = Continue(s)]
  /\ UNCHANGED <<token, decisions, finding, world, run, rev>>

RecordFailure(s) ==
  /\ sub[s].pc = "failed"
  /\ status' = [status EXCEPT ![sub[s].cur] = "submission_failed"]
  /\ sub' = [sub EXCEPT ![s] = Continue(s)]
  /\ UNCHANGED <<token, decisions, finding, processed, world, run, rev>>

FinishBatch(s) ==
  /\ sub[s].pc = "loop"
  /\ sub[s].todo = {}
  /\ sub' = [sub EXCEPT ![s] = IdleSubmit]
  /\ UNCHANGED <<rows, world, run, rev>>

\* The call ends early: the process dies, or a statement outside the try block
\* is refused. A claimed proposal keeps its status.
AbortBatch(s) ==
  /\ \/ "crash" \in Faults
     \/ "db" \in Faults /\ sub[s].pc \notin {"post", "record", "key"}
  /\ sub[s].pc # "idle"
  /\ sub' = [sub EXCEPT ![s] = IdleSubmit]
  /\ UNCHANGED <<rows, world, run, rev>>

-----------------------------------------------------------------------------
(* The outside *)

\* The client's own write switch; it cannot be turned on in shadow mode.
SetWrites(b) ==
  /\ "switch" \in Outside
  /\ b => ~shadowMode
  /\ conn' = [conn EXCEPT !.writes = b]
  /\ UNCHANGED <<rows, shadowMode, lock, posted, run, rev, sub>>

\* A disconnect keeps the switch; a new consent turns it off.
Disconnect ==
  /\ "grant" \in Outside
  /\ conn' = [conn EXCEPT !.connected = FALSE]
  /\ UNCHANGED <<rows, shadowMode, lock, posted, run, rev, sub>>

Reconnect ==
  /\ "grant" \in Outside
  /\ conn' = [connected |-> TRUE, writes |-> FALSE]
  /\ UNCHANGED <<rows, shadowMode, lock, posted, run, rev, sub>>

\* Somebody moves the lock in Fortnox.
LockBooks(n) ==
  /\ "lock" \in Outside
  /\ lock' = n
  /\ UNCHANGED <<rows, conn, shadowMode, posted, run, rev, sub>>

-----------------------------------------------------------------------------
(* The specification *)

CloseRunStep(r) ==
  \/ LedgerReview(r)
  \/ Consolidate(r)
  \/ \E p \in Proposals : Propose(r, p)
  \/ PolicyCheck(r)
  \/ PolicyDecide(r)
  \/ PolicyApprove(r)
  \/ QueueReviews(r)

ReviewerStep(v) ==
  \/ \E p \in Proposals, kind \in Kinds, edited \in Edits \cup {NoPayload} :
       ReadProposal(v, p, kind, edited)
  \/ InsertDecision(v)
  \/ ApplyStatus(v)
  \/ CloseFinding(v)
  \/ AbortReview(v)

\* What a submitter does once called, as long as nothing cuts it short.
BatchStep(s) ==
  \/ ListCandidates(s)
  \/ ReadSwitch(s)
  \/ ReadLock(s)
  \/ ReadBooked(s)
  \/ \E p \in Proposals : Consider(s, p)
  \/ MarkAlreadyBooked(s)
  \/ Claim(s)
  \/ PostAccepted(s)
  \/ PostRefused(s)
  \/ RecordSubmitted(s)
  \/ RecordKey(s)
  \/ RecordingFails(s)
  \/ RecordFailure(s)
  \/ FinishBatch(s)

\* Step 13 and the submit endpoint take a whole run, a decision one proposal.
Selections(r) == {RunProposals(r)} \cup {{p} : p \in RunProposals(r)}

SubmitterStep(s) ==
  \/ \E r \in Runs : \E only \in Selections(r) : Resolve(s, r, only)
  \/ BatchStep(s)
  \/ AbortBatch(s)

OutsideStep ==
  \/ \E b \in BOOLEAN : SetWrites(b)
  \/ Disconnect
  \/ Reconnect
  \/ \E b \in Payloads : LockBooks(DateOf[b])

Next ==
  \/ \E r \in Runs : CloseRunStep(r)
  \/ \E v \in Reviewers : ReviewerStep(v)
  \/ \E s \in Submitters : SubmitterStep(s)
  \/ OutsideStep

Spec == Init /\ [][Next]_vars

-----------------------------------------------------------------------------
(* Safety *)

\* Hashes somebody, consultant or policy, approved for p's finding.
ApprovedHashes(p) ==
  {decisions[p][d].hash : d \in {e \in DOMAIN decisions[p] :
                                   decisions[p][e].kind \in Approving}} \ {NoHash}
VouchersOf(p) == {i \in DOMAIN posted : posted[i].proposal = p}
BookedHashes == {HashOf[posted[i].body] : i \in DOMAIN posted}

\* Condition 5 of the write gate, end to end: the bytes of every voucher were
\* approved by a decision on that very proposal, whatever edits, decisions and
\* other submitters came between the approval and the post.
PostedBytesApproved ==
  \A i \in DOMAIN posted :
    HashOf[posted[i].body] \in ApprovedHashes(posted[i].proposal)

\* claimProposalForSubmission: one approval does not produce two vouchers.
\* Every voucher spends an approving decision and none is spent twice.
ApprovalSpentOnce ==
  /\ \A i \in DOMAIN posted :
       /\ posted[i].token \in DOMAIN decisions[posted[i].proposal]
       /\ decisions[posted[i].proposal][posted[i].token].kind \in Approving
  /\ \A i, j \in DOMAIN posted :
       /\ posted[i].proposal = posted[j].proposal
       /\ posted[i].token = posted[j].token
       => i = j

\* Condition 6 of the write gate as the docs state it, "the period is not locked
\* in Fortnox (read fresh at booking)": what gets past the gate is dated after
\* the lock that stood in Fortnox when its batch asked for it.
NothingSentIntoLock ==
  \A s \in Submitters :
    sub[s].pc \in {"claim", "post"} => DateOf[sub[s].body] > sub[s].stood

\* In shadow mode, or with the feature flag off, no proposal gets past its
\* approval: nothing is claimed, nothing fails, and nothing leaves the process.
ShadowHoldsEverything ==
  shadowMode \/ ~WritesFlag =>
    /\ posted = <<>>
    /\ \A p \in Proposals :
         status[p] \notin {"submitting", "submitted", "submission_failed"}

\* Bodies p may be booked with: the simulated one, and what came with a decision.
BodiesFor(p) ==
  {Generated[p]} \cup ({decisions[p][d].edited : d \in DOMAIN decisions[p]} \ {NoPayload})

\* What the rows claim about Fortnox is true: a recorded key and a submitted
\* proposal each have a voucher behind them, an already booked one a voucher with
\* the bytes of its own body.
RowsTellTheTruth ==
  /\ processed \subseteq BookedHashes
  /\ \A p \in Proposals :
       /\ status[p] = "submitted" => VouchersOf(p) # {}
       /\ status[p] = "already_booked" =>
            BookedHashes \cap {HashOf[b] : b \in BodiesFor(p)} # {}

\* What the contract sees of these processes.
Grants == [p \in Proposals |->
             [d \in DOMAIN decisions[p] |->
                IF decisions[p][d].kind \in Approving
                  THEN {decisions[p][d].hash} \ {NoHash} ELSE {}]]
Ledger == [i \in DOMAIN posted |->
             [subject |-> posted[i].proposal, grant |-> posted[i].token,
              content |-> HashOf[posted[i].body]]]

Contract == INSTANCE BookingContract WITH
  Subjects <- Proposals, Contents <- Hashes, granted <- Grants, ledger <- Ledger

\* The promise, as a specification of its own: every step of these processes
\* is one of the contract's, or invisible to it.
KeepsContract == Contract!ContractSpec

\* "These bytes are now booked; a re-run must never book them again": once a key
\* is stored and the submissions that had read the keys before it are over, no
\* voucher with its bytes is created, whoever submits and whatever proposal of
\* whatever run was approved for them, with answers lost and calls cut short.
Settled(h) ==
  /\ h \in processed
  /\ \A s \in Submitters : sub[s].pc \in {"loop"} \cup InHand => h \in sub[s].booked
VouchersWith(h) == {i \in DOMAIN posted : HashOf[posted[i].body] = h}
NeverAgain ==
  [][\A h \in Hashes :
       Settled(h) => Settled(h)' /\ VouchersWith(h)' = VouchersWith(h)]_vars

\* "Two submitters cannot both post it": one voucher for a proposal.
OneVoucherPerProposal ==
  \A i, j \in DOMAIN posted : posted[i].proposal = posted[j].proposal => i = j
=============================================================================
