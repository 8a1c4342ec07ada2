--------------------------- MODULE Booking_proofs ---------------------------
(***************************************************************************)
(* Proofs about Booking, for every number of runs, proposals, reviewers    *)
(* and submitters, every payload and every setting: types, the approval of *)
(* what is posted, the contract; then what shadow mode holds back, what    *)
(* the rows say of Fortnox, and that what is booked is not booked again.   *)
(***************************************************************************)
EXTENDS Booking, SequenceTheorems, TLAPS

-----------------------------------------------------------------------------
(* The local records of the calls *)

\* What the statements of a close run do to its local record.
LEMMA RunRowUpdates ==
  ASSUME NEW c \in RunRow
  PROVE  /\ \A h \in SUBSET Hashes :
              LET e == [c EXCEPT !.pc = "reviewed", !.seen = h]
              IN  e \in RunRow /\ e.pc = "reviewed"
         /\ \A k \in {"proposing", "deciding", "consolidated"} :
              LET e == [c EXCEPT !.pc = k]
              IN  e \in RunRow /\ e.pc = k /\ e.cur = c.cur
         /\ \A p \in Proposals :
              LET e == [c EXCEPT !.pc = "checking", !.cur = p]
              IN  e \in RunRow /\ e.pc = "checking" /\ e.cur = p
         /\ \A n \in Nat :
              LET e == [c EXCEPT !.pc = "approving", !.token = n]
              IN  e \in RunRow /\ e.pc = "approving" /\ e.cur = c.cur
                    /\ e.token = n
         /\ LET e == [c EXCEPT !.pc = "proposing", !.cur = NoProposal]
            IN  e \in RunRow /\ e.pc = "proposing"
         /\ LET e == [c EXCEPT !.pc = "proposing", !.token = 0, !.cur = NoProposal]
            IN  e \in RunRow /\ e.pc = "proposing"
  BY DEF RunRow

\* An idle reviewer call and an idle submit call have the types of their records.
LEMMA IdleCalls ==
  /\ IdleReview \in ReviewCall /\ IdleReview.pc = "idle"
  /\ IdleSubmit \in SubmitCall /\ IdleSubmit.pc = "idle"
  BY DEF IdleReview, IdleSubmit, ReviewCall, SubmitCall, SubmitPc, InHand, Kinds,
         Status

\* What Resolve writes, the run or proposals of the request and the adapter, has its type.
LEMMA ResolveUpdates ==
  ASSUME NEW r \in Runs, NEW only \in SUBSET Proposals, NEW b \in BOOLEAN,
         NEW d \in BOOLEAN
  PROVE  LET e == [IdleSubmit EXCEPT !.pc = "resolved", !.run = r, !.only = only,
                                     !.real = b, !.adapter = d]
         IN  e \in SubmitCall /\ e.pc = "resolved"
  BY DEF IdleSubmit, SubmitCall, SubmitPc, InHand

-----------------------------------------------------------------------------
(* Type correctness *)

\* What the local records refer to.
HandsOK ==
  /\ \A r \in Runs : run[r].pc \in {"checking", "deciding", "approving"} =>
                       run[r].cur \in RunProposals(r)
  /\ \A v \in Reviewers : rev[v].pc # "idle" => rev[v].cur \in Proposals
  /\ \A s \in Submitters : sub[s].pc \in InHand =>
                             sub[s].cur \in Proposals /\ sub[s].body \in Payloads

TypedStep == TypeOK' /\ HandsOK'

\* An action moves one local record and leaves the rest of them alone.
LEMMA RunMoves ==
  ASSUME TypeOK, HandsOK, RowsTypeOK', WorldTypeOK', NEW r \in Runs,
         NEW e \in RunRow,
         e.pc \in {"checking", "deciding", "approving"} => e.cur \in RunProposals(r),
         run' = [run EXCEPT ![r] = e], UNCHANGED <<rev, sub>>
  PROVE  TypedStep
  BY DEF TypedStep, TypeOK, HandsOK

\* A step that only moves one reviewer call, to a typed one, keeps the types.
LEMMA ReviewMoves ==
  ASSUME TypeOK, HandsOK, RowsTypeOK', WorldTypeOK', NEW v \in Reviewers,
         NEW e \in ReviewCall, e.pc # "idle" => e.cur \in Proposals,
         rev' = [rev EXCEPT ![v] = e], UNCHANGED <<run, sub>>
  PROVE  TypedStep
  BY DEF TypedStep, TypeOK, HandsOK

\* A step that only moves one submit call, to a typed one, keeps the types.
LEMMA SubmitMoves ==
  ASSUME TypeOK, HandsOK, RowsTypeOK', WorldTypeOK', NEW s \in Submitters,
         NEW e \in SubmitCall,
         e.pc \in InHand => e.cur \in Proposals /\ e.body \in Payloads,
         sub' = [sub EXCEPT ![s] = e], UNCHANGED <<run, rev>>
  PROVE  TypedStep
  BY DEF TypedStep, TypeOK, HandsOK

\* The types of the rows stand while the rows do.
LEMMA RowsStay == RowsTypeOK /\ UNCHANGED rows => RowsTypeOK'
  BY DEF RowsTypeOK, rows

\* The types of what is outside the database stand while it does.
LEMMA WorldStays == WorldTypeOK /\ UNCHANGED world => WorldTypeOK'
  BY DEF WorldTypeOK, world

\* What the assumption on the constants says of each of them.
LEMMA ConstantsTyped ==
  /\ RunOf \in [Proposals -> Runs]
  /\ \A p \in Proposals : Generated[p] \in Payloads
  /\ \A b \in Payloads : HashOf[b] \in Hashes /\ DateOf[b] \in Nat
  /\ Edits \subseteq Payloads /\ WellFormed \subseteq Payloads
  /\ WritesFlag \in BOOLEAN /\ AutoBook \in BOOLEAN
  BY RowsAssumption, SettingsAssumption

\* The steps of a close run keep the types.
LEMMA CloseRunTyped ==
  ASSUME TypeOK, HandsOK, NEW r \in Runs, CloseRunStep(r)
  PROVE  TypedStep
<1> USE DEF TypeOK
<1>0. run[r] \in RunRow
  OBVIOUS
<1>1. CASE LedgerReview(r)
  <2>1. processed \in SUBSET Hashes
    BY DEF RowsTypeOK
  <2>2. RowsTypeOK' /\ WorldTypeOK'
    BY <1>1, RowsStay, WorldStays DEF LedgerReview
  <2> DEFINE e == [run[r] EXCEPT !.pc = "reviewed", !.seen = processed]
  <2>3. e \in RunRow /\ e.pc = "reviewed"
    BY <1>0, <2>1 DEF RunRow
  <2>4. run' = [run EXCEPT ![r] = e] /\ UNCHANGED <<rev, sub>>
    BY <1>1 DEF LedgerReview
  <2>5. QED
    BY <2>3, <2>4, <2>2, RunMoves
<1>2. CASE Consolidate(r)
  <2>1. RowsTypeOK'
    BY <1>2 DEF Consolidate, RowsTypeOK, Status, FindingRow, FindingStatus, ItemStatus
  <2>2. WorldTypeOK'
    BY <1>2, WorldStays DEF Consolidate
  <2>3. QED
    BY <1>0, <1>2, <2>1, <2>2, RunMoves, RunRowUpdates DEF Consolidate
<1>3. ASSUME NEW p \in Proposals, Propose(r, p) PROVE TypedStep
  <2>1. RowsTypeOK'
    BY <1>3 DEF Propose, RowsTypeOK, Status
  <2>2. WorldTypeOK'
    BY <1>3, WorldStays DEF Propose
  <2>3. CASE run' = run
    BY <1>3, <2>1, <2>2, <2>3 DEF Propose, TypedStep, HandsOK
  <2>4. CASE run' = [run EXCEPT ![r] = [@ EXCEPT !.pc = "checking", !.cur = p]]
    <3>1. p \in RunProposals(r)
      BY <1>3 DEF Propose, RunProposals
    <3> DEFINE e == [run[r] EXCEPT !.pc = "checking", !.cur = p]
    <3>2. e \in RunRow /\ e.cur = p
      BY <1>0, <1>3 DEF RunRow
    <3>3. run' = [run EXCEPT ![r] = e] /\ UNCHANGED <<rev, sub>>
      BY <1>3, <2>4 DEF Propose
    <3>4. QED
      BY <2>1, <2>2, <3>1, <3>2, <3>3, RunMoves
  <2>5. QED
    BY <1>3, <2>3, <2>4 DEF Propose
<1>4. CASE PolicyCheck(r)
  <2>1. RowsTypeOK' /\ WorldTypeOK'
    <3>1. CASE UNCHANGED finding
      BY <1>4, <3>1, RowsStay, WorldStays DEF PolicyCheck, rows
    <3>2. CASE finding' = [finding EXCEPT ![run[r].cur].item =
                             IF @ = "none" THEN "decided" ELSE @]
      <4>1. finding' \in [Proposals -> FindingRow]
        BY <3>2 DEF RowsTypeOK, FindingRow, ItemStatus
      <4>2. QED
        BY <1>4, <4>1, WorldStays DEF PolicyCheck, RowsTypeOK
    <3>3. QED
      BY <1>4, <3>1, <3>2 DEF PolicyCheck
  <2>2. run[r].cur \in RunProposals(r) /\ UNCHANGED <<rev, sub>>
    BY <1>4 DEF PolicyCheck, HandsOK
  <2> DEFINE d == [run[r] EXCEPT !.pc = "deciding"]
             e == [run[r] EXCEPT !.pc = "proposing", !.cur = NoProposal]
  <2>3. /\ d \in RunRow /\ d.cur = run[r].cur
        /\ e \in RunRow /\ e.pc = "proposing"
    BY <1>0, RunRowUpdates
  <2>4. CASE run' = [run EXCEPT ![r] = d]
    BY <2>1, <2>2, <2>3, <2>4, RunMoves
  <2>5. CASE run' = [run EXCEPT ![r] = e]
    BY <2>1, <2>2, <2>3, <2>5, RunMoves
  <2>6. QED
    BY <1>4, <2>4, <2>5 DEF PolicyCheck
<1>5. CASE PolicyDecide(r)
  <2>1. run[r].cur \in RunProposals(r) /\ run[r].cur \in Proposals
    BY <1>5 DEF PolicyDecide, HandsOK, RunProposals
  <2>2. [kind |-> "approve", edited |-> NoPayload,
         hash |-> HashOf[Generated[run[r].cur]]] \in Decision
    BY <2>1, ConstantsTyped DEF Decision, Kinds
  <2>3. RowsTypeOK'
    BY <1>5, <2>1, <2>2 DEF PolicyDecide, RowsTypeOK
  <2>4. WorldTypeOK'
    BY <1>5, WorldStays DEF PolicyDecide
  <2>5. Len(decisions[run[r].cur]) + 1 \in Nat
    BY <2>1 DEF RowsTypeOK
  <2> DEFINE n == Len(decisions[run[r].cur]) + 1
             e == [run[r] EXCEPT !.pc = "approving", !.token = n]
  <2>6. e \in RunRow /\ e.cur = run[r].cur
    BY <1>0, <2>5 DEF RunRow
  <2>7. run' = [run EXCEPT ![r] = e] /\ UNCHANGED <<rev, sub>>
    BY <1>5 DEF PolicyDecide
  <2>8. QED
    BY <2>1, <2>3, <2>4, <2>6, <2>7, RunMoves
<1>6. CASE PolicyApprove(r)
  <2>1. run[r].token \in Nat
    BY <1>0 DEF RunRow
  <2>2. finding' \in [Proposals -> FindingRow]
    BY <1>6 DEF PolicyApprove, RowsTypeOK, FindingRow, FindingStatus
  <2>3. RowsTypeOK'
    BY <1>6, <2>1, <2>2 DEF PolicyApprove, RowsTypeOK, Status
  <2>4. WorldTypeOK'
    BY <1>6, WorldStays DEF PolicyApprove
  <2> DEFINE e == [run[r] EXCEPT !.pc = "proposing", !.token = 0,
                             !.cur = NoProposal]
  <2>5. e \in RunRow /\ e.pc = "proposing"
    BY <1>0, RunRowUpdates
  <2>6. run' = [run EXCEPT ![r] = e] /\ UNCHANGED <<rev, sub>>
    BY <1>6 DEF PolicyApprove
  <2>7. QED
    BY <2>5, <2>6, <2>3, <2>4, RunMoves
<1>7. CASE QueueReviews(r)
  <2>1. RowsTypeOK'
    BY <1>7 DEF QueueReviews, RowsTypeOK, FindingRow, ItemStatus
  <2>2. WorldTypeOK'
    BY <1>7, WorldStays DEF QueueReviews
  <2>3. QED
    BY <1>0, <1>7, <2>1, <2>2, RunMoves, RunRowUpdates DEF QueueReviews
<1>8. QED
  BY <1>1, <1>2, <1>3, <1>4, <1>5, <1>6, <1>7 DEF CloseRunStep

\* The steps of a reviewer keep the types.
LEMMA ReviewerTyped ==
  ASSUME TypeOK, HandsOK, NEW v \in Reviewers, ReviewerStep(v)
  PROVE  TypedStep
<1> USE DEF TypeOK
<1>0. rev[v] \in ReviewCall
  OBVIOUS
<1>1. ASSUME NEW p \in Proposals, NEW kind \in Kinds,
             NEW edited \in Edits \cup {NoPayload},
             ReadProposal(v, p, kind, edited)
      PROVE  TypedStep
  <2> DEFINE e == [pc |-> "read", cur |-> p, kind |-> kind, edited |-> edited,
                   stale |-> status[p], token |-> 0]
  <2>1. e \in ReviewCall /\ e.cur = p
    BY ConstantsTyped DEF ReviewCall, RowsTypeOK
  <2>2. rev' = [rev EXCEPT ![v] = e] /\ UNCHANGED <<run, sub>>
    BY <1>1 DEF ReadProposal
  <2>3. RowsTypeOK' /\ WorldTypeOK'
    BY <1>1, RowsStay, WorldStays DEF ReadProposal
  <2>4. QED
    BY <2>1, <2>2, <2>3, ReviewMoves
<1>2. CASE InsertDecision(v)
  <2> DEFINE p == rev[v].cur
             hash == ApprovedHash(p, rev[v].kind, rev[v].edited, rev[v].stale)
             n == Len(decisions[p]) + 1
             e == [rev[v] EXCEPT !.pc = "decided", !.token = n]
  <2>1. p \in Proposals
    BY <1>2 DEF InsertDecision, HandsOK
  <2>2. rev[v].kind \in Kinds /\ rev[v].edited \in Payloads \cup {NoPayload}
    BY <1>0 DEF ReviewCall
  <2>3. hash \in Hashes \cup {NoHash}
    BY <2>1, <2>2, ConstantsTyped DEF ApprovedHash
  <2>4. [kind |-> rev[v].kind, edited |-> rev[v].edited, hash |-> hash] \in Decision
    BY <2>2, <2>3 DEF Decision
  <2>5. RowsTypeOK' /\ WorldTypeOK'
    <3>1. decisions' \in [Proposals -> Seq(Decision)]
      BY <1>2, <2>1, <2>4 DEF InsertDecision, RowsTypeOK
    <3>2. QED
      BY <1>2, <3>1, WorldStays DEF InsertDecision, RowsTypeOK
  <2>6. n \in Nat
    BY <2>1 DEF RowsTypeOK
  <2>7. e \in ReviewCall /\ e.cur = p
    BY <1>0, <2>6 DEF ReviewCall
  <2>8. rev' = [rev EXCEPT ![v] = e] /\ UNCHANGED <<run, sub>>
    BY <1>2 DEF InsertDecision
  <2>9. QED
    BY <2>1, <2>5, <2>7, <2>8, ReviewMoves
<1>3. CASE ApplyStatus(v)
  <2> DEFINE e == [rev[v] EXCEPT !.pc = "applied"]
  <2>1. rev[v].token \in Nat /\ e \in ReviewCall /\ e.cur = rev[v].cur
    BY <1>0 DEF ReviewCall
  <2>2. rev[v].cur \in Proposals
    BY <1>3 DEF ApplyStatus, HandsOK
  <2>3. RowsTypeOK' /\ WorldTypeOK'
    BY <1>3, <2>1, WorldStays DEF ApplyStatus, RowsTypeOK, Status
  <2>4. rev' = [rev EXCEPT ![v] = e] /\ UNCHANGED <<run, sub>>
    BY <1>3 DEF ApplyStatus
  <2>5. QED
    BY <2>1, <2>2, <2>3, <2>4, ReviewMoves
<1>4. CASE CloseFinding(v)
  <2>1. rev[v].kind \in Kinds
    BY <1>0 DEF ReviewCall
  <2>2. [status |-> FindingStatusByKind[rev[v].kind],
         item |-> ReviewStatusByKind[rev[v].kind]] \in FindingRow
    BY <2>1 DEF Kinds, FindingStatusByKind, ReviewStatusByKind, FindingRow,
                FindingStatus, ItemStatus
  <2>3. RowsTypeOK' /\ WorldTypeOK'
    BY <1>4, <2>2, WorldStays DEF CloseFinding, RowsTypeOK
  <2>4. QED
    BY <1>4, <2>3, IdleCalls, ReviewMoves DEF CloseFinding
<1>5. CASE AbortReview(v)
  <2>1. RowsTypeOK' /\ WorldTypeOK'
    BY <1>5, RowsStay, WorldStays DEF AbortReview
  <2>2. QED
    BY <1>5, <2>1, IdleCalls, ReviewMoves DEF AbortReview
<1>6. QED
  BY <1>1, <1>2, <1>3, <1>4, <1>5 DEF ReviewerStep

\* The gate and the payload it looks at.
LEMMA PayloadTyped ==
  ASSUME TypeOK, NEW p \in Proposals
  PROVE  PayloadFor(p) \in Payloads
  BY ConstantsTyped DEF PayloadFor

\* The two commonest ends of a submitter's statement: on to the rest of the
\* batch, or on to the next statement for the same proposal.
LEMMA ContinueTyped ==
  ASSUME TypeOK, NEW s \in Submitters
  PROVE  Continue(s) \in SubmitCall /\ Continue(s).pc = "loop"
<1>1. sub[s] \in SubmitCall
  BY DEF TypeOK
<1>2. QED
  BY <1>1 DEF Continue, SubmitCall, SubmitPc

\* A submitter that goes on with the proposal and body in its hand keeps the types.
LEMMA PcMoves ==
  ASSUME TypeOK, HandsOK, RowsTypeOK', WorldTypeOK', NEW s \in Submitters,
         NEW k \in InHand, sub[s].cur \in Proposals, sub[s].body \in Payloads,
         sub' = [sub EXCEPT ![s].pc = k], UNCHANGED <<run, rev>>
  PROVE  TypedStep
<1> DEFINE e == [sub[s] EXCEPT !.pc = k]
<1>1. sub[s] \in SubmitCall
  BY DEF TypeOK
<1>2. e \in SubmitCall /\ e.cur = sub[s].cur /\ e.body = sub[s].body
  BY <1>1 DEF SubmitCall, SubmitPc
<1>3. QED
  BY <1>2, SubmitMoves

\* The steps of a submitter keep the types.
LEMMA SubmitterTyped ==
  ASSUME TypeOK, HandsOK, NEW s \in Submitters, SubmitterStep(s)
  PROVE  TypedStep
<1> USE DEF TypeOK
<1>0. sub[s] \in SubmitCall
  OBVIOUS
<1>1. ASSUME NEW r \in Runs, NEW only \in Selections(r), Resolve(s, r, only)
      PROVE  TypedStep
  <2> DEFINE adapter == /\ conn.connected
                        /\ conn.writes
                        /\ WritesFlag
                        /\ ~shadowMode
             e == [IdleSubmit EXCEPT !.pc = "resolved", !.run = r, !.only = only,
                                     !.real = conn.connected,
                                     !.adapter = adapter]
  <2>1. conn.connected \in BOOLEAN /\ adapter \in BOOLEAN
    BY DEF WorldTypeOK
  <2>2. only \in SUBSET Proposals
    BY DEF Selections, RunProposals
  <2>3. e \in SubmitCall /\ e.pc = "resolved"
    BY <2>1, <2>2, ResolveUpdates
  <2>4. sub' = [sub EXCEPT ![s] = e] /\ UNCHANGED <<run, rev>>
    BY <1>1 DEF Resolve
  <2>5. RowsTypeOK' /\ WorldTypeOK'
    BY <1>1, RowsStay, WorldStays DEF Resolve
  <2>6. QED
    BY <2>3, <2>4, <2>5, SubmitMoves DEF InHand
<1>2. CASE ListCandidates(s)
  <2> DEFINE candidates == {p \in RunProposals(sub[s].run) \cap sub[s].only :
                              status[p] = "approved_shadow"}
             e == [sub[s] EXCEPT !.pc = "listed", !.todo = candidates]
  <2>1. candidates \in SUBSET Proposals
    BY DEF RunProposals
  <2>2. e \in SubmitCall /\ e.pc = "listed"
    <3> HIDE DEF candidates
    <3>1. QED
      BY <1>0, <2>1 DEF SubmitCall, SubmitPc
  <2>3. RowsTypeOK' /\ WorldTypeOK'
    BY <1>2, RowsStay, WorldStays DEF ListCandidates
  <2>4. CASE sub' = [sub EXCEPT ![s] = e]
    BY <1>2, <2>2, <2>3, <2>4, SubmitMoves DEF ListCandidates, InHand
  <2>5. CASE sub' = [sub EXCEPT ![s] = IdleSubmit]
    BY <1>2, <2>3, <2>5, IdleCalls, SubmitMoves DEF ListCandidates, InHand
  <2>6. QED
    BY <1>2, <2>4, <2>5 DEF ListCandidates
<1>3. CASE ReadSwitch(s)
  <2> DEFINE e == [sub[s] EXCEPT !.pc = "switch",
                                 !.switch = sub[s].real /\ conn.writes]
  <2>1. (sub[s].real /\ conn.writes) \in BOOLEAN
    OBVIOUS
  <2>2. e \in SubmitCall /\ e.pc = "switch"
    BY <1>0, <2>1 DEF SubmitCall, SubmitPc
  <2>3. sub' = [sub EXCEPT ![s] = e] /\ UNCHANGED <<run, rev>>
    BY <1>3 DEF ReadSwitch
  <2>4. RowsTypeOK' /\ WorldTypeOK'
    BY <1>3, RowsStay, WorldStays DEF ReadSwitch
  <2>5. QED
    BY <2>2, <2>3, <2>4, SubmitMoves DEF InHand
<1>4. CASE ReadLock(s)
  <2>1. RowsTypeOK' /\ WorldTypeOK' /\ UNCHANGED <<run, rev>>
    BY <1>4, RowsStay, WorldStays DEF ReadLock
  <2>2. PICK n \in Nat : sub' = [sub EXCEPT ![s] =
                            [@ EXCEPT !.pc = "lock", !.lock = n, !.stood = lock]]
    BY <1>4 DEF ReadLock, WorldTypeOK
  <2> DEFINE e == [sub[s] EXCEPT !.pc = "lock", !.lock = n, !.stood = lock]
  <2>3. e \in SubmitCall /\ e.pc = "lock"
    BY <1>0 DEF SubmitCall, SubmitPc, WorldTypeOK
  <2>4. QED
    BY <2>1, <2>2, <2>3, SubmitMoves DEF InHand
<1>5. CASE ReadBooked(s)
  <2> DEFINE e == [sub[s] EXCEPT !.pc = "loop", !.booked = processed]
  <2>1. e \in SubmitCall /\ e.pc = "loop"
    BY <1>0 DEF SubmitCall, SubmitPc, RowsTypeOK
  <2>2. sub' = [sub EXCEPT ![s] = e] /\ UNCHANGED <<run, rev>>
    BY <1>5 DEF ReadBooked
  <2>3. RowsTypeOK' /\ WorldTypeOK'
    BY <1>5, RowsStay, WorldStays DEF ReadBooked
  <2>4. QED
    BY <2>1, <2>2, <2>3, SubmitMoves DEF InHand
<1>6. ASSUME NEW p \in Proposals, Consider(s, p) PROVE TypedStep
  <2> DEFINE k == IF HashOf[PayloadFor(p)] \in sub[s].booked THEN "mark"
                  ELSE IF GateAllows(s, p, PayloadFor(p)) THEN "claim" ELSE "loop"
             rest == sub[s].todo \ {p}
             cur == IF k = "loop" THEN NoProposal ELSE p
             body == IF k = "loop" THEN NoPayload ELSE PayloadFor(p)
             e == [sub[s] EXCEPT !.pc = k, !.todo = rest, !.cur = cur,
                                 !.body = body]
  <2>1. k \in {"mark", "claim", "loop"}
    OBVIOUS
  <2>2. rest \in SUBSET Proposals
    BY <1>0 DEF SubmitCall
  <2>3. cur \in Proposals \cup {NoProposal} /\ body \in Payloads \cup {NoPayload}
    BY PayloadTyped
  <2>4. k # "loop" => cur \in Proposals /\ body \in Payloads
    BY PayloadTyped
  <2>5. sub' = [sub EXCEPT ![s] = e]
    BY <1>6 DEF Consider
  <2>6. e \in SubmitCall /\ e.pc = k /\ e.cur = cur /\ e.body = body
    <3> HIDE DEF k, rest, cur, body
    <3>1. QED
      BY <1>0, <2>1, <2>2, <2>3 DEF SubmitCall, SubmitPc, InHand
  <2>7. RowsTypeOK' /\ WorldTypeOK' /\ UNCHANGED <<run, rev>>
    BY <1>6, RowsStay, WorldStays DEF Consider
  <2> HIDE DEF e, k, cur, body
  <2>8. QED
    BY <2>1, <2>4, <2>5, <2>6, <2>7, SubmitMoves DEF InHand
<1>7. CASE MarkAlreadyBooked(s)
  <2>1. RowsTypeOK' /\ WorldTypeOK' /\ UNCHANGED <<run, rev>>
    BY <1>7, WorldStays DEF MarkAlreadyBooked, RowsTypeOK, Status
  <2>2. QED
    BY <1>7, <2>1, ContinueTyped, SubmitMoves DEF MarkAlreadyBooked, InHand
<1>8. CASE Claim(s)
  <2>1. sub[s].cur \in Proposals /\ sub[s].body \in Payloads
    BY <1>8 DEF Claim, HandsOK, InHand
  <2>2. RowsTypeOK' /\ WorldTypeOK' /\ UNCHANGED <<run, rev>>
    BY <1>8, WorldStays DEF Claim, RowsTypeOK, Status
  <2> DEFINE e == [sub[s] EXCEPT !.pc = "post", !.token = token[sub[s].cur]]
  <2>3. token[sub[s].cur] \in Nat
    BY <2>1 DEF RowsTypeOK
  <2>4. e \in SubmitCall /\ e.cur = sub[s].cur /\ e.body = sub[s].body
    BY <1>0, <2>3 DEF SubmitCall, SubmitPc, InHand
  <2>5. CASE sub' = [sub EXCEPT ![s] = e]
    BY <2>1, <2>2, <2>4, <2>5, SubmitMoves
  <2>6. CASE sub' = [sub EXCEPT ![s] = Continue(s)]
    BY <2>2, <2>6, ContinueTyped, SubmitMoves DEF InHand
  <2>7. QED
    BY <1>8, <2>5, <2>6 DEF Claim
<1>9. CASE PostAccepted(s)
  <2>1. sub[s].cur \in Proposals /\ sub[s].body \in Payloads
    BY <1>9 DEF PostAccepted, HandsOK, InHand
  <2>2. VoucherOf(s) \in Voucher
    BY <1>0, <2>1 DEF VoucherOf, Voucher, SubmitCall
  <2>3. RowsTypeOK' /\ WorldTypeOK' /\ UNCHANGED <<run, rev>>
    BY <1>9, <2>2, RowsStay DEF PostAccepted, WorldTypeOK
  <2>4. PICK k \in {"record", "failed"} : sub' = [sub EXCEPT ![s].pc = k]
    BY <1>9 DEF PostAccepted
  <2>5. QED
    BY <2>1, <2>3, <2>4, PcMoves DEF InHand
<1>10. CASE PostRefused(s)
  <2>1. sub[s].cur \in Proposals /\ sub[s].body \in Payloads
    BY <1>10 DEF PostRefused, HandsOK, InHand
  <2>2. RowsTypeOK' /\ WorldTypeOK' /\ UNCHANGED <<run, rev>>
    BY <1>10, RowsStay, WorldStays DEF PostRefused
  <2>3. QED
    BY <1>10, <2>1, <2>2, PcMoves DEF PostRefused, InHand
<1>11. CASE RecordSubmitted(s)
  <2>1. sub[s].cur \in Proposals /\ sub[s].body \in Payloads
    BY <1>11 DEF RecordSubmitted, HandsOK, InHand
  <2>2. RowsTypeOK' /\ WorldTypeOK' /\ UNCHANGED <<run, rev>>
    BY <1>11, WorldStays DEF RecordSubmitted, RowsTypeOK, Status
  <2>3. QED
    BY <1>11, <2>1, <2>2, PcMoves DEF RecordSubmitted, InHand
<1>12. CASE RecordKey(s)
  <2>1. sub[s].cur \in Proposals /\ sub[s].body \in Payloads
    BY <1>12 DEF RecordKey, HandsOK, InHand
  <2>2. RowsTypeOK' /\ WorldTypeOK' /\ UNCHANGED <<run, rev>>
    BY <1>12, <2>1, ConstantsTyped, WorldStays DEF RecordKey, RowsTypeOK
  <2>3. CASE sub' = [sub EXCEPT ![s].pc = "failed"]
    BY <2>1, <2>2, <2>3, PcMoves DEF InHand
  <2>4. CASE sub' = [sub EXCEPT ![s] = Continue(s)]
    BY <2>2, <2>4, ContinueTyped, SubmitMoves DEF InHand
  <2>5. QED
    BY <1>12, <2>3, <2>4 DEF RecordKey
<1>13. CASE RecordingFails(s)
  <2>1. sub[s].cur \in Proposals /\ sub[s].body \in Payloads
    BY <1>13 DEF RecordingFails, HandsOK, InHand
  <2>2. RowsTypeOK' /\ WorldTypeOK' /\ UNCHANGED <<run, rev>>
    BY <1>13, RowsStay, WorldStays DEF RecordingFails
  <2>3. QED
    BY <1>13, <2>1, <2>2, PcMoves DEF RecordingFails, InHand
<1>14. CASE RecordFailure(s)
  <2>1. RowsTypeOK' /\ WorldTypeOK' /\ UNCHANGED <<run, rev>>
    BY <1>14, WorldStays DEF RecordFailure, RowsTypeOK, Status
  <2>2. QED
    BY <1>14, <2>1, ContinueTyped, SubmitMoves DEF RecordFailure, InHand
<1>15. CASE FinishBatch(s)
  <2>1. RowsTypeOK' /\ WorldTypeOK'
    BY <1>15, RowsStay, WorldStays DEF FinishBatch
  <2>2. QED
    BY <1>15, <2>1, IdleCalls, SubmitMoves DEF FinishBatch, InHand
<1>16. CASE AbortBatch(s)
  <2>1. RowsTypeOK' /\ WorldTypeOK'
    BY <1>16, RowsStay, WorldStays DEF AbortBatch
  <2>2. QED
    BY <1>16, <2>1, IdleCalls, SubmitMoves DEF AbortBatch, InHand
<1>17. QED
  BY <1>1, <1>2, <1>3, <1>4, <1>5, <1>6, <1>7, <1>8, <1>9, <1>10, <1>11, <1>12,
     <1>13, <1>14, <1>15, <1>16 DEF SubmitterStep, BatchStep

\* The steps of the outside keep the types.
LEMMA OutsideTyped ==
  ASSUME TypeOK, HandsOK, OutsideStep
  PROVE  TypedStep
<1> USE DEF TypeOK
<1>1. CASE \E b \in BOOLEAN : SetWrites(b)
  BY <1>1, RowsStay DEF SetWrites, WorldTypeOK, TypedStep, HandsOK
<1>2. CASE Disconnect
  BY <1>2, RowsStay DEF Disconnect, WorldTypeOK, TypedStep, HandsOK
<1>3. CASE Reconnect
  BY <1>3, RowsStay DEF Reconnect, WorldTypeOK, TypedStep, HandsOK
<1>4. CASE \E b \in Payloads : LockBooks(DateOf[b])
  BY <1>4, RowsStay, ConstantsTyped DEF LockBooks, WorldTypeOK, TypedStep, HandsOK
<1>5. QED
  BY <1>1, <1>2, <1>3, <1>4 DEF OutsideStep

\* The initial state is typed and nobody holds anything.
LEMMA TypedInit == Init => TypeOK /\ HandsOK
<1> SUFFICES ASSUME Init PROVE TypeOK /\ HandsOK
  OBVIOUS
<1>1. RowsTypeOK
  BY DEF Init, RowsTypeOK, Status, FindingRow, FindingStatus, ItemStatus
<1>w. WorldTypeOK
  <2>1. conn \in [connected: BOOLEAN, writes: BOOLEAN]
    BY DEF Init
  <2>2. lock \in Nat /\ posted \in Seq(Voucher)
    BY DEF Init
  <2>3. shadowMode \in BOOLEAN
    BY SettingsAssumption DEF Init
  <2>4. QED
    BY <2>1, <2>2, <2>3 DEF WorldTypeOK
<1>2. run \in [Runs -> RunRow]
  BY DEF Init, RunRow
<1>3. rev \in [Reviewers -> ReviewCall] /\ sub \in [Submitters -> SubmitCall]
  BY IdleCalls DEF Init
<1>4. HandsOK
  BY IdleCalls DEF Init, HandsOK, InHand
<1>5. QED
  BY <1>1, <1>w, <1>2, <1>3, <1>4 DEF TypeOK

\* Every step keeps the types and what each call has in its hand.
LEMMA TypedNext == TypeOK /\ HandsOK /\ [Next]_vars => TypedStep
<1> SUFFICES ASSUME TypeOK, HandsOK, [Next]_vars PROVE TypedStep
  OBVIOUS
<1>1. CASE Next
  BY <1>1, CloseRunTyped, ReviewerTyped, SubmitterTyped, OutsideTyped DEF Next
<1>2. CASE UNCHANGED vars
  BY <1>2, RowsStay, WorldStays DEF vars, TypedStep, TypeOK, HandsOK
<1>3. QED
  BY <1>1, <1>2

\* Every row, local record and remote record keeps its shape, for every number
\* of callers, in every interleaving of them.
THEOREM TypeCorrect == Spec => []TypeOK
<1>1. Init => TypeOK /\ HandsOK
  BY TypedInit
<1>2. TypeOK /\ HandsOK /\ [Next]_vars => (TypeOK /\ HandsOK)'
  BY TypedNext DEF TypedStep
<1>3. QED
  BY <1>1, <1>2, PTL DEF Spec

-----------------------------------------------------------------------------
(* What a step does to approvals and vouchers *)

\* Decisions and vouchers are left alone, nothing becomes approved, and the
\* caller neither holds a decision nor a claim afterwards.
Quiet ==
  /\ UNCHANGED <<decisions, posted>>
  /\ \A p \in Proposals : status'[p] = "approved_shadow" =>
                            status[p] = "approved_shadow" /\ token'[p] = token[p]

\* Proposal p gets one more decision, of that kind.
Decided(p, kind) ==
  /\ p \in Proposals
  /\ \E d \in Decision : /\ d.kind = kind
                         /\ decisions' = [decisions EXCEPT ![p] = Append(@, d)]
  /\ UNCHANGED <<posted, status, token>>

\* Decision n of proposal p makes it approved_shadow.
Applied(p, n) ==
  /\ p \in Proposals
  /\ status' = [status EXCEPT ![p] = "approved_shadow"]
  /\ token' = [token EXCEPT ![p] = n]
  /\ UNCHANGED <<decisions, posted>>

\* A close-run step is quiet, records its approval, or applies the one it recorded.
LEMMA CloseRunDigest ==
  ASSUME TypeOK, HandsOK, NEW r \in Runs, CloseRunStep(r)
  PROVE  /\ UNCHANGED <<rev, sub>>
         /\ \A q \in Runs \ {r} : run'[q] = run[q]
         /\ \/ Quiet /\ run'[r].pc # "approving"
            \/ /\ Decided(run[r].cur, "approve")
               /\ run'[r].pc = "approving"
               /\ run'[r].cur = run[r].cur
               /\ run'[r].token = Len(decisions[run[r].cur]) + 1
            \/ /\ run[r].pc = "approving"
               /\ Applied(run[r].cur, run[r].token)
               /\ run'[r].pc # "approving"
<1> DEFINE Goal == /\ UNCHANGED <<rev, sub>>
                   /\ \A q \in Runs \ {r} : run'[q] = run[q]
                   /\ \/ Quiet /\ run'[r].pc # "approving"
                      \/ /\ Decided(run[r].cur, "approve")
                         /\ run'[r].pc = "approving"
                         /\ run'[r].cur = run[r].cur
                         /\ run'[r].token = Len(decisions[run[r].cur]) + 1
                      \/ /\ run[r].pc = "approving"
                         /\ Applied(run[r].cur, run[r].token)
                         /\ run'[r].pc # "approving"
<1>0. run[r] \in RunRow /\ run \in [Runs -> RunRow] /\ RowsTypeOK
  BY DEF TypeOK
<1>1. CASE LedgerReview(r)
  <2>1. [run[r] EXCEPT !.pc = "reviewed", !.seen = processed].pc = "reviewed"
    BY <1>0 DEF RunRow
  <2>2. QED
    BY <1>0, <1>1, <2>1 DEF LedgerReview, rows, world, Quiet
<1>2. CASE Consolidate(r)
  <2>1. [run[r] EXCEPT !.pc = "proposing"].pc = "proposing"
    BY <1>0 DEF RunRow
  <2>2. Quiet
    BY <1>0, <1>2 DEF Consolidate, world, Quiet, RowsTypeOK
  <2>3. QED
    BY <1>0, <1>2, <2>1, <2>2 DEF Consolidate
<1>3. ASSUME NEW p \in Proposals, Propose(r, p) PROVE Goal
  <2>1. [run[r] EXCEPT !.pc = "checking", !.cur = p].pc = "checking"
    BY <1>0 DEF RunRow
  <2>2. Quiet
    BY <1>0, <1>3 DEF Propose, world, Quiet, RowsTypeOK
  <2>3. run[r].pc = "proposing"
    BY <1>3 DEF Propose
  <2>4. QED
    BY <1>0, <1>3, <2>1, <2>2, <2>3 DEF Propose
<1>4. CASE PolicyCheck(r)
  <2>1. /\ [run[r] EXCEPT !.pc = "deciding"].pc = "deciding"
        /\ [run[r] EXCEPT !.pc = "proposing", !.cur = NoProposal].pc = "proposing"
    BY <1>0 DEF RunRow
  <2>2. Quiet
    BY <1>4 DEF PolicyCheck, world, Quiet
  <2>3. QED
    BY <1>0, <1>4, <2>1, <2>2 DEF PolicyCheck
<1>5. CASE PolicyDecide(r)
  <2> DEFINE p == run[r].cur
             n == Len(decisions[p]) + 1
             d == [kind |-> "approve", edited |-> NoPayload,
                   hash |-> HashOf[Generated[p]]]
             e == [run[r] EXCEPT !.pc = "approving", !.token = n]
  <2>1. p \in Proposals
    BY <1>5 DEF PolicyDecide, HandsOK, RunProposals
  <2>2. d \in Decision /\ d.kind = "approve"
    BY <2>1, ConstantsTyped DEF Decision, Kinds
  <2>3. Decided(p, "approve")
    BY <1>5, <2>1, <2>2 DEF PolicyDecide, Decided, world
  <2>4. e.pc = "approving" /\ e.cur = p /\ e.token = n
    BY <1>0 DEF RunRow
  <2>5. run' = [run EXCEPT ![r] = e] /\ UNCHANGED <<rev, sub>>
    BY <1>5 DEF PolicyDecide
  <2> HIDE DEF n, e
  <2>6. QED
    BY <1>0, <2>3, <2>4, <2>5 DEF n
<1>6. CASE PolicyApprove(r)
  <2>1. [run[r] EXCEPT !.pc = "proposing", !.token = 0, !.cur = NoProposal].pc
          = "proposing"
    BY <1>0 DEF RunRow
  <2>2. run[r].cur \in Proposals
    BY <1>6 DEF PolicyApprove, HandsOK, RunProposals
  <2>3. Applied(run[r].cur, run[r].token)
    BY <1>6, <2>2 DEF PolicyApprove, Applied, world
  <2>4. QED
    BY <1>0, <1>6, <2>1, <2>3 DEF PolicyApprove
<1>7. CASE QueueReviews(r)
  <2>1. [run[r] EXCEPT !.pc = "consolidated"].pc = "consolidated"
    BY <1>0 DEF RunRow
  <2>2. QED
    BY <1>0, <1>7, <2>1 DEF QueueReviews, world, Quiet
<1>8. QED
  BY <1>1, <1>2, <1>3, <1>4, <1>5, <1>6, <1>7 DEF CloseRunStep

\* A reviewer step is quiet, records a decision, or applies the one it recorded.
LEMMA ReviewerDigest ==
  ASSUME TypeOK, HandsOK, NEW v \in Reviewers, ReviewerStep(v)
  PROVE  /\ UNCHANGED <<run, sub>>
         /\ \A w \in Reviewers \ {v} : rev'[w] = rev[w]
         /\ \/ Quiet /\ rev'[v].pc # "decided"
            \/ /\ Decided(rev[v].cur, rev[v].kind)
               /\ rev'[v].cur = rev[v].cur /\ rev'[v].kind = rev[v].kind
               /\ rev'[v].token = Len(decisions[rev[v].cur]) + 1
            \/ /\ rev[v].pc = "decided" /\ rev[v].kind \in Approving
               /\ Applied(rev[v].cur, rev[v].token)
               /\ rev'[v].pc # "decided"
<1> DEFINE Goal == /\ UNCHANGED <<run, sub>>
                   /\ \A w \in Reviewers \ {v} : rev'[w] = rev[w]
                   /\ \/ Quiet /\ rev'[v].pc # "decided"
                      \/ /\ Decided(rev[v].cur, rev[v].kind)
                         /\ rev'[v].cur = rev[v].cur /\ rev'[v].kind = rev[v].kind
                         /\ rev'[v].token = Len(decisions[rev[v].cur]) + 1
                      \/ /\ rev[v].pc = "decided" /\ rev[v].kind \in Approving
                         /\ Applied(rev[v].cur, rev[v].token)
                         /\ rev'[v].pc # "decided"
<1>0. rev[v] \in ReviewCall /\ rev \in [Reviewers -> ReviewCall] /\ RowsTypeOK
  BY DEF TypeOK
<1>1. ASSUME NEW p \in Proposals, NEW kind \in Kinds,
             NEW edited \in Edits \cup {NoPayload},
             ReadProposal(v, p, kind, edited)
      PROVE  Goal
  BY <1>0, <1>1 DEF ReadProposal, rows, world, Quiet
<1>2. CASE InsertDecision(v)
  <2> DEFINE p == rev[v].cur
             hash == ApprovedHash(p, rev[v].kind, rev[v].edited, rev[v].stale)
             d == [kind |-> rev[v].kind, edited |-> rev[v].edited, hash |-> hash]
             n == Len(decisions[p]) + 1
             e == [rev[v] EXCEPT !.pc = "decided", !.token = n]
  <2>1. p \in Proposals
    BY <1>2 DEF InsertDecision, HandsOK
  <2>2. rev[v].kind \in Kinds /\ rev[v].edited \in Payloads \cup {NoPayload}
    BY <1>0 DEF ReviewCall
  <2>3. hash \in Hashes \cup {NoHash}
    BY <2>1, <2>2, ConstantsTyped DEF ApprovedHash
  <2>4. d \in Decision /\ d.kind = rev[v].kind
    BY <2>2, <2>3 DEF Decision
  <2>5. Decided(p, rev[v].kind)
    BY <1>2, <2>1, <2>4 DEF InsertDecision, Decided, world
  <2>6. e.cur = p /\ e.kind = rev[v].kind /\ e.token = n
    BY <1>0 DEF ReviewCall
  <2>7. rev' = [rev EXCEPT ![v] = e] /\ UNCHANGED <<run, sub>>
    BY <1>2 DEF InsertDecision
  <2> HIDE DEF n, e
  <2>8. QED
    BY <1>0, <2>5, <2>6, <2>7 DEF n
<1>3. CASE ApplyStatus(v)
  <2> DEFINE p == rev[v].cur
             applies == /\ rev[v].stale \notin {"absent", "submitted"}
                        /\ rev[v].kind # "request_information"
             e == [rev[v] EXCEPT !.pc = "applied"]
  <2>1. p \in Proposals
    BY <1>3 DEF ApplyStatus, HandsOK
  <2>2. e.pc # "decided"
    BY <1>0 DEF ReviewCall
  <2>3. rev' = [rev EXCEPT ![v] = e] /\ UNCHANGED <<run, sub>>
    BY <1>3 DEF ApplyStatus
  <2>4. CASE applies /\ rev[v].kind \in Approving
    <3>1. Applied(p, rev[v].token)
      BY <1>3, <2>1, <2>4 DEF ApplyStatus, Applied, world
    <3>2. QED
      BY <1>0, <1>3, <2>2, <2>3, <2>4, <3>1 DEF ApplyStatus
  <2>5. CASE ~(applies /\ rev[v].kind \in Approving)
    <3>1. Quiet
      BY <1>0, <1>3, <2>1, <2>5 DEF ApplyStatus, Quiet, world, RowsTypeOK
    <3>2. QED
      BY <1>0, <2>2, <2>3, <3>1
  <2>6. QED
    BY <2>4, <2>5
<1>4. CASE CloseFinding(v)
  BY <1>0, <1>4, IdleCalls DEF CloseFinding, world, Quiet
<1>5. CASE AbortReview(v)
  BY <1>0, <1>5, IdleCalls DEF AbortReview, rows, world, Quiet
<1>6. QED
  BY <1>1, <1>2, <1>3, <1>4, <1>5 DEF ReviewerStep

\* Submitter s picks a proposal whose bytes somebody approved.
Picked(s) ==
  /\ UNCHANGED <<decisions, posted, status, token>>
  /\ sub'[s].pc = "claim"
  /\ HashOf[sub'[s].body] \in ApprovedHashes(sub'[s].cur)

\* It wins the claim, and with it the decision that approved the proposal.
Claimed(s) ==
  LET p == sub[s].cur
  IN  /\ p \in Proposals
      /\ sub[s].pc = "claim"
      /\ status[p] = "approved_shadow"
      /\ status' = [status EXCEPT ![p] = "submitting"]
      /\ UNCHANGED <<decisions, posted, token>>
      /\ sub'[s].pc = "post"
      /\ sub'[s].cur = p
      /\ sub'[s].body = sub[s].body
      /\ sub'[s].token = token[p]

\* It posts the voucher.
Booked(s) ==
  /\ sub[s].cur \in Proposals
  /\ sub[s].pc = "post"
  /\ UNCHANGED <<decisions, status, token>>
  /\ posted' = Append(posted, VoucherOf(s))
  /\ sub'[s].pc \notin {"claim", "post"}

\* What latestApproval finds is an approved hash.
LEMMA LatestApproves ==
  ASSUME NEW p, NEW d \in LatestApproval(p)
  PROVE  d.hash \in ApprovedHashes(p)
  BY DEF LatestApproval, ApprovedHashes

\* A submitter step is quiet, picks a proposal, claims its key, or books its voucher.
LEMMA SubmitterDigest ==
  ASSUME TypeOK, HandsOK, NEW s \in Submitters, SubmitterStep(s)
  PROVE  /\ UNCHANGED <<run, rev>>
         /\ \A t \in Submitters \ {s} : sub'[t] = sub[t]
         /\ \/ Quiet /\ sub'[s].pc \notin {"claim", "post"}
            \/ Picked(s)
            \/ Claimed(s)
            \/ Booked(s)
<1> DEFINE Goal == /\ UNCHANGED <<run, rev>>
                   /\ \A t \in Submitters \ {s} : sub'[t] = sub[t]
                   /\ \/ Quiet /\ sub'[s].pc \notin {"claim", "post"}
                      \/ Picked(s)
                      \/ Claimed(s)
                      \/ Booked(s)
<1>0. sub[s] \in SubmitCall /\ sub \in [Submitters -> SubmitCall] /\ RowsTypeOK
  BY DEF TypeOK
<1>c. Continue(s).pc = "loop"
  BY ContinueTyped
<1>k. ASSUME NEW k PROVE [sub[s] EXCEPT !.pc = k].pc = k
  BY <1>0 DEF SubmitCall
<1>1. ASSUME NEW r \in Runs, NEW only \in Selections(r), Resolve(s, r, only)
      PROVE  Goal
  <2> DEFINE e == [IdleSubmit EXCEPT !.pc = "resolved", !.run = r, !.only = only,
                                     !.real = conn.connected,
                                     !.adapter = /\ conn.connected
                                                 /\ conn.writes
                                                 /\ WritesFlag
                                                 /\ ~shadowMode]
  <2>1. e.pc = "resolved"
    BY DEF IdleSubmit
  <2>2. sub' = [sub EXCEPT ![s] = e]
    BY <1>1 DEF Resolve
  <2> HIDE DEF e
  <2>3. QED
    BY <1>0, <1>1, <2>1, <2>2 DEF Resolve, rows, world, Quiet
<1>2. CASE ListCandidates(s)
  <2>1. \A t : [sub[s] EXCEPT !.pc = "listed", !.todo = t].pc = "listed"
    BY <1>0 DEF SubmitCall
  <2>2. sub'[s].pc \notin {"claim", "post"}
    BY <1>0, <1>2, <2>1, IdleCalls DEF ListCandidates
  <2>3. QED
    BY <1>0, <1>2, <2>2 DEF ListCandidates, rows, world, Quiet
<1>3. CASE ReadSwitch(s)
  <2>1. [sub[s] EXCEPT !.pc = "switch", !.switch = sub[s].real /\ conn.writes].pc
          = "switch"
    BY <1>0 DEF SubmitCall
  <2>2. QED
    BY <1>0, <1>3, <2>1 DEF ReadSwitch, rows, world, Quiet
<1>4. CASE ReadLock(s)
  <2>1. \A n : [sub[s] EXCEPT !.pc = "lock", !.lock = n, !.stood = lock].pc = "lock"
    BY <1>0 DEF SubmitCall
  <2>2. QED
    BY <1>0, <1>4, <2>1 DEF ReadLock, rows, world, Quiet
<1>5. CASE ReadBooked(s)
  <2>1. [sub[s] EXCEPT !.pc = "loop", !.booked = processed].pc = "loop"
    BY <1>0 DEF SubmitCall
  <2>2. QED
    BY <1>0, <1>5, <2>1 DEF ReadBooked, rows, world, Quiet
<1>6. ASSUME NEW p \in Proposals, Consider(s, p) PROVE Goal
  <2> DEFINE k == IF HashOf[PayloadFor(p)] \in sub[s].booked THEN "mark"
                  ELSE IF GateAllows(s, p, PayloadFor(p)) THEN "claim" ELSE "loop"
             cur == IF k = "loop" THEN NoProposal ELSE p
             body == IF k = "loop" THEN NoPayload ELSE PayloadFor(p)
             e == [sub[s] EXCEPT !.pc = k, !.todo = sub[s].todo \ {p}, !.cur = cur,
                                 !.body = body]
  <2>1. sub' = [sub EXCEPT ![s] = e]
    BY <1>6 DEF Consider
  <2>2. e.pc = k /\ e.cur = cur /\ e.body = body
    <3> HIDE DEF k, cur, body
    <3>1. QED
      BY <1>0 DEF SubmitCall
  <2>3. k = "claim" => HashOf[PayloadFor(p)] \in ApprovedHashes(p)
    BY LatestApproves DEF GateAllows
  <2>4. k = "claim" => cur = p /\ body = PayloadFor(p)
    OBVIOUS
  <2>5. k \in {"mark", "claim", "loop"}
    OBVIOUS
  <2>6. UNCHANGED <<decisions, posted, status, token, run, rev>>
    BY <1>6 DEF Consider, rows, world
  <2> HIDE DEF e, k, cur, body
  <2>7. QED
    BY <1>0, <2>1, <2>2, <2>3, <2>4, <2>5, <2>6 DEF Quiet, Picked
<1>7. CASE MarkAlreadyBooked(s)
  BY <1>0, <1>7, <1>c DEF MarkAlreadyBooked, world, Quiet, RowsTypeOK
<1>8. CASE Claim(s)
  <2> DEFINE e == [sub[s] EXCEPT !.pc = "post", !.token = token[sub[s].cur]]
  <2>1. sub[s].cur \in Proposals
    BY <1>8 DEF Claim, HandsOK, InHand
  <2>2. /\ e.pc = "post" /\ e.cur = sub[s].cur /\ e.body = sub[s].body
        /\ e.token = token[sub[s].cur]
    BY <1>0 DEF SubmitCall
  <2>3. CASE status[sub[s].cur] = "approved_shadow"
    <3>1. sub' = [sub EXCEPT ![s] = e]
      BY <1>8, <2>3 DEF Claim
    <3> HIDE DEF e
    <3>2. Claimed(s)
      BY <1>0, <1>8, <2>1, <2>2, <2>3, <3>1 DEF Claim, Claimed, world
    <3>3. QED
      BY <1>0, <1>8, <3>1, <3>2 DEF Claim
  <2>4. CASE status[sub[s].cur] # "approved_shadow"
    BY <1>0, <1>8, <1>c, <2>4 DEF Claim, world, Quiet
  <2>5. QED
    BY <2>3, <2>4
<1>9. CASE PostAccepted(s)
  <2>1. sub[s].cur \in Proposals
    BY <1>9 DEF PostAccepted, HandsOK, InHand
  <2>2. PICK k \in {"record", "failed"} : sub' = [sub EXCEPT ![s].pc = k]
    BY <1>9 DEF PostAccepted
  <2>3. sub'[s].pc = k
    BY <1>0, <2>2, <1>k
  <2>4. Booked(s)
    BY <1>9, <2>1, <2>3 DEF PostAccepted, Booked, rows
  <2>5. QED
    BY <1>0, <1>9, <2>2, <2>4 DEF PostAccepted
<1>10. CASE PostRefused(s)
  BY <1>0, <1>10, <1>c, <1>k, IdleCalls DEF PostRefused, rows, world, Quiet
<1>11. CASE RecordSubmitted(s)
  BY <1>0, <1>11, <1>c, <1>k, IdleCalls DEF RecordSubmitted, world, Quiet, RowsTypeOK
<1>12. CASE RecordKey(s)
  <2>1. CASE sub' = [sub EXCEPT ![s] = Continue(s)]
    BY <1>0, <1>12, <1>c, <2>1 DEF RecordKey, world, Quiet
  <2>2. CASE sub' = [sub EXCEPT ![s].pc = "failed"]
    BY <1>0, <1>12, <1>k, <2>2 DEF RecordKey, world, Quiet
  <2>3. QED
    BY <1>12, <2>1, <2>2 DEF RecordKey
<1>13. CASE RecordingFails(s)
  BY <1>0, <1>13, <1>c, <1>k, IdleCalls DEF RecordingFails, rows, world, Quiet
<1>14. CASE RecordFailure(s)
  BY <1>0, <1>14, <1>c, <1>k, IdleCalls DEF RecordFailure, world, Quiet, RowsTypeOK
<1>15. CASE FinishBatch(s)
  BY <1>0, <1>15, <1>c, <1>k, IdleCalls DEF FinishBatch, rows, world, Quiet
<1>16. CASE AbortBatch(s)
  BY <1>0, <1>16, <1>c, <1>k, IdleCalls DEF AbortBatch, rows, world, Quiet
<1>17. QED
  BY <1>1, <1>2, <1>3, <1>4, <1>5, <1>6, <1>7, <1>8, <1>9, <1>10, <1>11, <1>12,
     <1>13, <1>14, <1>15, <1>16 DEF SubmitterStep, BatchStep

\* A step outside the application moves no call and no decision, claim or voucher.
LEMMA OutsideDigest ==
  ASSUME OutsideStep
  PROVE  Quiet /\ UNCHANGED <<run, rev, sub>>
  BY DEF OutsideStep, SetWrites, Disconnect, Reconnect, LockBooks, rows, Quiet

-----------------------------------------------------------------------------
(* The bytes of every voucher were approved *)

\* A decision, once recorded, stays; a new one comes last.
LEMMA DecisionsGrow ==
  ASSUME TypeOK, NEW p \in Proposals, NEW kind, Decided(p, kind)
  PROVE  /\ \A q \in Proposals : \A n \in DOMAIN decisions[q] :
              n \in DOMAIN decisions'[q] /\ decisions'[q][n] = decisions[q][n]
         /\ Len(decisions[p]) + 1 \in DOMAIN decisions'[p]
         /\ decisions'[p][Len(decisions[p]) + 1].kind = kind
         /\ Len(decisions[p]) + 1 \notin DOMAIN decisions[p]
<1>1. PICK d \in Decision : /\ d.kind = kind
                            /\ decisions' = [decisions EXCEPT ![p] = Append(@, d)]
  BY DEF Decided
<1>2. \A q \in Proposals : decisions[q] \in Seq(Decision)
  BY DEF TypeOK, RowsTypeOK
<1>3. decisions'[p] = Append(decisions[p], d)
  BY <1>1 DEF TypeOK, RowsTypeOK
<1>4. \A q \in Proposals \ {p} : decisions'[q] = decisions[q]
  BY <1>1 DEF TypeOK, RowsTypeOK
<1>5. QED
  BY <1>1, <1>2, <1>3, <1>4

\* So what was approved stays approved.
LEMMA ApprovalsStay ==
  ASSUME TypeOK, NEW q \in Proposals,
         \A n \in DOMAIN decisions[q] :
           n \in DOMAIN decisions'[q] /\ decisions'[q][n] = decisions[q][n]
  PROVE  ApprovedHashes(q) \subseteq ApprovedHashes(q)'
  BY DEF ApprovedHashes

\* The bytes a submitter has passed through the gate are approved, too.
ApprovedInHand ==
  \A s \in Submitters : sub[s].pc \in {"claim", "post"} =>
                          HashOf[sub[s].body] \in ApprovedHashes(sub[s].cur)

\* With no new decision, what was approved stays approved, and so both byte invariants.
LEMMA BytesWithoutDecision ==
  ASSUME TypeOK, PostedBytesApproved, ApprovedInHand, decisions' = decisions
  PROVE  /\ \A q : ApprovedHashes(q)' = ApprovedHashes(q)
         /\ posted' = posted => PostedBytesApproved'
         /\ sub' = sub => ApprovedInHand'
<1>1. \A q : ApprovedHashes(q)' = ApprovedHashes(q)
  BY DEF ApprovedHashes
<1>2. QED
  BY <1>1 DEF PostedBytesApproved, ApprovedInHand

\* A new decision takes no approval away from what was posted or is in hand.
LEMMA BytesWithDecision ==
  ASSUME TypeOK, HandsOK, PostedBytesApproved, ApprovedInHand,
         NEW p \in Proposals, NEW kind, Decided(p, kind), sub' = sub
  PROVE  PostedBytesApproved' /\ ApprovedInHand'
<1>1. \A q \in Proposals : ApprovedHashes(q) \subseteq ApprovedHashes(q)'
  BY DecisionsGrow, ApprovalsStay
<1>2. posted' = posted
  BY DEF Decided
<1>3. \A i \in DOMAIN posted : posted[i].proposal \in Proposals
  <2>1. \A i \in DOMAIN posted : posted[i] \in Voucher
    BY DEF TypeOK, WorldTypeOK
  <2>2. QED
    BY <2>1 DEF Voucher
<1>4. PostedBytesApproved'
  BY <1>1, <1>2, <1>3 DEF PostedBytesApproved
<1>5. ApprovedInHand'
  BY <1>1 DEF ApprovedInHand, HandsOK, InHand
<1>6. QED
  BY <1>4, <1>5

\* What a post adds to the list of vouchers.
LEMMA PostedGrows ==
  ASSUME TypeOK, NEW s \in Submitters, Booked(s)
  PROVE  /\ DOMAIN posted' = DOMAIN posted \cup {Len(posted) + 1}
         /\ \A i \in DOMAIN posted : posted'[i] = posted[i]
         /\ Len(posted) + 1 \notin DOMAIN posted
         /\ posted'[Len(posted) + 1].proposal = sub[s].cur
         /\ posted'[Len(posted) + 1].body = sub[s].body
         /\ posted'[Len(posted) + 1].token = sub[s].token
<1> DEFINE w == VoucherOf(s)
<1>1. w.proposal = sub[s].cur /\ w.body = sub[s].body /\ w.token = sub[s].token
  BY DEF VoucherOf
<1> HIDE DEF w
<1>2. posted \in Seq(Voucher)
  BY DEF TypeOK, WorldTypeOK
<1>3. posted' = Append(posted, w)
  BY DEF Booked, w
<1>4. DOMAIN posted = 1 .. Len(posted) /\ Len(posted) \in Nat
  BY <1>2
<1>5. Len(posted') = Len(posted) + 1 /\ DOMAIN posted' = 1 .. Len(posted) + 1
  BY <1>2, <1>3
<1>6. \A i \in 1 .. Len(posted) : posted'[i] = posted[i]
  BY <1>2, <1>3
<1>7. posted'[Len(posted) + 1] = w
  BY <1>2, <1>3
<1>8. 1 .. Len(posted) + 1 = (1 .. Len(posted)) \cup {Len(posted) + 1}
  BY <1>4
<1>9. QED
  BY <1>1, <1>4, <1>5, <1>6, <1>7, <1>8

\* A submitter takes approved bytes in hand and posts only what it has in hand.
LEMMA BytesSubmitter ==
  ASSUME TypeOK, HandsOK, PostedBytesApproved, ApprovedInHand,
         NEW s \in Submitters, SubmitterStep(s)
  PROVE  PostedBytesApproved' /\ ApprovedInHand'
<1>1. decisions' = decisions /\ \A q : ApprovedHashes(q)' = ApprovedHashes(q)
  BY SubmitterDigest, BytesWithoutDecision DEF Quiet, Picked, Claimed, Booked
<1>2. \A t \in Submitters \ {s} : sub'[t] = sub[t]
  BY SubmitterDigest
<1>3. sub'[s].pc \in {"claim", "post"} =>
        HashOf[sub'[s].body] \in ApprovedHashes(sub'[s].cur)
  BY SubmitterDigest DEF Picked, Claimed, Booked, ApprovedInHand
<1>4. ApprovedInHand'
  BY <1>1, <1>2, <1>3 DEF ApprovedInHand
<1>5. CASE posted' = posted
  BY <1>1, <1>4, <1>5, BytesWithoutDecision
<1>6. CASE Booked(s)
  <2>1. HashOf[sub[s].body] \in ApprovedHashes(sub[s].cur)
    BY <1>6 DEF Booked, ApprovedInHand
  <2>2. PostedBytesApproved'
    BY <1>1, <1>6, <2>1, PostedGrows DEF PostedBytesApproved
  <2>3. QED
    BY <1>4, <2>2
<1>7. QED
  BY <1>5, <1>6, SubmitterDigest DEF Quiet, Picked, Claimed

\* Every step keeps: only approved bytes are in hand past the gate, or posted.
LEMMA BytesNext ==
  /\ TypeOK /\ HandsOK /\ PostedBytesApproved /\ ApprovedInHand /\ [Next]_vars
  => PostedBytesApproved' /\ ApprovedInHand'
<1> SUFFICES ASSUME TypeOK, HandsOK, PostedBytesApproved, ApprovedInHand,
                    [Next]_vars
             PROVE  PostedBytesApproved' /\ ApprovedInHand'
  OBVIOUS
<1>1. ASSUME NEW r \in Runs, CloseRunStep(r)
      PROVE  PostedBytesApproved' /\ ApprovedInHand'
  <2>1. sub' = sub
    BY <1>1, CloseRunDigest
  <2>2. CASE Decided(run[r].cur, "approve")
    BY <2>1, <2>2, BytesWithDecision DEF Decided
  <2>3. CASE UNCHANGED <<decisions, posted>>
    BY <2>1, <2>3, BytesWithoutDecision
  <2>4. QED
    BY <1>1, <2>2, <2>3, CloseRunDigest DEF Quiet, Applied
<1>2. ASSUME NEW v \in Reviewers, ReviewerStep(v)
      PROVE  PostedBytesApproved' /\ ApprovedInHand'
  <2>1. sub' = sub
    BY <1>2, ReviewerDigest
  <2>2. CASE Decided(rev[v].cur, rev[v].kind)
    BY <2>1, <2>2, BytesWithDecision DEF Decided
  <2>3. CASE UNCHANGED <<decisions, posted>>
    BY <2>1, <2>3, BytesWithoutDecision
  <2>4. QED
    BY <1>2, <2>2, <2>3, ReviewerDigest DEF Quiet, Applied
<1>3. ASSUME NEW s \in Submitters, SubmitterStep(s)
      PROVE  PostedBytesApproved' /\ ApprovedInHand'
  BY <1>3, BytesSubmitter
<1>4. CASE OutsideStep
  BY <1>4, OutsideDigest, BytesWithoutDecision DEF Quiet
<1>5. CASE UNCHANGED vars
  BY <1>5, BytesWithoutDecision DEF vars, rows, world
<1>6. QED
  BY <1>1, <1>2, <1>3, <1>4, <1>5 DEF Next

\* Condition 5 of the write gate holds of every voucher there is: its bytes were
\* approved by a decision on its own proposal.
THEOREM ApprovedBytesOnly == Spec => []PostedBytesApproved
<1> DEFINE Inv == TypeOK /\ HandsOK /\ PostedBytesApproved /\ ApprovedInHand
<1>1. Init => Inv
  <2> SUFFICES ASSUME Init PROVE Inv
    OBVIOUS
  <2>1. PostedBytesApproved /\ ApprovedInHand
    BY IdleCalls DEF Init, PostedBytesApproved, ApprovedInHand
  <2>2. QED
    BY <2>1, TypedInit
<1>2. Inv /\ [Next]_vars => Inv'
  BY TypedNext, BytesNext DEF TypedStep
<1>3. QED
  BY <1>1, <1>2, PTL DEF Spec

-----------------------------------------------------------------------------
(* One approval, at most one voucher *)

\* Decision n of proposal p is in the hands of a caller about to apply it, of the
\* proposal's row, of a submitter about to post, or spent on a voucher.
RunHolds(r, p, n) ==
  run[r].pc = "approving" /\ run[r].cur = p /\ run[r].token = n
ReviewHolds(v, p, n) ==
  /\ rev[v].pc = "decided" /\ rev[v].kind \in Approving
  /\ rev[v].cur = p /\ rev[v].token = n
RowHolds(p, n) == status[p] = "approved_shadow" /\ token[p] = n
SubmitHolds(s, p, n) ==
  sub[s].pc = "post" /\ sub[s].cur = p /\ sub[s].token = n
Spent(p, n) ==
  \E i \in DOMAIN posted : posted[i].proposal = p /\ posted[i].token = n

Held(p, n) ==
  \/ \E r \in Runs : RunHolds(r, p, n)
  \/ \E v \in Reviewers : ReviewHolds(v, p, n)
  \/ RowHolds(p, n)
  \/ \E s \in Submitters : SubmitHolds(s, p, n)

\* It is in one pair of hands at a time, and in none once it is spent.
OneHolder(p, n) ==
  /\ \A r \in Runs : RunHolds(r, p, n) =>
       /\ \A q \in Runs : RunHolds(q, p, n) => q = r
       /\ \A v \in Reviewers : ~ReviewHolds(v, p, n)
       /\ ~RowHolds(p, n)
       /\ \A s \in Submitters : ~SubmitHolds(s, p, n)
  /\ \A v \in Reviewers : ReviewHolds(v, p, n) =>
       /\ \A w \in Reviewers : ReviewHolds(w, p, n) => w = v
       /\ ~RowHolds(p, n)
       /\ \A s \in Submitters : ~SubmitHolds(s, p, n)
  /\ RowHolds(p, n) => \A s \in Submitters : ~SubmitHolds(s, p, n)
  /\ \A s, t \in Submitters :
       SubmitHolds(s, p, n) /\ SubmitHolds(t, p, n) => s = t
  /\ Held(p, n) => ~Spent(p, n)

Approves(p, n) == n \in DOMAIN decisions[p] /\ decisions[p][n].kind \in Approving

HoldersOK ==
  \A p \in Proposals, n \in Nat :
    OneHolder(p, n) /\ (Held(p, n) \/ Spent(p, n) => Approves(p, n))
\* Nobody gets hold of anything.
LEMMA NobodyTakes ==
  ASSUME HoldersOK, UNCHANGED <<decisions, posted>>,
         \A p \in Proposals, n \in Nat :
           /\ \A r \in Runs : RunHolds(r, p, n)' => RunHolds(r, p, n)
           /\ \A v \in Reviewers : ReviewHolds(v, p, n)' => ReviewHolds(v, p, n)
           /\ RowHolds(p, n)' => RowHolds(p, n)
           /\ \A s \in Submitters : SubmitHolds(s, p, n)' => SubmitHolds(s, p, n)
  PROVE  HoldersOK'
<1> SUFFICES ASSUME NEW p \in Proposals, NEW n \in Nat
             PROVE  (OneHolder(p, n) /\ (Held(p, n) \/ Spent(p, n) => Approves(p, n)))'
  BY DEF HoldersOK
<1>1. OneHolder(p, n) /\ (Held(p, n) \/ Spent(p, n) => Approves(p, n))
  BY DEF HoldersOK
<1>2. Spent(p, n)' <=> Spent(p, n)
  BY DEF Spent
<1>3. Approves(p, n)' <=> Approves(p, n)
  BY DEF Approves
<1>4. Held(p, n)' => Held(p, n)
  BY DEF Held
<1>5. QED
  BY <1>1, <1>2, <1>3, <1>4 DEF OneHolder

\* The holders of close runs, reviewers and submitters when only one of them
\* moves, and of rows in a quiet step.
LEMMA RunHoldersKept ==
  ASSUME NEW r, \A q \in Runs \ {r} : run'[q] = run[q]
  PROVE  \A q \in Runs \ {r} : \A p, n : RunHolds(q, p, n)' <=> RunHolds(q, p, n)
  BY DEF RunHolds

\* Reviewer calls that do not move hold the decisions they held.
LEMMA ReviewHoldersKept ==
  ASSUME NEW v, \A w \in Reviewers \ {v} : rev'[w] = rev[w]
  PROVE  \A w \in Reviewers \ {v} : \A p, n : ReviewHolds(w, p, n)' <=> ReviewHolds(w, p, n)
  BY DEF ReviewHolds

\* Submit calls that do not move hold the decisions they held.
LEMMA SubmitHoldersKept ==
  ASSUME NEW s, \A t \in Submitters \ {s} : sub'[t] = sub[t]
  PROVE  \A t \in Submitters \ {s} : \A p, n : SubmitHolds(t, p, n)' <=> SubmitHolds(t, p, n)
  BY DEF SubmitHolds

\* No row comes to hold a decision in a quiet step.
LEMMA RowHoldersKept ==
  ASSUME Quiet
  PROVE  \A p \in Proposals : \A n : RowHolds(p, n)' => RowHolds(p, n)
  BY DEF Quiet, RowHolds

\* A close run's step leaves at most one holder of each decision.
LEMMA HoldersCloseRun ==
  ASSUME TypeOK, HandsOK, HoldersOK, NEW r \in Runs, CloseRunStep(r)
  PROVE  HoldersOK'
<1>1. /\ \A q \in Runs \ {r} : \A p, n : RunHolds(q, p, n)' <=> RunHolds(q, p, n)
      /\ \A v, p, n : ReviewHolds(v, p, n)' <=> ReviewHolds(v, p, n)
      /\ \A s, p, n : SubmitHolds(s, p, n)' <=> SubmitHolds(s, p, n)
  BY CloseRunDigest, RunHoldersKept DEF ReviewHolds, SubmitHolds
<1>2. CASE Quiet /\ run'[r].pc # "approving"
  <2>1. \A p, n : ~RunHolds(r, p, n)'
    BY <1>2 DEF RunHolds
  <2>2. QED
    BY <1>1, <1>2, <2>1, RowHoldersKept, NobodyTakes DEF Quiet
<1>3. CASE /\ Decided(run[r].cur, "approve")
           /\ run'[r].pc = "approving"
           /\ run'[r].cur = run[r].cur
           /\ run'[r].token = Len(decisions[run[r].cur]) + 1
  <2>0. run[r].cur \in Proposals /\ Len(decisions[run[r].cur]) + 1 \in Nat
    BY <1>3 DEF Decided, TypeOK, RowsTypeOK
  <2>1. PICK p0 \in Proposals, n0 \in Nat :
          p0 = run[r].cur /\ n0 = Len(decisions[run[r].cur]) + 1
    BY <2>0
  <2>2. /\ \A q \in Proposals, n \in Nat : Approves(q, n) => Approves(q, n)'
        /\ Approves(p0, n0)' /\ ~Approves(p0, n0)
    BY <1>3, <2>1, DecisionsGrow DEF Approves, Approving
  <2>3. \A p, n : RunHolds(r, p, n)' <=> p = p0 /\ n = n0
    BY <1>3, <2>1 DEF RunHolds
  <2>4. \A p, n : /\ Spent(p, n)' <=> Spent(p, n)
                  /\ RowHolds(p, n)' <=> RowHolds(p, n)
    BY <1>3 DEF Decided, Spent, RowHolds
  <2>5. ASSUME NEW p \in Proposals, NEW n \in Nat
        PROVE  (OneHolder(p, n) /\ (Held(p, n) \/ Spent(p, n) => Approves(p, n)))'
    <3>1. OneHolder(p, n) /\ (Held(p, n) \/ Spent(p, n) => Approves(p, n))
      BY DEF HoldersOK
    <3>2. CASE p = p0 /\ n = n0
      BY <1>1, <2>2, <2>3, <2>4, <3>1, <3>2 DEF OneHolder, Held
    <3>3. CASE ~(p = p0 /\ n = n0)
      BY <1>1, <2>2, <2>3, <2>4, <3>1, <3>3 DEF OneHolder, Held
    <3>4. QED
      BY <3>2, <3>3
  <2>6. QED
    BY <2>5 DEF HoldersOK
<1>4. CASE /\ run[r].pc = "approving"
           /\ Applied(run[r].cur, run[r].token)
           /\ run'[r].pc # "approving"
  <2>0. run[r].cur \in Proposals /\ run[r].token \in Nat
    BY <1>4 DEF Applied, TypeOK, RunRow
  <2>6. PICK p0 \in Proposals, n0 \in Nat :
          p0 = run[r].cur /\ n0 = run[r].token
    BY <2>0
  <2>1. RunHolds(r, p0, n0) /\ \A p, n : ~RunHolds(r, p, n)'
    BY <1>4, <2>6 DEF RunHolds
  <2>2. \A p \in Proposals : \A n : RowHolds(p, n)' =>
          (p = p0 /\ n = n0) \/ (p # p0 /\ RowHolds(p, n))
    BY <1>4, <2>6 DEF Applied, RowHolds, TypeOK, RowsTypeOK
  <2>3. \A p, n : /\ Spent(p, n)' <=> Spent(p, n)
                  /\ Approves(p, n)' <=> Approves(p, n)
    BY <1>4 DEF Applied, Spent, Approves
  <2>4. ASSUME NEW p \in Proposals, NEW n \in Nat
        PROVE  (OneHolder(p, n) /\ (Held(p, n) \/ Spent(p, n) => Approves(p, n)))'
    <3>1. OneHolder(p, n) /\ (Held(p, n) \/ Spent(p, n) => Approves(p, n))
      BY DEF HoldersOK
    <3>2. CASE p = p0 /\ n = n0
      BY <1>1, <2>1, <2>2, <2>3, <3>1, <3>2 DEF OneHolder, Held
    <3>3. CASE ~(p = p0 /\ n = n0)
      BY <1>1, <2>1, <2>2, <2>3, <3>1, <3>3 DEF OneHolder, Held
    <3>4. QED
      BY <3>2, <3>3
  <2>5. QED
    BY <2>4 DEF HoldersOK
<1>5. QED
  BY <1>2, <1>3, <1>4, CloseRunDigest


\* A reviewer's step leaves at most one holder of each decision.
LEMMA HoldersReviewer ==
  ASSUME TypeOK, HandsOK, HoldersOK, NEW v \in Reviewers, ReviewerStep(v)
  PROVE  HoldersOK'
<1>1. /\ \A w \in Reviewers \ {v} : \A p, n :
           ReviewHolds(w, p, n)' <=> ReviewHolds(w, p, n)
      /\ \A r, p, n : RunHolds(r, p, n)' <=> RunHolds(r, p, n)
      /\ \A s, p, n : SubmitHolds(s, p, n)' <=> SubmitHolds(s, p, n)
  BY ReviewerDigest, ReviewHoldersKept DEF RunHolds, SubmitHolds
<1>2. CASE Quiet /\ rev'[v].pc # "decided"
  <2>1. \A p, n : ~ReviewHolds(v, p, n)'
    BY <1>2 DEF ReviewHolds
  <2>2. QED
    BY <1>1, <1>2, <2>1, RowHoldersKept, NobodyTakes DEF Quiet
<1>3. CASE /\ Decided(rev[v].cur, rev[v].kind)
           /\ rev'[v].cur = rev[v].cur /\ rev'[v].kind = rev[v].kind
           /\ rev'[v].token = Len(decisions[rev[v].cur]) + 1
  <2>0. rev[v].cur \in Proposals /\ Len(decisions[rev[v].cur]) + 1 \in Nat
    BY <1>3 DEF Decided, TypeOK, RowsTypeOK
  <2>1. PICK p0 \in Proposals, n0 \in Nat :
          p0 = rev[v].cur /\ n0 = Len(decisions[rev[v].cur]) + 1
    BY <2>0
  <2>2. /\ \A q \in Proposals, n \in Nat : Approves(q, n) => Approves(q, n)'
        /\ rev[v].kind \in Approving => Approves(p0, n0)'
        /\ ~Approves(p0, n0)
    BY <1>3, <2>1, DecisionsGrow DEF Approves, Approving
  <2>3. \A p, n : ReviewHolds(v, p, n)' =>
                    p = p0 /\ n = n0 /\ rev[v].kind \in Approving
    BY <1>3, <2>1 DEF ReviewHolds
  <2>4. \A p, n : /\ Spent(p, n)' <=> Spent(p, n)
                  /\ RowHolds(p, n)' <=> RowHolds(p, n)
    BY <1>3 DEF Decided, Spent, RowHolds
  <2>5. ASSUME NEW p \in Proposals, NEW n \in Nat
        PROVE  (OneHolder(p, n) /\ (Held(p, n) \/ Spent(p, n) => Approves(p, n)))'
    <3>1. OneHolder(p, n) /\ (Held(p, n) \/ Spent(p, n) => Approves(p, n))
      BY DEF HoldersOK
    <3>2. CASE p = p0 /\ n = n0
      BY <1>1, <2>2, <2>3, <2>4, <3>1, <3>2 DEF OneHolder, Held
    <3>3. CASE ~(p = p0 /\ n = n0)
      BY <1>1, <2>2, <2>3, <2>4, <3>1, <3>3 DEF OneHolder, Held
    <3>4. QED
      BY <3>2, <3>3
  <2>6. QED
    BY <2>5 DEF HoldersOK
<1>4. CASE /\ rev[v].pc = "decided" /\ rev[v].kind \in Approving
           /\ Applied(rev[v].cur, rev[v].token)
           /\ rev'[v].pc # "decided"
  <2>0. rev[v].cur \in Proposals /\ rev[v].token \in Nat
    BY <1>4 DEF Applied, TypeOK, ReviewCall
  <2>1. PICK p0 \in Proposals, n0 \in Nat :
          p0 = rev[v].cur /\ n0 = rev[v].token
    BY <2>0
  <2>2. ReviewHolds(v, p0, n0) /\ \A p, n : ~ReviewHolds(v, p, n)'
    BY <1>4, <2>1 DEF ReviewHolds
  <2>3. \A p \in Proposals : \A n : RowHolds(p, n)' =>
          (p = p0 /\ n = n0) \/ (p # p0 /\ RowHolds(p, n))
    BY <1>4, <2>1 DEF Applied, RowHolds, TypeOK, RowsTypeOK
  <2>4. \A p, n : /\ Spent(p, n)' <=> Spent(p, n)
                  /\ Approves(p, n)' <=> Approves(p, n)
    BY <1>4 DEF Applied, Spent, Approves
  <2>5. ASSUME NEW p \in Proposals, NEW n \in Nat
        PROVE  (OneHolder(p, n) /\ (Held(p, n) \/ Spent(p, n) => Approves(p, n)))'
    <3>1. OneHolder(p, n) /\ (Held(p, n) \/ Spent(p, n) => Approves(p, n))
      BY DEF HoldersOK
    <3>2. CASE p = p0 /\ n = n0
      BY <1>1, <2>2, <2>3, <2>4, <3>1, <3>2 DEF OneHolder, Held
    <3>3. CASE ~(p = p0 /\ n = n0)
      BY <1>1, <2>2, <2>3, <2>4, <3>1, <3>3 DEF OneHolder, Held
    <3>4. QED
      BY <3>2, <3>3
  <2>6. QED
    BY <2>5 DEF HoldersOK
<1>5. QED
  BY <1>2, <1>3, <1>4, ReviewerDigest

\* A submitter's step leaves at most one holder of each decision.
LEMMA HoldersSubmitter ==
  ASSUME TypeOK, HandsOK, HoldersOK, NEW s \in Submitters, SubmitterStep(s)
  PROVE  HoldersOK'
<1>1. /\ \A t \in Submitters \ {s} : \A p, n :
           SubmitHolds(t, p, n)' <=> SubmitHolds(t, p, n)
      /\ \A r, p, n : RunHolds(r, p, n)' <=> RunHolds(r, p, n)
      /\ \A v, p, n : ReviewHolds(v, p, n)' <=> ReviewHolds(v, p, n)
  BY SubmitterDigest, SubmitHoldersKept DEF RunHolds, ReviewHolds
<1>2. CASE (Quiet /\ sub'[s].pc \notin {"claim", "post"}) \/ Picked(s)
  <2>1. /\ \A p, n : ~SubmitHolds(s, p, n)'
        /\ Quiet
    BY <1>2 DEF SubmitHolds, Picked, Quiet
  <2>2. QED
    BY <1>1, <2>1, RowHoldersKept, NobodyTakes DEF Quiet
<1>3. CASE Claimed(s)
  <2>0. sub[s].cur \in Proposals /\ token[sub[s].cur] \in Nat
    BY <1>3 DEF Claimed, TypeOK, RowsTypeOK
  <2>1. PICK p0 \in Proposals, n0 \in Nat :
          p0 = sub[s].cur /\ n0 = token[p0]
    BY <2>0
  <2>2. /\ RowHolds(p0, n0)
        /\ \A p, n : SubmitHolds(s, p, n)' => p = p0 /\ n = n0
    BY <1>3, <2>1 DEF Claimed, RowHolds, SubmitHolds
  <2>3. \A p \in Proposals : \A n : RowHolds(p, n)' => p # p0 /\ RowHolds(p, n)
    BY <1>3, <2>1 DEF Claimed, RowHolds, TypeOK, RowsTypeOK
  <2>4. \A p, n : /\ Spent(p, n)' <=> Spent(p, n)
                  /\ Approves(p, n)' <=> Approves(p, n)
    BY <1>3 DEF Claimed, Spent, Approves
  <2>5. ASSUME NEW p \in Proposals, NEW n \in Nat
        PROVE  (OneHolder(p, n) /\ (Held(p, n) \/ Spent(p, n) => Approves(p, n)))'
    <3>1. OneHolder(p, n) /\ (Held(p, n) \/ Spent(p, n) => Approves(p, n))
      BY DEF HoldersOK
    <3>2. CASE p = p0 /\ n = n0
      BY <1>1, <2>2, <2>3, <2>4, <3>1, <3>2 DEF OneHolder, Held
    <3>3. CASE ~(p = p0 /\ n = n0)
      BY <1>1, <2>2, <2>3, <2>4, <3>1, <3>3 DEF OneHolder, Held
    <3>4. QED
      BY <3>2, <3>3
  <2>6. QED
    BY <2>5 DEF HoldersOK
<1>4. CASE Booked(s)
  <2>0. sub[s].cur \in Proposals /\ sub[s].token \in Nat
    BY <1>4 DEF Booked, TypeOK, SubmitCall
  <2>1. PICK p0 \in Proposals, n0 \in Nat :
          p0 = sub[s].cur /\ n0 = sub[s].token
    BY <2>0
  <2>2. SubmitHolds(s, p0, n0) /\ \A p, n : ~SubmitHolds(s, p, n)'
    BY <1>4, <2>1 DEF Booked, SubmitHolds
  <2>3. \A p, n : Spent(p, n)' => Spent(p, n) \/ (p = p0 /\ n = n0)
    BY <1>4, <2>1, PostedGrows DEF Spent
  <2>4. \A p, n : /\ RowHolds(p, n)' <=> RowHolds(p, n)
                  /\ Approves(p, n)' <=> Approves(p, n)
    BY <1>4 DEF Booked, RowHolds, Approves
  <2>5. ASSUME NEW p \in Proposals, NEW n \in Nat
        PROVE  (OneHolder(p, n) /\ (Held(p, n) \/ Spent(p, n) => Approves(p, n)))'
    <3>1. OneHolder(p, n) /\ (Held(p, n) \/ Spent(p, n) => Approves(p, n))
      BY DEF HoldersOK
    <3>2. CASE p = p0 /\ n = n0
      BY <1>1, <2>2, <2>3, <2>4, <3>1, <3>2 DEF OneHolder, Held
    <3>3. CASE ~(p = p0 /\ n = n0)
      BY <1>1, <2>2, <2>3, <2>4, <3>1, <3>3 DEF OneHolder, Held
    <3>4. QED
      BY <3>2, <3>3
  <2>6. QED
    BY <2>5 DEF HoldersOK
<1>5. QED
  BY <1>2, <1>3, <1>4, SubmitterDigest

\* No decision is spent on two vouchers.
SpentOnce ==
  \A i, j \in DOMAIN posted :
    posted[i].proposal = posted[j].proposal /\ posted[i].token = posted[j].token
    => i = j

\* Every step keeps: one holder of each decision, and none of a decision spent.
LEMMA SpentNext ==
  ASSUME TypeOK, HandsOK, HoldersOK, SpentOnce, [Next]_vars
  PROVE  HoldersOK' /\ SpentOnce'
<1>1. ASSUME UNCHANGED posted
      PROVE  SpentOnce'
  BY <1>1 DEF SpentOnce
<1>2. ASSUME NEW r \in Runs, CloseRunStep(r)
      PROVE  HoldersOK' /\ SpentOnce'
  BY <1>1, <1>2, HoldersCloseRun, CloseRunDigest DEF Quiet, Decided, Applied
<1>3. ASSUME NEW v \in Reviewers, ReviewerStep(v)
      PROVE  HoldersOK' /\ SpentOnce'
  BY <1>1, <1>3, HoldersReviewer, ReviewerDigest DEF Quiet, Decided, Applied
<1>4. ASSUME NEW s \in Submitters, SubmitterStep(s)
      PROVE  HoldersOK' /\ SpentOnce'
  <2>1. CASE Booked(s)
    <3>1. SubmitHolds(s, sub[s].cur, sub[s].token) /\ sub[s].cur \in Proposals
      BY <2>1 DEF Booked, SubmitHolds
    <3>2. ~Spent(sub[s].cur, sub[s].token)
      BY <3>1 DEF HoldersOK, OneHolder, Held, TypeOK, SubmitCall
    <3>3. QED
      BY <1>4, <2>1, <3>2, PostedGrows, HoldersSubmitter DEF SpentOnce, Spent
  <2>2. QED
    BY <1>1, <1>4, <2>1, HoldersSubmitter, SubmitterDigest
       DEF Quiet, Picked, Claimed
<1>5. CASE OutsideStep
  <2>1. Quiet /\ UNCHANGED <<run, rev, sub>>
    BY <1>5, OutsideDigest
  <2>2. QED
    BY <1>1, <2>1, RowHoldersKept, NobodyTakes
       DEF Quiet, RunHolds, ReviewHolds, SubmitHolds
<1>6. CASE UNCHANGED vars
  <2>1. Quiet /\ UNCHANGED <<run, rev, sub>>
    BY <1>6 DEF vars, rows, world, Quiet
  <2>2. QED
    BY <1>1, <2>1, RowHoldersKept, NobodyTakes
       DEF Quiet, RunHolds, ReviewHolds, SubmitHolds
<1>7. QED
  BY <1>2, <1>3, <1>4, <1>5, <1>6 DEF Next

\* claimProposalForSubmission keeps its promise for any number of submitters,
\* reviewers and runs: every voucher spends an approving decision of its own.
THEOREM OneApprovalOneVoucher == Spec => []ApprovalSpentOnce
<1> DEFINE Inv == TypeOK /\ HandsOK /\ HoldersOK /\ SpentOnce
<1>1. Init => Inv
  <2> SUFFICES ASSUME Init PROVE Inv
    OBVIOUS
  <2>1. HoldersOK /\ SpentOnce
    BY IdleCalls DEF Init, HoldersOK, OneHolder, Held, RunHolds, ReviewHolds,
                     RowHolds, SubmitHolds, Spent, SpentOnce
  <2>2. QED
    BY <2>1, TypedInit
<1>2. Inv /\ [Next]_vars => Inv'
  BY TypedNext, SpentNext DEF TypedStep
<1>3. Inv => ApprovalSpentOnce
  <2> SUFFICES ASSUME Inv, NEW i \in DOMAIN posted
               PROVE  Approves(posted[i].proposal, posted[i].token)
    BY DEF ApprovalSpentOnce, SpentOnce, Approves
  <2>1. posted[i] \in Voucher
    BY DEF TypeOK, WorldTypeOK
  <2>2. posted[i].proposal \in Proposals /\ posted[i].token \in Nat
    BY <2>1 DEF Voucher
  <2>3. QED
    BY <2>2 DEF HoldersOK, Spent
<1>4. QED
  BY <1>1, <1>2, <1>3, PTL DEF Spec

-----------------------------------------------------------------------------
(* The contract is kept *)

\* A function on 1..n is a sequence of length n.
LEMMA CellsAreSeq ==
  ASSUME NEW S, NEW n \in Nat, NEW f \in [1 .. n -> S]
  PROVE  f \in Seq(S) /\ Len(f) = n
<1>1. f \in Seq(S)
  OBVIOUS
<1>2. DOMAIN f = 1 .. Len(f) /\ Len(f) \in Nat /\ DOMAIN f = 1 .. n
  BY <1>1
<1>3. QED
  BY <1>1, <1>2

\* A sequence that keeps the cells of another and has one more is its Append.
LEMMA AppendByCells ==
  ASSUME NEW S, NEW s \in Seq(S), NEW t \in Seq(S), NEW x \in S,
         DOMAIN t = DOMAIN s \cup {Len(s) + 1},
         \A i \in DOMAIN s : t[i] = s[i], t[Len(s) + 1] = x
  PROVE  t = Append(s, x)
<1>1. Append(s, x) \in Seq(S) /\ Len(Append(s, x)) = Len(s) + 1
  OBVIOUS
<1>2. DOMAIN s = 1 .. Len(s) /\ DOMAIN t = 1 .. Len(t)
  OBVIOUS
<1>3. DOMAIN s \cup {Len(s) + 1} = 1 .. Len(s) + 1
  BY <1>2
<1>4. Len(t) = Len(s) + 1
  BY <1>2, <1>3
<1>5. \A i \in 1 .. Len(t) : t[i] = Append(s, x)[i]
  BY <1>2, <1>4
<1>6. QED
  BY <1>1, <1>4, <1>5, SeqEqual

\* What a decision grants.
Grant(d) == IF d.kind \in Approving THEN {d.hash} \ {NoHash} ELSE {}

\* The contract's grants, read off the decisions proposal by proposal, and their types.
LEMMA GrantsByDecision ==
  ASSUME TypeOK
  PROVE  /\ Grants = [p \in Proposals |->
                        [n \in DOMAIN decisions[p] |-> Grant(decisions[p][n])]]
         /\ \A d \in Decision : Grant(d) \in {{}} \cup {{c} : c \in Hashes}
         /\ \A p \in Proposals : /\ Grants[p] \in Seq(SUBSET Hashes)
                                 /\ Len(Grants[p]) = Len(decisions[p])
                                 /\ DOMAIN Grants[p] = DOMAIN decisions[p]
<1>1. Grants = [p \in Proposals |->
                  [n \in DOMAIN decisions[p] |-> Grant(decisions[p][n])]]
  BY DEF Grants, Grant
<1>2. \A d \in Decision : Grant(d) \in {{}} \cup {{c} : c \in Hashes}
  BY DEF Grant, Decision
<1>3. ASSUME NEW p \in Proposals
      PROVE  /\ Grants[p] \in Seq(SUBSET Hashes)
             /\ Len(Grants[p]) = Len(decisions[p])
             /\ DOMAIN Grants[p] = DOMAIN decisions[p]
  <2>1. /\ DOMAIN decisions[p] = 1 .. Len(decisions[p])
        /\ Len(decisions[p]) \in Nat
        /\ \A n \in DOMAIN decisions[p] : decisions[p][n] \in Decision
    BY DEF TypeOK, RowsTypeOK
  <2>2. \A n \in DOMAIN decisions[p] : Grant(decisions[p][n]) \in SUBSET Hashes
    BY <1>2, <2>1
  <2>3. Grants[p] = [n \in DOMAIN decisions[p] |-> Grant(decisions[p][n])]
    BY <1>1
  <2>4. Grants[p] \in [1 .. Len(decisions[p]) -> SUBSET Hashes]
    BY <2>1, <2>2, <2>3
  <2>5. QED
    BY <2>1, <2>4, CellsAreSeq
<1>4. QED
  BY <1>1, <1>2, <1>3

\* A decision is a Decide of the contract.
LEMMA DecidedKeeps ==
  ASSUME TypeOK, TypeOK', NEW p \in Proposals, NEW kind, Decided(p, kind)
  PROVE  Contract!ContractNext
<1>1. PICK d \in Decision : /\ d.kind = kind
                            /\ decisions' = [decisions EXCEPT ![p] = Append(@, d)]
  BY DEF Decided
<1>2. /\ \A q \in Proposals : decisions[q] \in Seq(Decision)
      /\ \A q \in Proposals \ {p} : decisions'[q] = decisions[q]
      /\ decisions'[p] = Append(decisions[p], d)
  BY <1>1 DEF TypeOK, RowsTypeOK
<1>3. \A q \in Proposals :
        Grants[q] = [n \in DOMAIN decisions[q] |-> Grant(decisions[q][n])]
  BY GrantsByDecision
<1>4. Grants' = [q \in Proposals |->
                   [n \in DOMAIN decisions'[q] |-> Grant(decisions'[q][n])]]
  BY DEF Grants, Grant
<1>5. \A q \in Proposals \ {p} : Grants'[q] = Grants[q]
  BY <1>2, <1>3, <1>4
<1>6. Grants'[p] = Append(Grants[p], Grant(d))
  <2>1. Grants'[p] = [n \in DOMAIN decisions'[p] |-> Grant(decisions'[p][n])]
    BY <1>4
  <2>2. /\ DOMAIN decisions'[p] = DOMAIN decisions[p] \cup {Len(decisions[p]) + 1}
        /\ \A n \in DOMAIN decisions[p] : decisions'[p][n] = decisions[p][n]
        /\ decisions'[p][Len(decisions[p]) + 1] = d
    <3>1. /\ DOMAIN decisions[p] = 1 .. Len(decisions[p])
          /\ Len(decisions[p]) \in Nat
      BY <1>2
    <3>2. DOMAIN decisions'[p] = 1 .. Len(decisions[p]) + 1
      BY <1>2
    <3>3. 1 .. Len(decisions[p]) + 1
            = (1 .. Len(decisions[p])) \cup {Len(decisions[p]) + 1}
      BY <3>1
    <3>4. QED
      BY <1>2, <3>1, <3>2, <3>3
  <2>3. /\ DOMAIN Grants'[p] = DOMAIN Grants[p] \cup {Len(Grants[p]) + 1}
        /\ \A n \in DOMAIN Grants[p] : Grants'[p][n] = Grants[p][n]
        /\ Grants'[p][Len(Grants[p]) + 1] = Grant(d)
    BY <1>3, <2>1, <2>2, GrantsByDecision
  <2>4. Grants'[p] \in Seq(SUBSET Hashes)
    <3>1. /\ DOMAIN decisions'[p] = 1 .. Len(decisions'[p])
          /\ Len(decisions'[p]) \in Nat
          /\ \A n \in DOMAIN decisions'[p] : decisions'[p][n] \in Decision
      BY DEF TypeOK, RowsTypeOK
    <3>2. \A n \in DOMAIN decisions'[p] : Grant(decisions'[p][n]) \in SUBSET Hashes
      BY <3>1, GrantsByDecision
    <3>3. Grants'[p] \in [1 .. Len(decisions'[p]) -> SUBSET Hashes]
      BY <2>1, <3>1, <3>2
    <3>4. QED
      BY <3>1, <3>3, CellsAreSeq
  <2>5. Grant(d) \in SUBSET Hashes
    BY GrantsByDecision
  <2>6. QED
    BY <2>3, <2>4, <2>5, GrantsByDecision, AppendByCells
<1>7. Grants' = [Grants EXCEPT ![p] = Append(@, Grant(d))]
  BY <1>4, <1>5, <1>6, GrantsByDecision
<1>8. Ledger' = Ledger
  BY DEF Decided, Ledger
<1>9. Grant(d) \in {{}} \cup {{c} : c \in Hashes}
  BY GrantsByDecision
<1>10. QED
  BY <1>7, <1>8, <1>9 DEF Contract!ContractNext, Contract!Decide

\* A post is a Book of the contract.
LEMMA BookedKeeps ==
  ASSUME TypeOK, TypeOK', HandsOK, HoldersOK, ApprovedInHand,
         NEW s \in Submitters, Booked(s)
  PROVE  Contract!ContractNext
<1>1. PICK p \in Proposals, n \in Nat, b \in Payloads :
        p = sub[s].cur /\ n = sub[s].token /\ b = sub[s].body
  BY DEF Booked, TypeOK, SubmitCall, HandsOK, InHand
<1>2. SubmitHolds(s, p, n)
  BY <1>1 DEF SubmitHolds, Booked
<1>3. Approves(p, n) /\ ~Spent(p, n)
  BY <1>2 DEF HoldersOK, OneHolder, Held
<1>4. HashOf[b] \in ApprovedHashes(p)
  BY <1>1 DEF ApprovedInHand, Booked
<1>5. DOMAIN Grants[p] = DOMAIN decisions[p] /\ n \in DOMAIN Grants[p]
  BY <1>3, GrantsByDecision DEF Approves
<1>6. Contract!Unspent(p, n)
  BY <1>3 DEF Contract!Unspent, Spent, Ledger
<1>7. \E d \in DOMAIN Grants[p] : HashOf[b] \in Grants[p][d]
  BY <1>4, <1>5 DEF ApprovedHashes, Grants
<1>8. Ledger' = Append(Ledger, [subject |-> p, grant |-> n, content |-> HashOf[b]])
  <2> DEFINE w == [subject |-> p, grant |-> n, content |-> HashOf[b]]
             L(v) == [subject |-> v.proposal, grant |-> v.token,
                      content |-> HashOf[v.body]]
             W == [subject : Proposals, grant : Nat, content : Hashes]
  <2>1. /\ posted \in Seq(Voucher) /\ posted' \in Seq(Voucher)
        /\ \A v \in Voucher : L(v) \in W
        /\ w \in W
    BY RowsAssumption DEF TypeOK, WorldTypeOK, Voucher
  <2>2. /\ Ledger = [i \in DOMAIN posted |-> L(posted[i])]
        /\ Ledger' = [i \in DOMAIN posted' |-> L(posted'[i])]
    BY DEF Ledger
  <2>3. L(posted'[Len(posted) + 1]) = w
    BY <1>1, PostedGrows
  <2> HIDE DEF w, L, W
  <2>4. /\ Ledger \in [1 .. Len(posted) -> W]
        /\ Ledger' \in [1 .. Len(posted') -> W]
        /\ Len(posted) \in Nat /\ Len(posted') \in Nat
    BY <2>1, <2>2
  <2>5. Ledger \in Seq(W) /\ Ledger' \in Seq(W) /\ Len(Ledger) = Len(posted)
    BY <2>4, CellsAreSeq
  <2>6. /\ DOMAIN Ledger' = DOMAIN Ledger \cup {Len(Ledger) + 1}
        /\ \A i \in DOMAIN Ledger : Ledger'[i] = Ledger[i]
        /\ Ledger'[Len(Ledger) + 1] = w
    BY <2>2, <2>3, <2>5, PostedGrows
  <2>7. Ledger' = Append(Ledger, w)
    BY <2>1, <2>5, <2>6, AppendByCells
  <2>8. QED
    BY <2>7 DEF w
<1>9. Grants' = Grants
  BY DEF Booked, Grants
<1>10. HashOf[b] \in Hashes
  BY DEF Hashes
<1>11. QED
  BY <1>5, <1>6, <1>7, <1>8, <1>9, <1>10
     DEF Contract!ContractNext, Contract!Book

\* Every step is a step of the abstract contract, or changes nothing it sees.
LEMMA KeepsNext ==
  ASSUME TypeOK, TypeOK', HandsOK, HoldersOK, ApprovedInHand, [Next]_vars
  PROVE  [Contract!ContractNext]_<<Grants, Ledger>>
<1>1. ASSUME UNCHANGED <<decisions, posted>>
      PROVE  UNCHANGED <<Grants, Ledger>>
  BY <1>1 DEF Grants, Ledger
<1>2. ASSUME NEW r \in Runs, CloseRunStep(r)
      PROVE  [Contract!ContractNext]_<<Grants, Ledger>>
  <2>1. CASE Decided(run[r].cur, "approve")
    BY <2>1, DecidedKeeps DEF Decided
  <2>2. CASE UNCHANGED <<decisions, posted>>
    BY <1>1, <2>2
  <2>3. QED
    BY <1>2, <2>1, <2>2, CloseRunDigest DEF Quiet, Applied
<1>3. ASSUME NEW v \in Reviewers, ReviewerStep(v)
      PROVE  [Contract!ContractNext]_<<Grants, Ledger>>
  <2>1. CASE Decided(rev[v].cur, rev[v].kind)
    BY <2>1, DecidedKeeps DEF Decided
  <2>2. CASE UNCHANGED <<decisions, posted>>
    BY <1>1, <2>2
  <2>3. QED
    BY <1>3, <2>1, <2>2, ReviewerDigest DEF Quiet, Applied
<1>4. ASSUME NEW s \in Submitters, SubmitterStep(s)
      PROVE  [Contract!ContractNext]_<<Grants, Ledger>>
  <2>1. CASE Booked(s)
    BY <2>1, BookedKeeps
  <2>2. CASE UNCHANGED <<decisions, posted>>
    BY <1>1, <2>2
  <2>3. QED
    BY <1>4, <2>1, <2>2, SubmitterDigest DEF Quiet, Picked, Claimed
<1>5. CASE OutsideStep
  BY <1>1, <1>5, OutsideDigest DEF Quiet
<1>6. CASE UNCHANGED vars
  BY <1>1, <1>6 DEF vars, rows, world
<1>7. QED
  BY <1>2, <1>3, <1>4, <1>5, <1>6 DEF Next

\* The close run, the reviewers, the submitters and the outside together
\* implement the contract.
THEOREM ImplementsContract == Spec => KeepsContract
<1> DEFINE Inv == TypeOK /\ HandsOK /\ HoldersOK /\ SpentOnce
                  /\ PostedBytesApproved /\ ApprovedInHand
<1>1. Init => Inv /\ Contract!ContractInit
  <2> SUFFICES ASSUME Init PROVE Inv /\ Contract!ContractInit
    OBVIOUS
  <2>1. HoldersOK /\ SpentOnce /\ PostedBytesApproved /\ ApprovedInHand
    BY IdleCalls DEF Init, HoldersOK, OneHolder, Held, RunHolds, ReviewHolds,
                     RowHolds, SubmitHolds, Spent, SpentOnce,
                     PostedBytesApproved, ApprovedInHand
  <2>2. Contract!ContractInit
    BY DEF Init, Contract!ContractInit, Grants, Ledger
  <2>3. QED
    BY <2>1, <2>2, TypedInit
<1>2. Inv /\ [Next]_vars => Inv'
  BY TypedNext, SpentNext, BytesNext DEF TypedStep
<1>3. Inv /\ Inv' /\ [Next]_vars => [Contract!ContractNext]_<<Grants, Ledger>>
  BY KeepsNext
<1>4. QED
  BY <1>1, <1>2, <1>3, PTL DEF Spec, KeepsContract, Contract!ContractSpec

-----------------------------------------------------------------------------
(* What a submitter's step does to the batch, the rows and Fortnox *)

PastGate == InHand \ {"mark"}

\* Nothing is in hand, and what was booked is what the batch knew, or knows now.
Aside(s) ==
  /\ sub'[s].pc \notin InHand
  /\ sub'[s].booked \in {{}, sub[s].booked, processed}
  /\ sub'[s].pc = "loop" =>
       \/ sub'[s].booked = processed
       \/ sub[s].pc \in {"loop"} \cup InHand /\ sub'[s].booked = sub[s].booked

\* The batch turns to proposal p, which is booked already or may be booked.
Chosen(s, p) ==
  /\ sub[s].pc = "loop" /\ sub'[s].pc \in {"mark", "claim"}
  /\ sub'[s].cur = p /\ sub'[s].body = PayloadFor(p)
  /\ sub'[s].booked = sub[s].booked
  /\ sub'[s].pc = "mark" => HashOf[PayloadFor(p)] \in sub[s].booked
  /\ sub'[s].pc = "claim" =>
       HashOf[PayloadFor(p)] \notin sub[s].booked /\ GateAllows(s, p, PayloadFor(p))

\* It goes on with the one it has in hand.
Advanced(s) ==
  /\ sub[s].pc \in PastGate /\ sub'[s].pc \in PastGate
  /\ sub'[s].cur = sub[s].cur /\ sub'[s].body = sub[s].body
  /\ sub'[s].booked = sub[s].booked
  /\ sub'[s].pc \in {"record", "key"} =>
       sub[s].pc \in {"record", "key"} \/ posted' = Append(posted, VoucherOf(s))

\* What is written, and from where.
StatusWritten(s) ==
  \A p \in Proposals :
    \/ status'[p] = status[p]
    \/ /\ p = sub[s].cur
       /\ \/ sub[s].pc = "mark" /\ status'[p] = "already_booked"
          \/ sub[s].pc = "claim" /\ status'[p] = "submitting"
          \/ sub[s].pc = "record" /\ status'[p] = "submitted"
          \/ sub[s].pc = "failed" /\ status'[p] = "submission_failed"

Written(s) ==
  /\ StatusWritten(s)
  /\ \/ processed' = processed
     \/ sub[s].pc = "key" /\ processed' = processed \cup {HashOf[sub[s].body]}
  /\ \/ posted' = posted
     \/ sub[s].pc = "post" /\ posted' = Append(posted, VoucherOf(s))
  /\ UNCHANGED <<decisions, shadowMode, run>>
  /\ \A t \in Submitters \ {s} : sub'[t] = sub[t]

\* A submitter that answers and goes idle puts its proposal aside.
LEMMA IdleAside ==
  ASSUME TypeOK, NEW s \in Submitters, sub' = [sub EXCEPT ![s] = IdleSubmit]
  PROVE  Aside(s)
<1>1. sub'[s] = IdleSubmit
  BY DEF TypeOK
<1>2. IdleSubmit.pc = "idle" /\ IdleSubmit.booked = {}
  BY DEF IdleSubmit
<1>3. sub'[s].pc = "idle" /\ sub'[s].booked = {}
  BY <1>1, <1>2
<1> QED
  BY <1>3 DEF Aside, InHand

\* A submitter that goes on to its next proposal puts the last one aside.
LEMMA ContinueAside ==
  ASSUME TypeOK, NEW s \in Submitters, sub[s].pc \in InHand,
         sub' = [sub EXCEPT ![s] = Continue(s)]
  PROVE  Aside(s)
<1>1. sub[s] \in SubmitCall /\ sub'[s] = Continue(s)
  BY DEF TypeOK
<1>2. Continue(s).pc = "loop" /\ Continue(s).booked = sub[s].booked
  BY <1>1 DEF Continue, SubmitCall
<1>3. sub'[s].pc = "loop" /\ sub'[s].booked = sub[s].booked
  BY <1>1, <1>2
<1> QED
  BY <1>3 DEF Aside, InHand

\* A submitter that only moves its program counter past the gate advances.
LEMMA PcAdvances ==
  ASSUME TypeOK, NEW s \in Submitters, NEW k \in PastGate, sub[s].pc \in PastGate,
         sub' = [sub EXCEPT ![s].pc = k],
         k \in {"record", "key"} =>
           sub[s].pc \in {"record", "key"} \/ posted' = Append(posted, VoucherOf(s))
  PROVE  Advanced(s)
<1> DEFINE e == [sub[s] EXCEPT !.pc = k]
<1>1. sub[s] \in SubmitCall /\ sub'[s] = e
  BY DEF TypeOK
<1>2. /\ e.pc = k /\ e.cur = sub[s].cur /\ e.body = sub[s].body
      /\ e.booked = sub[s].booked
  BY <1>1 DEF SubmitCall
<1> QED
  BY <1>1, <1>2 DEF Advanced

\* A submitter step puts the proposal aside, advances with it, or chooses one.
LEMMA HandDigest ==
  ASSUME TypeOK, HandsOK, NEW s \in Submitters, SubmitterStep(s)
  PROVE  /\ Written(s)
         /\ Aside(s) \/ Advanced(s) \/ \E p \in Proposals : Chosen(s, p)
<1> DEFINE Moved == Aside(s) \/ Advanced(s) \/ \E p \in Proposals : Chosen(s, p)
           Goal == Written(s) /\ Moved
<1>0. /\ sub[s] \in SubmitCall /\ sub \in [Submitters -> SubmitCall]
      /\ status \in [Proposals -> Status]
  BY DEF TypeOK, RowsTypeOK
<1>1. ASSUME NEW r \in Runs, NEW only \in Selections(r), Resolve(s, r, only)
      PROVE  Goal
  <2> DEFINE e == [IdleSubmit EXCEPT !.pc = "resolved", !.run = r, !.only = only,
                                     !.real = conn.connected,
                                     !.adapter = /\ conn.connected
                                                 /\ conn.writes
                                                 /\ WritesFlag
                                                 /\ ~shadowMode]
  <2>1. e.pc = "resolved" /\ e.booked = {}
    BY DEF IdleSubmit
  <2>2. sub' = [sub EXCEPT ![s] = e] /\ UNCHANGED <<rows, world, run>>
    BY <1>1 DEF Resolve
  <2> HIDE DEF e
  <2> QED
    BY <1>0, <2>1, <2>2 DEF Written, StatusWritten, Aside, InHand, rows, world
<1>2. CASE ListCandidates(s)
  <2>1. Written(s)
    BY <1>0, <1>2 DEF ListCandidates, Written, StatusWritten, rows, world
  <2>2. \A t : LET e == [sub[s] EXCEPT !.pc = "listed", !.todo = t]
               IN  e.pc = "listed" /\ e.booked = sub[s].booked
    BY <1>0 DEF SubmitCall
  <2>3. CASE sub' = [sub EXCEPT ![s] = IdleSubmit]
    BY <2>1, <2>3, IdleAside
  <2>4. ASSUME NEW t, sub' = [sub EXCEPT ![s] = [@ EXCEPT !.pc = "listed", !.todo = t]]
        PROVE  Aside(s)
    BY <1>0, <2>2, <2>4 DEF Aside, InHand
  <2> QED
    BY <1>2, <2>1, <2>3, <2>4 DEF ListCandidates
<1>3. CASE ReadSwitch(s)
  <2> DEFINE e == [sub[s] EXCEPT !.pc = "switch", !.switch = sub[s].real /\ conn.writes]
  <2>1. e.pc = "switch" /\ e.booked = sub[s].booked
    BY <1>0 DEF SubmitCall
  <2>2. sub' = [sub EXCEPT ![s] = e] /\ UNCHANGED <<rows, world, run>>
    BY <1>3 DEF ReadSwitch
  <2> HIDE DEF e
  <2> QED
    BY <1>0, <2>1, <2>2 DEF Written, StatusWritten, Aside, InHand, rows, world
<1>4. CASE ReadLock(s)
  <2>1. PICK n : /\ sub' = [sub EXCEPT ![s] = [@ EXCEPT !.pc = "lock", !.lock = n,
                                                       !.stood = lock]]
                 /\ UNCHANGED <<rows, world, run>>
    BY <1>4 DEF ReadLock
  <2> DEFINE e == [sub[s] EXCEPT !.pc = "lock", !.lock = n, !.stood = lock]
  <2>2. e.pc = "lock" /\ e.booked = sub[s].booked
    BY <1>0 DEF SubmitCall
  <2>3. sub' = [sub EXCEPT ![s] = e]
    BY <2>1
  <2> HIDE DEF e
  <2> QED
    BY <1>0, <2>1, <2>2, <2>3 DEF Written, StatusWritten, Aside, InHand, rows, world
<1>5. CASE ReadBooked(s)
  <2> DEFINE e == [sub[s] EXCEPT !.pc = "loop", !.booked = processed]
  <2>1. e.pc = "loop" /\ e.booked = processed
    BY <1>0 DEF SubmitCall
  <2>2. sub' = [sub EXCEPT ![s] = e] /\ UNCHANGED <<rows, world, run>>
    BY <1>5 DEF ReadBooked
  <2> HIDE DEF e
  <2> QED
    BY <1>0, <2>1, <2>2 DEF Written, StatusWritten, Aside, InHand, rows, world
<1>6. ASSUME NEW p \in Proposals, Consider(s, p) PROVE Goal
  <2> DEFINE k == IF HashOf[PayloadFor(p)] \in sub[s].booked THEN "mark"
                  ELSE IF GateAllows(s, p, PayloadFor(p)) THEN "claim" ELSE "loop"
             cur == IF k = "loop" THEN NoProposal ELSE p
             body == IF k = "loop" THEN NoPayload ELSE PayloadFor(p)
             e == [sub[s] EXCEPT !.pc = k, !.todo = sub[s].todo \ {p}, !.cur = cur,
                                 !.body = body]
  <2>1. sub' = [sub EXCEPT ![s] = e] /\ UNCHANGED <<rows, world, run>>
    BY <1>6 DEF Consider
  <2>2. e.pc = k /\ e.cur = cur /\ e.body = body /\ e.booked = sub[s].booked
    <3> HIDE DEF k, cur, body
    <3> QED
      BY <1>0 DEF SubmitCall
  <2>3. /\ k = "claim" => /\ HashOf[PayloadFor(p)] \notin sub[s].booked
                          /\ GateAllows(s, p, PayloadFor(p))
        /\ k = "mark" => HashOf[PayloadFor(p)] \in sub[s].booked
        /\ k # "loop" => cur = p /\ body = PayloadFor(p)
        /\ k \in {"mark", "claim", "loop"}
    OBVIOUS
  <2>l. sub[s].pc = "loop"
    BY <1>6 DEF Consider
  <2> HIDE DEF e, k, cur, body
  <2>4. sub'[s] = e
    BY <1>0, <2>1
  <2>5. Written(s)
    BY <1>0, <2>1 DEF Written, StatusWritten, rows, world
  <2>6. CASE k = "loop"
    <3>1. Aside(s)
      BY <2>2, <2>4, <2>6, <2>l DEF Aside, InHand
    <3> QED
      BY <2>5, <3>1
  <2>7. CASE k # "loop"
    <3>1. Chosen(s, p)
      BY <2>2, <2>3, <2>4, <2>7, <2>l DEF Chosen
    <3> QED
      BY <2>5, <3>1
  <2> QED
    BY <2>6, <2>7
<1>7. CASE MarkAlreadyBooked(s)
  <2>1. Aside(s)
    BY <1>7, ContinueAside DEF MarkAlreadyBooked, InHand
  <2> QED
    BY <1>0, <1>7, <2>1 DEF MarkAlreadyBooked, Written, StatusWritten, world
<1>8. CASE Claim(s)
  <2>1. Written(s)
    BY <1>0, <1>8 DEF Claim, Written, StatusWritten, world
  <2>2. CASE sub' = [sub EXCEPT ![s] = Continue(s)]
    BY <1>8, <2>1, <2>2, ContinueAside DEF Claim, InHand
  <2>3. ASSUME NEW n, sub' = [sub EXCEPT ![s] = [@ EXCEPT !.pc = "post", !.token = n]]
        PROVE  Advanced(s)
    <3> DEFINE e == [sub[s] EXCEPT !.pc = "post", !.token = n]
    <3>1. /\ e.pc = "post" /\ e.cur = sub[s].cur /\ e.body = sub[s].body
          /\ e.booked = sub[s].booked
      BY <1>0 DEF SubmitCall
    <3>2. sub'[s] = e /\ sub[s].pc = "claim"
      BY <1>0, <1>8, <2>3 DEF Claim
    <3> HIDE DEF e
    <3> QED
      BY <3>1, <3>2 DEF Advanced, PastGate, InHand
  <2> QED
    BY <1>8, <2>1, <2>2, <2>3 DEF Claim
<1>9. CASE PostAccepted(s)
  <2>1. PICK k \in {"record", "failed"} : sub' = [sub EXCEPT ![s].pc = k]
    BY <1>9 DEF PostAccepted
  <2>2. sub[s].pc = "post" /\ posted' = Append(posted, VoucherOf(s))
    BY <1>9 DEF PostAccepted
  <2>3. Advanced(s)
    BY <2>1, <2>2, PcAdvances DEF PastGate, InHand
  <2>4. UNCHANGED <<status, processed, decisions, shadowMode, run>>
    BY <1>9 DEF PostAccepted, rows
  <2>5. Written(s)
    BY <1>0, <2>1, <2>2, <2>4 DEF Written, StatusWritten
  <2> QED
    BY <2>3, <2>5
<1>10. CASE PostRefused(s)
  <2>1. Advanced(s)
    BY <1>10, PcAdvances DEF PostRefused, PastGate, InHand
  <2> QED
    BY <1>0, <1>10, <2>1 DEF PostRefused, Written, StatusWritten, rows, world
<1>11. CASE RecordSubmitted(s)
  <2>1. Advanced(s)
    BY <1>11, PcAdvances DEF RecordSubmitted, PastGate, InHand
  <2> QED
    BY <1>0, <1>11, <2>1 DEF RecordSubmitted, Written, StatusWritten, world
<1>12. CASE RecordKey(s)
  <2>1. Written(s)
    BY <1>0, <1>12 DEF RecordKey, Written, StatusWritten, world
  <2>2. CASE sub' = [sub EXCEPT ![s] = Continue(s)]
    BY <1>12, <2>1, <2>2, ContinueAside DEF RecordKey, InHand
  <2>3. CASE sub' = [sub EXCEPT ![s].pc = "failed"]
    BY <1>12, <2>1, <2>3, PcAdvances DEF RecordKey, PastGate, InHand
  <2> QED
    BY <1>12, <2>2, <2>3 DEF RecordKey
<1>13. CASE RecordingFails(s)
  <2>1. Advanced(s)
    BY <1>13, PcAdvances DEF RecordingFails, PastGate, InHand
  <2> QED
    BY <1>0, <1>13, <2>1 DEF RecordingFails, Written, StatusWritten, rows, world
<1>14. CASE RecordFailure(s)
  <2>1. Aside(s)
    BY <1>14, ContinueAside DEF RecordFailure, InHand
  <2> QED
    BY <1>0, <1>14, <2>1 DEF RecordFailure, Written, StatusWritten, world
<1>15. CASE FinishBatch(s) \/ AbortBatch(s)
  <2>1. Aside(s)
    BY <1>15, IdleAside DEF FinishBatch, AbortBatch
  <2> QED
    BY <1>0, <1>15, <2>1 DEF FinishBatch, AbortBatch, Written, StatusWritten, rows, world
<1> QED
  BY <1>1, <1>2, <1>3, <1>4, <1>5, <1>6, <1>7, <1>8, <1>9, <1>10, <1>11, <1>12,
     <1>13, <1>14, <1>15 DEF SubmitterStep, BatchStep

\* What the others write.
LEMMA OthersDigest ==
  ASSUME TypeOK, HandsOK,
         \/ \E r \in Runs : CloseRunStep(r)
         \/ \E v \in Reviewers : ReviewerStep(v)
         \/ OutsideStep
         \/ UNCHANGED vars
  PROVE  /\ UNCHANGED <<posted, processed, shadowMode, sub>>
         /\ \A r \in Runs : run'[r].seen \in {run[r].seen, processed}
         /\ \A p \in Proposals :
              \/ status'[p] \in {status[p], "absent", "simulated", "approved_shadow",
                                 "rejected"}
              \/ /\ status'[p] = "already_booked"
                 /\ \E r \in Runs : HashOf[Generated[p]] \in run[r].seen
<1> DEFINE Goal == /\ UNCHANGED <<posted, processed, shadowMode, sub>>
                   /\ \A r \in Runs : run'[r].seen \in {run[r].seen, processed}
                   /\ \A p \in Proposals :
                        \/ status'[p] \in {status[p], "absent", "simulated",
                                           "approved_shadow", "rejected"}
                        \/ /\ status'[p] = "already_booked"
                           /\ \E r \in Runs : HashOf[Generated[p]] \in run[r].seen
<1>0. /\ run \in [Runs -> RunRow] /\ rev \in [Reviewers -> ReviewCall]
      /\ status \in [Proposals -> Status]
  BY DEF TypeOK, RowsTypeOK
<1>1. ASSUME NEW r \in Runs, CloseRunStep(r) PROVE Goal
  <2>0. run[r] \in RunRow
    BY <1>0
  <2>1. CASE LedgerReview(r)
    <3>1. [run[r] EXCEPT !.pc = "reviewed", !.seen = processed].seen = processed
      BY <2>0 DEF RunRow
    <3> QED
      BY <1>0, <2>1, <3>1 DEF LedgerReview, rows, world
  <2>2. CASE Consolidate(r)
    <3>1. [run[r] EXCEPT !.pc = "proposing"].seen = run[r].seen
      BY <2>0 DEF RunRow
    <3> QED
      BY <1>0, <2>2, <3>1 DEF Consolidate, world
  <2>3. ASSUME NEW p \in Proposals, Propose(r, p) PROVE Goal
    <3>1. [run[r] EXCEPT !.pc = "checking", !.cur = p].seen = run[r].seen
      BY <2>0 DEF RunRow
    <3> QED
      BY <1>0, <2>3, <3>1 DEF Propose, world
  <2>4. CASE PolicyCheck(r)
    <3>1. /\ [run[r] EXCEPT !.pc = "deciding"].seen = run[r].seen
          /\ [run[r] EXCEPT !.pc = "proposing", !.cur = NoProposal].seen = run[r].seen
      BY <2>0 DEF RunRow
    <3> QED
      BY <1>0, <2>4, <3>1 DEF PolicyCheck, world
  <2>5. CASE PolicyDecide(r)
    <3>1. \A n : [run[r] EXCEPT !.pc = "approving", !.token = n].seen = run[r].seen
      BY <2>0 DEF RunRow
    <3> QED
      BY <1>0, <2>5, <3>1 DEF PolicyDecide, world
  <2>6. CASE PolicyApprove(r)
    <3>1. [run[r] EXCEPT !.pc = "proposing", !.token = 0, !.cur = NoProposal].seen
            = run[r].seen
      BY <2>0 DEF RunRow
    <3> QED
      BY <1>0, <2>6, <3>1 DEF PolicyApprove, world
  <2>7. CASE QueueReviews(r)
    <3>1. [run[r] EXCEPT !.pc = "consolidated"].seen = run[r].seen
      BY <2>0 DEF RunRow
    <3> QED
      BY <1>0, <2>7, <3>1 DEF QueueReviews, world
  <2> QED
    BY <1>1, <2>1, <2>2, <2>3, <2>4, <2>5, <2>6, <2>7 DEF CloseRunStep
<1>2. ASSUME NEW v \in Reviewers, ReviewerStep(v) PROVE Goal
  <2>1. CASE ApplyStatus(v)
    BY <1>0, <2>1 DEF ApplyStatus, world
  <2>2. ASSUME ~ApplyStatus(v)
        PROVE  UNCHANGED <<posted, processed, shadowMode, sub, run, status>>
    BY <1>2, <2>2 DEF ReviewerStep, ReadProposal, InsertDecision, CloseFinding,
         AbortReview, rows, world
  <2> QED
    BY <2>1, <2>2
<1>3. CASE OutsideStep
  BY <1>3 DEF OutsideStep, SetWrites, Disconnect, Reconnect, LockBooks, rows
<1>4. CASE UNCHANGED vars
  BY <1>4 DEF vars, rows, world
<1> QED
  BY <1>1, <1>2, <1>3, <1>4

\* Vouchers are appended and decisions kept, by every step.
LEMMA NothingIsLost ==
  ASSUME TypeOK, HandsOK, [Next]_vars
  PROVE  /\ \A i \in DOMAIN posted : i \in DOMAIN posted' /\ posted'[i] = posted[i]
         /\ \A p \in Proposals : \A n \in DOMAIN decisions[p] :
              n \in DOMAIN decisions'[p] /\ decisions'[p][n] = decisions[p][n]
<1> DEFINE Kept == /\ \A i \in DOMAIN posted : i \in DOMAIN posted' /\ posted'[i] = posted[i]
                   /\ \A p \in Proposals : \A n \in DOMAIN decisions[p] :
                        n \in DOMAIN decisions'[p] /\ decisions'[p][n] = decisions[p][n]
<1>1. CASE UNCHANGED <<decisions, posted>>
  BY <1>1
<1>2. ASSUME NEW p \in Proposals, NEW kind, Decided(p, kind) PROVE Kept
  BY <1>2, DecisionsGrow DEF Decided
<1>3. ASSUME NEW s \in Submitters, Booked(s) PROVE Kept
  BY <1>3, PostedGrows DEF Booked
<1>4. ASSUME NEW r \in Runs, CloseRunStep(r) PROVE Kept
  BY <1>1, <1>2, <1>4, CloseRunDigest DEF Quiet, Applied, Decided
<1>5. ASSUME NEW v \in Reviewers, ReviewerStep(v) PROVE Kept
  BY <1>1, <1>2, <1>5, ReviewerDigest DEF Quiet, Applied, Decided
<1>6. ASSUME NEW s \in Submitters, SubmitterStep(s) PROVE Kept
  BY <1>1, <1>3, <1>6, SubmitterDigest DEF Quiet, Picked, Claimed
<1>7. CASE OutsideStep
  BY <1>1, <1>7, OutsideDigest DEF Quiet
<1>8. CASE UNCHANGED vars
  BY <1>1, <1>8 DEF vars, rows, world
<1> QED
  BY <1>4, <1>5, <1>6, <1>7, <1>8 DEF Next

\* The voucher a post adds.
LEMMA VoucherAdded ==
  ASSUME TypeOK, NEW s \in Submitters, posted' = Append(posted, VoucherOf(s))
  PROVE  /\ \A i \in DOMAIN posted' : \/ i \in DOMAIN posted /\ posted'[i] = posted[i]
                                      \/ posted'[i] = VoucherOf(s)
         /\ \E i \in DOMAIN posted' : posted'[i] = VoucherOf(s)
<1> DEFINE w == VoucherOf(s)
<1>1. posted \in Seq(Voucher) /\ posted' = Append(posted, w)
  BY DEF TypeOK, WorldTypeOK
<1> HIDE DEF w
<1>2. /\ Len(posted) \in Nat /\ DOMAIN posted = 1 .. Len(posted)
      /\ DOMAIN posted' = 1 .. Len(posted) + 1
  BY <1>1
<1>3. /\ \A i \in 1 .. Len(posted) : posted'[i] = posted[i]
      /\ posted'[Len(posted) + 1] = w
  BY <1>1
<1>4. \A i \in 1 .. Len(posted) + 1 : i \in 1 .. Len(posted) \/ i = Len(posted) + 1
  BY <1>2
<1> QED
  BY <1>2, <1>3, <1>4 DEF w

-----------------------------------------------------------------------------
(* Shadow mode *)

\* Past the gate there is no shadow mode, and the flag is set.
Gated(c) == c.pc \in PastGate => WritesFlag /\ ~shadowMode

GateInv ==
  /\ \A s \in Submitters : Gated(sub[s])
  /\ ShadowHoldsEverything

\* The gate invariant holds before anything is submitted.
LEMMA GateInit == Init => GateInv
<1> SUFFICES ASSUME Init PROVE GateInv
  OBVIOUS
<1>1. \A s \in Submitters : Gated(sub[s])
  BY IdleCalls DEF Init, Gated, PastGate, InHand
<1> QED
  BY <1>1 DEF Init, GateInv, ShadowHoldsEverything

\* A submitter's step keeps the gate invariant.
LEMMA GateSubmitter ==
  ASSUME TypeOK, HandsOK, GateInv, NEW s \in Submitters, SubmitterStep(s)
  PROVE  GateInv'
<1>1. Written(s) /\ (Aside(s) \/ Advanced(s) \/ \E p \in Proposals : Chosen(s, p))
  BY HandDigest
<1>2. /\ shadowMode' = shadowMode /\ Gated(sub[s])
      /\ \A t \in Submitters \ {s} : sub'[t] = sub[t]
  BY <1>1 DEF Written, GateInv
<1>3. Gated(sub[s])'
  <2>1. CASE Aside(s)
    BY <2>1 DEF Aside, Gated, PastGate
  <2>2. CASE Advanced(s)
    BY <1>2, <2>2 DEF Advanced, Gated
  <2>3. ASSUME NEW p \in Proposals, Chosen(s, p) PROVE Gated(sub[s])'
    <3>1. CASE sub'[s].pc = "mark"
      BY <3>1 DEF Gated, PastGate
    <3>2. CASE sub'[s].pc = "claim"
      BY <1>2, <2>3, <3>2 DEF Chosen, GateAllows, Gated
    <3> QED
      BY <2>3, <3>1, <3>2 DEF Chosen
  <2> QED
    BY <1>1, <2>1, <2>2, <2>3
<1>4. \A t \in Submitters : Gated(sub[t])'
  BY <1>2, <1>3 DEF GateInv, Gated
<1>5. ShadowHoldsEverything'
  <2> SUFFICES ASSUME shadowMode \/ ~WritesFlag
               PROVE  /\ posted' = <<>>
                      /\ \A p \in Proposals : status'[p] \notin
                           {"submitting", "submitted", "submission_failed"}
    BY <1>2 DEF ShadowHoldsEverything
  <2>1. sub[s].pc \notin PastGate
    BY <1>2 DEF Gated
  <2>2. /\ posted = <<>>
        /\ \A p \in Proposals : status[p] \notin
             {"submitting", "submitted", "submission_failed"}
    BY DEF GateInv, ShadowHoldsEverything
  <2>3. posted' = posted
    BY <1>1, <2>1 DEF Written, PastGate, InHand
  <2>4. \A p \in Proposals : status'[p] \in {status[p], "already_booked"}
    BY <1>1, <2>1 DEF Written, StatusWritten, PastGate, InHand
  <2> QED
    BY <2>2, <2>3, <2>4
<1> QED
  BY <1>4, <1>5 DEF GateInv

\* Every step keeps the gate invariant.
LEMMA GateNext == TypeOK /\ HandsOK /\ GateInv /\ [Next]_vars => GateInv'
<1> SUFFICES ASSUME TypeOK, HandsOK, GateInv, [Next]_vars PROVE GateInv'
  OBVIOUS
<1>1. ASSUME NEW s \in Submitters, SubmitterStep(s) PROVE GateInv'
  BY <1>1, GateSubmitter
<1>2. CASE \/ \E r \in Runs : CloseRunStep(r)
           \/ \E v \in Reviewers : ReviewerStep(v)
           \/ OutsideStep
           \/ UNCHANGED vars
  <2>1. /\ UNCHANGED <<posted, shadowMode, sub>>
        /\ \A p \in Proposals :
             status'[p] \in {status[p], "absent", "simulated", "approved_shadow",
                             "rejected", "already_booked"}
    BY <1>2, OthersDigest
  <2>2. \A s \in Submitters : Gated(sub[s])'
    BY <2>1 DEF GateInv, Gated
  <2> QED
    BY <2>1, <2>2 DEF GateInv, ShadowHoldsEverything
<1> QED
  BY <1>1, <1>2 DEF Next

\* In shadow mode, or without the flag, nothing is claimed, failed or posted.
THEOREM ShadowHolds == Spec => []ShadowHoldsEverything
<1>1. GateInv => ShadowHoldsEverything
  BY DEF GateInv
<1>2. TypeOK /\ HandsOK /\ GateInv /\ [Next]_vars => (TypeOK /\ HandsOK /\ GateInv)'
  BY TypedNext, GateNext DEF TypedStep
<1> QED
  BY <1>1, <1>2, TypedInit, GateInit, PTL DEF Spec

-----------------------------------------------------------------------------
(* The rows and Fortnox *)

HasVoucher(c) ==
  \E i \in DOMAIN posted : posted[i].proposal = c.cur /\ posted[i].body = c.body

Honest(c) ==
  /\ c.booked \subseteq BookedHashes
  /\ c.pc \in {"record", "key"} => HasVoucher(c)
  /\ c.pc = "mark" => HashOf[c.body] \in BookedHashes /\ c.body \in BodiesFor(c.cur)

\* What the calls have read of the keys, and what a submitter is about to write.
TruthInv ==
  /\ RowsTellTheTruth
  /\ \A r \in Runs : run[r].seen \subseteq BookedHashes
  /\ \A s \in Submitters : Honest(sub[s])

\* The body to send is one of the proposal's.
LEMMA PayloadIsOwn ==
  ASSUME TypeOK, NEW p \in Proposals
  PROVE  PayloadFor(p) \in BodiesFor(p)
<1> DEFINE edited == {d.edited : d \in LatestApproval(p)} \cap WellFormed
<1>1. edited \subseteq BodiesFor(p)
  <2> SUFFICES ASSUME NEW b \in edited PROVE b \in BodiesFor(p)
    OBVIOUS
  <2>1. PICK n \in DOMAIN decisions[p] : b = decisions[p][n].edited
    BY DEF LatestApproval
  <2>2. b \in Payloads
    BY RowsAssumption
  <2>3. b # NoPayload
    BY <2>2, RowsAssumption
  <2> QED
    BY <2>1, <2>3 DEF BodiesFor
<1>2. edited # {} => (CHOOSE b \in edited : TRUE) \in edited
  OBVIOUS
<1>3. PayloadFor(p) = IF edited = {} THEN Generated[p] ELSE CHOOSE b \in edited : TRUE
  BY DEF PayloadFor
<1>4. Generated[p] \in BodiesFor(p)
  BY DEF BodiesFor
<1> HIDE DEF edited
<1> QED
  BY <1>1, <1>2, <1>3, <1>4

\* What is booked, for each proposal too, only grows; a call at rest stays honest.
LEMMA TruthGrows ==
  ASSUME TypeOK, HandsOK, [Next]_vars
  PROVE  /\ BookedHashes \subseteq BookedHashes'
         /\ \A p \in Proposals : BodiesFor(p) \subseteq BodiesFor(p)'
         /\ \A p \in Proposals : VouchersOf(p) \subseteq VouchersOf(p)'
         /\ \A s \in Submitters : Honest(sub[s]) /\ sub'[s] = sub[s] => Honest(sub[s])'
<1>1. /\ \A i \in DOMAIN posted : i \in DOMAIN posted' /\ posted'[i] = posted[i]
      /\ \A p \in Proposals : \A n \in DOMAIN decisions[p] :
           n \in DOMAIN decisions'[p] /\ decisions'[p][n] = decisions[p][n]
  BY NothingIsLost
<1>2. BookedHashes \subseteq BookedHashes'
  BY <1>1 DEF BookedHashes
<1>3. \A p \in Proposals : BodiesFor(p) \subseteq BodiesFor(p)'
  BY <1>1 DEF BodiesFor
<1>4. \A p \in Proposals : VouchersOf(p) \subseteq VouchersOf(p)'
  BY <1>1 DEF VouchersOf
<1>5. ASSUME NEW s \in Submitters, Honest(sub[s]), sub'[s] = sub[s]
      PROVE  Honest(sub[s])'
  <2>1. sub'[s].booked \subseteq BookedHashes'
    BY <1>2, <1>5 DEF Honest
  <2>2. sub'[s].pc \in {"record", "key"} => HasVoucher(sub[s])'
    BY <1>1, <1>5 DEF Honest, HasVoucher
  <2>3. ASSUME sub'[s].pc = "mark"
        PROVE  HashOf[sub'[s].body] \in BookedHashes' /\ sub'[s].body \in BodiesFor(sub[s].cur)'
    <3>1. HashOf[sub[s].body] \in BookedHashes /\ sub[s].body \in BodiesFor(sub[s].cur)
      BY <1>5, <2>3 DEF Honest
    <3>2. sub[s].cur \in Proposals
      BY <1>5, <2>3 DEF HandsOK, InHand
    <3>3. sub[s].body \in (BodiesFor(sub[s].cur))'
      BY <1>1, <1>5, <3>1, <3>2 DEF BodiesFor
    <3> QED
      BY <1>2, <1>5, <3>1, <3>3
  <2> QED
    BY <2>1, <2>2, <2>3 DEF Honest
<1> QED
  BY <1>2, <1>3, <1>4, <1>5

\* Rows that only say what is known leave the truth as it was.
LEMMA TruthStays ==
  ASSUME TypeOK, HandsOK, [Next]_vars, TruthInv,
         processed' \subseteq BookedHashes,
         \A p \in Proposals :
           \/ status'[p] \notin {"submitted", "already_booked"}
           \/ status'[p] = status[p]
           \/ status'[p] = "submitted" /\ VouchersOf(p) # {}
           \/ /\ status'[p] = "already_booked"
              /\ BookedHashes \cap {HashOf[b] : b \in BodiesFor(p)} # {}
  PROVE  RowsTellTheTruth'
<1>1. processed' \subseteq BookedHashes'
  BY TruthGrows
<1>2. ASSUME NEW p \in Proposals, status'[p] = "submitted"
      PROVE  VouchersOf(p)' # {}
  BY <1>2, TruthGrows DEF TruthInv, RowsTellTheTruth
<1>3. ASSUME NEW p \in Proposals, status'[p] = "already_booked"
      PROVE  (BookedHashes \cap {HashOf[b] : b \in BodiesFor(p)})' # {}
  <2>1. BookedHashes \cap {HashOf[b] : b \in BodiesFor(p)} # {}
    BY <1>3 DEF TruthInv, RowsTellTheTruth
  <2>2. PICK b \in BodiesFor(p) : HashOf[b] \in BookedHashes
    BY <2>1
  <2>3. b \in BodiesFor(p)' /\ HashOf[b] \in BookedHashes'
    BY <2>2, TruthGrows
  <2> QED
    BY <2>3
<1> QED
  BY <1>1, <1>2, <1>3 DEF RowsTellTheTruth

\* The invariant on what rows and calls say of the books holds at the start.
LEMMA TruthInit == Init => TruthInv
<1> SUFFICES ASSUME Init PROVE TruthInv
  OBVIOUS
<1>1. ASSUME NEW s \in Submitters PROVE Honest(sub[s])
  <2>1. sub[s] = IdleSubmit
    BY DEF Init
  <2>2. IdleSubmit.pc = "idle" /\ IdleSubmit.booked = {}
    BY DEF IdleSubmit
  <2>3. sub[s].pc = "idle" /\ sub[s].booked = {}
    BY <2>1, <2>2
  <2> QED
    BY <2>3 DEF Honest
<1>2. ASSUME NEW r \in Runs PROVE run[r].seen \subseteq BookedHashes
  BY DEF Init
<1>3. processed = {} /\ \A p \in Proposals : status[p] = "absent"
  BY DEF Init
<1>4. RowsTellTheTruth
  BY <1>3 DEF RowsTellTheTruth
<1> QED
  BY <1>1, <1>2, <1>4 DEF TruthInv

\* A submitter's step keeps what rows and calls say of the books true.
LEMMA TruthSubmitter ==
  ASSUME TypeOK, HandsOK, [Next]_vars, TruthInv, NEW s \in Submitters, SubmitterStep(s)
  PROVE  TruthInv'
<1>1. Written(s) /\ (Aside(s) \/ Advanced(s) \/ \E p \in Proposals : Chosen(s, p))
  BY HandDigest
<1>2. Honest(sub[s]) /\ processed \subseteq BookedHashes
  BY DEF TruthInv, RowsTellTheTruth
<1>3. BookedHashes \subseteq BookedHashes'
  BY TruthGrows
<1>4. RowsTellTheTruth'
  <2>1. sub[s].pc \in {"record", "key"} =>
          /\ HashOf[sub[s].body] \in BookedHashes
          /\ VouchersOf(sub[s].cur) # {}
    BY <1>2 DEF Honest, HasVoucher, BookedHashes, VouchersOf
  <2>2. sub[s].pc = "mark" =>
          BookedHashes \cap {HashOf[b] : b \in BodiesFor(sub[s].cur)} # {}
    BY <1>2 DEF Honest
  <2>3. processed' \subseteq BookedHashes
    BY <1>1, <1>2, <2>1 DEF Written
  <2>4. ASSUME NEW p \in Proposals
        PROVE  \/ status'[p] \notin {"submitted", "already_booked"}
               \/ status'[p] = status[p]
               \/ status'[p] = "submitted" /\ VouchersOf(p) # {}
               \/ /\ status'[p] = "already_booked"
                  /\ BookedHashes \cap {HashOf[b] : b \in BodiesFor(p)} # {}
    <3>1. StatusWritten(s)
      BY <1>1 DEF Written
    <3>2. \/ status'[p] = status[p]
          \/ status'[p] \in {"submitting", "submission_failed"}
          \/ p = sub[s].cur /\ sub[s].pc = "mark" /\ status'[p] = "already_booked"
          \/ p = sub[s].cur /\ sub[s].pc = "record" /\ status'[p] = "submitted"
      BY <3>1 DEF StatusWritten
    <3> QED
      BY <2>1, <2>2, <3>2
  <2> QED
    BY <2>3, <2>4, TruthStays
<1>5. ASSUME NEW r \in Runs PROVE run'[r].seen \subseteq BookedHashes'
  <2>1. run' = run /\ run[r].seen \subseteq BookedHashes
    BY <1>1 DEF Written, TruthInv
  <2> QED
    BY <1>3, <2>1
<1>6. ASSUME NEW t \in Submitters, t # s PROVE Honest(sub[t])'
  <2>1. sub'[t] = sub[t] /\ Honest(sub[t])
    BY <1>1, <1>6 DEF Written, TruthInv
  <2> QED
    BY <2>1, TruthGrows
<1>7. Honest(sub[s])'
  <2>1. CASE Aside(s)
    <3>1. sub'[s].pc \notin {"record", "key", "mark"}
      BY <2>1 DEF Aside, InHand
    <3>2. sub'[s].booked \subseteq BookedHashes'
      BY <1>2, <1>3, <2>1 DEF Aside, Honest
    <3> QED
      BY <3>1, <3>2 DEF Honest
  <2>2. CASE Advanced(s)
    <3>1. sub'[s].pc # "mark" /\ sub'[s].booked \subseteq BookedHashes'
      BY <1>2, <1>3, <2>2 DEF Advanced, PastGate, InHand, Honest
    <3>2. ASSUME sub'[s].pc \in {"record", "key"} PROVE HasVoucher(sub[s])'
      <4>1. /\ sub'[s].cur = sub[s].cur /\ sub'[s].body = sub[s].body
            /\ \/ sub[s].pc \in {"record", "key"}
               \/ posted' = Append(posted, VoucherOf(s))
        BY <2>2, <3>2 DEF Advanced
      <4>2. CASE sub[s].pc \in {"record", "key"}
        BY <1>2, <4>1, <4>2, NothingIsLost DEF Honest, HasVoucher
      <4>3. CASE posted' = Append(posted, VoucherOf(s))
        <5>1. PICK i \in DOMAIN posted' : posted'[i] = VoucherOf(s)
          BY <4>3, VoucherAdded
        <5>2. posted'[i].proposal = sub'[s].cur /\ posted'[i].body = sub'[s].body
          BY <4>1, <5>1 DEF VoucherOf
        <5> QED
          BY <5>2 DEF HasVoucher
      <4> QED
        BY <4>1, <4>2, <4>3
    <3> QED
      BY <3>1, <3>2 DEF Honest
  <2>3. ASSUME NEW p \in Proposals, Chosen(s, p) PROVE Honest(sub[s])'
    <3>1. /\ sub'[s].pc \notin {"record", "key"}
          /\ sub'[s].cur = p /\ sub'[s].body = PayloadFor(p)
          /\ sub'[s].booked = sub[s].booked
          /\ sub'[s].pc = "mark" => HashOf[PayloadFor(p)] \in sub[s].booked
      BY <2>3 DEF Chosen
    <3>2. PayloadFor(p) \in BodiesFor(p) /\ BodiesFor(p) \subseteq BodiesFor(p)'
      BY PayloadIsOwn, TruthGrows
    <3>3. sub'[s].body \in (BodiesFor(sub[s].cur))'
      BY <3>1, <3>2 DEF BodiesFor
    <3>4. /\ sub'[s].booked \subseteq BookedHashes'
          /\ sub'[s].pc = "mark" => HashOf[sub'[s].body] \in BookedHashes'
      BY <1>2, <1>3, <3>1 DEF Honest
    <3> QED
      BY <3>1, <3>3, <3>4 DEF Honest
  <2> QED
    BY <1>1, <2>1, <2>2, <2>3
<1>8. \A t \in Submitters : Honest(sub[t])'
  BY <1>6, <1>7
<1> QED
  BY <1>4, <1>5, <1>8 DEF TruthInv

\* Every step keeps what rows and calls say of the books true.
LEMMA TruthNext == TypeOK /\ HandsOK /\ TruthInv /\ [Next]_vars => TruthInv'
<1> SUFFICES ASSUME TypeOK, HandsOK, TruthInv, [Next]_vars PROVE TruthInv'
  OBVIOUS
<1>1. ASSUME NEW s \in Submitters, SubmitterStep(s) PROVE TruthInv'
  BY <1>1, TruthSubmitter
<1>2. CASE \/ \E r \in Runs : CloseRunStep(r)
           \/ \E v \in Reviewers : ReviewerStep(v)
           \/ OutsideStep
           \/ UNCHANGED vars
  <2>1. /\ UNCHANGED <<posted, processed, sub>>
        /\ \A r \in Runs : run'[r].seen \in {run[r].seen, processed}
        /\ \A p \in Proposals :
             \/ status'[p] \in {status[p], "absent", "simulated", "approved_shadow",
                                "rejected"}
             \/ /\ status'[p] = "already_booked"
                /\ \E r \in Runs : HashOf[Generated[p]] \in run[r].seen
    BY <1>2, OthersDigest
  <2>2. \A p \in Proposals : HashOf[Generated[p]] \in {HashOf[b] : b \in BodiesFor(p)}
    BY DEF BodiesFor
  <2>3. processed \subseteq BookedHashes /\ \A r \in Runs : run[r].seen \subseteq BookedHashes
    BY DEF TruthInv, RowsTellTheTruth
  <2>4. \A p \in Proposals : (\E r \in Runs : HashOf[Generated[p]] \in run[r].seen) =>
          BookedHashes \cap {HashOf[b] : b \in BodiesFor(p)} # {}
    BY <2>2, <2>3
  <2>5. RowsTellTheTruth'
    <3>1. processed' \subseteq BookedHashes
      BY <2>1, <2>3
    <3>2. \A p \in Proposals :
            \/ status'[p] \notin {"submitted", "already_booked"}
            \/ status'[p] = status[p]
            \/ /\ status'[p] = "already_booked"
               /\ BookedHashes \cap {HashOf[b] : b \in BodiesFor(p)} # {}
      BY <2>1, <2>4
    <3> QED
      BY <3>1, <3>2, TruthStays
  <2>6. \A r \in Runs : run'[r].seen \subseteq BookedHashes'
    BY <2>1, <2>3, TruthGrows
  <2>7. ASSUME NEW s \in Submitters PROVE Honest(sub[s])'
    <3>1. sub'[s] = sub[s] /\ Honest(sub[s])
      BY <2>1 DEF TruthInv
    <3> QED
      BY <3>1, TruthGrows
  <2> QED
    BY <2>5, <2>6, <2>7 DEF TruthInv
<1> QED
  BY <1>1, <1>2 DEF Next

\* A key, a submitted and an already booked row have a voucher behind them, whatever
\* statements failed and whoever wrote in between.
THEOREM TruthIsTold == Spec => []RowsTellTheTruth
<1>1. TruthInv => RowsTellTheTruth
  BY DEF TruthInv
<1>2. /\ TypeOK /\ HandsOK /\ TruthInv /\ [Next]_vars
      => (TypeOK /\ HandsOK /\ TruthInv)'
  BY TypedNext, TruthNext DEF TypedStep
<1> QED
  BY <1>1, <1>2, TypedInit, TruthInit, PTL DEF Spec

-----------------------------------------------------------------------------
(* What is booked is not booked again *)

\* Bytes in hand past the gate are not among those the batch knows as booked.
NewInHand(c) == c.pc \in PastGate => HashOf[c.body] \notin c.booked
AllNewInHand == \A s \in Submitters : NewInHand(sub[s])

\* At first no batch is under way.
LEMMA NewInit == Init => AllNewInHand
  BY IdleCalls DEF Init, AllNewInHand, NewInHand, PastGate, InHand

\* What a batch takes up it has looked for among the keys it read.
LEMMA NewSubmitter ==
  ASSUME TypeOK, HandsOK, AllNewInHand, NEW s \in Submitters, SubmitterStep(s)
  PROVE  AllNewInHand'
<1>1. Written(s) /\ (Aside(s) \/ Advanced(s) \/ \E p \in Proposals : Chosen(s, p))
  BY HandDigest
<1>2. NewInHand(sub[s]) /\ \A t \in Submitters \ {s} : sub'[t] = sub[t]
  BY <1>1 DEF Written, AllNewInHand
<1>3. NewInHand(sub[s])'
  <2>1. CASE Aside(s)
    BY <2>1 DEF Aside, NewInHand, PastGate
  <2>2. CASE Advanced(s)
    BY <1>2, <2>2 DEF Advanced, NewInHand
  <2>3. ASSUME NEW p \in Proposals, Chosen(s, p) PROVE NewInHand(sub[s])'
    BY <2>3 DEF Chosen, NewInHand, PastGate
  <2> QED
    BY <1>1, <2>1, <2>2, <2>3
<1> QED
  BY <1>2, <1>3 DEF AllNewInHand, NewInHand

\* Every step keeps the bytes in hand new to their batch.
LEMMA NewNext == TypeOK /\ HandsOK /\ AllNewInHand /\ [Next]_vars => AllNewInHand'
<1> SUFFICES ASSUME TypeOK, HandsOK, AllNewInHand, [Next]_vars PROVE AllNewInHand'
  OBVIOUS
<1>1. ASSUME NEW s \in Submitters, SubmitterStep(s) PROVE AllNewInHand'
  BY <1>1, NewSubmitter
<1>2. CASE \/ \E r \in Runs : CloseRunStep(r)
           \/ \E v \in Reviewers : ReviewerStep(v)
           \/ OutsideStep
           \/ UNCHANGED vars
  BY <1>2, OthersDigest DEF AllNewInHand, NewInHand
<1> QED
  BY <1>1, <1>2 DEF Next

\* A key every submission under way knows of stays so, and keeps its bytes from
\* being posted.
LEMMA SettledSubmitter ==
  ASSUME TypeOK, HandsOK, AllNewInHand, [Next]_vars, NEW h \in Hashes, Settled(h),
         NEW s \in Submitters, SubmitterStep(s)
  PROVE  Settled(h)' /\ VouchersWith(h)' = VouchersWith(h)
<1>1. Written(s) /\ (Aside(s) \/ Advanced(s) \/ \E p \in Proposals : Chosen(s, p))
  BY HandDigest
<1>2. h \in processed /\ h \in processed'
  BY <1>1 DEF Settled, Written
<1>3. ASSUME sub[s].pc \in {"loop"} \cup InHand PROVE h \in sub[s].booked
  BY <1>3 DEF Settled
<1>4. ASSUME sub'[s].pc \in {"loop"} \cup InHand PROVE h \in sub'[s].booked
  <2>1. CASE Aside(s)
    BY <1>2, <1>3, <1>4, <2>1 DEF Aside
  <2>2. CASE Advanced(s)
    BY <1>3, <2>2 DEF Advanced, PastGate
  <2>3. ASSUME NEW p \in Proposals, Chosen(s, p) PROVE h \in sub'[s].booked
    BY <1>3, <2>3 DEF Chosen
  <2> QED
    BY <1>1, <2>1, <2>2, <2>3
<1>5. ASSUME NEW t \in Submitters, t # s, sub'[t].pc \in {"loop"} \cup InHand
      PROVE  h \in sub'[t].booked
  <2>1. sub'[t] = sub[t]
    BY <1>1, <1>5 DEF Written
  <2> QED
    BY <1>5, <2>1 DEF Settled
<1>6. Settled(h)'
  BY <1>2, <1>4, <1>5 DEF Settled
<1>7. VouchersWith(h)' = VouchersWith(h)
  <2>1. CASE posted' = posted
    BY <2>1 DEF VouchersWith
  <2>2. CASE sub[s].pc = "post" /\ posted' = Append(posted, VoucherOf(s))
    <3>1. HashOf[VoucherOf(s).body] # h
      BY <1>3, <2>2 DEF AllNewInHand, NewInHand, VoucherOf, PastGate, InHand
    <3>2. \A i \in DOMAIN posted' : \/ i \in DOMAIN posted /\ posted'[i] = posted[i]
                                    \/ posted'[i] = VoucherOf(s)
      BY <2>2, VoucherAdded
    <3>3. \A i \in DOMAIN posted : i \in DOMAIN posted' /\ posted'[i] = posted[i]
      BY NothingIsLost
    <3> QED
      BY <3>1, <3>2, <3>3 DEF VouchersWith
  <2> QED
    BY <1>1, <2>1, <2>2 DEF Written
<1> QED
  BY <1>6, <1>7

\* The same of every step.
LEMMA SettledNext ==
  ASSUME TypeOK, HandsOK, AllNewInHand, [Next]_vars, NEW h \in Hashes, Settled(h)
  PROVE  Settled(h)' /\ VouchersWith(h)' = VouchersWith(h)
<1>1. ASSUME NEW s \in Submitters, SubmitterStep(s)
      PROVE  Settled(h)' /\ VouchersWith(h)' = VouchersWith(h)
  BY <1>1, SettledSubmitter
<1>2. CASE \/ \E r \in Runs : CloseRunStep(r)
           \/ \E v \in Reviewers : ReviewerStep(v)
           \/ OutsideStep
           \/ UNCHANGED vars
  <2>1. UNCHANGED <<posted, processed, sub>>
    BY <1>2, OthersDigest
  <2> QED
    BY <2>1 DEF Settled, VouchersWith
<1> QED
  BY <1>1, <1>2 DEF Next

\* Once a key is stored and the submissions that read the keys before it are over,
\* its bytes are never booked again: for any number of runs, submitters, reviewers
\* and edits, whatever answers are lost, statements refused and calls cut short.
THEOREM NeverBookedAgain == Spec => NeverAgain
<1>1. TypeOK /\ HandsOK /\ AllNewInHand /\ [Next]_vars
        => [\A h \in Hashes :
              Settled(h) => Settled(h)' /\ VouchersWith(h)' = VouchersWith(h)]_vars
  BY SettledNext
<1>2. /\ TypeOK /\ HandsOK /\ AllNewInHand /\ [Next]_vars
      => (TypeOK /\ HandsOK /\ AllNewInHand)'
  BY TypedNext, NewNext DEF TypedStep
<1> QED
  BY <1>1, <1>2, TypedInit, NewInit, PTL DEF Spec, NeverAgain
=============================================================================
