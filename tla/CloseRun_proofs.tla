--------------------------- MODULE CloseRun_proofs ---------------------------
(***************************************************************************)
(* Proofs about CloseRun, for every set of findings, whatever step raises  *)
(* them, every choice of the steps that block completion, and any number   *)
(* of executions, failures and crashes.                                    *)
(***************************************************************************)
EXTENDS CloseRun, TLAPS

-----------------------------------------------------------------------------
(* The step table *)

\* The workflow has fourteen steps.
LEMMA StepTable ==
  /\ Len(WORKFLOW_STEPS) = 14
  /\ DOMAIN WORKFLOW_STEPS = 1..14
  BY DEF WORKFLOW_STEPS

\* Every step of the table has a key, and human_review is one of them.
LEMMA StepKeys ==
  /\ \A i \in 1..Len(WORKFLOW_STEPS) : WORKFLOW_STEPS[i].key \in Keys
  /\ "human_review" \in Keys
<1>1. \A i \in 1..Len(WORKFLOW_STEPS) : WORKFLOW_STEPS[i].key \in Keys
  BY StepTable DEF Keys
<1>2. WORKFLOW_STEPS[13].key = "human_review"
  BY DEF WORKFLOW_STEPS
<1> QED
  BY <1>1, <1>2, StepTable

-----------------------------------------------------------------------------
(* The record of a call *)

\* The execution that is not running has the type of an execution.
LEMMA IdleTyped == Idle \in Exec /\ Idle.pc = "idle"
  BY StepTable DEF Idle, Exec, StepStatus, RunStatus

\* Going on to the next step, or to the summary, keeps an execution typed.
LEMMA NextTyped ==
  ASSUME exec \in Exec
  PROVE  OnToNext \in Exec /\ OnToNext.pc \in {"visit", "summary"}
<1>1. Len(WORKFLOW_STEPS) = 14 /\ "pending" \in StepStatus
  BY StepTable DEF StepStatus
<1>2. CASE exec.at < 14
  <2>1. exec.at + 1 \in 1..14
    BY <1>1, <1>2 DEF Exec
  <2> DEFINE e == [exec EXCEPT !.pc = "visit", !.at = @ + 1, !.out = "pending"]
  <2>2. e \in Exec /\ e.pc = "visit"
    BY <1>1, <2>1 DEF Exec
  <2> QED
    BY <1>1, <1>2, <2>2 DEF OnToNext
<1>3. CASE ~(exec.at < 14)
  <2> DEFINE e == [exec EXCEPT !.pc = "summary", !.raw = {}, !.out = "pending"]
  <2>1. e \in Exec /\ e.pc = "summary"
    BY <1>1 DEF Exec
  <2> QED
    BY <1>1, <1>3, <2>1 DEF OnToNext
<1> QED
  BY <1>2, <1>3

\* deriveRunStatus answers with a run status.
LEMMA DerivedTyped == \A open : DeriveRunStatus(open) \in RunStatus
  BY DEF DeriveRunStatus, RunStatus

\* A failure is counted within the bound on failures.
LEMMA FailureCounted ==
  ASSUME faults \in 0..MaxFaults, Failing
  PROVE  faults' \in 0..MaxFaults
  BY BoundsAssumption DEF Failing

\* A step transition keeps the types and goes on as asked, or to its catch.
LEMMA TransitionTyped ==
  ASSUME TypeOK, NEW from \in StepStatus, NEW to \in StepStatus,
         NEW next \in Exec, NEW caught \in Exec,
         Transition(from, to, next, caught)
  PROVE  /\ step' \in [Keys -> StepStatus]
         /\ faults' \in 0..MaxFaults
         /\ exec' \in Exec
         /\ exec' = next \/ exec' = caught
<1>1. [step EXCEPT ![Def.key] = to] \in [Keys -> StepStatus]
  BY StepKeys DEF TypeOK, Exec, Def
<1> QED
  BY <1>1, FailureCounted DEF TypeOK, Transition

\* A handler that returns or throws leaves the execution typed, to record or to fail.
LEMMA HandlerTyped ==
  ASSUME TypeOK, NEW out \in StepStatus, NEW ledger \in BOOLEAN,
         NEW raw \in SUBSET Findings,
         Returns(out, ledger, raw) \/ Throws(ledger, raw)
  PROVE  /\ exec' \in Exec /\ exec'.pc \in {"record", "fail"}
         /\ faults' \in 0..MaxFaults
         /\ exec'.pc = "record" => exec'.at = exec.at /\ exec'.out = out
<1> DEFINE recorded == [exec EXCEPT !.pc = "record", !.out = out,
                                    !.ledger = ledger, !.raw = raw]
           thrown == [exec EXCEPT !.pc = "fail", !.ledger = ledger, !.raw = raw]
<1>1. recorded \in Exec /\ recorded.pc = "record" /\ recorded.out = out
        /\ recorded.at = exec.at
  BY DEF TypeOK, Exec
<1>2. thrown \in Exec /\ thrown.pc = "fail"
  BY DEF TypeOK, Exec
<1>3. exec' \in {recorded, thrown}
  BY DEF Returns, Throws
<1>4. faults' \in 0..MaxFaults
  BY FailureCounted DEF Returns, Throws, TypeOK
<1> HIDE DEF recorded, thrown
<1> QED
  BY <1>1, <1>2, <1>3, <1>4

\* A handler that throws leaves the execution typed, about to fail its step.
LEMMA ThrowTyped ==
  ASSUME TypeOK, NEW ledger \in BOOLEAN, NEW raw \in SUBSET Findings,
         Throws(ledger, raw)
  PROVE  exec' \in Exec /\ exec'.pc = "fail" /\ faults' \in 0..MaxFaults
<1> DEFINE thrown == [exec EXCEPT !.pc = "fail", !.ledger = ledger, !.raw = raw]
<1>1. thrown \in Exec /\ thrown.pc = "fail"
  BY DEF TypeOK, Exec
<1> QED
  BY <1>1, FailureCounted DEF Throws, TypeOK

-----------------------------------------------------------------------------
(* Type correctness *)

Handler ==
  \/ AgentReadiness \/ Analyse \/ StepNotImplemented \/ ConsolidateFindings
  \/ AccountantReport \/ HumanReview \/ FinalControl

\* A handler leaves the run and the step rows alone and comes to an outcome
\* or throws; only consolidation touches findings.
LEMMA HandlerStep ==
  ASSUME TypeOK, Handler
  PROVE  /\ exec' \in Exec /\ exec'.pc \in {"record", "fail"}
         /\ faults' \in 0..MaxFaults
         /\ UNCHANGED <<run, step, executions>>
         /\ finding' \in [Findings -> FindingStatus]
         /\ queued' \subseteq Findings
         /\ exec.pc = "handle"
         /\ exec'.pc = "record" => exec'.at = exec.at
<1>1. /\ exec.ledger \in BOOLEAN /\ exec.raw \in SUBSET Findings
      /\ \A k : Raised(k) \in SUBSET Findings
      /\ {"blocked", "completed", "not_implemented"} \subseteq StepStatus
  BY DEF TypeOK, Exec, Raised, StepStatus
<1>2. CASE AgentReadiness
  BY <1>1, <1>2, HandlerTyped, ThrowTyped DEF AgentReadiness, TypeOK, Handling
<1>3. CASE Analyse
  BY <1>1, <1>3, HandlerTyped, ThrowTyped DEF Analyse, TypeOK, Handling
<1>4. CASE StepNotImplemented
  BY <1>1, <1>4, HandlerTyped DEF StepNotImplemented, TypeOK, Handling
<1>5. CASE ConsolidateFindings
  <2>1. Filed \in [Findings -> FindingStatus] /\ Approved \in [Findings -> FindingStatus]
    BY DEF Filed, Approved, TypeOK, FindingStatus
  <2>2. ByPolicy \subseteq Findings
    BY <1>1 DEF ByPolicy
  <2> QED
    BY <1>1, <1>5, <2>1, <2>2, HandlerTyped, ThrowTyped
    DEF ConsolidateFindings, TypeOK, Handling
<1>6. CASE AccountantReport
  BY <1>1, <1>6, HandlerTyped, ThrowTyped DEF AccountantReport, TypeOK, Handling
<1>7. CASE HumanReview
  BY <1>1, <1>7, HandlerTyped, ThrowTyped DEF HumanReview, TypeOK, Handling
<1>8. CASE FinalControl
  BY <1>1, <1>8, HandlerTyped, ThrowTyped DEF FinalControl, TypeOK, Handling
<1> QED
  BY <1>2, <1>3, <1>4, <1>5, <1>6, <1>7, <1>8 DEF Handler

\* The loop leaves the run row, the findings and the queue alone, and does not
\* come to an outcome or to the end of the call by itself.
Looping == Visit \/ Record \/ RecordFailure

\* What a step of the loop changes and what it leaves alone.
LEMMA LoopStep ==
  ASSUME TypeOK, Looping
  PROVE  /\ step' \in [Keys -> StepStatus] /\ faults' \in 0..MaxFaults
         /\ exec' \in Exec
         /\ exec'.pc \in {"idle", "visit", "summary", "handle", "fail"}
         /\ UNCHANGED <<run, finding, queued, executions>>
         /\ exec.pc # "idle"
<1>1. /\ Idle \in Exec /\ Idle.pc = "idle"
      /\ OnToNext \in Exec /\ OnToNext.pc \in {"visit", "summary"}
  BY IdleTyped, NextTyped DEF TypeOK
<1>2. \A pc \in {"handle", "record", "fail"} :
        [exec EXCEPT !.pc = pc] \in Exec /\ [exec EXCEPT !.pc = pc].pc = pc
  BY DEF TypeOK, Exec
<1>3. /\ Current \in StepStatus /\ exec.out \in StepStatus
      /\ {"running", "blocked", "failed"} \subseteq StepStatus
  BY StepKeys DEF Current, Def, TypeOK, Exec, StepStatus
<1>4. CASE Visit
  <2>1. CASE exec' = OnToNext /\ UNCHANGED <<step, faults>>
    BY <1>1, <1>4, <2>1 DEF Visit, TypeOK
  <2>2. CASE Transition(Current, "blocked", OnToNext, Idle)
    BY <1>1, <1>3, <1>4, <2>2, TransitionTyped DEF Visit
  <2>3. CASE Transition(Current, "running", [exec EXCEPT !.pc = "handle"], Idle)
    BY <1>1, <1>2, <1>3, <1>4, <2>3, TransitionTyped DEF Visit
  <2> QED
    BY <1>4, <2>1, <2>2, <2>3 DEF Visit
<1>5. CASE Record
  BY <1>1, <1>2, <1>3, <1>5, TransitionTyped DEF Record
<1>6. CASE RecordFailure
  BY <1>1, <1>2, <1>3, <1>6, TransitionTyped DEF RecordFailure
<1> QED
  BY <1>4, <1>5, <1>6 DEF Looping

\* The summary goes on to finish with the derived status, or throws.
LEMMA Summarised ==
  ASSUME TypeOK, Summarise
  PROVE  /\ exec' \in Exec /\ faults' \in 0..MaxFaults
         /\ exec.pc # "idle"
         /\ \/ exec'.pc = "finish" /\ exec'.verdict = DeriveRunStatus(Waiting(Blocking))
            \/ exec'.pc = "idle"
<1>1. LET e == [exec EXCEPT !.pc = "finish", !.verdict = DeriveRunStatus(Waiting(Blocking))]
      IN  e \in Exec /\ e.pc = "finish" /\ e.verdict = DeriveRunStatus(Waiting(Blocking))
  BY DerivedTyped DEF TypeOK, Exec
<1> QED
  BY <1>1, IdleTyped, FailureCounted DEF Summarise, TypeOK

\* Every step keeps the types.
LEMMA TypedStep == TypeOK /\ [Next]_vars => TypeOK'
<1> SUFFICES ASSUME TypeOK, [Next]_vars PROVE TypeOK'
  OBVIOUS
<1>1. CASE Execute
  <2>1. [Idle EXCEPT !.pc = "visit"] \in Exec
    BY IdleTyped DEF Exec
  <2>2. executions + 1 \in 0..MaxExecutions
    BY <1>1, BoundsAssumption DEF Execute, TypeOK
  <2> QED
    BY <1>1, <2>1, <2>2 DEF Execute, TypeOK, RunStatus
<1>2. CASE Handler
  BY <1>2, HandlerStep DEF TypeOK
<1>3. CASE Looping
  BY <1>3, LoopStep DEF TypeOK
<1>4. CASE Summarise
  BY <1>4, Summarised DEF Summarise, TypeOK
<1>5. CASE Finish
  BY <1>5, IdleTyped, FailureCounted DEF Finish, TypeOK, Exec
<1>6. CASE Crash
  BY <1>6, IdleTyped DEF Crash, TypeOK
<1>7. CASE RecordReviewDecision
  BY <1>7 DEF RecordReviewDecision, TypeOK, FINDING_STATUS_BY_KIND, FindingStatus
<1>8. CASE UNCHANGED vars
  BY <1>8 DEF vars, TypeOK
<1> QED
  BY <1>1, <1>2, <1>3, <1>4, <1>5, <1>6, <1>7, <1>8
  DEF Next, Engine, Handler, Looping

\* The initial state is typed.
LEMMA TypedInit == Init => TypeOK
  BY IdleTyped, BoundsAssumption DEF Init, TypeOK, RunStatus, StepStatus, FindingStatus

\* Every row and the record of the call keep their shape.
THEOREM TypeCorrect == Spec => []TypeOK
<1> QED
  BY TypedInit, TypedStep, PTL DEF Spec

-----------------------------------------------------------------------------
(* The completion gate *)

\* What a verdict says of the rows it was read from.
Earned(v) ==
  v = "completed" =>
    /\ \A k \in BlocksCompletion : step[k] = "completed"
    /\ \A f \in Blocking : finding[f] # "open"

Tells(v) ==
  /\ v \in {"awaiting_review", "blocked", "completed"} =>
       \A k \in Keys : step[k] \notin {"pending", "running", "failed"}
  /\ v = "failed" => \E k \in Keys : step[k] = "failed"

\* The run row says "running" while a call is under way, and the verdict a call
\* is about to write still holds: nobody else moves a step, and no decision
\* opens a finding again.
VerdictOK ==
  /\ exec.pc # "idle" => run = "running"
  /\ exec.pc = "finish" => Earned(exec.verdict) /\ Tells(exec.verdict)

\* While the run row says running it claims nothing of the steps.
LEMMA Running ==
  run = "running" => CompletionEarned /\ RunTellsSteps
  BY DEF CompletionEarned, RunTellsSteps

(* The loop has visited every step below `at`, and the one at `at` once it *)
(* is past its head.                                                       *)
VisitedOK ==
  /\ exec.pc = "record" => exec.out # "pending"
  /\ exec.pc \in {"summary", "finish"} => exec.at = Len(WORKFLOW_STEPS)
  /\ exec.pc # "idle" =>
       \A i \in 1..Len(WORKFLOW_STEPS) :
         i < exec.at \/ (i = exec.at /\ exec.pc # "visit") =>
           step[WORKFLOW_STEPS[i].key] # "pending"

\* At the summary no step is pending any more.
LEMMA AllVisited ==
  ASSUME TypeOK, VisitedOK, exec.pc \in {"summary", "finish"}
  PROVE  \A k \in Keys : step[k] # "pending"
<1>1. \A i \in 1..14 : step[WORKFLOW_STEPS[i].key] # "pending"
  BY StepTable DEF VisitedOK
<1> QED
  BY <1>1, StepTable DEF Keys

\* A transition of the step at hand leaves no step pending that was not.
LEMMA TransitionVisits ==
  ASSUME TypeOK, NEW from \in StepStatus, NEW to \in StepStatus \ {"pending"},
         NEW next, NEW caught, Transition(from, to, next, caught)
  PROVE  /\ \A k \in Keys : step[k] # "pending" => step'[k] # "pending"
         /\ exec' = next /\ exec' # caught => step'[Def.key] # "pending"
         /\ exec' = next \/ exec' = caught
  BY StepKeys DEF TypeOK, Exec, Def, Transition

\* Going on to the next step needs the present one visited.
LEMMA NextVisited ==
  ASSUME TypeOK, VisitedOK, exec.pc # "idle", exec' = OnToNext,
         step' \in [Keys -> StepStatus],
         \A k \in Keys : step[k] # "pending" => step'[k] # "pending",
         step'[Def.key] # "pending"
  PROVE  VisitedOK'
<1>1. Len(WORKFLOW_STEPS) = 14 /\ exec.at \in 1..14
  BY StepTable DEF TypeOK, Exec
<1>2. \A i \in 1..14 : i <= exec.at => step'[WORKFLOW_STEPS[i].key] # "pending"
  BY <1>1, StepKeys DEF VisitedOK, Def
<1>3. CASE exec.at < 14
  <2>1. exec'.pc = "visit" /\ exec'.at = exec.at + 1
    BY <1>1, <1>3 DEF OnToNext, TypeOK, Exec
  <2> QED
    BY <1>1, <1>2, <2>1 DEF VisitedOK
<1>4. CASE ~(exec.at < 14)
  <2>1. exec'.pc = "summary" /\ exec'.at = 14 /\ exec.at = 14
    BY <1>1, <1>4 DEF OnToNext, TypeOK, Exec
  <2>2. \A i \in 1..14 : step'[WORKFLOW_STEPS[i].key] # "pending"
    BY <1>2, <2>1
  <2> QED
    BY <1>1, <2>1, <2>2 DEF VisitedOK
<1> QED
  BY <1>3, <1>4

\* The step at hand stays at hand, past the head of the loop.
LEMMA SameVisited ==
  ASSUME TypeOK, VisitedOK, exec.pc # "idle",
         exec'.pc \in {"handle", "record", "fail"}, exec'.at = exec.at,
         exec'.pc = "record" => exec'.out # "pending",
         \A k \in Keys : step[k] # "pending" => step'[k] # "pending",
         step'[Def.key] # "pending"
  PROVE  VisitedOK'
<1>1. Len(WORKFLOW_STEPS) = 14 /\ exec.at \in 1..14
  BY StepTable DEF TypeOK, Exec
<1>2. \A i \in 1..14 : i <= exec.at => step'[WORKFLOW_STEPS[i].key] # "pending"
  BY <1>1, StepKeys DEF VisitedOK, Def
<1> QED
  BY <1>1, <1>2 DEF VisitedOK

\* The loop passes no step that is still pending.
LEMMA LoopVisits ==
  ASSUME TypeOK, VisitedOK, Looping, step' \in [Keys -> StepStatus]
  PROVE  VisitedOK'
<1>1. exec.pc # "idle" /\ (exec'.pc = "idle" => VisitedOK')
  BY LoopStep DEF VisitedOK
<1>2. /\ Current \in StepStatus /\ exec.out \in StepStatus
      /\ {"running", "blocked", "failed"} \subseteq StepStatus \ {"pending"}
      /\ Def.key \in Keys
  BY StepKeys DEF Current, Def, TypeOK, Exec, StepStatus
<1>3. \A pc \in {"handle", "fail"} :
        LET e == [exec EXCEPT !.pc = pc] IN e.pc = pc /\ e.at = exec.at
  BY DEF TypeOK, Exec
<1>4. Idle.pc = "idle" /\ OnToNext.pc # "idle" /\ OnToNext.pc \in {"visit", "summary"}
  BY IdleTyped, NextTyped DEF TypeOK
<1>5. CASE Visit
  <2>1. CASE Current = "completed" /\ exec' = OnToNext /\ UNCHANGED <<step, faults>>
    BY <2>1, <1>1, <1>2, NextVisited DEF Current
  <2>2. CASE Transition(Current, "blocked", OnToNext, Idle)
    <3>1. \/ exec' = OnToNext /\ exec' # Idle
          \/ exec' = Idle
      BY <2>2, <1>2, TransitionVisits
    <3> QED
      BY <1>1, <1>2, <1>4, <2>2, <3>1, TransitionVisits, NextVisited
  <2>3. CASE Transition(Current, "running", [exec EXCEPT !.pc = "handle"], Idle)
    <3> DEFINE handling == [exec EXCEPT !.pc = "handle"]
    <3>1. handling.pc = "handle" /\ handling.at = exec.at
      BY <1>3
    <3>2. /\ exec' = handling \/ exec' = Idle
          /\ exec' = handling /\ exec' # Idle => step'[Def.key] # "pending"
          /\ \A k \in Keys : step[k] # "pending" => step'[k] # "pending"
      BY <1>2, <2>3, TransitionVisits
    <3> HIDE DEF handling
    <3> QED
      BY <1>1, <1>2, <1>4, <3>1, <3>2, SameVisited
  <2> QED
    BY <1>5, <2>1, <2>2, <2>3 DEF Visit
<1>6. ASSUME Record PROVE VisitedOK'
  <2>1. step[Def.key] # "pending" /\ exec.out # "pending" /\ exec.pc = "record"
    BY <1>6, StepTable DEF Record, VisitedOK, Def, TypeOK, Exec
  <2> DEFINE failing == [exec EXCEPT !.pc = "fail"]
  <2>2. failing.pc = "fail" /\ failing.at = exec.at
    BY <1>3
  <2>3. /\ exec' = OnToNext \/ exec' = failing
        /\ \A k \in Keys : step[k] # "pending" => step'[k] # "pending"
    BY <1>2, <1>6, <2>1, TransitionVisits DEF Record
  <2>4. step'[Def.key] # "pending"
    BY <1>2, <2>1, <2>3
  <2> HIDE DEF failing
  <2> QED
    BY <1>1, <2>2, <2>3, <2>4, SameVisited, NextVisited
<1>7. ASSUME RecordFailure PROVE VisitedOK'
  <2>1. step[Def.key] # "pending" /\ exec.pc = "fail"
    BY <1>7, StepTable DEF RecordFailure, VisitedOK, Def, TypeOK, Exec
  <2>2. /\ exec' = OnToNext \/ exec' = Idle
        /\ \A k \in Keys : step[k] # "pending" => step'[k] # "pending"
    BY <1>2, <1>7, TransitionVisits DEF RecordFailure
  <2> QED
    BY <1>1, <1>2, <1>4, <2>1, <2>2, NextVisited
<1> QED
  BY <1>5, <1>6, <1>7 DEF Looping

\* A handler leaves no step it has passed pending.
LEMMA HandlerVisits ==
  ASSUME TypeOK, VisitedOK, Handler
  PROVE  VisitedOK'
<1>1. /\ exec'.pc \in {"record", "fail"} /\ UNCHANGED step /\ exec.pc = "handle"
  BY HandlerStep
<1>2. exec'.at = exec.at
  BY DEF Handler, AgentReadiness, Analyse, StepNotImplemented, ConsolidateFindings,
         AccountantReport, HumanReview, FinalControl, Returns, Throws, TypeOK, Exec
<1>3. exec'.pc = "record" => exec'.out # "pending"
  BY DEF Handler, AgentReadiness, Analyse, StepNotImplemented, ConsolidateFindings,
         AccountantReport, HumanReview, FinalControl, Returns, Throws, TypeOK, Exec
<1>4. step[Def.key] # "pending" /\ Def.key \in Keys
  BY <1>1, StepTable, StepKeys DEF VisitedOK, Def, TypeOK, Exec
<1> QED
  BY <1>1, <1>2, <1>3, <1>4, SameVisited

\* A run whose status comes from the rows completes, waits or fails with them.
LEMMA DerivedHolds ==
  ASSUME TypeOK, \A k \in Keys : step[k] # "pending"
  PROVE  LET v == DeriveRunStatus(Waiting(Blocking)) IN Earned(v) /\ Tells(v)
<1> DEFINE v == DeriveRunStatus(Waiting(Blocking))
<1>1. v = "completed" => CanComplete(Keys, Waiting(Blocking))
  BY DEF DeriveRunStatus
<1>2. Earned(v)
  <2>1. Keys \cap BlocksCompletion = BlocksCompletion
    BY FindingsAssumption
  <2>2. Waiting(Blocking) = {} => \A f \in Blocking : finding[f] # "open"
    BY DEF Waiting, Undecided
  <2> QED
    BY <1>1, <2>1, <2>2 DEF Earned, CanComplete
<1>3. v \in {"awaiting_review", "blocked", "completed"} =>
        ~Some("failed") /\ ~Some("running")
  BY DEF DeriveRunStatus
<1>4. v = "failed" => Some("failed")
  BY DEF DeriveRunStatus
<1>5. Tells(v)
  <2> HIDE DEF v
  <2> QED
    BY <1>3, <1>4 DEF Tells, Some
<1> QED
  BY <1>2, <1>5

\* A decision or a policy approval opens nothing that was filed.
LEMMA DecisionOpensNothing ==
  ASSUME TypeOK, RecordReviewDecision
  PROVE  \A f \in Findings : finding[f] # "open" => finding'[f] # "open"
  BY DEF TypeOK, RecordReviewDecision, FINDING_STATUS_BY_KIND

GateInv == TypeOK /\ VisitedOK /\ VerdictOK /\ CompletionEarned /\ RunTellsSteps

\* Every step keeps the invariant behind the completion gate.
LEMMA GateStep == GateInv /\ [Next]_vars => GateInv'
<1> SUFFICES ASSUME GateInv, [Next]_vars PROVE GateInv'
  OBVIOUS
<1> USE DEF GateInv
<1>0. TypeOK'
  BY TypedStep
<1>1. run' = "running" => CompletionEarned' /\ RunTellsSteps'
  BY DEF CompletionEarned, RunTellsSteps
<1>2. CASE Execute
  <2>1. run' = "running" /\ exec'.pc = "visit" /\ exec'.at = 1
    BY <1>2, StepTable DEF Execute, Idle
  <2>2. VisitedOK'
    BY <2>1, StepTable DEF VisitedOK
  <2> QED
    BY <1>0, <1>1, <2>1, <2>2 DEF VerdictOK
<1>3. CASE Handler
  BY <1>0, <1>1, <1>3, HandlerStep, HandlerVisits DEF VerdictOK
<1>4. CASE Looping
  BY <1>0, <1>1, <1>4, LoopStep, LoopVisits DEF VerdictOK
<1>5. CASE Summarise
  <2>1. exec.pc = "summary" /\ UNCHANGED <<run, step, finding>>
    BY <1>5 DEF Summarise
  <2>2. run' = "running"
    BY <2>1 DEF VerdictOK
  <2>3. CASE exec'.pc = "idle"
    BY <1>0, <1>1, <2>2, <2>3 DEF VerdictOK, VisitedOK
  <2>4. CASE exec' = [exec EXCEPT !.pc = "finish",
                                  !.verdict = DeriveRunStatus(Waiting(Blocking))]
    <3> DEFINE v == DeriveRunStatus(Waiting(Blocking))
    <3>1. Earned(v) /\ Tells(v)
      BY <2>1, AllVisited, DerivedHolds
    <3>2. exec'.pc = "finish" /\ exec'.verdict = v /\ exec'.at = exec.at
      BY <2>4 DEF TypeOK, Exec
    <3> HIDE DEF v
    <3>3. Earned(exec.verdict)' /\ Tells(exec.verdict)'
      BY <2>1, <3>1, <3>2 DEF Earned, Tells
    <3>4. VisitedOK'
      BY <2>1, <3>2 DEF VisitedOK
    <3> QED
      BY <1>0, <1>1, <2>2, <3>2, <3>3, <3>4 DEF VerdictOK
  <2> QED
    BY <1>5, <2>3, <2>4, IdleTyped DEF Summarise
<1>6. CASE Finish
  <2>1. exec.pc = "finish" /\ exec'.pc = "idle" /\ UNCHANGED <<step, finding>>
    BY <1>6, IdleTyped DEF Finish
  <2>2. run' = "running" \/ run' = exec.verdict
    BY <1>6 DEF Finish, VerdictOK
  <2>3. run' = exec.verdict => CompletionEarned' /\ RunTellsSteps'
    BY <2>1 DEF VerdictOK, Earned, Tells, CompletionEarned, RunTellsSteps
  <2> QED
    BY <1>0, <1>1, <2>1, <2>2, <2>3 DEF VerdictOK, VisitedOK
<1>7. CASE Crash
  BY <1>0, <1>1, <1>7, IdleTyped DEF Crash, VerdictOK, VisitedOK
<1>8. CASE RecordReviewDecision
  <2>1. UNCHANGED <<run, step, exec>> /\ Blocking \subseteq Findings
    BY <1>8, FindingsAssumption DEF RecordReviewDecision
  <2>2. Earned(exec.verdict) => Earned(exec.verdict)'
    BY <1>8, <2>1, DecisionOpensNothing DEF Earned
  <2>3. Tells(exec.verdict) => Tells(exec.verdict)'
    BY <2>1 DEF Tells
  <2>4. CompletionEarned'
    BY <1>8, <2>1, DecisionOpensNothing DEF CompletionEarned
  <2>5. VisitedOK' /\ RunTellsSteps'
    BY <2>1 DEF VisitedOK, RunTellsSteps
  <2> QED
    BY <1>0, <2>1, <2>2, <2>3, <2>4, <2>5 DEF VerdictOK
<1>9. CASE UNCHANGED vars
  BY <1>0, <1>9 DEF vars, VerdictOK, VisitedOK, Earned, Tells, CompletionEarned, RunTellsSteps
<1> QED
  BY <1>2, <1>3, <1>4, <1>5, <1>6, <1>7, <1>8, <1>9
  DEF Next, Engine, Handler, Looping

\* The invariant behind the completion gate holds before the first execution.
LEMMA GateInit == Init => GateInv
  BY TypedInit, IdleTyped
  DEF Init, GateInv, VisitedOK, VerdictOK, CompletionEarned, RunTellsSteps, Idle

\* A run is completed only when every step that carries accounting work is and
\* no blocking finding is left unseen, whatever fails or crashes on the way.
THEOREM CompletionIsEarned == Spec => []CompletionEarned
<1>1. GateInv => CompletionEarned
  BY DEF GateInv
<1> QED
  BY <1>1, GateInit, GateStep, PTL DEF Spec

\* The run row says of the steps what the step rows say.
THEOREM RunRowTellsSteps == Spec => []RunTellsSteps
<1>1. GateInv => RunTellsSteps
  BY DEF GateInv
<1> QED
  BY <1>1, GateInit, GateStep, PTL DEF Spec

-----------------------------------------------------------------------------
(* Human review *)

\* The outcome a review is about to record was read from the findings, and
\* stays true: only consolidation files, and it is another step.
ReviewInv ==
  /\ TypeOK
  /\ exec.pc = "record" /\ Def.key = "human_review" /\ exec.out = "completed" =>
       \A f \in Consulted : finding[f] # "open"

\* Every step keeps the invariant of the human review.
LEMMA ReviewStep == ReviewInv /\ [Next]_vars => ReviewInv'
<1> SUFFICES ASSUME ReviewInv, [Next]_vars PROVE ReviewInv'
  OBVIOUS
<1> USE DEF ReviewInv
<1>0. TypeOK'
  BY TypedStep
<1>1. CASE Handler
  <2>1. exec'.pc = "record" => Def' = Def
    BY <1>1, HandlerStep DEF Def
  <2>2. CASE HumanReview
    <3>1. UNCHANGED finding
      BY <2>2 DEF HumanReview
    <3>2. exec'.pc = "record" /\ exec'.out = "completed" => Waiting(Consulted) = {}
      BY <2>2 DEF HumanReview, Returns, Throws, TypeOK, Exec
    <3> QED
      BY <1>0, <3>1, <3>2 DEF Waiting, Undecided
  <2>3. CASE Def.key # "human_review"
    BY <1>0, <2>1, <2>3
  <2>4. HumanReview \/ Def.key # "human_review"
    BY <1>1 DEF Handler, Handling, AgentReadiness, Analyse, StepNotImplemented,
       ConsolidateFindings, AccountantReport, FinalControl, Analyses, NotImplemented
  <2> QED
    BY <2>2, <2>3, <2>4
<1>2. CASE Looping
  BY <1>0, <1>2, LoopStep
<1>3. CASE Execute
  BY <1>0, <1>3 DEF Execute, Idle
<1>4. CASE Summarise
  BY <1>0, <1>4, Summarised
<1>5. CASE Finish \/ Crash
  BY <1>0, <1>5, IdleTyped DEF Finish, Crash
<1>6. CASE RecordReviewDecision
  BY <1>0, <1>6, FindingsAssumption, DecisionOpensNothing
  DEF RecordReviewDecision, Def
<1>7. CASE UNCHANGED vars
  BY <1>0, <1>7 DEF vars, Def
<1> QED
  BY <1>1, <1>2, <1>3, <1>4, <1>5, <1>6, <1>7 DEF Next, Engine, Handler, Looping

ReviewCompletes == step["human_review"] # "completed" /\ step'["human_review"] = "completed"

\* When the review completes, no finding it consulted is open.
LEMMA ReviewCompletesByRecord ==
  ASSUME ReviewInv, Next, ReviewCompletes
  PROVE  \A f \in Consulted : finding[f] # "open"
<1>1. Visit \/ Record \/ RecordFailure
  BY HandlerStep DEF Next, Engine, Handler, Execute, Summarise, Finish, Crash,
     RecordReviewDecision, ReviewCompletes, ReviewInv
<1>2. \A to \in StepStatus : step' = [step EXCEPT ![Def.key] = to] =>
        Def.key = "human_review" /\ to = "completed"
  BY StepKeys DEF ReviewCompletes, ReviewInv, TypeOK
<1>3. step' # step /\ {"blocked", "running", "failed"} \subseteq StepStatus \ {"completed"}
  BY DEF ReviewCompletes, StepStatus
<1>4. Record /\ step' = [step EXCEPT ![Def.key] = exec.out]
  BY <1>1, <1>2, <1>3 DEF Visit, Record, RecordFailure, Transition
<1>5. exec.out \in StepStatus
  BY DEF ReviewInv, TypeOK, Exec
<1>6. Def.key = "human_review" /\ exec.out = "completed"
  BY <1>2, <1>4, <1>5
<1> QED
  BY <1>4, <1>6 DEF Record, ReviewInv

\* Human review becomes completed only when every filed finding that needs a
\* consultant has been looked at.
THEOREM ReviewedBeforeDone == Spec => ReviewedFirst
<1>1. Init => ReviewInv
  BY TypedInit DEF Init, ReviewInv, Idle
<1>2. ReviewInv /\ [Next]_vars =>
        [ReviewCompletes => \A f \in Consulted : finding[f] # "open"]_vars
  BY ReviewCompletesByRecord
<1> QED
  BY <1>1, <1>2, ReviewStep, PTL DEF Spec, ReviewedFirst, ReviewCompletes

=============================================================================
