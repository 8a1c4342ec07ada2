------------------------------ MODULE CloseRun ------------------------------
(***************************************************************************)
(* One close run: its row, its fourteen step rows and its findings, as     *)
(* executeCloseRun (packages/workflow/src/engine.ts) moves them, pass      *)
(* after pass over the step table, while consultants decide findings.      *)
(*                                                                         *)
(* The calls of executeCloseRun on one run follow each other, as in every  *)
(* caller: the run is executed by the request that started it, or again    *)
(* after that call returned. What the steps tell each other in memory      *)
(* (RunState) dies with the call. Only the engine moves steps, so reading  *)
(* the step rows and writing one of them is one action; findings are       *)
(* decided by others at any time, and every read of them is its own.       *)
(*                                                                         *)
(* The proposals that step 10 creates and step 13 books are in Booking.    *)
(***************************************************************************)
EXTENDS Naturals, Sequences, FiniteSets

CONSTANTS
  Findings,         \* findings the rules can raise for the period
  RaisedBy,         \* the step that raises each of them
  Blocking,         \* findings of a blocking type
  Consulted,        \* findings with requiresConsultant
  Automatic,        \* findings whose proposal the client's policy approves
  BlocksCompletion, \* keys of the steps with blocksCompletion: true
  MaxExecutions,    \* bound: calls of executeCloseRun on the run
  MaxFaults,        \* bound: statements or requests that fail
  Crashes           \* the process may die during a call

(* WORKFLOW_STEPS, in its order, with dependsOn. *)
WORKFLOW_STEPS ==
  << [key |-> "agent_readiness",                   dependsOn |-> {}],
     [key |-> "customer_and_supplier_invoices",    dependsOn |-> {"agent_readiness"}],
     [key |-> "bank_and_tax_account_transactions", dependsOn |-> {"customer_and_supplier_invoices"}],
     [key |-> "accruals_and_depreciations",        dependsOn |-> {"customer_and_supplier_invoices"}],
     [key |-> "recurring_journal_entries",         dependsOn |-> {"agent_readiness"}],
     [key |-> "completeness_check",                dependsOn |-> {"agent_readiness"}],
     [key |-> "general_ledger_review",             dependsOn |-> {"agent_readiness"}],
     [key |-> "balance_reconciliations",           dependsOn |-> {"general_ledger_review"}],
     [key |-> "income_statement_analysis",         dependsOn |-> {"general_ledger_review"}],
     [key |-> "consolidate_findings",              dependsOn |-> {"completeness_check", "general_ledger_review"}],
     [key |-> "accountant_report",                 dependsOn |-> {"consolidate_findings"}],
     [key |-> "customer_communication_draft",      dependsOn |-> {"consolidate_findings"}],
     [key |-> "human_review",                      dependsOn |-> {"accountant_report"}],
     [key |-> "final_control",                     dependsOn |-> {"human_review"}] >>

Keys == {WORKFLOW_STEPS[i].key : i \in DOMAIN WORKFLOW_STEPS}

(* The step table of the engine: everything else has a handler of its own. *)
NotImplemented ==
  {"customer_and_supplier_invoices", "bank_and_tax_account_transactions",
   "accruals_and_depreciations", "recurring_journal_entries",
   "balance_reconciliations", "income_statement_analysis",
   "customer_communication_draft"}
Analyses == {"completeness_check", "general_ledger_review"}

ASSUME FindingsAssumption ==
  /\ RaisedBy \in [Findings -> Analyses \cup NotImplemented]
  /\ Blocking \subseteq Findings
  /\ Consulted \subseteq Findings
  /\ Automatic \subseteq Findings
  /\ BlocksCompletion \subseteq Keys

ASSUME BoundsAssumption ==
  MaxExecutions \in Nat /\ MaxFaults \in Nat /\ Crashes \in BOOLEAN

VARIABLES
  run,        \* status of the close_runs row
  step,       \* status of each close_run_steps row
  finding,    \* status of each finding; "absent" before step 10 files it
  queued,     \* findings with a review item
  exec,       \* the call of executeCloseRun under way
  executions, \* calls so far
  faults      \* failures so far

vars == <<run, step, finding, queued, exec, executions, faults>>

StepStatus == {"pending", "running", "completed", "blocked", "failed",
               "not_implemented", "skipped"}
RunStatus == {"pending", "running", "awaiting_review", "blocked", "completed",
              "failed"}
FindingStatus == {"absent", "open", "approved", "rejected",
                  "information_requested"}
Undecided == {"open", "information_requested"}

Exec == [pc: {"idle", "visit", "handle", "record", "fail", "summary", "finish"},
         at: 1..Len(WORKFLOW_STEPS), ledger: BOOLEAN, raw: SUBSET Findings,
         out: StepStatus, verdict: RunStatus]
Idle == [pc |-> "idle", at |-> 1, ledger |-> FALSE, raw |-> {},
         out |-> "pending", verdict |-> "pending"]

TypeOK ==
  /\ run \in RunStatus
  /\ step \in [Keys -> StepStatus]
  /\ finding \in [Findings -> FindingStatus]
  /\ queued \subseteq Findings
  /\ exec \in Exec
  /\ executions \in 0..MaxExecutions
  /\ faults \in 0..MaxFaults

-----------------------------------------------------------------------------
(* The state machine of packages/domain/src/state-machine.ts *)

STEP_TRANSITIONS ==
  [s \in StepStatus |->
     CASE s = "pending" -> {"running", "not_implemented", "skipped", "blocked"}
       [] s = "running" -> {"completed", "blocked", "failed", "not_implemented"}
       [] s = "blocked" -> {"pending", "running", "completed"}
       [] s \in {"failed", "not_implemented"} -> {"pending", "running"}
       [] s = "completed" -> {}
       [] s = "skipped" -> {"pending"}]

CanTransitionStep(from, to) == from = to \/ to \in STEP_TRANSITIONS[from]

(* A verdict of whatever kind settles a step; a failure does not. *)
IsSettled(s) == s \in {"completed", "not_implemented", "skipped", "blocked"}

CanCompleteSettled(keys, open) ==
  /\ \A k \in keys \cap BlocksCompletion : IsSettled(step[k])
  /\ open = {}

(* assessCompletion *)
CanComplete(keys, open) ==
  /\ \A k \in keys \cap BlocksCompletion : step[k] = "completed"
  /\ open = {}

Some(s) == \E k \in Keys : step[k] = s
SomeUnsettled == \E k \in Keys : ~IsSettled(step[k])

DeriveWaitingFirst(open) ==
  IF open # {} THEN "awaiting_review"
  ELSE IF Some("failed") THEN "failed"
  ELSE IF Some("running") \/ (SomeUnsettled /\ ~CanComplete(Keys, open)) THEN "running"
  ELSE IF CanComplete(Keys, open) THEN "completed" ELSE "blocked"

DeriveRunStatus(open) ==
  IF Some("failed") THEN "failed"
  ELSE IF Some("running") \/ (SomeUnsettled /\ ~CanComplete(Keys, open)) THEN "running"
  ELSE IF CanComplete(Keys, open) THEN "completed"
  ELSE IF open # {} THEN "awaiting_review" ELSE "blocked"

Waiting(findings) == {f \in findings : finding[f] \in Undecided}

-----------------------------------------------------------------------------
(* The calls *)

(* startCloseRun has returned: a run nobody executed yet. *)
Init ==
  /\ run = "pending"
  /\ step = [k \in Keys |-> "pending"]
  /\ finding = [f \in Findings |-> "absent"]
  /\ queued = {}
  /\ exec = Idle
  /\ executions = 0
  /\ faults = 0

(* The run row is written without regard to its status. *)
Execute ==
  /\ exec.pc = "idle"
  /\ executions < MaxExecutions
  /\ executions' = executions + 1
  /\ run' = "running"
  /\ exec' = [Idle EXCEPT !.pc = "visit"]
  /\ UNCHANGED <<step, finding, queued, faults>>

Def == WORKFLOW_STEPS[exec.at]
Current == step[Def.key]

OnToNext ==
  IF exec.at < Len(WORKFLOW_STEPS)
    THEN [exec EXCEPT !.pc = "visit", !.at = @ + 1, !.out = "pending"]
    ELSE [exec EXCEPT !.pc = "summary", !.raw = {}, !.out = "pending"]

Failing == faults < MaxFaults /\ faults' = faults + 1

(* #transition: the row, then the audit event. What it throws leads to the *)
(* call `caught`.                                                          *)
Transition(from, to, next, caught) ==
  \/ /\ CanTransitionStep(from, to)
     /\ step' = [step EXCEPT ![Def.key] = to]
     /\ exec' = next
     /\ UNCHANGED faults
  \/ /\ CanTransitionStep(from, to)
     /\ Failing
     /\ step' \in {step, [step EXCEPT ![Def.key] = to]}
     /\ exec' = caught
  \/ /\ ~CanTransitionStep(from, to)
     /\ exec' = caught
     /\ UNCHANGED <<step, faults>>

(* The head of the loop. Neither transition is inside the try: what they   *)
(* throw ends the call and leaves the run row as it is.                    *)
Visit ==
  /\ exec.pc = "visit"
  /\ \/ /\ Current = "completed"
        /\ exec' = OnToNext
        /\ UNCHANGED <<step, faults>>
     \/ /\ Current # "completed"
        /\ \E d \in Def.dependsOn : ~IsSettled(step[d])
        /\ Transition(Current, "blocked", OnToNext, Idle)
     \/ /\ Current # "completed"
        /\ \A d \in Def.dependsOn : IsSettled(step[d])
        /\ Transition(Current, "running", [exec EXCEPT !.pc = "handle"], Idle)
  /\ UNCHANGED <<run, finding, queued, executions>>

-----------------------------------------------------------------------------
(* The handlers *)

Handling(k) == exec.pc = "handle" /\ Def.key = k

Returns(out, ledger, raw) ==
  /\ exec' = [exec EXCEPT !.pc = "record", !.out = out, !.ledger = ledger,
                          !.raw = raw]
  /\ UNCHANGED faults

Throws(ledger, raw) ==
  /\ Failing
  /\ exec' = [exec EXCEPT !.pc = "fail", !.ledger = ledger, !.raw = raw]

(* The data source may be unusable; the import may fail before or after    *)
(* the ledger is in memory.                                                *)
AgentReadiness ==
  /\ Handling("agent_readiness")
  /\ \/ Returns("blocked", FALSE, exec.raw)
     \/ Returns("completed", TRUE, exec.raw)
     \/ \E loaded \in BOOLEAN : Throws(loaded, exec.raw)
  /\ UNCHANGED <<run, step, finding, queued, executions>>

Raised(k) == exec.raw \cup {f \in Findings : RaisedBy[f] = k}

(* Completeness check and general-ledger review. *)
Analyse ==
  /\ \E k \in Analyses :
       /\ Handling(k)
       /\ \/ ~exec.ledger /\ Returns("blocked", FALSE, exec.raw)
          \/ exec.ledger /\ Returns("completed", TRUE, Raised(k))
          \/ exec.ledger /\ \E raw \in {exec.raw, Raised(k)} : Throws(TRUE, raw)
  /\ UNCHANGED <<run, step, finding, queued, executions>>

StepNotImplemented ==
  /\ \E k \in NotImplemented :
       /\ Handling(k)
       /\ Returns("not_implemented", exec.ledger,
                  IF k \in BlocksCompletion /\ exec.ledger THEN Raised(k) ELSE exec.raw)
  /\ UNCHANGED <<run, step, finding, queued, executions>>

(* upsertFindings: a new finding is open, an old one keeps its status. *)
Filed ==
  [f \in Findings |->
     IF f \in exec.raw /\ finding[f] = "absent" THEN "open" ELSE finding[f]]

(* Approval by policy, of findings nobody has decided. *)
ByPolicy == {f \in exec.raw \cap Automatic : finding[f] \in {"absent", "open"}}
Approved == [f \in Findings |-> IF f \in ByPolicy THEN "approved" ELSE Filed[f]]

(* Findings, then approvals, then the review queue; it may fail between.   *)
ConsolidateFindings ==
  /\ Handling("consolidate_findings")
  /\ \/ /\ ~exec.ledger
        /\ Returns("blocked", FALSE, exec.raw)
        /\ UNCHANGED <<finding, queued>>
     \/ /\ exec.ledger
        /\ Returns("completed", TRUE, exec.raw)
        /\ finding' = Approved
        /\ queued' = queued \cup ByPolicy \cup (exec.raw \cap Consulted)
     \/ /\ exec.ledger
        /\ Throws(TRUE, exec.raw)
        /\ \/ finding' \in {finding, Filed} /\ UNCHANGED queued
           \/ finding' = Approved /\ queued' = queued \cup ByPolicy
  /\ UNCHANGED <<run, step, executions>>

(* The report is asked of the model whatever step 10 came to. *)
AccountantReport ==
  /\ Handling("accountant_report")
  /\ \/ Returns("completed", exec.ledger, exec.raw)
     \/ Throws(exec.ledger, exec.raw)
  /\ UNCHANGED <<run, step, finding, queued, executions>>

ReviewOfBlocking ==
  /\ Handling("human_review")
  /\ \/ Returns(IF Waiting(Consulted \cap Blocking) = {} THEN "completed" ELSE "blocked",
                exec.ledger, exec.raw)
     \/ Throws(exec.ledger, exec.raw)
  /\ UNCHANGED <<run, step, finding, queued, executions>>

HumanReview ==
  /\ Handling("human_review")
  /\ \/ Returns(IF Waiting(Consulted) = {} THEN "completed" ELSE "blocked",
                exec.ledger, exec.raw)
     \/ Throws(exec.ledger, exec.raw)
  /\ UNCHANGED <<run, step, finding, queued, executions>>

FinalControl ==
  /\ Handling("final_control")
  /\ \/ Returns(IF CanComplete(Keys \ {"final_control"}, Waiting(Blocking))
                  THEN "completed" ELSE "blocked", exec.ledger, exec.raw)
     \/ Throws(exec.ledger, exec.raw)
  /\ UNCHANGED <<run, step, finding, queued, executions>>

(* The outcome, from "running" whatever the row says. *)
Record ==
  /\ exec.pc = "record"
  /\ Transition("running", exec.out, OnToNext, [exec EXCEPT !.pc = "fail"])
  /\ UNCHANGED <<run, finding, queued, executions>>

(* The catch: the step failed, whatever was recorded of it. Two audit      *)
(* events follow the row; what is thrown here ends the call.               *)
RecordFailure ==
  /\ exec.pc = "fail"
  /\ Transition("running", "failed", OnToNext, Idle)
  /\ UNCHANGED <<run, finding, queued, executions>>

-----------------------------------------------------------------------------
(* The end of the call *)

(* getSummary *)
Summarise ==
  /\ exec.pc = "summary"
  /\ \/ /\ exec' = [exec EXCEPT !.pc = "finish",
                                !.verdict = DeriveRunStatus(Waiting(Blocking))]
        /\ UNCHANGED faults
     \/ Failing /\ exec' = Idle
  /\ UNCHANGED <<run, step, finding, queued, executions>>

Finish ==
  /\ exec.pc = "finish"
  /\ exec' = Idle
  /\ \/ run' = exec.verdict /\ UNCHANGED faults
     \/ Failing /\ run' \in {run, exec.verdict}
  /\ UNCHANGED <<step, finding, queued, executions>>

Crash ==
  /\ Crashes
  /\ exec.pc # "idle"
  /\ exec' = Idle
  /\ UNCHANGED <<run, step, finding, queued, executions, faults>>

REVIEW_STATUS_BY_KIND ==
  [approve |-> "decided", reject |-> "decided",
   edit_proposal |-> "decided", request_information |-> "in_review"]

FINDING_STATUS_BY_KIND ==
  [approve |-> "approved", reject |-> "rejected",
   edit_proposal |-> "approved", request_information |-> "information_requested"]

(* recordReviewDecision, on a finding that has a review item. *)
RecordReviewDecision ==
  /\ \E f \in queued, kind \in DOMAIN FINDING_STATUS_BY_KIND :
       finding' = [finding EXCEPT ![f] = FINDING_STATUS_BY_KIND[kind]]
  /\ UNCHANGED <<run, step, queued, exec, executions, faults>>

Engine ==
  \/ Visit \/ AgentReadiness \/ Analyse \/ StepNotImplemented
  \/ ConsolidateFindings \/ AccountantReport \/ HumanReview \/ FinalControl
  \/ Record \/ RecordFailure \/ Summarise \/ Finish

Next == Execute \/ Engine \/ Crash \/ RecordReviewDecision

Spec == Init /\ [][Next]_vars

-----------------------------------------------------------------------------
(* Properties *)

(* The completion gate: a run is completed only when every step that       *)
(* carries accounting work is, and when no blocking finding was left       *)
(* unseen - over repeated calls, failures, crashes and late decisions      *)
(* (assessCompletion, deriveRunStatus, getSummary).                        *)
CompletionEarned ==
  run = "completed" =>
    /\ \A k \in BlocksCompletion : step[k] = "completed"
    /\ \A f \in Blocking : finding[f] # "open"

(* What the run row says is what the step rows say: a run that waits or is *)
(* done has no step that failed, stands pending or was left running, and a *)
(* run that failed has a step that did (deriveRunStatus, and the verdict   *)
(* executeCloseRun reads before it writes it).                             *)
RunTellsSteps ==
  /\ run \in {"awaiting_review", "blocked", "completed"} =>
       \A k \in Keys : step[k] \notin {"pending", "running", "failed"}
  /\ run = "failed" => \E k \in Keys : step[k] = "failed"

(* Human review becomes completed only when every finding that needs a     *)
(* consultant and was filed has been looked at (stepHumanReview).          *)
ReviewedFirst ==
  [][(step["human_review"] # "completed" /\ step'["human_review"] = "completed")
       => \A f \in Consulted : finding[f] # "open"]_vars
=============================================================================
