------------------------------ MODULE Decision ------------------------------
(***************************************************************************)
(* The decision model (packages/domain/src/decision.ts), how a rule's      *)
(* observation becomes a finding (packages/rules/src/emit.ts) and how      *)
(* findings about one issue become one item of the queue (findings.ts).    *)
(*                                                                         *)
(* Signals are in hundredths and scores in ten-thousandths, the precision  *)
(* the code rounds to. Amounts are in ore. Texts, evidence and the reasons *)
(* of a decision are left out.                                             *)
(***************************************************************************)
EXTENDS Integers, Sequences, FiniteSets

CONSTANTS
  MaterialityThreshold,   \* policy.materialityThreshold
  AutomationAmountLimit   \* policy.automationAmountLimit

ASSUME AmountsAssumption ==
  MaterialityThreshold \in Nat /\ AutomationAmountLimit \in Nat

Abs(n) == IF n < 0 THEN -n ELSE n
Greater(m, n) == IF m >= n THEN m ELSE n

(* Signals: 100 supports automation. *)
NEUTRAL_SIGNALS ==
  [documentCompleteness |-> 100, deterministicRuleMatch |-> 100,
   historicalConsistency |-> 100, counterpartyIdentityMatch |-> 100,
   amountConsistency |-> 100, vatConsistency |-> 100,
   dimensionConsistency |-> 100, duplicateRisk |-> 100,
   reconciliationImpact |-> 100, materiality |-> 100]

computeDecisionScore(s) ==
  18 * s.documentCompleteness + 20 * s.deterministicRuleMatch
  + 12 * s.historicalConsistency + 8 * s.counterpartyIdentityMatch
  + 10 * s.amountConsistency + 12 * s.vatConsistency
  + 5 * s.dimensionConsistency + 8 * s.duplicateRisk
  + 4 * s.reconciliationImpact + 3 * s.materiality

(* A gate is named by the answer that holds automation back. *)
MANUAL_GATES ==
  {"vatTreatmentUncertain", "requiresProfessionalJudgement", "periodLocked",
   "materialAmount", "conflictingRules", "missingFortnoxCapability"}
AUTOMATIC_GATES ==
  {"noDeterministicRule", "validationsFailed", "documentationMissing",
   "periodNotOpen", "overAmountLimit", "conflictingFinding"}

Levels == {"automatic", "review", "manual_assessment"}
LevelRank ==
  [l \in Levels |-> CASE l = "automatic" -> 0 [] l = "review" -> 1 [] OTHER -> 2]

\* Mutated form: one threshold.
DecideByScore(signals, shut) ==
  LET score == computeDecisionScore(signals)
  IN  [score |-> score,
       level |-> CASE shut \cap MANUAL_GATES # {} -> "manual_assessment"
                   [] score >= 8000 -> "automatic"
                   [] score < 4500 -> "manual_assessment"
                   [] OTHER -> "review"]

\* shut: the gates that hold this decision back.
decide(signals, shut) ==
  LET score == computeDecisionScore(signals)
  IN  [score |-> score,
       level |-> CASE shut \cap MANUAL_GATES # {} -> "manual_assessment"
                   [] shut = {} /\ score >= 8500 -> "automatic"
                   [] score < 4500 -> "manual_assessment"
                   [] OTHER -> "review"]

isMaterial(amount) == Abs(amount) >= MaterialityThreshold
materialitySignal(amount) ==
  IF MaterialityThreshold = 0 THEN 0
  ELSE Greater(0, 100 - (100 * Abs(amount)) \div MaterialityThreshold)

\* What the amount and the lock say, whatever the rule says.
AmountGates(amount) ==
  {g \in {"materialAmount"} : isMaterial(amount)}
    \cup {g \in {"overAmountLimit"} : Abs(amount) > AutomationAmountLimit}
LockGates(locked) ==
  {g \in {"periodLocked", "periodNotOpen"} : locked}

\* signals: the neutral ones but for what the rule says; none of the rules says
\* how material it is.
Assess(amount, locked, signals, shut) ==
  decide([signals EXCEPT !.materiality = materialitySignal(amount)],
         shut \cup AmountGates(amount) \cup LockGates(locked))

-----------------------------------------------------------------------------
(* Findings *)

ValidationTypes ==
  {"unbalanced_voucher", "unknown_or_inactive_account",
   "date_outside_financial_year", "period_locked", "implausible_vat",
   "input_vat_without_documentation", "missing_required_dimension",
   "duplicate_source_record", "non_idempotent_action", "step_not_implemented"}
AnomalyTypes ==
  {"unusual_account_for_supplier", "deviating_vat_code",
   "unusual_amount_for_supplier", "possible_duplicate",
   "missing_documentation", "missing_cost_center_or_project",
   "transaction_in_wrong_period", "manual_voucher_unusual",
   "balance_account_where_history_uses_result_account",
   "missing_recurring_cost"}
isBlockingType(t) == t \in ValidationTypes

Severities == 0..4
low == 1
medium == 2
high == 3
critical == 4

(* A subject names what the finding is about: 0 and "" stand for absent.   *)
NoSubject == [voucher |-> 0, row |-> 0, supplier |-> "", account |-> 0]

\* The rule, the severity and the level are not part of a key. The invoice of a
\* finding never decides it: a finding with an invoice has a voucher too.
buildDeduplicationKey(period, class, s) ==
  CASE s.row # 0 -> <<period, class, "row", s.voucher, s.row>>
    [] s.row = 0 /\ s.voucher # 0 -> <<period, class, "voucher", s.voucher>>
    [] OTHER -> <<period, class, "accounts", s.supplier, s.account>>

\* env: the period and whether it is locked.
emitFinding(env, input) ==
  LET outcome == Assess(input.amount, env.locked, input.signals, input.shut)
  IN  [type |-> input.type,
       severity |-> input.severity,
       subject |-> input.subject,
       amount |-> input.amount,
       level |-> outcome.level,
       score |-> outcome.score,
       consultant |-> outcome.level # "automatic",
       blocking |-> isBlockingType(input.type),
       key |-> buildDeduplicationKey(env.period, input.class, input.subject)]

-----------------------------------------------------------------------------
(* Consolidation *)

Item(draft) ==
  [type |-> draft.type, severity |-> draft.severity, subject |-> draft.subject,
   amount |-> draft.amount, level |-> draft.level, score |-> draft.score,
   consultant |-> draft.consultant, blocking |-> draft.blocking, key |-> draft.key,
   types |-> {draft.type}, occurrences |-> 1]

\* Mutated form: the last finding speaks for the issue.
MergeLast(item, draft) ==
  [Item(draft) EXCEPT !.types = @ \cup item.types, !.occurrences = item.occurrences + 1]

\* The first finding of an issue gives the item its type, subject and amount.
Merge(item, draft) ==
  [item EXCEPT
     !.severity = Greater(@, draft.severity),
     !.blocking = @ \/ draft.blocking,
     !.consultant = @ \/ draft.consultant,
     !.level = IF LevelRank[draft.level] > LevelRank[@] THEN draft.level ELSE @,
     !.score = IF draft.score < @ THEN draft.score ELSE @,
     !.types = @ \cup {draft.type},
     !.occurrences = @ + 1]

\* A table of items by key, after the first n findings.
consolidateFindings(drafts) ==
  LET byKey[n \in 0..Len(drafts)] ==
        IF n = 0 THEN << >>
        ELSE LET d == drafts[n]
                 before == byKey[n - 1]
                 item == IF d.key \in DOMAIN before THEN Merge(before[d.key], d) ELSE Item(d)
             IN  [k \in DOMAIN before \cup {d.key} |-> IF k = d.key THEN item ELSE before[k]]
  IN  byKey[Len(drafts)]
=============================================================================
