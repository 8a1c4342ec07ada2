----------------------------- MODULE MCCloseRun -----------------------------
(***************************************************************************)
(* Small instances of CloseRun.                                            *)
(***************************************************************************)
EXTENDS CloseRun

\* unbalanced is a blocking validation, duplicate an anomaly for a consultant,
\* cost_center a correction the policy may approve.
MCRaisedBy == [f \in Findings |->
  CASE f \in {"unbalanced", "cost_center"} -> "general_ledger_review"
    [] f = "duplicate" -> "completeness_check"]
ByThePolicy == {"cost_center"}

\* blocksCompletion as the code's table sets it, and without the steps that
\* have no implementation, so that a run can be completed.
CodeTable == Keys \ {"income_statement_analysis", "customer_communication_draft"}
ImplementedOnly == CodeTable \ NotImplemented
=============================================================================
