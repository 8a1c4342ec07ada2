----------------------------- MODULE MCBooking -----------------------------
(***************************************************************************)
(* Small instances of Booking.                                             *)
(***************************************************************************)
EXTENDS Booking, TLC

CONSTANTS r1, r2, p1, q1

\* One finding of one run, and the same finding in a second run of the period.
OneRun == {r1}
TwoRuns == {r1, r2}
OneProposal == {p1}
Rerun == {p1, q1}
MCRunOf == [p \in Proposals |-> IF p = q1 THEN r2 ELSE r1]

\* gen is the simulated body of p1 and of q1, early an edited one with an earlier
\* date.
Generates == [p \in Proposals |-> "gen"]
Plain == {"gen"}
Edited == {"gen", "early"}

MCDateOf == [b \in Payloads |-> IF b = "early" THEN 1 ELSE 2]
MCHashOf == [b \in Payloads |-> <<"sha256", b>>]

\* Neither submitters nor reviewers are told apart.
Symmetry == Permutations(Submitters) \cup Permutations(Reviewers)
=============================================================================
