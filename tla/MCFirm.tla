------------------------------- MODULE MCFirm -------------------------------
(***************************************************************************)
(* Instances of Firm: a seeded client and one that is added, one period.   *)
(***************************************************************************)
EXTENDS Firm
=============================================================================
