--------------------------- MODULE MCFortnoxHttp ----------------------------
(***************************************************************************)
(* An instance of FortnoxHttp: two readers of the cached list and a call   *)
(* of any kind beside them.                                                *)
(***************************************************************************)
EXTENDS FortnoxHttp

CONSTANTS c1, c2, c3

MCCalls == {c1, c2, c3}
MCMakes == [c \in MCCalls |-> IF c = c3 THEN Kinds ELSE {"list"}]
=============================================================================
