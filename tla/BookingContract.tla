--------------------------- MODULE BookingContract ---------------------------
(***************************************************************************)
(* What the booking of proposals promises, whoever runs it and however     *)
(* its steps interleave: decisions are only ever added, vouchers are only  *)
(* ever added, and a voucher is created by spending an approval that was   *)
(* not spent before, on bytes the proposal's reviewers approved.           *)
(***************************************************************************)
EXTENDS Naturals, Sequences

CONSTANTS
  Subjects,  \* what is approved and booked: the proposals
  Contents   \* what is approved: hashes of voucher bodies

VARIABLES
  granted,   \* for each subject, the approved content of each decision so
             \* far: a set with that one content, or {} when it approves none
  ledger     \* vouchers [subject, grant, content], oldest first

ContractTypeOK ==
  /\ granted \in [Subjects -> Seq(SUBSET Contents)]
  /\ ledger \in Seq([subject: Subjects, grant: Nat, content: Contents])

ContractInit ==
  /\ granted = [p \in Subjects |-> <<>>]
  /\ ledger = <<>>

Decide(p, content) ==
  /\ granted' = [granted EXCEPT ![p] = Append(@, content)]
  /\ UNCHANGED ledger

Unspent(p, grant) ==
  \A i \in DOMAIN ledger : ~(ledger[i].subject = p /\ ledger[i].grant = grant)

Book(p, grant, content) ==
  /\ grant \in DOMAIN granted[p]
  /\ Unspent(p, grant)
  /\ \E d \in DOMAIN granted[p] : content \in granted[p][d]
  /\ ledger' = Append(ledger, [subject |-> p, grant |-> grant,
                               content |-> content])
  /\ UNCHANGED granted

ContractNext ==
  \E p \in Subjects :
    \/ \E content \in {{}} \cup {{c} : c \in Contents} : Decide(p, content)
    \/ \E grant \in DOMAIN granted[p], content \in Contents :
         Book(p, grant, content)

ContractSpec == ContractInit /\ [][ContractNext]_<<granted, ledger>>
=============================================================================
