-------------------------- MODULE Connection_proofs --------------------------
(***************************************************************************)
(* Proofs about Connection, for any number of processes, calls and         *)
(* consents, whatever methods are called and faults happen.                *)
(***************************************************************************)
EXTENDS Connection, TLAPS

-----------------------------------------------------------------------------
(* Shapes *)

\* A call not made has the type of a call and no consent.
LEMMA IdleTyped == Idle \in Call /\ Idle.pc = "idle" /\ Idle.consent = NoConsent
  BY DEF Idle, Call, Pc, AllMethods

\* The program counters the actions write are program counters.
LEMMA PcNamed ==
  /\ {"read", "decide", "join", "reread", "ask", "drop", "mark", "store", "winner"} \subseteq Pc
  /\ {"idle", "check", "record", "exchange", "refused", "save", "connect"} \subseteq Pc
  /\ {"revoke", "delete", "disconnected"} \subseteq Pc
  BY DEF Pc, Asking, Refreshing

\* The callback and the disconnect are methods.
LEMMA MethodsNamed == "callback" \in AllMethods /\ "disconnect" \in AllMethods
  BY DEF AllMethods

\* A call that has its token, or has none, is a call.
LEMMA SettledTyped ==
  ASSUME call \in [Calls -> Call], NEW c \in Calls, NEW token \in Nat
  PROVE  Settled(c, token) \in Call
  BY IdleTyped DEF Settled, Call, Pc

\* Settling a refresh for all who joined it keeps the types.
LEMMA SettleTyped ==
  ASSUME TypeOK, NEW c \in Calls, NEW token \in Nat, Settle(c, token)
  PROVE  /\ call' \in [Calls -> Call]
         /\ flight' \in [Processes -> Calls \cup {NoCall}]
  BY SettledTyped DEF TypeOK, Settle

\* The initial state is typed.
LEMMA TypeInit == Init => TypeOK
  BY ConnectionAssumption, IdleTyped DEF Init, TypeOK, Credential, RequestStatus

\* Every step keeps the types.
LEMMA TypeStep == TypeOK /\ [Next]_vars => TypeOK'
<1> SUFFICES ASSUME TypeOK, [Next]_vars PROVE TypeOK'
  OBVIOUS
<1> USE ConnectionAssumption
<1>0. /\ call \in [Calls -> Call] /\ cred \in SUBSET Credential
      /\ issued \in Nat /\ expired \in Nat
  BY DEF TypeOK
<1>1. ASSUME NEW c \in Calls, ReadCredential(c) PROVE TypeOK'
  <2>1. [call[c] EXCEPT !.pc = "decide", !.seen = cred] \in Call
    BY <1>0, PcNamed DEF Call
  <2>2. Settled(c, 0) \in Call
    BY <1>0, SettledTyped
  <2> QED
    BY <2>1, <2>2, <1>1 DEF ReadCredential, TypeOK, table, remote
<1>2. ASSUME NEW c \in Calls, Decide(c) PROVE TypeOK'
  <2>1. /\ [call[c] EXCEPT !.pc = "reread"] \in Call
        /\ [call[c] EXCEPT !.pc = "join", !.seen = {}, !.renewed = FALSE] \in Call
    BY <1>0, PcNamed DEF Call
  <2>2. \A s \in call[c].seen : s.pair \in Nat
    BY <1>0 DEF Call, Credential
  <2>3. \A s \in call[c].seen : Settled(c, s.pair) \in Call
    BY <1>0, <2>2, SettledTyped
  <2>4. call[c].at \in Processes => flight' \in [Processes -> Calls \cup {NoCall}]
    BY <1>2 DEF Decide, TypeOK
  <2>5. call' \in [Calls -> Call]
    <3> DEFINE fresh == {s \in call[c].seen : s.pair > expired}
    <3>1. fresh # {} => (CHOOSE s \in fresh : TRUE) \in call[c].seen
      OBVIOUS
    <3> QED
      BY <1>0, <2>1, <2>3, <3>1, <1>2 DEF Decide
  <2>6. flight' \in [Processes -> Calls \cup {NoCall}]
    BY <1>2 DEF Decide, TypeOK
  <2> QED
    BY <2>5, <2>6, <1>2 DEF Decide, TypeOK, table, remote
<1>3. ASSUME NEW c \in Calls, RereadCredential(c) PROVE TypeOK'
  <2>1. ASSUME NEW s \in cred
        PROVE  [call[c] EXCEPT !.pc = "ask", !.sent = s.pair] \in Call
    BY <1>0, PcNamed DEF Call, Credential
  <2>2. CASE cred = {}
    BY <2>2, <1>3, SettleTyped DEF RereadCredential, TypeOK, table, remote
  <2>3. CASE cred # {}
    <3>1. call' \in [Calls -> Call] /\ flight' = flight
      BY <1>0, <2>1, <2>3, <1>3 DEF RereadCredential
    <3> QED
      BY <3>1, <1>3 DEF RereadCredential, TypeOK, table, remote
  <2> QED
    BY <2>2, <2>3
<1>4. ASSUME NEW c \in Calls, AskAccepted(c) PROVE TypeOK'
  <2>1. \A m \in Nat : [call[c] EXCEPT !.pc = "store", !.got = m, !.sent = 0] \in Call
    BY <1>0, PcNamed DEF Call
  <2>2. issued + 1 \in Nat
    BY <1>0
  <2>3. call' \in [Calls -> Call]
    BY <1>0, <2>1, <2>2, <1>4 DEF AskAccepted
  <2>4. live' \subseteq Nat
    BY <2>2, <1>4 DEF AskAccepted, TypeOK
  <2> QED
    BY <2>2, <2>3, <2>4, <1>4 DEF AskAccepted, TypeOK, Rotated, table
<1>5. ASSUME NEW c \in Calls, AskFails(c) PROVE TypeOK'
  <2>1. call' \in [Calls -> Call] /\ flight' \in [Processes -> Calls \cup {NoCall}]
    BY <1>5, SettleTyped DEF AskFails
  <2>2. issued' = issued + 1 \/ issued' = issued
    BY <1>5 DEF AskFails, Rotated, remote
  <2>3. live' \subseteq live
    BY <1>5 DEF AskFails, Rotated, remote
  <2> QED
    BY <1>0, <2>1, <2>2, <2>3, <1>5 DEF AskFails, TypeOK, Rotated, table, remote
<1>6. ASSUME NEW c \in Calls, AskDenied(c) PROVE TypeOK'
  <2>1. [call[c] EXCEPT !.pc = "drop", !.sent = 0, !.seen = {}, !.renewed = FALSE] \in Call
    BY <1>0, PcNamed DEF Call
  <2> QED
    BY <2>1, <1>6 DEF AskDenied, TypeOK, RequestStatus, Rotated, table, remote
<1>7. ASSUME NEW c \in Calls, DropCredential(c) PROVE TypeOK'
  <2>1. [call[c] EXCEPT !.pc = "mark"] \in Call
    BY <1>0, PcNamed DEF Call
  <2> QED
    BY <2>1, <1>7 DEF DropCredential, TypeOK, RequestStatus, Rotated, table, remote
<1>8. ASSUME NEW c \in Calls, MarkReconnect(c) PROVE TypeOK'
  BY <1>8, SettleTyped DEF MarkReconnect, TypeOK, table, remote
<1>9. ASSUME NEW c \in Calls, Rotate(c) PROVE TypeOK'
  <2>1. /\ call[c].got \in Nat
        /\ [call[c] EXCEPT !.pc = "winner", !.seen = {}, !.renewed = FALSE] \in Call
    BY <1>0, PcNamed DEF Call
  <2>2. call' \in [Calls -> Call] /\ flight' \in [Processes -> Calls \cup {NoCall}]
    BY <2>1, <1>0, <1>9, SettleTyped DEF Rotate, TypeOK
  <2>3. cred' \in SUBSET Credential /\ \A s, t \in cred' : s = t
    BY <2>1, <1>9 DEF Rotate, Credential, TypeOK
  <2> QED
    BY <2>2, <2>3, <1>9 DEF Rotate, TypeOK, remote
<1>10. ASSUME NEW c \in Calls, ReadWinner(c) PROVE TypeOK'
  <2>1. call[c].got \in Nat /\ \A s \in cred : s.pair \in Nat
    BY <1>0 DEF Call, Credential, TypeOK
  <2>2. call' \in [Calls -> Call] /\ flight' \in [Processes -> Calls \cup {NoCall}]
    BY <2>1, <1>10, SettleTyped DEF ReadWinner
  <2> QED
    BY <2>2, <1>10 DEF ReadWinner, TypeOK, table, remote
<1>11. ASSUME NEW c \in Calls, CheckCompany(c) PROVE TypeOK'
  <2>1. [call[c] EXCEPT !.pc = "record", !.got = 0, !.stale = 0] \in Call
    BY <1>0, PcNamed DEF Call
  <2> QED
    BY <2>1, <1>11 DEF CheckCompany, TypeOK, RequestStatus, Rotated, table, remote
<1>12. ASSUME NEW c \in Calls, RecordCheck(c) PROVE TypeOK'
  <2>1. Idle \in Call
    BY <1>0, IdleTyped, MethodsNamed, PcNamed DEF Call
  <2> QED
    BY <2>1, <1>12 DEF RecordCheck, TypeOK, RequestStatus, Rotated, table, remote
<1>13. ASSUME NEW c \in Calls, ExchangeAccepted(c) PROVE TypeOK'
  <2>1. \A m \in Nat :
          [call[c] EXCEPT !.pc = "save", !.got = m, !.consent = NoConsent] \in Call
    BY <1>0, PcNamed DEF Call
  <2>2. issued + 1 \in Nat
    BY <1>0
  <2>3. call' \in [Calls -> Call]
    BY <1>0, <2>1, <2>2, <1>13 DEF ExchangeAccepted
  <2>4. live' \subseteq Nat
    BY <2>2, <1>13 DEF ExchangeAccepted, TypeOK
  <2>5. \A k \in Consents : spent[k] + 1 \in Nat
    BY DEF TypeOK
  <2>6. spent' \in [Consents -> Nat]
    BY <2>5, <1>13 DEF ExchangeAccepted, TypeOK
  <2> QED
    BY <2>2, <2>3, <2>4, <2>6, <1>13 DEF ExchangeAccepted, TypeOK
<1>14. ASSUME NEW c \in Calls, ExchangeRefused(c) PROVE TypeOK'
  <2>1. [call[c] EXCEPT !.pc = "refused", !.consent = NoConsent] \in Call
    BY <1>0, PcNamed DEF Call
  <2> QED
    BY <2>1, <1>14 DEF ExchangeRefused, TypeOK, RequestStatus, Rotated, table, remote
<1>15. ASSUME NEW c \in Calls, MarkRefused(c) PROVE TypeOK'
  <2>1. Idle \in Call
    BY <1>0, IdleTyped, MethodsNamed, PcNamed DEF Call
  <2> QED
    BY <2>1, <1>15 DEF MarkRefused, TypeOK, RequestStatus, Rotated, table, remote
<1>16. ASSUME NEW c \in Calls, SaveCredential(c) PROVE TypeOK'
  <2>1. /\ call[c].got \in Nat
        /\ [call[c] EXCEPT !.pc = "connect", !.got = 0] \in Call
    BY <1>0, PcNamed DEF Call
  <2>2. \A d \in Calls : \A b \in BOOLEAN : [call[d] EXCEPT !.renewed = b] \in Call
    BY <1>0 DEF Call
  <2> DEFINE b(d) == call[d].pc \in Comparing
  <2>3. \A d \in Calls : [call[d] EXCEPT !.renewed = b(d)] \in Call
    <3>1. \A d \in Calls : b(d) \in BOOLEAN
      OBVIOUS
    <3> HIDE DEF b
    <3> QED
      BY <2>2, <3>1
  <2>5. call' \in [Calls -> Call]
    BY <2>1, <2>3, <1>16 DEF SaveCredential
  <2>4. cred' \in SUBSET Credential /\ \A s, t \in cred' : s = t
    BY <2>1, <1>16 DEF SaveCredential, Credential
  <2> QED
    BY <2>4, <2>5, <1>16 DEF SaveCredential, TypeOK, remote
<1>17. ASSUME NEW c \in Calls, MarkConnected(c) PROVE TypeOK'
  <2>1. [Idle EXCEPT !.pc = "read", !.at = call[c].at, !.method = "callback",
                   !.stale = expired] \in Call
    BY <1>0, IdleTyped, MethodsNamed, PcNamed DEF Call
  <2> QED
    BY <2>1, <1>17 DEF MarkConnected, TypeOK, RequestStatus, Rotated, table, remote
<1>18. ASSUME NEW c \in Calls, Revoke(c) PROVE TypeOK'
  <2>1. [call[c] EXCEPT !.pc = "delete", !.seen = {}] \in Call
    BY <1>0, PcNamed DEF Call
  <2> QED
    BY <2>1, <1>18 DEF Revoke, TypeOK, RequestStatus, Rotated, table, remote
<1>19. ASSUME NEW c \in Calls, DeleteCredential(c) PROVE TypeOK'
  <2>1. [call[c] EXCEPT !.pc = "disconnected"] \in Call
    BY <1>0, PcNamed DEF Call
  <2> QED
    BY <2>1, <1>19 DEF DeleteCredential, TypeOK, RequestStatus, Rotated, table, remote
<1>20. ASSUME NEW c \in Calls, MarkDisconnected(c) PROVE TypeOK'
  <2>1. Idle \in Call
    BY <1>0, IdleTyped, MethodsNamed, PcNamed DEF Call
  <2> QED
    BY <2>1, <1>20 DEF MarkDisconnected, TypeOK, RequestStatus, Rotated, table, remote
<1>21. ASSUME NEW c \in Calls, NEW p \in Processes, NEW m \in AllMethods,
              Start(c, p, m) PROVE TypeOK'
  <2>1. [Idle EXCEPT !.pc = "read", !.at = p, !.stale = expired, !.method = m] \in Call
    BY <1>0, IdleTyped, MethodsNamed, PcNamed DEF Call
  <2> QED
    BY <2>1, <1>21 DEF Start, TypeOK, RequestStatus, table, remote
<1>22. ASSUME NEW c \in Calls, NEW p \in Processes, NEW k \in Consents,
              Consume(c, p, k) PROVE TypeOK'
  <2>1. [Idle EXCEPT !.pc = "exchange", !.at = p, !.consent = k, !.method = "callback"] \in Call
    BY <1>0, IdleTyped, MethodsNamed, PcNamed DEF Call
  <2> QED
    BY <2>1, <1>22 DEF Consume, TypeOK, RequestStatus, table, remote
<1>23. ASSUME NEW c \in Calls, NEW p \in Processes, StartDisconnect(c, p) PROVE TypeOK'
  <2>1. [Idle EXCEPT !.method = "disconnect", !.at = p, !.seen = cred,
                   !.pc = IF cred = {} THEN "delete" ELSE "revoke"] \in Call
    BY <1>0, IdleTyped, MethodsNamed, PcNamed DEF Call
  <2> QED
    BY <2>1, <1>23 DEF StartDisconnect, TypeOK, RequestStatus, table, remote
<1>24. ASSUME NEW k \in Consents, BeginAuthorization(k) PROVE TypeOK'
  BY <1>24 DEF BeginAuthorization, TypeOK, RequestStatus, remote
<1>25. ASSUME NEW k \in Consents, ExpireRequest(k) PROVE TypeOK'
  BY <1>25 DEF ExpireRequest, TypeOK, RequestStatus, remote
<1>26. ASSUME NEW p \in Processes, Crash(p) PROVE TypeOK'
  BY IdleTyped, <1>26 DEF Crash, TypeOK, table, remote
<1>27. CASE AgeTokens
  BY <1>27 DEF AgeTokens, TypeOK, Credential, table
<1>28. CASE ExpireTokens
  BY <1>28 DEF ExpireTokens, TypeOK, Credential, table
<1>29. CASE UNCHANGED vars
  BY <1>29 DEF vars, table, remote, TypeOK
<1> QED
  BY <1>1, <1>2, <1>3, <1>4, <1>5, <1>6, <1>7, <1>8, <1>9, <1>10, <1>11, <1>12,
     <1>13, <1>14, <1>15, <1>16, <1>17, <1>18, <1>19, <1>20, <1>21, <1>22, <1>23,
     <1>24, <1>25, <1>26, <1>27, <1>28, <1>29
     DEF Next, Begin, CallStep, Surroundings

\* Every row, local and token keeps its shape, and there is one credential row.
THEOREM TypeCorrect == Spec => []TypeOK
  BY TypeInit, TypeStep, PTL DEF Spec

-----------------------------------------------------------------------------
(* Settling *)

\* Where a settled call goes on, and what it keeps of what it had.
LEMMA SettledIs ==
  ASSUME call \in [Calls -> Call], NEW c \in Calls, NEW token \in Nat
  PROVE  /\ Settled(c, token).pc \in {"idle", "record", "check"}
         /\ Settled(c, token).pc # "idle" => Settled(c, token).at = call[c].at
         /\ Settled(c, token).consent \in {NoConsent, call[c].consent}
         /\ Settled(c, token).stale \in {0, call[c].stale}
         /\ Settled(c, token).pc = "check" => Settled(c, token).got = token
  BY DEF Settled, Idle, Call

\* A settled call only goes on to check a token when there is one.
LEMMA SettledChecks ==
  ASSUME NEW c \in Calls, NEW token \in Nat, Settled(c, token).pc = "check",
         call \in [Calls -> Call]
  PROVE  token # 0
  BY DEF Settled, Idle, Call

\* Calls of the process of c that settles: those that joined it and itself.
LEMMA SettleIs ==
  ASSUME TypeOK, NEW c \in Calls, NEW token \in Nat, Settle(c, token)
  PROVE  /\ c \in Waiting(c) /\ Waiting(c) \subseteq Calls
         /\ \A d \in Waiting(c) : call'[d] = Settled(d, token)
         /\ \A d \in Calls \ Waiting(c) : call'[d] = call[d]
         /\ \A d \in Waiting(c) : d # c => call[d].pc = "join" /\ call[d].at = call[c].at
         /\ \A d \in Calls \ Waiting(c) : call[d].pc = "join" => call[d].at # call[c].at
  BY DEF Settle, Waiting

-----------------------------------------------------------------------------
(* One refresh for each process *)

\* Who refreshes is in the map of its process, and who waits waits for one that does.
FlightInv ==
  /\ \A c \in Calls : call[c].pc # "idle" => call[c].at \in Processes
  /\ \A c \in Calls : call[c].pc \in Refreshing => flight[call[c].at] = c
  /\ \A p \in Processes : flight[p] # NoCall =>
       call[flight[p]].at = p /\ call[flight[p]].pc \in Refreshing
  /\ \A c \in Calls : call[c].pc = "join" => flight[call[c].at] # NoCall

\* The invariant of the refreshes in flight holds in the initial state.
LEMMA FlightInit == Init => FlightInv
  BY DEF Init, FlightInv, Idle, Refreshing

\* The inductive invariant gives one refresh per process.
LEMMA FlightInvIsSingle == TypeOK /\ FlightInv => SingleFlight
<1> SUFFICES ASSUME TypeOK, FlightInv, NEW p \in Processes
             PROVE  LET here == {c \in Calls : call[c].at = p}
                    IN  /\ {c \in here : call[c].pc \in Refreshing} = {flight[p]} \ {NoCall}
                        /\ (\E c \in here : call[c].pc = "join") => flight[p] # NoCall
  BY DEF SingleFlight
<1>1. flight[p] \in Calls \cup {NoCall}
  BY DEF TypeOK
<1> QED
  BY <1>1, ConnectionAssumption DEF FlightInv

\* A step of one call that neither begins a refresh nor ends one, nor joins one.
LEMMA FlightKept ==
  ASSUME TypeOK, FlightInv, NEW c \in Calls, flight' = flight,
         \A d \in Calls : d # c => call'[d].pc = call[d].pc /\ call'[d].at = call[d].at,
         call'[c].pc # "join", call'[c].pc # "idle" => call'[c].at \in Processes,
         call'[c].pc \in Refreshing <=> call[c].pc \in Refreshing,
         call[c].pc \in Refreshing => call'[c].at = call[c].at
  PROVE  FlightInv'
<1>1. \A p \in Processes : flight[p] \in Calls \cup {NoCall}
  BY DEF TypeOK
<1> QED
  BY <1>1 DEF FlightInv

\* Settling a refresh ends it for its process and for nobody else's.
LEMMA FlightSettled ==
  ASSUME TypeOK, FlightInv, NEW c \in Calls, NEW token \in Nat, Settle(c, token),
         call[c].pc \in Refreshing
  PROVE  FlightInv'
<1>1. /\ flight[call[c].at] = c /\ call[c].at \in Processes
      /\ flight' = [flight EXCEPT ![call[c].at] = NoCall]
  BY DEF FlightInv, Refreshing, Settle
<1>2. \A d \in Waiting(c) : /\ call'[d].pc \in {"idle", "record", "check"}
                            /\ call'[d].pc # "idle" => call'[d].at = call[c].at
  BY SettledIs, SettleIs DEF TypeOK
<1>3. \A d \in Waiting(c) : call'[d].pc \notin Refreshing /\ call'[d].pc # "join"
  BY <1>2 DEF Refreshing
<1>4. \A p \in Processes : p # call[c].at => flight'[p] = flight[p]
  BY <1>1 DEF TypeOK
<1>5. flight'[call[c].at] = NoCall
  BY <1>1 DEF TypeOK
<1>6. \A d \in Calls \ Waiting(c) :
        call[d].pc \in Refreshing => call[d].at # call[c].at
  BY <1>1, SettleIs DEF FlightInv
<1>7. \A p \in Processes : flight'[p] # NoCall =>
        flight'[p] \in Calls \ Waiting(c) /\ p # call[c].at
  BY <1>1, <1>4, <1>5, SettleIs DEF FlightInv, TypeOK, Refreshing
<1>a. (\A d \in Calls : call[d].pc # "idle" => call[d].at \in Processes)'
  BY <1>1, <1>2, SettleIs DEF FlightInv
<1>b. (\A d \in Calls : call[d].pc \in Refreshing => flight[call[d].at] = d)'
  BY <1>3, <1>4, <1>6, SettleIs DEF FlightInv, Refreshing
<1>c. (\A p \in Processes : flight[p] # NoCall =>
         call[flight[p]].at = p /\ call[flight[p]].pc \in Refreshing)'
  BY <1>4, <1>7, SettleIs DEF FlightInv
<1>d. (\A d \in Calls : call[d].pc = "join" => flight[call[d].at] # NoCall)'
  BY <1>3, <1>4, SettleIs DEF FlightInv
<1> QED
  BY <1>a, <1>b, <1>c, <1>d DEF FlightInv

\* Every step keeps the invariant of the refreshes in flight.
LEMMA FlightStep == TypeOK /\ FlightInv /\ [Next]_vars => FlightInv'
<1> SUFFICES ASSUME TypeOK, FlightInv, [Next]_vars PROVE FlightInv'
  OBVIOUS
<1>0. /\ call \in [Calls -> Call]
      /\ \A c \in Calls : call[c].pc # "idle" => call[c].at \in Processes
  BY DEF TypeOK, FlightInv
<1>1. ASSUME NEW c \in Calls, AskAccepted(c) PROVE FlightInv'
  <2>1. /\ flight' = flight
        /\ \A d \in Calls : d # c => call'[d].pc = call[d].pc /\ call'[d].at = call[d].at
    BY <1>0, <1>1 DEF AskAccepted, Call, table, remote
  <2>2. /\ call'[c].pc # "join"
        /\ call'[c].pc # "idle" => call'[c].at = call[c].at
        /\ call'[c].pc \in Refreshing <=> call[c].pc \in Refreshing
        /\ call[c].pc \in Refreshing => call'[c].at = call[c].at
        /\ call[c].pc # "idle"
    BY <1>1, <1>0 DEF AskAccepted, Call, Idle, Refreshing
  <2> QED
    BY <1>0, <2>1, <2>2, FlightKept
<1>2. ASSUME NEW c \in Calls, AskDenied(c) PROVE FlightInv'
  <2>1. /\ flight' = flight
        /\ \A d \in Calls : d # c => call'[d].pc = call[d].pc /\ call'[d].at = call[d].at
    BY <1>0, <1>2 DEF AskDenied, Call, table, remote
  <2>2. /\ call'[c].pc # "join"
        /\ call'[c].pc # "idle" => call'[c].at = call[c].at
        /\ call'[c].pc \in Refreshing <=> call[c].pc \in Refreshing
        /\ call[c].pc \in Refreshing => call'[c].at = call[c].at
        /\ call[c].pc # "idle"
    BY <1>2, <1>0 DEF AskDenied, Call, Idle, Refreshing
  <2> QED
    BY <1>0, <2>1, <2>2, FlightKept
<1>3. ASSUME NEW c \in Calls, DropCredential(c) PROVE FlightInv'
  <2>1. /\ flight' = flight
        /\ \A d \in Calls : d # c => call'[d].pc = call[d].pc /\ call'[d].at = call[d].at
    BY <1>0, <1>3 DEF DropCredential, Call, table, remote
  <2>2. /\ call'[c].pc # "join"
        /\ call'[c].pc # "idle" => call'[c].at = call[c].at
        /\ call'[c].pc \in Refreshing <=> call[c].pc \in Refreshing
        /\ call[c].pc \in Refreshing => call'[c].at = call[c].at
        /\ call[c].pc # "idle"
    BY <1>3, <1>0 DEF DropCredential, Call, Idle, Refreshing
  <2> QED
    BY <1>0, <2>1, <2>2, FlightKept
<1>4. ASSUME NEW c \in Calls, CheckCompany(c) PROVE FlightInv'
  <2>1. /\ flight' = flight
        /\ \A d \in Calls : d # c => call'[d].pc = call[d].pc /\ call'[d].at = call[d].at
    BY <1>0, <1>4 DEF CheckCompany, Call, table, remote
  <2>2. /\ call'[c].pc # "join"
        /\ call'[c].pc # "idle" => call'[c].at = call[c].at
        /\ call'[c].pc \in Refreshing <=> call[c].pc \in Refreshing
        /\ call[c].pc \in Refreshing => call'[c].at = call[c].at
        /\ call[c].pc # "idle"
    BY <1>4, <1>0 DEF CheckCompany, Call, Idle, Refreshing
  <2> QED
    BY <1>0, <2>1, <2>2, FlightKept
<1>5. ASSUME NEW c \in Calls, RecordCheck(c) PROVE FlightInv'
  <2>1. /\ flight' = flight
        /\ \A d \in Calls : d # c => call'[d].pc = call[d].pc /\ call'[d].at = call[d].at
    BY <1>0, <1>5 DEF RecordCheck, Call, table, remote
  <2>2. /\ call'[c].pc # "join"
        /\ call'[c].pc # "idle" => call'[c].at = call[c].at
        /\ call'[c].pc \in Refreshing <=> call[c].pc \in Refreshing
        /\ call[c].pc \in Refreshing => call'[c].at = call[c].at
        /\ call[c].pc # "idle"
    BY <1>5, <1>0 DEF RecordCheck, Call, Idle, Refreshing
  <2> QED
    BY <1>0, <2>1, <2>2, FlightKept
<1>6. ASSUME NEW c \in Calls, ExchangeAccepted(c) PROVE FlightInv'
  <2>1. /\ flight' = flight
        /\ \A d \in Calls : d # c => call'[d].pc = call[d].pc /\ call'[d].at = call[d].at
    BY <1>0, <1>6 DEF ExchangeAccepted, Call, table, remote
  <2>2. /\ call'[c].pc # "join"
        /\ call'[c].pc # "idle" => call'[c].at = call[c].at
        /\ call'[c].pc \in Refreshing <=> call[c].pc \in Refreshing
        /\ call[c].pc \in Refreshing => call'[c].at = call[c].at
        /\ call[c].pc # "idle"
    BY <1>6, <1>0 DEF ExchangeAccepted, Call, Idle, Refreshing
  <2> QED
    BY <1>0, <2>1, <2>2, FlightKept
<1>7. ASSUME NEW c \in Calls, ExchangeRefused(c) PROVE FlightInv'
  <2>1. /\ flight' = flight
        /\ \A d \in Calls : d # c => call'[d].pc = call[d].pc /\ call'[d].at = call[d].at
    BY <1>0, <1>7 DEF ExchangeRefused, Call, table, remote
  <2>2. /\ call'[c].pc # "join"
        /\ call'[c].pc # "idle" => call'[c].at = call[c].at
        /\ call'[c].pc \in Refreshing <=> call[c].pc \in Refreshing
        /\ call[c].pc \in Refreshing => call'[c].at = call[c].at
        /\ call[c].pc # "idle"
    BY <1>7, <1>0 DEF ExchangeRefused, Call, Idle, Refreshing
  <2> QED
    BY <1>0, <2>1, <2>2, FlightKept
<1>8. ASSUME NEW c \in Calls, MarkRefused(c) PROVE FlightInv'
  <2>1. /\ flight' = flight
        /\ \A d \in Calls : d # c => call'[d].pc = call[d].pc /\ call'[d].at = call[d].at
    BY <1>0, <1>8 DEF MarkRefused, Call, table, remote
  <2>2. /\ call'[c].pc # "join"
        /\ call'[c].pc # "idle" => call'[c].at = call[c].at
        /\ call'[c].pc \in Refreshing <=> call[c].pc \in Refreshing
        /\ call[c].pc \in Refreshing => call'[c].at = call[c].at
        /\ call[c].pc # "idle"
    BY <1>8, <1>0 DEF MarkRefused, Call, Idle, Refreshing
  <2> QED
    BY <1>0, <2>1, <2>2, FlightKept
<1>9. ASSUME NEW c \in Calls, SaveCredential(c) PROVE FlightInv'
  <2>1. /\ flight' = flight
        /\ \A d \in Calls : d # c => call'[d].pc = call[d].pc /\ call'[d].at = call[d].at
    BY <1>0, <1>9 DEF SaveCredential, Call, table, remote
  <2>2. /\ call'[c].pc # "join"
        /\ call'[c].pc # "idle" => call'[c].at = call[c].at
        /\ call'[c].pc \in Refreshing <=> call[c].pc \in Refreshing
        /\ call[c].pc \in Refreshing => call'[c].at = call[c].at
        /\ call[c].pc # "idle"
    BY <1>9, <1>0 DEF SaveCredential, Call, Idle, Refreshing
  <2> QED
    BY <1>0, <2>1, <2>2, FlightKept
<1>10. ASSUME NEW c \in Calls, MarkConnected(c) PROVE FlightInv'
  <2>1. /\ flight' = flight
        /\ \A d \in Calls : d # c => call'[d].pc = call[d].pc /\ call'[d].at = call[d].at
    BY <1>0, <1>10 DEF MarkConnected, Call, table, remote
  <2>2. /\ call'[c].pc # "join"
        /\ call'[c].pc # "idle" => call'[c].at = call[c].at
        /\ call'[c].pc \in Refreshing <=> call[c].pc \in Refreshing
        /\ call[c].pc \in Refreshing => call'[c].at = call[c].at
        /\ call[c].pc # "idle"
    BY <1>10, <1>0 DEF MarkConnected, Call, Idle, Refreshing
  <2> QED
    BY <1>0, <2>1, <2>2, FlightKept
<1>11. ASSUME NEW c \in Calls, Revoke(c) PROVE FlightInv'
  <2>1. /\ flight' = flight
        /\ \A d \in Calls : d # c => call'[d].pc = call[d].pc /\ call'[d].at = call[d].at
    BY <1>0, <1>11 DEF Revoke, Call, table, remote
  <2>2. /\ call'[c].pc # "join"
        /\ call'[c].pc # "idle" => call'[c].at = call[c].at
        /\ call'[c].pc \in Refreshing <=> call[c].pc \in Refreshing
        /\ call[c].pc \in Refreshing => call'[c].at = call[c].at
        /\ call[c].pc # "idle"
    BY <1>11, <1>0 DEF Revoke, Call, Idle, Refreshing
  <2> QED
    BY <1>0, <2>1, <2>2, FlightKept
<1>12. ASSUME NEW c \in Calls, DeleteCredential(c) PROVE FlightInv'
  <2>1. /\ flight' = flight
        /\ \A d \in Calls : d # c => call'[d].pc = call[d].pc /\ call'[d].at = call[d].at
    BY <1>0, <1>12 DEF DeleteCredential, Call, table, remote
  <2>2. /\ call'[c].pc # "join"
        /\ call'[c].pc # "idle" => call'[c].at = call[c].at
        /\ call'[c].pc \in Refreshing <=> call[c].pc \in Refreshing
        /\ call[c].pc \in Refreshing => call'[c].at = call[c].at
        /\ call[c].pc # "idle"
    BY <1>12, <1>0 DEF DeleteCredential, Call, Idle, Refreshing
  <2> QED
    BY <1>0, <2>1, <2>2, FlightKept
<1>13. ASSUME NEW c \in Calls, MarkDisconnected(c) PROVE FlightInv'
  <2>1. /\ flight' = flight
        /\ \A d \in Calls : d # c => call'[d].pc = call[d].pc /\ call'[d].at = call[d].at
    BY <1>0, <1>13 DEF MarkDisconnected, Call, table, remote
  <2>2. /\ call'[c].pc # "join"
        /\ call'[c].pc # "idle" => call'[c].at = call[c].at
        /\ call'[c].pc \in Refreshing <=> call[c].pc \in Refreshing
        /\ call[c].pc \in Refreshing => call'[c].at = call[c].at
        /\ call[c].pc # "idle"
    BY <1>13, <1>0 DEF MarkDisconnected, Call, Idle, Refreshing
  <2> QED
    BY <1>0, <2>1, <2>2, FlightKept
<1>14. ASSUME NEW c \in Calls, ReadCredential(c) PROVE FlightInv'
  <2>1. /\ flight' = flight
        /\ \A d \in Calls : d # c => call'[d].pc = call[d].pc /\ call'[d].at = call[d].at
    BY <1>0, <1>14 DEF ReadCredential, Call, table, remote
  <2>2. /\ call'[c].pc # "join"
        /\ call'[c].pc # "idle" => call'[c].at = call[c].at
        /\ call'[c].pc \in Refreshing <=> call[c].pc \in Refreshing
        /\ call[c].pc \in Refreshing => call'[c].at = call[c].at
        /\ call[c].pc # "idle"
    BY <1>14, <1>0, SettledIs DEF ReadCredential, Call, Idle, Refreshing
  <2> QED
    BY <1>0, <2>1, <2>2, FlightKept
<1>15. ASSUME NEW c \in Calls, AskFails(c) PROVE FlightInv'
  BY <1>15, FlightSettled DEF AskFails, Refreshing
<1>16. ASSUME NEW c \in Calls, MarkReconnect(c) PROVE FlightInv'
  BY <1>16, FlightSettled DEF MarkReconnect, Refreshing
<1>17. ASSUME NEW c \in Calls, RereadCredential(c) PROVE FlightInv'
  <2>1. CASE cred = {}
    BY <1>17, <2>1, FlightSettled DEF RereadCredential, Refreshing
  <2>2. CASE cred # {}
    <3>1. /\ flight' = flight /\ call[c].pc = "reread"
          /\ \E s \in cred : call' = [call EXCEPT ![c] = [@ EXCEPT !.pc = "ask",
                                                                !.sent = s.pair]]
      BY <1>17, <2>2 DEF RereadCredential
    <3>2. /\ \A d \in Calls : d # c => call'[d] = call[d]
          /\ call'[c].pc = "ask" /\ call'[c].at = call[c].at
      BY <1>0, <3>1 DEF Call
    <3> QED
      BY <1>0, <3>1, <3>2, FlightKept DEF Refreshing
  <2> QED
    BY <2>1, <2>2
<1>18. ASSUME NEW c \in Calls, Rotate(c) PROVE FlightInv'
  <2> DEFINE mine == {s \in cred : \E t \in call[c].seen : s.count = t.count}
  <2>1. CASE mine = {}
    <3>0. /\ flight' = flight /\ call[c].pc = "store"
          /\ call' = [call EXCEPT ![c] = [call[c] EXCEPT !.pc = "winner", !.seen = {},
                                                        !.renewed = FALSE]]
      BY <1>18, <2>1 DEF Rotate
    <3>1. /\ flight' = flight /\ call[c].pc = "store"
          /\ \A d \in Calls : d # c => call'[d] = call[d]
          /\ call'[c].pc = "winner" /\ call'[c].at = call[c].at
      BY <1>0, <3>0 DEF Call
    <3> QED
      BY <1>0, <3>1, FlightKept DEF Refreshing
  <2>2. CASE mine # {}
    <3>1. Settle(c, call[c].got) /\ call[c].pc = "store" /\ call[c].got \in Nat
      BY <1>0, <1>18, <2>2 DEF Rotate, Call
    <3> QED
      BY <3>1, FlightSettled DEF Refreshing
  <2> QED
    BY <2>1, <2>2
<1>19. ASSUME NEW c \in Calls, ReadWinner(c) PROVE FlightInv'
  <2>1. /\ call[c].pc = "winner" /\ call[c].got \in Nat
        /\ \A s \in cred : s.pair \in Nat
    BY <1>0, <1>19 DEF ReadWinner, Call, Credential, TypeOK
  <2> QED
    BY <1>19, <2>1, FlightSettled DEF ReadWinner, Refreshing
<1>20. ASSUME NEW c \in Calls, Decide(c) PROVE FlightInv'
  <2> DEFINE fresh == {s \in call[c].seen : s.pair > expired}
             token == (CHOOSE s \in fresh : TRUE).pair
  <2>0. call[c].pc = "decide" /\ call[c].at \in Processes
    BY <1>0, <1>20 DEF Decide
  <2>1. CASE fresh # {}
    <3>1. token \in Nat
      <4>1. (CHOOSE s \in fresh : TRUE) \in call[c].seen
        BY <2>1
      <4> QED
        BY <1>0, <4>1 DEF Call, Credential
    <3>2. /\ flight' = flight /\ \A d \in Calls : d # c => call'[d] = call[d]
          /\ call'[c] = Settled(c, token)
      BY <1>0, <1>20, <2>1 DEF Decide
    <3>3. /\ call'[c].pc \in {"idle", "record", "check"}
          /\ call'[c].pc # "idle" => call'[c].at = call[c].at
      <4> HIDE DEF token
      <4> QED
        BY <1>0, <3>1, <3>2, SettledIs
    <3> QED
      BY <2>0, <3>2, <3>3, FlightKept DEF Refreshing
  <2>2. CASE fresh = {} /\ flight[call[c].at] = NoCall
    <3>1. /\ \A d \in Calls : d # c => call'[d] = call[d]
          /\ call'[c].pc = "reread" /\ call'[c].at = call[c].at
          /\ flight' = [flight EXCEPT ![call[c].at] = c]
      BY <1>0, <1>20, <2>2 DEF Decide, Call
    <3>2. /\ flight'[call[c].at] = c
          /\ \A p \in Processes : p # call[c].at => flight'[p] = flight[p]
      BY <2>0, <3>1 DEF TypeOK
    <3>3. \A p \in Processes : p # call[c].at /\ flight[p] # NoCall =>
            flight[p] \in Calls /\ flight[p] # c
      BY <2>0 DEF TypeOK, FlightInv, Refreshing
    <3>4. \A d \in Calls : d # c /\ call[d].pc \in Refreshing => call[d].at # call[c].at
      BY <2>0, <2>2, ConnectionAssumption DEF FlightInv, Refreshing
    <3>5. c # NoCall
      BY ConnectionAssumption
    <3>a. (\A d \in Calls : call[d].pc # "idle" => call[d].at \in Processes)'
      BY <1>0, <2>0, <3>1
    <3>b. (\A d \in Calls : call[d].pc \in Refreshing => flight[call[d].at] = d)'
      BY <1>0, <3>1, <3>2, <3>4 DEF FlightInv, Refreshing
    <3>c. (\A p \in Processes : flight[p] # NoCall =>
             call[flight[p]].at = p /\ call[flight[p]].pc \in Refreshing)'
      BY <3>1, <3>2, <3>3 DEF FlightInv, Refreshing
    <3>d. (\A d \in Calls : call[d].pc = "join" => flight[call[d].at] # NoCall)'
      BY <1>0, <3>1, <3>2, <3>5 DEF FlightInv
    <3> QED
      BY <3>a, <3>b, <3>c, <3>d DEF FlightInv
  <2>3. CASE fresh = {} /\ flight[call[c].at] # NoCall
    <3>0. /\ call' = [call EXCEPT ![c] = [call[c] EXCEPT !.pc = "join", !.seen = {},
                                                        !.renewed = FALSE]]
          /\ flight' = flight
      BY <1>20, <2>3 DEF Decide
    <3>1. /\ \A d \in Calls : d # c => call'[d] = call[d]
          /\ call'[c].pc = "join" /\ call'[c].at = call[c].at
          /\ flight' = flight
      BY <1>0, <3>0 DEF Call
    <3>2. \A p \in Processes : flight[p] # NoCall => flight[p] \in Calls /\ flight[p] # c
      BY <2>0 DEF TypeOK, FlightInv, Refreshing
    <3> QED
      BY <2>0, <2>3, <3>1, <3>2 DEF FlightInv, Refreshing
  <2> QED
    BY <2>1, <2>2, <2>3
<1>21. ASSUME NEW c \in Calls, NEW p \in Processes, NEW m \in AllMethods,
              Start(c, p, m) PROVE FlightInv'
  <2>1. /\ flight' = flight /\ call[c].pc = "idle"
        /\ \A d \in Calls : d # c => call'[d] = call[d]
        /\ call'[c].at = p /\ call'[c].pc \notin Refreshing \cup {"join"}
    BY <1>0, <1>21 DEF Start, Idle, Refreshing
  <2> QED
    BY <2>1, FlightKept DEF Refreshing
<1>22. ASSUME NEW c \in Calls, NEW p \in Processes, NEW k \in Consents,
              Consume(c, p, k) PROVE FlightInv'
  <2>1. /\ flight' = flight /\ call[c].pc = "idle"
        /\ \A d \in Calls : d # c => call'[d] = call[d]
        /\ call'[c].at = p /\ call'[c].pc \notin Refreshing \cup {"join"}
    BY <1>0, <1>22 DEF Consume, Idle, Refreshing
  <2> QED
    BY <2>1, FlightKept DEF Refreshing
<1>23. ASSUME NEW c \in Calls, NEW p \in Processes, StartDisconnect(c, p) PROVE FlightInv'
  <2>1. /\ flight' = flight /\ call[c].pc = "idle"
        /\ \A d \in Calls : d # c => call'[d] = call[d]
        /\ call'[c].at = p /\ call'[c].pc \notin Refreshing \cup {"join"}
    BY <1>0, <1>23 DEF StartDisconnect, Idle, Refreshing
  <2> QED
    BY <2>1, FlightKept DEF Refreshing
<1>24. ASSUME NEW p \in Processes, Crash(p) PROVE FlightInv'
  <2>1. /\ \A d \in Calls : call'[d] = IF call[d].at = p THEN Idle ELSE call[d]
        /\ flight'[p] = NoCall
        /\ \A q \in Processes : q # p => flight'[q] = flight[q]
    BY <1>24 DEF Crash, TypeOK
  <2>2. Idle.pc = "idle" /\ "idle" \notin Refreshing
    BY DEF Idle, Refreshing
  <2>3. \A q \in Processes : flight[q] \in Calls \cup {NoCall}
    BY DEF TypeOK
  <2> QED
    BY <2>1, <2>2, <2>3 DEF FlightInv
<1>25. ASSUME UNCHANGED <<flight, call>> PROVE FlightInv'
  BY <1>25 DEF FlightInv
<1> QED
  BY <1>1, <1>2, <1>3, <1>4, <1>5, <1>6, <1>7, <1>8, <1>9, <1>10, <1>11, <1>12,
     <1>13, <1>14, <1>15, <1>16, <1>17, <1>18, <1>19, <1>20, <1>21, <1>22, <1>23,
     <1>24, <1>25
     DEF Next, Begin, CallStep, Surroundings, BeginAuthorization, ExpireRequest,
         AgeTokens, ExpireTokens, vars

\* Of a process at most one call refreshes, and who waits waits for that one.
THEOREM OneRefreshPerProcess == Spec => []SingleFlight
  BY TypeCorrect, FlightInit, FlightStep, FlightInvIsSingle, PTL DEF Spec

-----------------------------------------------------------------------------
(* Codes are spent once *)

\* A request that may still be claimed was claimed by nobody; one that was is in the
\* hands of one callback, until its code is spent.
ConsentInv ==
  /\ ConsentSpentOnce
  /\ \A k \in Consents : requests[k] \in {"none", "pending"} =>
       spent[k] = 0 /\ \A c \in Calls : call[c].consent # k
  /\ \A c \in Calls : call[c].pc = "exchange" <=> call[c].consent # NoConsent
  /\ \A c \in Calls : call[c].consent # NoConsent => spent[call[c].consent] = 0
  /\ \A c, d \in Calls :
       call[c].consent # NoConsent /\ call[c].consent = call[d].consent => c = d

\* The invariant of the consents holds in the initial state.
LEMMA ConsentInit == Init => ConsentInv
<1> SUFFICES ASSUME Init PROVE ConsentInv
  OBVIOUS
<1>1. /\ \A c \in Calls : call[c].consent = NoConsent /\ call[c].pc = "idle"
      /\ \A k \in Consents : spent[k] = 0 /\ k # NoConsent
  BY ConnectionAssumption DEF Init, Idle
<1> QED
  BY <1>1 DEF ConsentInv, ConsentSpentOnce

\* A step in which every call keeps its request, or gives it up with the exchange.
LEMMA ConsentKept ==
  ASSUME ConsentInv, requests' = requests, spent' = spent,
         \A d \in Calls :
           \/ call'[d].consent = call[d].consent /\ call'[d].pc = call[d].pc
           \/ /\ call'[d].consent \in {NoConsent, call[d].consent}
              /\ call[d].pc # "exchange" /\ call'[d].pc # "exchange"
           \/ call'[d].consent = NoConsent /\ call'[d].pc # "exchange"
  PROVE  ConsentInv'
<1>1. \A d \in Calls : call'[d].consent \in {NoConsent, call[d].consent}
  OBVIOUS
<1>2. \A d \in Calls : call'[d].pc = "exchange" <=> call'[d].consent # NoConsent
  BY DEF ConsentInv
<1>3. ConnectionAssumption
  BY ConnectionAssumption
<1> QED
  BY <1>1, <1>2, <1>3 DEF ConsentInv, ConsentSpentOnce, ConnectionAssumption

\* Every step keeps the invariant of the consents.
LEMMA ConsentStep == TypeOK /\ ConsentInv /\ [Next]_vars => ConsentInv'
<1> SUFFICES ASSUME TypeOK, ConsentInv, [Next]_vars PROVE ConsentInv'
  OBVIOUS
<1>0. call \in [Calls -> Call]
  BY DEF TypeOK
<1>1. ASSUME NEW c \in Calls, AskAccepted(c) PROVE ConsentInv'
  <2>1. /\ requests' = requests /\ spent' = spent
        /\ \A d \in Calls : d # c => /\ call'[d].consent = call[d].consent
                                    /\ call'[d].pc = call[d].pc
    BY <1>0, <1>1 DEF AskAccepted, Call, table
  <2>2. /\ call'[c].consent \in {NoConsent, call[c].consent}
        /\ call'[c].pc # "exchange"
        /\ call[c].pc # "exchange" \/ call'[c].consent = NoConsent
    BY <1>0, <1>1 DEF AskAccepted, Call, Idle
  <2> QED
    BY <2>1, <2>2, ConsentKept
<1>2. ASSUME NEW c \in Calls, AskDenied(c) PROVE ConsentInv'
  <2>1. /\ requests' = requests /\ spent' = spent
        /\ \A d \in Calls : d # c => /\ call'[d].consent = call[d].consent
                                    /\ call'[d].pc = call[d].pc
    BY <1>0, <1>2 DEF AskDenied, Call, table
  <2>2. /\ call'[c].consent \in {NoConsent, call[c].consent}
        /\ call'[c].pc # "exchange"
        /\ call[c].pc # "exchange" \/ call'[c].consent = NoConsent
    BY <1>0, <1>2 DEF AskDenied, Call, Idle
  <2> QED
    BY <2>1, <2>2, ConsentKept
<1>3. ASSUME NEW c \in Calls, DropCredential(c) PROVE ConsentInv'
  <2>1. /\ requests' = requests /\ spent' = spent
        /\ \A d \in Calls : d # c => /\ call'[d].consent = call[d].consent
                                    /\ call'[d].pc = call[d].pc
    BY <1>0, <1>3 DEF DropCredential, Call, table
  <2>2. /\ call'[c].consent \in {NoConsent, call[c].consent}
        /\ call'[c].pc # "exchange"
        /\ call[c].pc # "exchange" \/ call'[c].consent = NoConsent
    BY <1>0, <1>3 DEF DropCredential, Call, Idle
  <2> QED
    BY <2>1, <2>2, ConsentKept
<1>4. ASSUME NEW c \in Calls, CheckCompany(c) PROVE ConsentInv'
  <2>1. /\ requests' = requests /\ spent' = spent
        /\ \A d \in Calls : d # c => /\ call'[d].consent = call[d].consent
                                    /\ call'[d].pc = call[d].pc
    BY <1>0, <1>4 DEF CheckCompany, Call, table
  <2>2. /\ call'[c].consent \in {NoConsent, call[c].consent}
        /\ call'[c].pc # "exchange"
        /\ call[c].pc # "exchange" \/ call'[c].consent = NoConsent
    BY <1>0, <1>4 DEF CheckCompany, Call, Idle
  <2> QED
    BY <2>1, <2>2, ConsentKept
<1>5. ASSUME NEW c \in Calls, RecordCheck(c) PROVE ConsentInv'
  <2>1. /\ requests' = requests /\ spent' = spent
        /\ \A d \in Calls : d # c => /\ call'[d].consent = call[d].consent
                                    /\ call'[d].pc = call[d].pc
    BY <1>0, <1>5 DEF RecordCheck, Call, table
  <2>2. /\ call'[c].consent \in {NoConsent, call[c].consent}
        /\ call'[c].pc # "exchange"
        /\ call[c].pc # "exchange" \/ call'[c].consent = NoConsent
    BY <1>0, <1>5 DEF RecordCheck, Call, Idle
  <2> QED
    BY <2>1, <2>2, ConsentKept
<1>6. ASSUME NEW c \in Calls, ExchangeRefused(c) PROVE ConsentInv'
  <2>1. /\ requests' = requests /\ spent' = spent
        /\ \A d \in Calls : d # c => /\ call'[d].consent = call[d].consent
                                    /\ call'[d].pc = call[d].pc
    BY <1>0, <1>6 DEF ExchangeRefused, Call, table
  <2>2. /\ call'[c].consent \in {NoConsent, call[c].consent}
        /\ call'[c].pc # "exchange"
        /\ call[c].pc # "exchange" \/ call'[c].consent = NoConsent
    BY <1>0, <1>6 DEF ExchangeRefused, Call, Idle
  <2> QED
    BY <2>1, <2>2, ConsentKept
<1>7. ASSUME NEW c \in Calls, MarkRefused(c) PROVE ConsentInv'
  <2>1. /\ requests' = requests /\ spent' = spent
        /\ \A d \in Calls : d # c => /\ call'[d].consent = call[d].consent
                                    /\ call'[d].pc = call[d].pc
    BY <1>0, <1>7 DEF MarkRefused, Call, table
  <2>2. /\ call'[c].consent \in {NoConsent, call[c].consent}
        /\ call'[c].pc # "exchange"
        /\ call[c].pc # "exchange" \/ call'[c].consent = NoConsent
    BY <1>0, <1>7 DEF MarkRefused, Call, Idle
  <2> QED
    BY <2>1, <2>2, ConsentKept
<1>8. ASSUME NEW c \in Calls, SaveCredential(c) PROVE ConsentInv'
  <2>1. /\ requests' = requests /\ spent' = spent
        /\ \A d \in Calls : d # c => /\ call'[d].consent = call[d].consent
                                    /\ call'[d].pc = call[d].pc
    BY <1>0, <1>8 DEF SaveCredential, Call, table
  <2>2. /\ call'[c].consent \in {NoConsent, call[c].consent}
        /\ call'[c].pc # "exchange"
        /\ call[c].pc # "exchange" \/ call'[c].consent = NoConsent
    BY <1>0, <1>8 DEF SaveCredential, Call, Idle
  <2> QED
    BY <2>1, <2>2, ConsentKept
<1>9. ASSUME NEW c \in Calls, MarkConnected(c) PROVE ConsentInv'
  <2>1. /\ requests' = requests /\ spent' = spent
        /\ \A d \in Calls : d # c => /\ call'[d].consent = call[d].consent
                                    /\ call'[d].pc = call[d].pc
    BY <1>0, <1>9 DEF MarkConnected, Call, table
  <2>2. /\ call'[c].consent \in {NoConsent, call[c].consent}
        /\ call'[c].pc # "exchange"
        /\ call[c].pc # "exchange" \/ call'[c].consent = NoConsent
    BY <1>0, <1>9 DEF MarkConnected, Call, Idle
  <2> QED
    BY <2>1, <2>2, ConsentKept
<1>10. ASSUME NEW c \in Calls, Revoke(c) PROVE ConsentInv'
  <2>1. /\ requests' = requests /\ spent' = spent
        /\ \A d \in Calls : d # c => /\ call'[d].consent = call[d].consent
                                    /\ call'[d].pc = call[d].pc
    BY <1>0, <1>10 DEF Revoke, Call, table
  <2>2. /\ call'[c].consent \in {NoConsent, call[c].consent}
        /\ call'[c].pc # "exchange"
        /\ call[c].pc # "exchange" \/ call'[c].consent = NoConsent
    BY <1>0, <1>10 DEF Revoke, Call, Idle
  <2> QED
    BY <2>1, <2>2, ConsentKept
<1>11. ASSUME NEW c \in Calls, DeleteCredential(c) PROVE ConsentInv'
  <2>1. /\ requests' = requests /\ spent' = spent
        /\ \A d \in Calls : d # c => /\ call'[d].consent = call[d].consent
                                    /\ call'[d].pc = call[d].pc
    BY <1>0, <1>11 DEF DeleteCredential, Call, table
  <2>2. /\ call'[c].consent \in {NoConsent, call[c].consent}
        /\ call'[c].pc # "exchange"
        /\ call[c].pc # "exchange" \/ call'[c].consent = NoConsent
    BY <1>0, <1>11 DEF DeleteCredential, Call, Idle
  <2> QED
    BY <2>1, <2>2, ConsentKept
<1>12. ASSUME NEW c \in Calls, MarkDisconnected(c) PROVE ConsentInv'
  <2>1. /\ requests' = requests /\ spent' = spent
        /\ \A d \in Calls : d # c => /\ call'[d].consent = call[d].consent
                                    /\ call'[d].pc = call[d].pc
    BY <1>0, <1>12 DEF MarkDisconnected, Call, table
  <2>2. /\ call'[c].consent \in {NoConsent, call[c].consent}
        /\ call'[c].pc # "exchange"
        /\ call[c].pc # "exchange" \/ call'[c].consent = NoConsent
    BY <1>0, <1>12 DEF MarkDisconnected, Call, Idle
  <2> QED
    BY <2>1, <2>2, ConsentKept
<1>13. ASSUME NEW c \in Calls, ReadCredential(c) PROVE ConsentInv'
  <2>1. /\ requests' = requests /\ spent' = spent /\ call[c].pc = "read"
        /\ \A d \in Calls : d # c => call'[d] = call[d]
        /\ call'[c].consent \in {NoConsent, call[c].consent} /\ call'[c].pc # "exchange"
    BY <1>0, <1>13, SettledIs DEF ReadCredential, Call, table
  <2> QED
    BY <2>1, ConsentKept
<1>14. ASSUME requests' = requests, spent' = spent, NEW c \in Calls, NEW token \in Nat,
             Settle(c, token), call[c].pc \in Refreshing
      PROVE  ConsentInv'
  <2>1. \A d \in Waiting(c) : /\ call[d].pc # "exchange" /\ call'[d].pc # "exchange"
                              /\ call'[d].consent \in {NoConsent, call[d].consent}
    BY <1>0, <1>14, SettleIs, SettledIs DEF Refreshing
  <2> QED
    BY <1>14, <2>1, SettleIs, ConsentKept
<1>15. ASSUME NEW c \in Calls, AskFails(c) PROVE ConsentInv'
  BY <1>14, <1>15 DEF AskFails, Refreshing, table
<1>16. ASSUME NEW c \in Calls, MarkReconnect(c) PROVE ConsentInv'
  BY <1>14, <1>16 DEF MarkReconnect, Refreshing, table
<1>17. ASSUME NEW c \in Calls, RereadCredential(c) PROVE ConsentInv'
  <2>1. CASE cred = {}
    BY <1>14, <1>17, <2>1 DEF RereadCredential, Refreshing, table
  <2>2. CASE cred # {}
    <3>1. /\ requests' = requests /\ spent' = spent /\ call[c].pc = "reread"
          /\ \E s \in cred : call' = [call EXCEPT ![c] = [@ EXCEPT !.pc = "ask",
                                                                !.sent = s.pair]]
      BY <1>17, <2>2 DEF RereadCredential, table
    <3>2. /\ \A d \in Calls : d # c => call'[d] = call[d]
          /\ call'[c].pc = "ask" /\ call'[c].consent = call[c].consent
      BY <1>0, <3>1 DEF Call
    <3> QED
      BY <3>1, <3>2, ConsentKept
  <2> QED
    BY <2>1, <2>2
<1>18. ASSUME NEW c \in Calls, Rotate(c) PROVE ConsentInv'
  <2> DEFINE mine == {s \in cred : \E t \in call[c].seen : s.count = t.count}
  <2>0. requests' = requests /\ spent' = spent /\ call[c].pc = "store"
    BY <1>18 DEF Rotate
  <2>1. CASE mine = {}
    <3>1. call' = [call EXCEPT ![c] = [call[c] EXCEPT !.pc = "winner", !.seen = {},
                                                    !.renewed = FALSE]]
      BY <1>18, <2>1 DEF Rotate
    <3>2. /\ \A d \in Calls : d # c => call'[d] = call[d]
          /\ call'[c].pc = "winner" /\ call'[c].consent = call[c].consent
      BY <1>0, <3>1 DEF Call
    <3> QED
      BY <2>0, <3>2, ConsentKept
  <2>2. CASE mine # {}
    <3>1. Settle(c, call[c].got) /\ call[c].got \in Nat
      BY <1>0, <1>18, <2>2 DEF Rotate, Call
    <3> QED
      BY <1>14, <2>0, <3>1 DEF Refreshing
  <2> QED
    BY <2>1, <2>2
<1>19. ASSUME NEW c \in Calls, ReadWinner(c) PROVE ConsentInv'
  <2>1. /\ call[c].pc = "winner" /\ call[c].got \in Nat
        /\ \A s \in cred : s.pair \in Nat
    BY <1>0, <1>19 DEF ReadWinner, Call, Credential, TypeOK
  <2> QED
    BY <1>14, <1>19, <2>1 DEF ReadWinner, Refreshing, table
<1>20. ASSUME NEW c \in Calls, Decide(c) PROVE ConsentInv'
  <2> DEFINE fresh == {s \in call[c].seen : s.pair > expired}
             token == (CHOOSE s \in fresh : TRUE).pair
  <2>0. call[c].pc = "decide" /\ requests' = requests /\ spent' = spent
    BY <1>20 DEF Decide, table
  <2>1. CASE fresh # {}
    <3>1. token \in Nat
      <4>1. (CHOOSE s \in fresh : TRUE) \in call[c].seen
        BY <2>1
      <4> QED
        BY <1>0, <4>1 DEF Call, Credential
    <3>2. /\ \A d \in Calls : d # c => call'[d] = call[d]
          /\ call'[c] = Settled(c, token)
      BY <1>0, <1>20, <2>1 DEF Decide
    <3>3. /\ call'[c].pc # "exchange"
          /\ call'[c].consent \in {NoConsent, call[c].consent}
      <4> HIDE DEF token
      <4> QED
        BY <1>0, <3>1, <3>2, SettledIs
    <3> QED
      BY <2>0, <3>2, <3>3, ConsentKept
  <2>2. CASE fresh = {}
    <3>1. \/ call' = [call EXCEPT ![c] = [@ EXCEPT !.pc = "reread"]]
          \/ call' = [call EXCEPT ![c] = [@ EXCEPT !.pc = "join", !.seen = {},
                                                  !.renewed = FALSE]]
      BY <1>20, <2>2 DEF Decide
    <3>2. /\ \A d \in Calls : d # c => call'[d] = call[d]
          /\ call'[c].pc \in {"reread", "join"} /\ call'[c].consent = call[c].consent
      <4>1. CASE call' = [call EXCEPT ![c] = [@ EXCEPT !.pc = "reread"]]
        BY <1>0, <4>1 DEF Call
      <4>2. CASE call' = [call EXCEPT ![c] = [@ EXCEPT !.pc = "join", !.seen = {},
                                                      !.renewed = FALSE]]
        BY <1>0, <4>2 DEF Call
      <4> QED
        BY <3>1, <4>1, <4>2
    <3> QED
      BY <2>0, <3>2, ConsentKept
  <2> QED
    BY <2>1, <2>2
<1>21. ASSUME NEW c \in Calls, ExchangeAccepted(c) PROVE ConsentInv'
  <2> DEFINE k == call[c].consent
  <2>1. k \in Consents /\ spent[k] = 0 /\ requests[k] \notin {"none", "pending"}
    BY <1>0, <1>21 DEF ExchangeAccepted, ConsentInv, Call
  <2>2. /\ requests' = requests /\ spent'[k] = 1
        /\ \A j \in Consents : j # k => spent'[j] = spent[j]
    BY <1>21, <2>1 DEF ExchangeAccepted, TypeOK
  <2>3. /\ \A d \in Calls : d # c => call'[d] = call[d]
        /\ call'[c].consent = NoConsent /\ call'[c].pc = "save"
    BY <1>0, <1>21 DEF ExchangeAccepted, Call
  <2>4. \A d \in Calls : d # c => call[d].consent # k
    BY <1>21, <2>1, ConnectionAssumption DEF ExchangeAccepted, ConsentInv
  <2>5. \A d \in Calls : call'[d].consent \in Consents \cup {NoConsent}
    BY <1>0, <2>3 DEF Call
  <2> HIDE DEF k
  <2>a. ConsentSpentOnce'
    BY <2>1, <2>2 DEF ConsentInv, ConsentSpentOnce
  <2>b. (\A j \in Consents : requests[j] \in {"none", "pending"} =>
          spent[j] = 0 /\ \A d \in Calls : call[d].consent # j)'
    BY <2>1, <2>2, <2>3, ConnectionAssumption DEF ConsentInv
  <2>c. (\A d \in Calls : call[d].pc = "exchange" <=> call[d].consent # NoConsent)'
    BY <2>3 DEF ConsentInv
  <2>d. (\A d \in Calls : call[d].consent # NoConsent => spent[call[d].consent] = 0)'
    BY <2>2, <2>3, <2>4, <2>5 DEF ConsentInv
  <2>e. (\A b, d \in Calls :
          call[b].consent # NoConsent /\ call[b].consent = call[d].consent => b = d)'
    BY <2>3 DEF ConsentInv
  <2> QED
    BY <2>a, <2>b, <2>c, <2>d, <2>e DEF ConsentInv
<1>22. ASSUME NEW c \in Calls, NEW p \in Processes, NEW m \in AllMethods,
              Start(c, p, m) PROVE ConsentInv'
  <2>1. /\ requests' = requests /\ spent' = spent
        /\ \A d \in Calls : d # c => call'[d] = call[d]
        /\ call'[c].consent = NoConsent /\ call'[c].pc # "exchange"
    BY <1>0, <1>22 DEF Start, Idle, table
  <2> QED
    BY <2>1, ConsentKept
<1>23. ASSUME NEW c \in Calls, NEW p \in Processes, StartDisconnect(c, p) PROVE ConsentInv'
  <2>1. /\ requests' = requests /\ spent' = spent
        /\ \A d \in Calls : d # c => call'[d] = call[d]
        /\ call'[c].consent = NoConsent /\ call'[c].pc # "exchange"
    BY <1>0, <1>23 DEF StartDisconnect, Idle, table
  <2> QED
    BY <2>1, ConsentKept
<1>24. ASSUME NEW c \in Calls, NEW p \in Processes, NEW k \in Consents,
              Consume(c, p, k) PROVE ConsentInv'
  <2>1. /\ requests[k] = "pending" /\ requests'[k] = "consumed" /\ spent' = spent
        /\ \A j \in Consents : j # k => requests'[j] = requests[j]
        /\ \A d \in Calls : d # c => call'[d] = call[d]
        /\ call'[c].consent = k /\ call'[c].pc = "exchange"
    BY <1>0, <1>24 DEF Consume, Idle, TypeOK
  <2>2. k # NoConsent
    BY ConnectionAssumption
  <2> QED
    BY <2>1, <2>2 DEF ConsentInv, ConsentSpentOnce
<1>25. ASSUME NEW k \in Consents, BeginAuthorization(k) PROVE ConsentInv'
  BY <1>25 DEF BeginAuthorization, ConsentInv, ConsentSpentOnce, TypeOK
<1>26. ASSUME NEW k \in Consents, ExpireRequest(k) PROVE ConsentInv'
  <2>1. /\ requests'[k] = "expired" /\ UNCHANGED <<spent, call>>
        /\ \A j \in Consents : j # k => requests'[j] = requests[j]
    BY <1>26 DEF ExpireRequest, TypeOK
  <2> QED
    BY <2>1 DEF ConsentInv, ConsentSpentOnce
<1>27. ASSUME NEW p \in Processes, Crash(p) PROVE ConsentInv'
  <2>1. /\ requests' = requests /\ spent' = spent
        /\ \A d \in Calls : call'[d] \in {Idle, call[d]}
    BY <1>27 DEF Crash, table
  <2>2. Idle.pc # "exchange" /\ Idle.consent = NoConsent
    BY DEF Idle
  <2> QED
    BY <2>1, <2>2, ConsentKept
<1>28. ASSUME UNCHANGED <<requests, spent, call>> PROVE ConsentInv'
  BY <1>28 DEF ConsentInv, ConsentSpentOnce
<1> QED
  BY <1>1, <1>2, <1>3, <1>4, <1>5, <1>6, <1>7, <1>8, <1>9, <1>10, <1>11, <1>12,
     <1>13, <1>14, <1>15, <1>16, <1>17, <1>18, <1>19, <1>20, <1>21, <1>22, <1>23,
     <1>24, <1>25, <1>26, <1>27, <1>28
     DEF Next, Begin, CallStep, Surroundings, AgeTokens, ExpireTokens, table, vars

\* The code of an authorization request is exchanged once, whatever is replayed.
THEOREM CodesSpentOnce == Spec => []ConsentSpentOnce
<1>1. ConsentInv => ConsentSpentOnce
  BY DEF ConsentInv
<1> QED
  BY <1>1, TypeCorrect, ConsentInit, ConsentStep, PTL DEF Spec

-----------------------------------------------------------------------------
(* What is handed out, and what is overwritten *)

\* What a call knows of the credential, its rows, the last tokens that are aged, have
\* run out and were issued being given: it holds a fresh pair, or what it read is
\* what is stored, or what is stored is fresh; and without a consent in between, a
\* row with the count it read is the row it read.
Sound(r, rows, old, out, last) ==
  /\ r.stale <= out
  /\ r.pc \in {"store", "winner", "save"} => old < r.got /\ r.got <= last
  /\ r.pc = "winner" => \A s \in rows : old < s.pair
  /\ r.pc = "check" => r.stale < r.got
  /\ r.pc \in Comparing =>
       /\ rows = r.seen \/ \A s \in rows : old < s.pair
       /\ \A t \in r.seen : t.pair <= last /\ (r.pc = "store" => t.pair < r.got)
       /\ ~r.renewed => \A s \in rows, t \in r.seen :
                          t.count <= s.count /\ (s.count = t.count => s = t)

TokenInv ==
  /\ expired <= aged /\ aged <= issued
  /\ \A s \in cred : s.pair <= issued
  /\ \A c \in Calls : Sound(call[c], cred, aged, expired, issued)

\* A call not made holds nothing that could be wrong.
LEMMA IdleIsSound ==
  \A rows, old, out, last : out \in Nat => Sound(Idle, rows, old, out, last)
  BY DEF Sound, Idle, Comparing

\* The token invariant holds in the initial state.
LEMMA TokenInit == Init => TokenInv
<1> SUFFICES ASSUME Init PROVE TokenInv
  OBVIOUS
<1>1. /\ expired = 0 /\ aged = 0 /\ issued = 1
      /\ \A s \in cred : s.pair = 1
      /\ \A c \in Calls : call[c] = Idle
  BY DEF Init
<1> QED
  BY <1>1, IdleIsSound DEF TokenInv

\* Time passes, pairs are issued, and the credential is deleted.
LEMMA StaysSound ==
  ASSUME NEW r \in Call, NEW rows, NEW rows2, NEW old \in Nat, NEW out \in Nat,
         NEW out2 \in Nat, NEW last \in Nat, NEW last2 \in Nat,
         Sound(r, rows, old, out, last), out <= out2, last <= last2,
         rows2 = rows \/ rows2 = {}
  PROVE  Sound(r, rows2, old, out2, last2)
<1>1. r.stale \in Nat /\ r.got \in Nat /\ \A t \in r.seen : t.pair \in Nat
  BY DEF Call, Credential
<1> QED
  BY <1>1 DEF Sound, Comparing

\* A call that neither compares nor holds a pair it was given.
LEMMA PlainIsSound ==
  ASSUME NEW r, r.pc \notin Comparing \cup {"store", "winner", "save", "check"},
         NEW rows, NEW old, NEW out, NEW last, r.stale <= out
  PROVE  Sound(r, rows, old, out, last)
  BY DEF Sound

\* A step of one call, of which every other call keeps what it knows.
LEMMA TokenKept ==
  ASSUME TypeOK, TokenInv, TypeOK', NEW c \in Calls,
         \A d \in Calls : d # c => call'[d] = call[d],
         cred' = cred \/ cred' = {}, aged' = aged, expired' = expired,
         issued <= issued',
         Sound(call'[c], cred', aged', expired', issued')
  PROVE  TokenInv'
<1>1. /\ issued \in Nat /\ issued' \in Nat /\ aged \in Nat /\ expired \in Nat
      /\ \A d \in Calls : call[d] \in Call
      /\ \A s \in cred : s.pair \in Nat
  BY DEF TypeOK, Credential
<1>2. \A d \in Calls : d # c => Sound(call'[d], cred', aged', expired', issued')
  BY <1>1, StaysSound DEF TokenInv
<1>3. \A s \in cred' : s.pair <= issued'
  BY <1>1 DEF TokenInv
<1> QED
  BY <1>1, <1>2, <1>3 DEF TokenInv

\* A refresh settles with an error, or with a token that is fresh.
LEMMA TokenSettled ==
  ASSUME TypeOK, TokenInv, TypeOK', NEW c \in Calls, NEW token \in Nat,
         Settle(c, token), token = 0 \/ aged < token,
         cred' = cred, aged' = aged, expired' = expired, issued <= issued'
  PROVE  TokenInv'
<1>1. /\ issued \in Nat /\ issued' \in Nat /\ aged \in Nat /\ expired \in Nat
      /\ call \in [Calls -> Call] /\ \A d \in Calls : call[d] \in Call
      /\ \A s \in cred : s.pair \in Nat
  BY DEF TypeOK, Credential
<1>2. \A d \in Calls \ Waiting(c) : Sound(call'[d], cred', aged', expired', issued')
  BY <1>1, SettleIs, StaysSound DEF TokenInv
<1>3. ASSUME NEW d \in Waiting(c)
      PROVE  Sound(call'[d], cred', aged', expired', issued')
  <2>1. /\ d \in Calls /\ call'[d] = Settled(d, token)
        /\ call[d].stale <= expired /\ expired <= aged /\ call[d].stale \in Nat
    BY <1>1, <1>3, SettleIs DEF TokenInv, Sound, Call
  <2>2. /\ call'[d].pc \in {"idle", "record", "check"}
        /\ call'[d].stale \in {0, call[d].stale}
        /\ call'[d].pc = "check" => call'[d].got = token /\ token # 0
    BY <1>1, <2>1, SettledIs, SettledChecks
  <2>3. call'[d].stale <= expired'
    BY <1>1, <2>1, <2>2
  <2>4. call'[d].pc = "check" => call'[d].stale < call'[d].got
    BY <1>1, <2>1, <2>2
  <2> QED
    BY <2>2, <2>3, <2>4 DEF Sound, Comparing
<1>4. \A s \in cred' : s.pair <= issued'
  BY <1>1 DEF TokenInv
<1> QED
  BY <1>1, <1>2, <1>3, <1>4 DEF TokenInv

\* Every step keeps the token invariant.
LEMMA TokenStep == TypeOK /\ TypeOK' /\ TokenInv /\ [Next]_vars => TokenInv'
<1> SUFFICES ASSUME TypeOK, TypeOK', TokenInv, [Next]_vars PROVE TokenInv'
  OBVIOUS
<1>0. /\ call \in [Calls -> Call] /\ \A d \in Calls : call[d] \in Call
      /\ issued \in Nat /\ aged \in Nat /\ expired \in Nat
      /\ expired <= aged /\ aged <= issued
      /\ \A s \in cred : s.pair \in Nat /\ s.count \in Nat /\ s.pair <= issued
      /\ \A c \in Calls : /\ call[c].stale \in Nat /\ call[c].stale <= expired
                          /\ call[c].got \in Nat
                          /\ \A t \in call[c].seen : t.pair \in Nat /\ t.count \in Nat
  <2>1. \A c \in Calls : Sound(call[c], cred, aged, expired, issued)
    BY DEF TokenInv
  <2> QED
    BY <2>1 DEF TypeOK, TokenInv, Sound, Call, Credential
<1>1. ASSUME NEW c \in Calls, AskDenied(c) PROVE TokenInv'
  <2>1. /\ \A d \in Calls : d # c => call'[d] = call[d]
        /\ cred' = cred \/ cred' = {}
        /\ issued' = issued /\ aged' = aged /\ expired' = expired
    BY <1>0, <1>1 DEF AskDenied, table, remote
  <2>2. /\ call'[c].pc \notin Comparing \cup {"store", "winner", "save", "check"}
        /\ call'[c].stale \in {0, call[c].stale, expired}
    BY <1>0, <1>1 DEF AskDenied, Call, Idle, Comparing
  <2>3. call'[c].stale <= expired'
    BY <1>0, <2>1, <2>2
  <2> QED
    BY <1>0, <2>1, <2>2, <2>3, PlainIsSound, TokenKept
<1>2. ASSUME NEW c \in Calls, DropCredential(c) PROVE TokenInv'
  <2>1. /\ \A d \in Calls : d # c => call'[d] = call[d]
        /\ cred' = cred \/ cred' = {}
        /\ issued' = issued /\ aged' = aged /\ expired' = expired
    BY <1>0, <1>2 DEF DropCredential, table, remote
  <2>2. /\ call'[c].pc \notin Comparing \cup {"store", "winner", "save", "check"}
        /\ call'[c].stale \in {0, call[c].stale, expired}
    BY <1>0, <1>2 DEF DropCredential, Call, Idle, Comparing
  <2>3. call'[c].stale <= expired'
    BY <1>0, <2>1, <2>2
  <2> QED
    BY <1>0, <2>1, <2>2, <2>3, PlainIsSound, TokenKept
<1>3. ASSUME NEW c \in Calls, CheckCompany(c) PROVE TokenInv'
  <2>1. /\ \A d \in Calls : d # c => call'[d] = call[d]
        /\ cred' = cred \/ cred' = {}
        /\ issued' = issued /\ aged' = aged /\ expired' = expired
    BY <1>0, <1>3 DEF CheckCompany, table, remote
  <2>2. /\ call'[c].pc \notin Comparing \cup {"store", "winner", "save", "check"}
        /\ call'[c].stale \in {0, call[c].stale, expired}
    BY <1>0, <1>3 DEF CheckCompany, Call, Idle, Comparing
  <2>3. call'[c].stale <= expired'
    BY <1>0, <2>1, <2>2
  <2> QED
    BY <1>0, <2>1, <2>2, <2>3, PlainIsSound, TokenKept
<1>4. ASSUME NEW c \in Calls, RecordCheck(c) PROVE TokenInv'
  <2>1. /\ \A d \in Calls : d # c => call'[d] = call[d]
        /\ cred' = cred \/ cred' = {}
        /\ issued' = issued /\ aged' = aged /\ expired' = expired
    BY <1>0, <1>4 DEF RecordCheck, table, remote
  <2>2. /\ call'[c].pc \notin Comparing \cup {"store", "winner", "save", "check"}
        /\ call'[c].stale \in {0, call[c].stale, expired}
    BY <1>0, <1>4 DEF RecordCheck, Call, Idle, Comparing
  <2>3. call'[c].stale <= expired'
    BY <1>0, <2>1, <2>2
  <2> QED
    BY <1>0, <2>1, <2>2, <2>3, PlainIsSound, TokenKept
<1>5. ASSUME NEW c \in Calls, ExchangeRefused(c) PROVE TokenInv'
  <2>1. /\ \A d \in Calls : d # c => call'[d] = call[d]
        /\ cred' = cred \/ cred' = {}
        /\ issued' = issued /\ aged' = aged /\ expired' = expired
    BY <1>0, <1>5 DEF ExchangeRefused, table, remote
  <2>2. /\ call'[c].pc \notin Comparing \cup {"store", "winner", "save", "check"}
        /\ call'[c].stale \in {0, call[c].stale, expired}
    BY <1>0, <1>5 DEF ExchangeRefused, Call, Idle, Comparing
  <2>3. call'[c].stale <= expired'
    BY <1>0, <2>1, <2>2
  <2> QED
    BY <1>0, <2>1, <2>2, <2>3, PlainIsSound, TokenKept
<1>6. ASSUME NEW c \in Calls, MarkRefused(c) PROVE TokenInv'
  <2>1. /\ \A d \in Calls : d # c => call'[d] = call[d]
        /\ cred' = cred \/ cred' = {}
        /\ issued' = issued /\ aged' = aged /\ expired' = expired
    BY <1>0, <1>6 DEF MarkRefused, table, remote
  <2>2. /\ call'[c].pc \notin Comparing \cup {"store", "winner", "save", "check"}
        /\ call'[c].stale \in {0, call[c].stale, expired}
    BY <1>0, <1>6 DEF MarkRefused, Call, Idle, Comparing
  <2>3. call'[c].stale <= expired'
    BY <1>0, <2>1, <2>2
  <2> QED
    BY <1>0, <2>1, <2>2, <2>3, PlainIsSound, TokenKept
<1>7. ASSUME NEW c \in Calls, MarkConnected(c) PROVE TokenInv'
  <2>1. /\ \A d \in Calls : d # c => call'[d] = call[d]
        /\ cred' = cred \/ cred' = {}
        /\ issued' = issued /\ aged' = aged /\ expired' = expired
    BY <1>0, <1>7 DEF MarkConnected, table, remote
  <2>2. /\ call'[c].pc \notin Comparing \cup {"store", "winner", "save", "check"}
        /\ call'[c].stale \in {0, call[c].stale, expired}
    BY <1>0, <1>7 DEF MarkConnected, Call, Idle, Comparing
  <2>3. call'[c].stale <= expired'
    BY <1>0, <2>1, <2>2
  <2> QED
    BY <1>0, <2>1, <2>2, <2>3, PlainIsSound, TokenKept
<1>8. ASSUME NEW c \in Calls, Revoke(c) PROVE TokenInv'
  <2>1. /\ \A d \in Calls : d # c => call'[d] = call[d]
        /\ cred' = cred \/ cred' = {}
        /\ issued' = issued /\ aged' = aged /\ expired' = expired
    BY <1>0, <1>8 DEF Revoke, table, remote
  <2>2. /\ call'[c].pc \notin Comparing \cup {"store", "winner", "save", "check"}
        /\ call'[c].stale \in {0, call[c].stale, expired}
    BY <1>0, <1>8 DEF Revoke, Call, Idle, Comparing
  <2>3. call'[c].stale <= expired'
    BY <1>0, <2>1, <2>2
  <2> QED
    BY <1>0, <2>1, <2>2, <2>3, PlainIsSound, TokenKept
<1>9. ASSUME NEW c \in Calls, DeleteCredential(c) PROVE TokenInv'
  <2>1. /\ \A d \in Calls : d # c => call'[d] = call[d]
        /\ cred' = cred \/ cred' = {}
        /\ issued' = issued /\ aged' = aged /\ expired' = expired
    BY <1>0, <1>9 DEF DeleteCredential, table, remote
  <2>2. /\ call'[c].pc \notin Comparing \cup {"store", "winner", "save", "check"}
        /\ call'[c].stale \in {0, call[c].stale, expired}
    BY <1>0, <1>9 DEF DeleteCredential, Call, Idle, Comparing
  <2>3. call'[c].stale <= expired'
    BY <1>0, <2>1, <2>2
  <2> QED
    BY <1>0, <2>1, <2>2, <2>3, PlainIsSound, TokenKept
<1>10. ASSUME NEW c \in Calls, MarkDisconnected(c) PROVE TokenInv'
  <2>1. /\ \A d \in Calls : d # c => call'[d] = call[d]
        /\ cred' = cred \/ cred' = {}
        /\ issued' = issued /\ aged' = aged /\ expired' = expired
    BY <1>0, <1>10 DEF MarkDisconnected, table, remote
  <2>2. /\ call'[c].pc \notin Comparing \cup {"store", "winner", "save", "check"}
        /\ call'[c].stale \in {0, call[c].stale, expired}
    BY <1>0, <1>10 DEF MarkDisconnected, Call, Idle, Comparing
  <2>3. call'[c].stale <= expired'
    BY <1>0, <2>1, <2>2
  <2> QED
    BY <1>0, <2>1, <2>2, <2>3, PlainIsSound, TokenKept
<1>11. ASSUME NEW c \in Calls, NEW p \in Processes, NEW m \in AllMethods,
              Start(c, p, m) PROVE TokenInv'
  <2>1. /\ \A d \in Calls : d # c => call'[d] = call[d]
        /\ cred' = cred /\ issued' = issued /\ aged' = aged /\ expired' = expired
    BY <1>0, <1>11 DEF Start, table, remote
  <2>2. /\ call'[c].pc \notin Comparing \cup {"store", "winner", "save", "check"}
        /\ call'[c].stale \in {0, expired}
    BY <1>0, <1>11 DEF Start, Idle, Comparing
  <2>3. call'[c].stale <= expired'
    BY <1>0, <2>1, <2>2
  <2> QED
    BY <1>0, <2>1, <2>2, <2>3, PlainIsSound, TokenKept
<1>12. ASSUME NEW c \in Calls, NEW p \in Processes, NEW k \in Consents,
              Consume(c, p, k) PROVE TokenInv'
  <2>1. /\ \A d \in Calls : d # c => call'[d] = call[d]
        /\ cred' = cred /\ issued' = issued /\ aged' = aged /\ expired' = expired
    BY <1>0, <1>12 DEF Consume, table, remote
  <2>2. /\ call'[c].pc \notin Comparing \cup {"store", "winner", "save", "check"}
        /\ call'[c].stale \in {0, expired}
    BY <1>0, <1>12 DEF Consume, Idle, Comparing
  <2>3. call'[c].stale <= expired'
    BY <1>0, <2>1, <2>2
  <2> QED
    BY <1>0, <2>1, <2>2, <2>3, PlainIsSound, TokenKept
<1>13. ASSUME NEW c \in Calls, NEW p \in Processes, StartDisconnect(c, p) PROVE TokenInv'
  <2>1. /\ \A d \in Calls : d # c => call'[d] = call[d]
        /\ cred' = cred /\ issued' = issued /\ aged' = aged /\ expired' = expired
    BY <1>0, <1>13 DEF StartDisconnect, table, remote
  <2>2. /\ call'[c].pc \notin Comparing \cup {"store", "winner", "save", "check"}
        /\ call'[c].stale \in {0, expired}
    BY <1>0, <1>13 DEF StartDisconnect, Idle, Comparing
  <2>3. call'[c].stale <= expired'
    BY <1>0, <2>1, <2>2
  <2> QED
    BY <1>0, <2>1, <2>2, <2>3, PlainIsSound, TokenKept
<1>14. ASSUME NEW c \in Calls, MarkReconnect(c) PROVE TokenInv'
  <2>1. Settle(c, 0) /\ UNCHANGED <<table, remote>>
    BY <1>14 DEF MarkReconnect
  <2> QED
    BY <1>0, <2>1, TokenSettled DEF table, remote
<1>15. ASSUME NEW c \in Calls, AskFails(c) PROVE TokenInv'
  <2>1. /\ Settle(c, 0) /\ UNCHANGED table
        /\ aged' = aged /\ expired' = expired
        /\ issued' = issued \/ issued' = issued + 1
    BY <1>15 DEF AskFails, Rotated, remote
  <2> QED
    BY <1>0, <2>1, TokenSettled DEF table
<1>16. ASSUME NEW c \in Calls, ReadCredential(c) PROVE TokenInv'
  <2>1. /\ \A d \in Calls : d # c => call'[d] = call[d]
        /\ cred' = cred /\ issued' = issued /\ aged' = aged /\ expired' = expired
    BY <1>0, <1>16 DEF ReadCredential, table, remote
  <2>2. CASE cred = {}
    <3>1. call'[c] = Settled(c, 0)
      BY <1>0, <1>16, <2>2 DEF ReadCredential
    <3>2. /\ call'[c].pc \notin Comparing \cup {"store", "winner", "save", "check"}
          /\ call'[c].stale \in {0, call[c].stale}
      BY <1>0, <3>1, SettledIs, SettledChecks DEF Comparing
    <3>3. call'[c].stale <= expired'
      BY <1>0, <2>1, <3>2
    <3> QED
      BY <1>0, <2>1, <3>2, <3>3, PlainIsSound, TokenKept
  <2>3. CASE cred # {}
    <3>1. /\ call'[c].pc = "decide" /\ call'[c].seen = cred /\ call'[c].stale = call[c].stale
      BY <1>0, <1>16, <2>3 DEF ReadCredential, Call
    <3>2. Sound(call'[c], cred', aged', expired', issued')
      BY <1>0, <2>1, <3>1 DEF Sound, TypeOK
    <3> QED
      BY <1>0, <2>1, <3>2, TokenKept
  <2> QED
    BY <2>2, <2>3
<1>17. ASSUME NEW c \in Calls, Decide(c) PROVE TokenInv'
  <2> DEFINE fresh == {s \in call[c].seen : s.pair > expired}
             token == (CHOOSE s \in fresh : TRUE).pair
  <2>1. /\ \A d \in Calls : d # c => call'[d] = call[d]
        /\ cred' = cred /\ issued' = issued /\ aged' = aged /\ expired' = expired
        /\ call[c].pc = "decide"
    BY <1>0, <1>17 DEF Decide, table, remote
  <2>2. CASE fresh # {}
    <3>1. token \in Nat /\ expired < token
      <4>1. (CHOOSE s \in fresh : TRUE) \in fresh
        BY <2>2
      <4> QED
        BY <1>0, <4>1
    <3>2. call'[c] = Settled(c, token)
      BY <1>0, <1>17, <2>2 DEF Decide
    <3> HIDE DEF token
    <3>3. /\ call'[c].pc \in {"idle", "record", "check"}
          /\ call'[c].stale \in {0, call[c].stale}
          /\ call'[c].pc = "check" => call'[c].got = token
      BY <1>0, <3>1, <3>2, SettledIs
    <3>4. call'[c].stale <= expired' /\ call'[c].stale < token
      BY <1>0, <2>1, <3>1, <3>3
    <3>5. Sound(call'[c], cred', aged', expired', issued')
      BY <3>3, <3>4 DEF Sound, Comparing
    <3> QED
      BY <1>0, <2>1, <3>5, TokenKept
  <2>3. CASE fresh = {}
    <3>1. \/ call' = [call EXCEPT ![c] = [@ EXCEPT !.pc = "reread"]]
          \/ call' = [call EXCEPT ![c] = [@ EXCEPT !.pc = "join", !.seen = {},
                                                  !.renewed = FALSE]]
      BY <1>17, <2>3 DEF Decide
    <3>2. CASE call' = [call EXCEPT ![c] = [@ EXCEPT !.pc = "reread"]]
      <4>1. /\ call'[c].pc = "reread" /\ call'[c].seen = call[c].seen
            /\ call'[c].stale = call[c].stale /\ call'[c].renewed = call[c].renewed
        BY <1>0, <3>2 DEF Call
      <4>2. Sound(call[c], cred, aged, expired, issued)
        BY DEF TokenInv
      <4>3. Sound(call'[c], cred', aged', expired', issued')
        BY <2>1, <4>1, <4>2 DEF Sound, Comparing
      <4> QED
        BY <1>0, <2>1, <4>3, TokenKept
    <3>3. CASE call' = [call EXCEPT ![c] = [@ EXCEPT !.pc = "join", !.seen = {},
                                                    !.renewed = FALSE]]
      <4>1. call'[c].pc = "join" /\ call'[c].stale = call[c].stale
        BY <1>0, <3>3 DEF Call
      <4> QED
        BY <1>0, <2>1, <4>1, PlainIsSound, TokenKept DEF Comparing
    <3> QED
      BY <3>1, <3>2, <3>3
  <2> QED
    BY <2>2, <2>3
<1>18. ASSUME NEW c \in Calls, RereadCredential(c) PROVE TokenInv'
  <2>0. UNCHANGED <<table, remote>> /\ call[c].pc = "reread"
    BY <1>18 DEF RereadCredential
  <2>1. CASE cred = {}
    BY <1>0, <1>18, <2>0, <2>1, TokenSettled DEF RereadCredential, table, remote
  <2>2. CASE cred # {}
    <3>1. \E s \in cred : call' = [call EXCEPT ![c] = [@ EXCEPT !.pc = "ask",
                                                                !.sent = s.pair]]
      BY <1>18, <2>2 DEF RereadCredential
    <3>2. /\ \A d \in Calls : d # c => call'[d] = call[d]
          /\ call'[c].pc = "ask" /\ call'[c].seen = call[c].seen
          /\ call'[c].stale = call[c].stale /\ call'[c].renewed = call[c].renewed
      BY <1>0, <3>1 DEF Call
    <3>3. Sound(call[c], cred, aged, expired, issued)
      BY DEF TokenInv
    <3>4. Sound(call'[c], cred', aged', expired', issued')
      BY <2>0, <3>2, <3>3 DEF Sound, Comparing, table, remote
    <3> QED
      BY <1>0, <2>0, <3>2, <3>4, TokenKept DEF table, remote
  <2> QED
    BY <2>1, <2>2
<1>19. ASSUME NEW c \in Calls, AskAccepted(c) PROVE TokenInv'
  <2>1. /\ \A d \in Calls : d # c => call'[d] = call[d]
        /\ cred' = cred /\ issued' = issued + 1 /\ aged' = aged /\ expired' = expired
        /\ call[c].pc = "ask"
    BY <1>0, <1>19 DEF AskAccepted, Rotated, table
  <2>2. /\ call'[c].pc = "store" /\ call'[c].got = issued + 1
        /\ call'[c].seen = call[c].seen /\ call'[c].stale = call[c].stale
        /\ call'[c].renewed = call[c].renewed
    BY <1>0, <1>19 DEF AskAccepted, Call
  <2>3. Sound(call[c], cred, aged, expired, issued)
    BY DEF TokenInv
  <2>4. \A t \in call[c].seen : t.pair <= issued + 1 /\ t.pair < issued + 1
    BY <1>0, <2>1, <2>3 DEF Sound, Comparing
  <2>5. aged < issued + 1 /\ issued + 1 <= issued + 1 /\ issued <= issued'
    BY <1>0, <2>1
  <2>6. Sound(call'[c], cred', aged', expired', issued')
    BY <2>1, <2>2, <2>3, <2>4, <2>5 DEF Sound, Comparing
  <2> QED
    BY <2>1, <2>5, <2>6, TokenKept
<1>20. ASSUME NEW c \in Calls, ExchangeAccepted(c) PROVE TokenInv'
  <2>1. /\ \A d \in Calls : d # c => call'[d] = call[d]
        /\ cred' = cred /\ issued' = issued + 1 /\ aged' = aged /\ expired' = expired
    BY <1>0, <1>20 DEF ExchangeAccepted
  <2>2. /\ call'[c].pc = "save" /\ call'[c].got = issued + 1
        /\ call'[c].stale = call[c].stale
    BY <1>0, <1>20 DEF ExchangeAccepted, Call
  <2>3. aged < issued + 1 /\ issued + 1 <= issued + 1 /\ issued <= issued'
    BY <1>0, <2>1
  <2>4. Sound(call'[c], cred', aged', expired', issued')
    BY <1>0, <2>1, <2>2, <2>3 DEF Sound, Comparing
  <2> QED
    BY <2>1, <2>3, <2>4, TokenKept
<1>21. ASSUME NEW c \in Calls, SaveCredential(c) PROVE TokenInv'
  <2> DEFINE new == [pair |-> call[c].got, count |-> 0]
  <2>1. /\ cred' = {new} /\ issued' = issued /\ aged' = aged /\ expired' = expired
        /\ call[c].pc = "save"
    BY <1>21 DEF SaveCredential, remote
  <2>2. aged < new.pair /\ new.pair <= issued
    BY <1>0, <2>1 DEF TokenInv, Sound
  <2>3. \A s \in cred' : aged < s.pair /\ s.pair <= issued
    BY <2>1, <2>2
  <2>4. /\ call'[c].pc = "connect" /\ call'[c].stale = call[c].stale
    BY <1>0, <1>21 DEF SaveCredential, Call
  <2>5. ASSUME NEW d \in Calls, d # c
        PROVE  Sound(call'[d], cred', aged', expired', issued')
    <3> DEFINE r == call[d].pc \in Comparing
    <3>0. r \in BOOLEAN /\ call'[d] = [call[d] EXCEPT !.renewed = r]
      BY <1>21, <2>5 DEF SaveCredential
    <3> HIDE DEF r
    <3>1. /\ call'[d].pc = call[d].pc /\ call'[d].seen = call[d].seen
          /\ call'[d].stale = call[d].stale /\ call'[d].got = call[d].got
          /\ call'[d].renewed = r
      BY <1>0, <3>0 DEF Call
    <3>2. Sound(call[d], cred, aged, expired, issued)
      BY DEF TokenInv
    <3> QED
      BY <2>1, <2>3, <3>1, <3>2 DEF Sound, r
  <2>6. Sound(call'[c], cred', aged', expired', issued')
    BY <1>0, <2>1, <2>4, PlainIsSound DEF Comparing
  <2> QED
    BY <1>0, <2>1, <2>3, <2>5, <2>6 DEF TokenInv
<1>22. ASSUME NEW c \in Calls, Rotate(c) PROVE TokenInv'
  <2> DEFINE mine == {s \in cred : \E t \in call[c].seen : s.count = t.count}
  <2>0. /\ issued' = issued /\ aged' = aged /\ expired' = expired /\ call[c].pc = "store"
        /\ Sound(call[c], cred, aged, expired, issued)
    BY <1>22 DEF Rotate, remote, TokenInv
  <2>1. CASE mine = {}
    <3>1. /\ cred' = cred
          /\ call' = [call EXCEPT ![c] = [call[c] EXCEPT !.pc = "winner", !.seen = {},
                                                       !.renewed = FALSE]]
      BY <1>22, <2>1 DEF Rotate
    <3>2. /\ \A d \in Calls : d # c => call'[d] = call[d]
          /\ call'[c].pc = "winner" /\ call'[c].got = call[c].got
          /\ call'[c].stale = call[c].stale
      BY <1>0, <3>1 DEF Call
    <3>3. \A s \in cred : aged < s.pair
      BY <2>0, <2>1 DEF Sound, Comparing
    <3>4. Sound(call'[c], cred', aged', expired', issued')
      BY <2>0, <3>1, <3>2, <3>3 DEF Sound, Comparing
    <3> QED
      BY <1>0, <2>0, <3>1, <3>2, <3>4, TokenKept
  <2>2. CASE mine # {}
    <3>1. /\ Settle(c, call[c].got)
          /\ cred' = {[pair |-> call[c].got, count |-> s.count + 1] : s \in mine}
      BY <1>22, <2>2 DEF Rotate
    <3>2. aged < call[c].got /\ call[c].got <= issued
      BY <2>0 DEF Sound
    <3>3. PICK m \in cred : \E t \in call[c].seen : m.count = t.count
      BY <2>2
    <3>4. cred = {m} /\ mine = {m}
      BY <3>3 DEF TypeOK
    <3>5. cred' = {[pair |-> call[c].got, count |-> m.count + 1]}
      BY <3>1, <3>4
    <3>6. \A s \in cred' : s.pair = call[c].got /\ s.count = m.count + 1
      BY <3>5
    <3>7. ASSUME NEW d \in Calls \ Waiting(c)
          PROVE  Sound(call'[d], cred', aged', expired', issued')
      <4>1. call'[d] = call[d] /\ Sound(call[d], cred, aged, expired, issued)
        BY <1>0, <3>1, <3>7, SettleIs DEF TokenInv
      <4>2. \A s \in cred', t \in call[d].seen :
              t.count <= m.count => t.count <= s.count /\ s.count # t.count
        BY <1>0, <3>4, <3>6
      <4>3. \A s \in cred' : aged < s.pair
        BY <3>2, <3>6
      <4> QED
        BY <2>0, <3>4, <4>1, <4>2, <4>3 DEF Sound
    <3>8. ASSUME NEW d \in Waiting(c)
          PROVE  Sound(call'[d], cred', aged', expired', issued')
      <4>1. d \in Calls /\ call'[d] = Settled(d, call[c].got)
        BY <1>0, <3>1, <3>8, SettleIs
      <4>2. /\ call'[d].pc \in {"idle", "record", "check"}
            /\ call'[d].stale \in {0, call[d].stale}
            /\ call'[d].pc = "check" => call'[d].got = call[c].got
        BY <1>0, <4>1, SettledIs
      <4>3. call'[d].stale <= expired' /\ call'[d].stale < call[c].got
        BY <1>0, <2>0, <3>2, <4>1, <4>2
      <4> QED
        BY <4>2, <4>3 DEF Sound, Comparing
    <3> QED
      BY <1>0, <2>0, <3>2, <3>6, <3>7, <3>8 DEF TokenInv
  <2> QED
    BY <2>1, <2>2
<1>23. ASSUME NEW c \in Calls, ReadWinner(c) PROVE TokenInv'
  <2>1. /\ UNCHANGED <<table, remote>> /\ call[c].pc = "winner"
        /\ Sound(call[c], cred, aged, expired, issued)
    BY <1>23 DEF ReadWinner, TokenInv
  <2>2. aged < call[c].got /\ \A s \in cred : aged < s.pair
    BY <2>1 DEF Sound
  <2> QED
    BY <1>0, <1>23, <2>1, <2>2, TokenSettled DEF ReadWinner, table, remote
<1>24. ASSUME NEW p \in Processes, Crash(p) PROVE TokenInv'
  <2>1. /\ UNCHANGED <<cred, aged, expired, issued>>
        /\ \A d \in Calls : call'[d] \in {Idle, call[d]}
    BY <1>24 DEF Crash, table, remote
  <2> QED
    BY <1>0, <2>1, IdleIsSound DEF TokenInv
<1>25. CASE AgeTokens
  <2>1. /\ aged' = issued /\ UNCHANGED <<cred, issued, expired, call>>
        /\ \A c \in Calls : call[c].pc = "idle"
    BY <1>25 DEF AgeTokens, table
  <2>2. \A c \in Calls : Sound(call[c], cred, issued, expired, issued)
    BY <1>0, <2>1, PlainIsSound DEF Comparing
  <2> QED
    BY <1>0, <2>1, <2>2 DEF TokenInv
<1>26. CASE ExpireTokens
  <2>1. /\ UNCHANGED <<cred, issued, aged, call>>
        /\ expired < expired' /\ expired' <= aged
    BY <1>26 DEF ExpireTokens, table
  <2>2. expired' \in Nat
    BY DEF TypeOK
  <2>3. \A c \in Calls : Sound(call[c], cred, aged, expired', issued)
    BY <1>0, <2>1, <2>2, StaysSound DEF TokenInv
  <2> QED
    BY <1>0, <2>1, <2>3 DEF TokenInv
<1>27. ASSUME UNCHANGED <<cred, remote, call>> PROVE TokenInv'
  BY <1>27 DEF TokenInv, remote
<1> QED
  BY <1>1, <1>2, <1>3, <1>4, <1>5, <1>6, <1>7, <1>8, <1>9, <1>10, <1>11, <1>12,
     <1>13, <1>14, <1>15, <1>16, <1>17, <1>18, <1>19, <1>20, <1>21, <1>22, <1>23,
     <1>24, <1>25, <1>26, <1>27
     DEF Next, Begin, CallStep, Surroundings, BeginAuthorization, ExpireRequest,
         table, vars

\* What getAccessToken hands out had not run out when it was called.
THEOREM TokensAreUsable == Spec => []TokenUsable
<1>1. TypeOK /\ TokenInv => TokenUsable
  <2> SUFFICES ASSUME TypeOK, TokenInv, NEW c \in Calls, call[c].pc = "check"
               PROVE  call[c].got > call[c].stale
    BY DEF TokenUsable
  <2>1. Sound(call[c], cred, aged, expired, issued) /\ call[c] \in Call
    BY DEF TokenInv, TypeOK
  <2> QED
    BY <2>1 DEF Sound, Call
<1>2. TypeOK /\ TokenInv /\ [Next]_vars => TokenInv'
  BY TypeStep, TokenStep
<1> QED
  BY <1>1, <1>2, TypeCorrect, TokenInit, PTL DEF Spec

-----------------------------------------------------------------------------
(* What a step does to the credential *)

\* The credential is kept or deleted, a refresh rotates the row it compared itself
\* with, or a consent is stored.
LEMMA CredentialSteps ==
  ASSUME TypeOK, [Next]_vars
  PROVE  \/ cred' = cred
         \/ cred' = {}
         \/ \E c \in Calls : Rotate(c)
         \/ \E c \in Calls : SaveCredential(c)
  BY DEF Next, Begin, CallStep, Surroundings, vars, table, remote, ReadCredential, Decide,
       RereadCredential, AskAccepted, AskFails, AskDenied, DropCredential, MarkReconnect,
       ReadWinner, CheckCompany, RecordCheck, ExchangeAccepted, ExchangeRefused,
       MarkRefused, MarkConnected, Revoke, DeleteCredential, MarkDisconnected, Start,
       Consume, StartDisconnect, BeginAuthorization, ExpireRequest, AgeTokens,
       ExpireTokens, Crash

\* Only a consent brings a credential back.
THEOREM OnlyConsents == Spec => OnlyConsentConnects
<1>1. TypeOK /\ [Next]_vars =>
        [cred = {} /\ cred' # {} => \E c \in Calls : call[c].pc = "save"]_vars
  <2> SUFFICES ASSUME TypeOK, [Next]_vars, cred = {}, cred' # {}
               PROVE  \E c \in Calls : call[c].pc = "save"
    OBVIOUS
  <2>1. ASSUME NEW c \in Calls, Rotate(c) PROVE FALSE
    BY <2>1 DEF Rotate
  <2>2. ASSUME NEW c \in Calls, SaveCredential(c) PROVE call[c].pc = "save"
    BY <2>2 DEF SaveCredential
  <2> QED
    BY <2>1, <2>2, CredentialSteps
<1> QED
  BY <1>1, TypeCorrect, PTL DEF Spec, OnlyConsentConnects

\* A rotation overwrites an older pair, but for the one way RotationAdvances names.
THEOREM RotationsAdvance == Spec => RotationAdvances
<1> DEFINE Step(c) ==
      call[c].pc = "store" /\ call'[c].pc # "store" =>
        \A s \in cred, t \in cred' :
          \/ s.pair <= t.pair
          \/ call[c].renewed /\ \E r \in call[c].seen : r.count = s.count
<1>1. TypeOK /\ TokenInv /\ [Next]_vars => [\A c \in Calls : Step(c)]_vars
  <2> SUFFICES ASSUME TypeOK, TokenInv, [Next]_vars, NEW c \in Calls,
                      call[c].pc = "store", call'[c].pc # "store",
                      NEW s \in cred, NEW t \in cred'
               PROVE  \/ s.pair <= t.pair
                      \/ call[c].renewed /\ \E r \in call[c].seen : r.count = s.count
    OBVIOUS
  <2>0. /\ call \in [Calls -> Call] /\ s.pair \in Nat /\ \A u \in cred : u = s
        /\ call[c].got \in Nat /\ \A u \in call[c].seen : u.pair \in Nat
        /\ call[c].renewed \in BOOLEAN
    BY DEF TypeOK, Credential, Call
  <2>1. CASE cred' = cred
    BY <2>0, <2>1
  <2>2. ASSUME NEW d \in Calls, SaveCredential(d) PROVE FALSE
    BY <2>0, <2>2 DEF SaveCredential, Call
  <2>3. ASSUME NEW d \in Calls, Rotate(d), d # c, cred' # cred PROVE FALSE
    <3>1. Settle(d, call[d].got) /\ call[d].got \in Nat
      BY <2>0, <2>3 DEF Rotate, Call
    <3> QED
      BY <2>3, <3>1, SettleIs
  <2>4. ASSUME Rotate(c), cred' # cred
        PROVE  \/ s.pair <= t.pair
               \/ call[c].renewed /\ \E r \in call[c].seen : r.count = s.count
    <3>1. t.pair = call[c].got /\ \E m \in cred : \E r \in call[c].seen : m.count = r.count
      BY <2>4 DEF Rotate
    <3>2. PICK r \in call[c].seen : s.count = r.count
      BY <2>0, <3>1
    <3>3. Sound(call[c], cred, aged, expired, issued)
      BY DEF TokenInv
    <3>4. ~call[c].renewed => s = r
      BY <3>2, <3>3 DEF Sound, Comparing
    <3>5. r.pair < call[c].got
      BY <3>3 DEF Sound, Comparing
    <3> QED
      BY <2>0, <3>1, <3>2, <3>4, <3>5
  <2> QED
    BY <2>1, <2>2, <2>3, <2>4, CredentialSteps
<1>2. TypeOK /\ TokenInv /\ [Next]_vars => TokenInv'
  BY TypeStep, TokenStep
<1> QED
  BY <1>1, <1>2, TypeCorrect, TokenInit, PTL DEF Spec, RotationAdvances
=============================================================================
