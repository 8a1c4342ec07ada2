----------------------------- MODULE Connection -----------------------------
(***************************************************************************)
(* One client's Fortnox connection: consent, the stored credential, the    *)
(* rotation of its tokens, the live check and disconnection                *)
(* (packages/fortnox/src/oauth/connection.ts).                             *)
(*                                                                         *)
(* Several node processes serve the client. Within one process the calls   *)
(* share a map of refreshes in flight; between processes they share the    *)
(* credential and connection rows only. Every awaited statement is an      *)
(* action of its own, and what a call read before it is its snapshot.      *)
(*                                                                         *)
(* The n-th pair of tokens Fortnox issues to this client is the number n:  *)
(* refresh token n is usable while n is in live. Access tokens run out in  *)
(* the order they are issued: those up to expired have.                    *)
(*                                                                         *)
(* The connection row is written here and read elsewhere: what its status  *)
(* says and when is in Grant, and a statement on it is a step all the same.*)
(***************************************************************************)
EXTENDS Naturals

CONSTANTS
  Processes,  \* node processes with a FortnoxConnectionService
  Calls,      \* concurrent calls of its methods
  ServedBy,   \* the processes each call may be served by
  Consents,   \* authorization requests that may be made
  Methods,    \* subset of AllMethods that is called
  Faults,     \* subset of AllFaults that may happen
  MaxIssued,  \* bound: pairs of tokens issued
  Rotations,  \* how often the credential to begin with may have been rotated
  NoCall,     \* no refresh in flight
  NoProcess,  \* of a call that has not begun
  NoConsent   \* no authorization request in hand

AllMethods == {"getAccessToken", "verify", "callback", "disconnect"}
AllFaults == {"lost_response", "transient", "crash"}

ASSUME ConnectionAssumption ==
  /\ ServedBy \in [Calls -> SUBSET Processes]
  /\ Methods \subseteq AllMethods
  /\ Faults \subseteq AllFaults
  /\ MaxIssued \in Nat \ {0}
  /\ Rotations \subseteq Nat
  /\ NoCall \notin Calls
  /\ NoProcess \notin Processes
  /\ NoConsent \notin Consents

VARIABLES
  cred,      \* the credential row: a set with one record, or empty
  requests,  \* authorization request rows
  spent,     \* history: codes exchanged on behalf of each request
  flight,    \* refreshInFlight of each process: the call that refreshes
  call,      \* each call's progress and locals
  issued,    \* pairs of tokens issued by Fortnox
  live,      \* refresh tokens Fortnox accepts and somebody may hold
  aged,      \* the last access token issued a while ago
  expired    \* the last access token past its time, less the refresh skew

table == <<cred, requests, spent>>
remote == <<issued, live, aged, expired>>
vars == <<table, remote, flight, call>>

-----------------------------------------------------------------------------
(* Rows and locals *)

Credential == [pair: Nat, count: Nat]
RequestStatus == {"none", "pending", "consumed", "expired"}
\* Where the owner of a refresh is, from its second read to its settlement.
Refreshing == {"reread", "ask", "drop", "mark", "store", "winner"}
\* Where a call holds the rotation count it will compare.
Comparing == {"decide", "reread", "ask", "store"}
Asking == {"read", "decide", "join"} \cup Refreshing
Pc == Asking \cup {"idle", "check", "record", "exchange", "refused", "save",
                   "connect", "revoke", "delete", "disconnected"}
\* at: the process; seen, sent, got: what it read, sent and was given; stale: the
\* last access token that had run out when it began; renewed: a consent was stored
\* since it read the credential.
Call == [pc: Pc, at: Processes \cup {NoProcess}, method: AllMethods,
         seen: SUBSET Credential, sent: Nat, got: Nat, consent: Consents \cup {NoConsent},
         stale: Nat, renewed: BOOLEAN]
Idle == [pc |-> "idle", at |-> NoProcess, method |-> "getAccessToken", seen |-> {},
         sent |-> 0, got |-> 0, consent |-> NoConsent, stale |-> 0, renewed |-> FALSE]

\* Every row, local and token has its shape; there is one credential row.
TypeOK ==
  /\ cred \in SUBSET Credential /\ \A s, t \in cred : s = t
  /\ requests \in [Consents -> RequestStatus]
  /\ spent \in [Consents -> Nat]
  /\ flight \in [Processes -> Calls \cup {NoCall}]
  /\ call \in [Calls -> Call]
  /\ issued \in Nat /\ live \subseteq Nat /\ aged \in Nat /\ expired \in Nat

\* A client that was connected before: one grant, one pair of tokens.
Init ==
  /\ \E n \in Rotations : cred = {[pair |-> 1, count |-> n]}
  /\ requests = [k \in Consents |-> "none"]
  /\ spent = [k \in Consents |-> 0]
  /\ flight = [p \in Processes |-> NoCall]
  /\ call = [c \in Calls |-> Idle]
  /\ issued = 1
  /\ live = {1}
  /\ aged = 0
  /\ expired = 0

-----------------------------------------------------------------------------
(* getAccessToken *)

Start(c, p, method) ==
  /\ call[c].pc = "idle"
  /\ p \in ServedBy[c]
  /\ method \in Methods \cap {"getAccessToken", "verify"}
  /\ call' = [call EXCEPT ![c] = [Idle EXCEPT !.pc = "read", !.at = p, !.stale = expired,
                                              !.method = method]]
  /\ UNCHANGED <<table, remote, flight>>

\* What a call does with the outcome of its getAccessToken, 0 for an error: hand
\* the token to an adapter, or go on with the live check.
Settled(c, token) ==
  IF call[c].method = "getAccessToken" THEN Idle
  ELSE [call[c] EXCEPT !.pc = IF token = 0 THEN "record" ELSE "check",
                       !.got = token, !.seen = {}, !.sent = 0, !.renewed = FALSE,
                       !.stale = IF token = 0 THEN 0 ELSE @]

\* The shared promise settles: the owner and everyone who joined it go on with
\* the same outcome, and the map lets go of it.
Waiting(c) ==
  {c} \cup {d \in Calls : call[d].pc = "join" /\ call[d].at = call[c].at}
\* Mutated form: nobody wakes up those who joined.
SettleOwner(c, token) ==
  /\ call' = [call EXCEPT ![c] = Settled(c, token)]
  /\ flight' = [flight EXCEPT ![call[c].at] = NoCall]

Settle(c, token) ==
  /\ call' = [d \in Calls |->
                IF d \in Waiting(c) THEN Settled(d, token) ELSE call[d]]
  /\ flight' = [flight EXCEPT ![call[c].at] = NoCall]

ReadCredential(c) ==
  /\ call[c].pc = "read"
  /\ call' = [call EXCEPT ![c] =
                IF cred = {} THEN Settled(c, 0)
                ELSE [@ EXCEPT !.pc = "decide", !.seen = cred]]
  /\ UNCHANGED <<table, remote, flight>>

\* Mutated forms: a refresh in flight is not shared, and the stored
\* access token is handed out whatever its age.
DecideAlone(c) ==
  /\ call[c].pc = "decide"
  /\ LET fresh == {s \in call[c].seen : s.pair > expired}
     IN  IF fresh # {}
           THEN /\ call' = [call EXCEPT ![c] =
                              Settled(c, (CHOOSE s \in fresh : TRUE).pair)]
                /\ UNCHANGED flight
           ELSE /\ call' = [call EXCEPT ![c].pc = "reread"]
                /\ flight' = [flight EXCEPT ![call[c].at] = c]
  /\ UNCHANGED <<table, remote>>

DecideAnyAge(c) ==
  /\ call[c].pc = "decide"
  /\ call' = [call EXCEPT ![c] =
                Settled(c, (CHOOSE s \in call[c].seen : TRUE).pair)]
  /\ UNCHANGED <<table, remote, flight>>

\* A fresh access token is handed out, a refresh in flight is joined, and
\* otherwise this call becomes the one that refreshes.
Decide(c) ==
  /\ call[c].pc = "decide"
  /\ LET fresh == {s \in call[c].seen : s.pair > expired}
         free == flight[call[c].at] = NoCall
     IN  IF fresh # {}
           THEN /\ call' = [call EXCEPT ![c] =
                              Settled(c, (CHOOSE s \in fresh : TRUE).pair)]
                /\ UNCHANGED flight
           ELSE /\ call' = [call EXCEPT ![c] =
                              IF free THEN [@ EXCEPT !.pc = "reread"]
                              ELSE [@ EXCEPT !.pc = "join", !.seen = {}, !.renewed = FALSE]]
                /\ flight' = IF free THEN [flight EXCEPT ![call[c].at] = c]
                                     ELSE flight
  /\ UNCHANGED <<table, remote>>

-----------------------------------------------------------------------------
(* refreshTokens *)

\* The row is read again; the rotation count of the first read is kept.
RereadCredential(c) ==
  /\ call[c].pc = "reread"
  /\ IF cred = {}
       THEN Settle(c, 0)
       ELSE /\ \E s \in cred :
                 call' = [call EXCEPT ![c] = [@ EXCEPT !.pc = "ask",
                                                       !.sent = s.pair]]
            /\ UNCHANGED flight
  /\ UNCHANGED <<table, remote>>

\* Fortnox issues the next pair, and the refresh token it was asked with dies.
Rotated(c) ==
  /\ call[c].sent \in live
  /\ issued < MaxIssued
  /\ issued' = issued + 1
  /\ UNCHANGED <<aged, expired>>

AskAccepted(c) ==
  /\ call[c].pc = "ask"
  /\ Rotated(c)
  /\ live' = (live \ {call[c].sent}) \cup {issued + 1}
  /\ call' = [call EXCEPT ![c] = [@ EXCEPT !.pc = "store", !.got = issued + 1,
                                           !.sent = 0]]
  /\ UNCHANGED <<table, flight>>

\* The request times out after Fortnox served it, and nobody has the new pair, or is
\* not served at all; it is never retried.
AskFails(c) ==
  /\ call[c].pc = "ask"
  /\ \/ "lost_response" \in Faults /\ Rotated(c) /\ live' = live \ {call[c].sent}
     \/ "transient" \in Faults /\ UNCHANGED remote
  /\ Settle(c, 0)
  /\ UNCHANGED table

AskDenied(c) ==
  /\ call[c].pc = "ask"
  /\ call[c].sent \notin live
  /\ call' = [call EXCEPT ![c] = [@ EXCEPT !.pc = "drop", !.sent = 0, !.seen = {},
                                           !.renewed = FALSE]]
  /\ UNCHANGED <<table, remote, flight>>

DropCredential(c) ==
  /\ call[c].pc = "drop"
  /\ cred' = {}
  /\ call' = [call EXCEPT ![c].pc = "mark"]
  /\ UNCHANGED <<requests, spent, remote, flight>>

MarkReconnect(c) ==
  /\ call[c].pc = "mark"
  /\ Settle(c, 0)
  /\ UNCHANGED <<table, remote>>

\* Mutated forms of the rotation: unconditional, inserting where there is no
\* row, and inserting beside the row.
RotateUnchecked(c) ==
  /\ call[c].pc = "store"
  /\ IF cred = {}
       THEN /\ call' = [call EXCEPT ![c] = [@ EXCEPT !.pc = "winner", !.seen = {},
                                                     !.renewed = FALSE]]
            /\ UNCHANGED <<cred, flight>>
       ELSE /\ cred' = {[pair |-> call[c].got, count |-> s.count + 1] : s \in cred}
            /\ Settle(c, call[c].got)
  /\ UNCHANGED <<requests, spent, remote>>

RotateInserting(c) ==
  LET mine == {s \in cred : \E t \in call[c].seen : s.count = t.count}
  IN  /\ call[c].pc = "store"
      /\ IF mine = {} /\ cred # {}
           THEN /\ call' = [call EXCEPT ![c] = [@ EXCEPT !.pc = "winner", !.seen = {},
                                                     !.renewed = FALSE]]
                /\ UNCHANGED <<cred, flight>>
           ELSE /\ cred' = {[pair |-> call[c].got, count |-> s.count + 1] :
                              s \in call[c].seen}
                /\ Settle(c, call[c].got)
      /\ UNCHANGED <<requests, spent, remote>>

\* rotateIntegrationCredential: a compare-and-set on the rotation count of the
\* first read. A loser goes on to read what the winner stored.
Rotate(c) ==
  LET mine == {s \in cred : \E t \in call[c].seen : s.count = t.count}
  IN  /\ call[c].pc = "store"
      /\ IF mine = {}
           THEN /\ call' = [call EXCEPT ![c] = [@ EXCEPT !.pc = "winner", !.seen = {},
                                                     !.renewed = FALSE]]
                /\ UNCHANGED <<cred, flight>>
           ELSE /\ cred' = {[pair |-> call[c].got, count |-> s.count + 1] : s \in mine}
                /\ Settle(c, call[c].got)
      /\ UNCHANGED <<requests, spent, remote>>

ReadWinner(c) ==
  /\ call[c].pc = "winner"
  /\ IF cred = {} THEN Settle(c, call[c].got)
                  ELSE \E s \in cred : Settle(c, s.pair)
  /\ UNCHANGED <<table, remote>>

-----------------------------------------------------------------------------
(* The live check *)

\* One read of the company: served, refused as unauthorized, or failed.
CheckCompany(c) ==
  /\ call[c].pc = "check"
  /\ call' = [call EXCEPT ![c] = [@ EXCEPT !.pc = "record", !.got = 0, !.stale = 0]]
  /\ UNCHANGED <<table, remote, flight>>

RecordCheck(c) ==
  /\ call[c].pc = "record"
  /\ call' = [call EXCEPT ![c] = Idle]
  /\ UNCHANGED <<table, remote, flight>>

-----------------------------------------------------------------------------
(* Consent *)

\* beginAuthorization stores a request. It also deletes expired ones, which
\* nobody can tell from expired ones kept.
BeginAuthorization(k) ==
  /\ "callback" \in Methods
  /\ requests[k] = "none"
  /\ requests' = [requests EXCEPT ![k] = "pending"]
  /\ UNCHANGED <<cred, spent, remote, flight, call>>

\* A request that was consumed may run out as well: it is refused either way.
ExpireRequest(k) ==
  /\ requests[k] = "pending"
  /\ requests' = [requests EXCEPT ![k] = "expired"]
  /\ UNCHANGED <<cred, spent, remote, flight, call>>

\* Mutated form: a consumed request can be claimed again.
ConsumeAgain(c, p, k) ==
  /\ call[c].pc = "idle"
  /\ p \in ServedBy[c] /\ "callback" \in Methods
  /\ requests[k] \in {"pending", "consumed"}
  /\ requests' = [requests EXCEPT ![k] = "consumed"]
  /\ call' = [call EXCEPT ![c] = [Idle EXCEPT !.pc = "exchange", !.at = p, !.consent = k,
                                              !.method = "callback"]]
  /\ UNCHANGED <<cred, spent, remote, flight>>

\* consumeAuthorizationRequest: the update that returns the row claims it. A
\* replayed, unknown or expired state matches nothing and ends the callback.
Consume(c, p, k) ==
  /\ call[c].pc = "idle"
  /\ p \in ServedBy[c] /\ "callback" \in Methods
  /\ requests[k] = "pending"
  /\ requests' = [requests EXCEPT ![k] = "consumed"]
  /\ call' = [call EXCEPT ![c] = [Idle EXCEPT !.pc = "exchange", !.at = p, !.consent = k,
                                              !.method = "callback"]]
  /\ UNCHANGED <<cred, spent, remote, flight>>

ExchangeAccepted(c) ==
  /\ call[c].pc = "exchange"
  /\ issued < MaxIssued
  /\ issued' = issued + 1
  /\ live' = live \cup {issued + 1}
  /\ spent' = [spent EXCEPT ![call[c].consent] = @ + 1]
  /\ call' = [call EXCEPT ![c] = [@ EXCEPT !.pc = "save", !.got = issued + 1,
                                           !.consent = NoConsent]]
  /\ UNCHANGED <<cred, requests, aged, expired, flight>>

ExchangeRefused(c) ==
  /\ call[c].pc = "exchange"
  /\ call' = [call EXCEPT ![c] = [@ EXCEPT !.pc = "refused", !.consent = NoConsent]]
  /\ UNCHANGED <<table, remote, flight>>

MarkRefused(c) ==
  /\ call[c].pc = "refused"
  /\ call' = [call EXCEPT ![c] = Idle]
  /\ UNCHANGED <<table, remote, flight>>

\* upsertIntegrationCredential: the rotation count starts over.
SaveCredential(c) ==
  /\ call[c].pc = "save"
  /\ cred' = {[pair |-> call[c].got, count |-> 0]}
  /\ call' = [d \in Calls |->
                IF d = c THEN [call[c] EXCEPT !.pc = "connect", !.got = 0]
                ELSE [call[d] EXCEPT !.renewed = call[d].pc \in Comparing]]
  /\ UNCHANGED <<requests, spent, remote, flight>>

\* The connection row is upserted, and the live check follows.
MarkConnected(c) ==
  /\ call[c].pc = "connect"
  /\ call' = [call EXCEPT ![c] = [Idle EXCEPT !.pc = "read", !.at = call[c].at,
                                    !.method = "callback", !.stale = expired]]
  /\ UNCHANGED <<table, remote, flight>>

-----------------------------------------------------------------------------
(* disconnect *)

StartDisconnect(c, p) ==
  /\ call[c].pc = "idle"
  /\ p \in ServedBy[c] /\ "disconnect" \in Methods
  /\ call' = [call EXCEPT ![c] = [Idle EXCEPT !.method = "disconnect", !.at = p,
                                    !.seen = cred,
                                    !.pc = IF cred = {} THEN "delete" ELSE "revoke"]]
  /\ UNCHANGED <<table, remote, flight>>

\* Revocation is best effort.
Revoke(c) ==
  /\ call[c].pc = "revoke"
  /\ \/ live' = live \ {s.pair : s \in call[c].seen}
     \/ live' = live
  /\ call' = [call EXCEPT ![c] = [@ EXCEPT !.pc = "delete", !.seen = {}]]
  /\ UNCHANGED <<table, issued, aged, expired, flight>>

DeleteCredential(c) ==
  /\ call[c].pc = "delete"
  /\ cred' = {}
  /\ call' = [call EXCEPT ![c].pc = "disconnected"]
  /\ UNCHANGED <<requests, spent, remote, flight>>

MarkDisconnected(c) ==
  /\ call[c].pc = "disconnected"
  /\ call' = [call EXCEPT ![c] = Idle]
  /\ UNCHANGED <<table, remote, flight>>

-----------------------------------------------------------------------------
(* The surroundings *)

\* An access token lives for an hour and a call for seconds, so between the
\* issue of a token and its end there is a time without calls.
AgeTokens ==
  /\ \A c \in Calls : call[c].pc = "idle"
  /\ aged' = issued
  /\ UNCHANGED <<table, issued, live, expired, flight, call>>

\* Of a token that is not stored any more nobody can tell whether it has run out.
ExpireTokens ==
  \E s \in cred :
    /\ expired < s.pair /\ s.pair <= aged
    /\ expired' = s.pair
    /\ UNCHANGED <<table, issued, live, aged, flight, call>>

\* A process dies with everything it had in memory.
Crash(p) ==
  /\ "crash" \in Faults
  /\ call' = [c \in Calls |-> IF call[c].at = p THEN Idle ELSE call[c]]
  /\ flight' = [flight EXCEPT ![p] = NoCall]
  /\ UNCHANGED <<table, remote>>

-----------------------------------------------------------------------------
(* The specification *)

\* What a call does once begun.
CallStep(c) ==
  \/ ReadCredential(c)
  \/ Decide(c)
  \/ RereadCredential(c)
  \/ AskAccepted(c)
  \/ AskFails(c)
  \/ AskDenied(c)
  \/ DropCredential(c)
  \/ MarkReconnect(c)
  \/ Rotate(c)
  \/ ReadWinner(c)
  \/ CheckCompany(c)
  \/ RecordCheck(c)
  \/ ExchangeAccepted(c)
  \/ ExchangeRefused(c)
  \/ MarkRefused(c)
  \/ SaveCredential(c)
  \/ MarkConnected(c)
  \/ Revoke(c)
  \/ DeleteCredential(c)
  \/ MarkDisconnected(c)

Begin(c) ==
  \E p \in Processes :
    \/ \E method \in AllMethods : Start(c, p, method)
    \/ \E k \in Consents : Consume(c, p, k)
    \/ StartDisconnect(c, p)

Surroundings ==
  \/ \E k \in Consents : BeginAuthorization(k) \/ ExpireRequest(k)
  \/ AgeTokens
  \/ ExpireTokens
  \/ \E p \in Processes : Crash(p)

Next ==
  \/ \E c \in Calls : Begin(c) \/ CallStep(c)
  \/ Surroundings

Spec == Init /\ [][Next]_vars

\* A call that has begun runs on: every awaited query and request ends, by an
\* answer, an error or the 15 second timeout.
FairSpec == Spec /\ \A c \in Calls : WF_vars(CallStep(c))

-----------------------------------------------------------------------------
(* Safety *)

\* Refreshes of the connection share one promise per process: at most one call
\* of a process refreshes, and whoever waits is waiting for that one.
SingleFlight ==
  \A p \in Processes :
    LET here == {c \in Calls : call[c].at = p}
    IN  /\ {c \in here : call[c].pc \in Refreshing} = {flight[p]} \ {NoCall}
        /\ (\E c \in here : call[c].pc = "join") => flight[p] # NoCall

\* A rotation does not overwrite a pair of tokens with an older one, whichever
\* process or consent stored it. The one way to: a consent came between the read of
\* the credential and the comparison, and has started the count over at the value
\* that was read. (A consent saves what it was given, whatever is stored.)
RotationAdvances ==
  [][\A c \in Calls :
       call[c].pc = "store" /\ call'[c].pc # "store" =>
         \A s \in cred, t \in cred' :
           \/ s.pair <= t.pair
           \/ call[c].renewed /\ \E r \in call[c].seen : r.count = s.count]_vars

\* A refresh that outlives a disconnect, or another refresh's clean-up, does
\* not bring the credential back: only a consent does.
OnlyConsentConnects ==
  [][cred = {} /\ cred' # {} => \E c \in Calls : call[c].pc = "save"]_vars

\* The state is claimed before the code is spent: one authorization request
\* leads to one exchange at most, however often its callback is replayed.
ConsentSpentOnce == \A k \in Consents : spent[k] <= 1

\* What getAccessToken returns had not run out when it was called.
TokenUsable ==
  \A c \in Calls : call[c].pc = "check" => call[c].got > call[c].stale

-----------------------------------------------------------------------------
(* Liveness *)

\* Every call ends, those that wait for another one's refresh included.
EveryCallEnds == \A c \in Calls : call[c].pc # "idle" ~> call[c].pc = "idle"
=============================================================================
