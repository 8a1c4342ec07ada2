-------------------------------- MODULE Grant --------------------------------
(***************************************************************************)
(* Whose books a client's runs and submissions reach, and whether they may *)
(* write there: the environment the process starts under (config.ts), the  *)
(* row and the credential of the client's grant with the requests that     *)
(* change them (routes/integrations.ts, oauth/connection.ts), the resolver *)
(* (integrations/fortnox.ts), the start of executeCloseRun with the checks *)
(* of the readiness step, and submissions up to the gate.                  *)
(*                                                                         *)
(* Every consent is given for a company of its own, and a company is the   *)
(* number of its consent; 0 stands for demo data. One request of each kind *)
(* is under way at a time: replayed consents and the refresh of tokens are *)
(* in Connection, submitters beside each other in Booking. A run books one *)
(* voucher.                                                                *)
(***************************************************************************)
EXTENDS Integers

CONSTANTS
  Environments,   \* records [SHADOW_MODE, FORTNOX_WRITES_ENABLED, phrase, FORTNOX_ADAPTER, secrets]
  DemoRow,        \* whether the client has the demo-data row
  EngineWired,    \* whether the engine is built with fortnoxWritesEnabled
  MaxConsents, MaxRuns, MaxRestarts, MaxToggles   \* bounds

ASSUME GrantAssumption ==
  /\ DemoRow \in BOOLEAN /\ EngineWired \in BOOLEAN
  /\ {MaxConsents, MaxRuns, MaxRestarts, MaxToggles} \subseteq Nat

VARIABLES
  env,          \* environment of the process
  row,          \* integration_connections, kind fortnox_oauth; of: the consent it is of
  credential,   \* company of the stored tokens, 0 without
  callback,     \* company whose tokens are stored and whose row is not, or 0
  disconnect,   \* whether a disconnect has deleted the credential, not marked the row
  check,        \* a live check on its way, and what Fortnox answered
  toggle,       \* a request to turn the switch, and the consent of the row it read
  exec,         \* the execution of a run
  sub,          \* a submission
  runs,         \* close runs, with what a completed import read
  posted,       \* history: vouchers
  switched,     \* history: consents the switch was turned on for
  consents, restarts, toggles

grant == <<row, credential, callback, disconnect, check>>
work == <<exec, runs, sub, posted>>
vars == <<env, grant, toggle, switched, work, consents, restarts, toggles>>

DEMO == 0

IdleCheck == [pc |-> "idle", dead |-> FALSE]
IdleToggle == [pc |-> "idle", enabled |-> FALSE, of |-> 0]
\* moved: whether tokens were stored since it resolved its source.
IdleExec == [pc |-> "idle", run |-> 0, kind |-> "none", read |-> {}, moved |-> FALSE]
\* torn: whether the row and the credential were of different consents when read.
IdleSub == [pc |-> "idle", run |-> 0, kind |-> "none", writes |-> FALSE,
            switch |-> FALSE, moved |-> FALSE, torn |-> FALSE]

-----------------------------------------------------------------------------
(* The environment *)

\* Whatever is set and not the word true is false.
boolFromEnv(default, value) == IF value = "unset" THEN default ELSE value = "true"

shadowMode(e) == boolFromEnv(TRUE, e.SHADOW_MODE)
fortnoxWritesEnabled(e) == boolFromEnv(FALSE, e.FORTNOX_WRITES_ENABLED)

Starts(e) ==
  fortnoxWritesEnabled(e) => ~shadowMode(e) /\ e.phrase /\ e.FORTNOX_ADAPTER # "mock"

Configured == env.secrets

\* The source a client has now, and whether its adapter writes.
Source ==
  IF env.FORTNOX_ADAPTER # "mock" /\ Configured /\ row.status = "connected" THEN "real"
  ELSE IF env.FORTNOX_ADAPTER # "real" /\ DemoRow THEN "mock"
  ELSE "none"

AdapterWrites == fortnoxWritesEnabled(env) /\ ~shadowMode(env) /\ row.writes

Init ==
  /\ env \in {e \in Environments : Starts(e)}
  /\ row = [status |-> "none", writes |-> FALSE, of |-> 0]
  /\ credential = 0
  /\ callback = 0 /\ disconnect = FALSE /\ check = IdleCheck /\ toggle = IdleToggle
  /\ exec = IdleExec /\ sub = IdleSub
  /\ runs = [r \in 1..MaxRuns |->
       [source |-> "mock", read |-> {}, moved |-> FALSE, again |-> FALSE]]
  /\ posted = {} /\ switched = {}
  /\ consents = 0 /\ restarts = 0 /\ toggles = 0

\* The process is started anew, perhaps with other switches: what was under way is
\* gone.
Restart(e) ==
  /\ restarts < MaxRestarts
  /\ Starts(e)
  /\ env' = e
  /\ callback' = 0 /\ disconnect' = FALSE /\ check' = IdleCheck /\ toggle' = IdleToggle
  /\ exec' = IdleExec /\ sub' = IdleSub
  /\ restarts' = restarts + 1
  /\ UNCHANGED <<row, credential, runs, posted, switched, consents, toggles>>

-----------------------------------------------------------------------------
(* The grant *)

Mark(status) ==
  row' = IF row.status = "none" THEN row ELSE [row EXCEPT !.status = status]

Rest == UNCHANGED <<env, toggle, switched, restarts, toggles>>

\* completeAuthorization: the tokens are stored ...
SaveCredential ==
  /\ Configured /\ callback = 0
  /\ consents < MaxConsents
  /\ consents' = consents + 1
  /\ credential' = consents' /\ callback' = consents'
  /\ exec' = [exec EXCEPT !.moved = exec.pc # "idle"]
  /\ sub' = [sub EXCEPT !.moved = sub.pc # "idle"]
  /\ UNCHANGED <<row, disconnect, check, runs, posted>> /\ Rest

\* Mutated form: the switch is left as it was.
MarkConnectedOnly ==
  /\ callback # 0
  /\ row' = [row EXCEPT !.status = "connected", !.of = callback]
  /\ callback' = 0
  /\ UNCHANGED <<credential, disconnect, check, work, consents>> /\ Rest

\* ... and then the row: consent grants reading.
MarkConnected ==
  /\ callback # 0
  /\ row' = [status |-> "connected", writes |-> FALSE, of |-> callback]
  /\ callback' = 0
  /\ UNCHANGED <<credential, disconnect, check, work, consents>> /\ Rest

\* The code is refused by Fortnox.
ConsentFails ==
  /\ Configured /\ callback = 0
  /\ Mark("disconnected")
  /\ UNCHANGED <<credential, callback, disconnect, check, work, consents>> /\ Rest

DeleteCredential ==
  /\ Configured /\ ~disconnect
  /\ credential' = 0 /\ disconnect' = TRUE
  /\ UNCHANGED <<row, callback, check, work, consents>> /\ Rest

MarkDisconnected ==
  /\ disconnect
  /\ Mark("disconnected") /\ disconnect' = FALSE
  /\ UNCHANGED <<credential, callback, check, work, consents>> /\ Rest

\* A refresh is told that the grant is dead (see Connection).
GrantDies ==
  /\ credential # 0
  /\ credential' = 0 /\ Mark("needs_reconnect")
  /\ UNCHANGED <<callback, disconnect, check, work, consents>> /\ Rest

\* verifyConnection: Fortnox is asked with the tokens there are, and the answer
\* goes to whatever row there is then.
AskFortnox ==
  /\ Configured /\ check.pc = "idle"
  /\ credential # 0
  /\ \E dead \in BOOLEAN :
       /\ check' = [pc |-> "answered", dead |-> dead]
       /\ credential' = IF dead THEN 0 ELSE credential
       /\ IF dead THEN Mark("needs_reconnect") ELSE row' = row
  /\ UNCHANGED <<callback, disconnect, work, consents>> /\ Rest

RecordCheck ==
  /\ check.pc = "answered"
  /\ Mark(IF check.dead THEN "needs_reconnect" ELSE "connected")
  /\ check' = IdleCheck
  /\ UNCHANGED <<credential, callback, disconnect, work, consents>> /\ Rest

\* POST /writes. Mutated form: shadow mode is not looked at.
ReadForSwitchAnyMode(enabled) ==
  /\ toggle.pc = "idle" /\ toggles < MaxToggles
  /\ row.status # "none"
  /\ toggle' = [pc |-> "checked", enabled |-> enabled, of |-> row.of]
  /\ toggles' = toggles + 1
  /\ UNCHANGED <<env, grant, switched, work, consents, restarts>>

\* POST /writes: there must be a row, and nothing is turned on in shadow mode.
ReadForSwitch(enabled) ==
  /\ toggle.pc = "idle" /\ toggles < MaxToggles
  /\ row.status # "none"
  /\ ~(enabled /\ shadowMode(env))
  /\ toggle' = [pc |-> "checked", enabled |-> enabled, of |-> row.of]
  /\ toggles' = toggles + 1
  /\ UNCHANGED <<env, grant, switched, work, consents, restarts>>

\* The row there is now is updated; it may be of a newer consent than the one read.
SetWrites ==
  /\ toggle.pc = "checked"
  /\ row' = [row EXCEPT !.writes = toggle.enabled]
  /\ switched' = IF toggle.enabled THEN switched \cup {toggle.of, row.of} ELSE switched
  /\ toggle' = IdleToggle
  /\ UNCHANGED <<env, credential, callback, disconnect, check, work, consents, restarts,
                 toggles>>

-----------------------------------------------------------------------------
(* Close runs *)

Outside == UNCHANGED <<env, grant, toggle, switched, consents, restarts, toggles>>

\* executeCloseRun resolves the source ...
StartExecution(r) ==
  /\ exec.pc = "idle"
  /\ exec' = [IdleExec EXCEPT !.pc = "resolved", !.run = r, !.kind = Source]
  /\ UNCHANGED <<runs, sub, posted>> /\ Outside

\* Mutated form: the source of the first execution stays.
RecordSourceOnce ==
  /\ exec.pc = "resolved"
  /\ exec' = [exec EXCEPT !.pc = "started"]
  /\ runs' = [runs EXCEPT ![exec.run].again = @ \/ runs[exec.run].read # {},
                          ![exec.run].source = IF @ = "mock" THEN exec.kind ELSE @]
  /\ UNCHANGED <<sub, posted>> /\ Outside

\* ... and writes it to the run, whether the execution will read anything or not.
RecordSource ==
  /\ exec.pc = "resolved"
  /\ exec' = [exec EXCEPT !.pc = "started"]
  /\ runs' = [runs EXCEPT ![exec.run].again = @ \/ runs[exec.run].read # {},
                          ![exec.run].source = exec.kind]
  /\ UNCHANGED <<sub, posted>> /\ Outside

\* What the readiness step asks of the row the source stands for.
Ready ==
  \/ exec.kind = "mock"
  \/ /\ exec.kind = "real"
     /\ row.status = "connected"
     /\ ~(row.writes /\ shadowMode(env))

\* The readiness step, which is done once.
Readiness ==
  /\ exec.pc = "started"
  /\ exec' = IF runs[exec.run].read = {} /\ Ready
             THEN [exec EXCEPT !.pc = "reading"] ELSE IdleExec
  /\ UNCHANGED <<runs, sub, posted>> /\ Outside

\* One of the reads of the import: the token of a real one is asked for now.
ReadLedger ==
  /\ exec.pc = "reading"
  /\ exec.kind = "real" => credential # 0
  /\ exec' = [exec EXCEPT !.read = @ \cup {IF exec.kind = "mock" THEN DEMO ELSE credential}]
  /\ UNCHANGED <<runs, sub, posted>> /\ Outside

\* The import ends, and the rest of the run works on what it read; or a read fails.
EndImport ==
  /\ exec.pc = "reading" /\ exec.read # {}
  /\ runs' = [runs EXCEPT ![exec.run].read = exec.read, ![exec.run].moved = exec.moved]
  /\ exec' = IdleExec
  /\ UNCHANGED <<sub, posted>> /\ Outside

ImportFails ==
  /\ exec.pc = "reading"
  /\ exec' = IdleExec
  /\ UNCHANGED <<runs, sub, posted>> /\ Outside

-----------------------------------------------------------------------------
(* Submissions *)

\* The source is resolved anew for a run with an approved proposal.
Resolve(r) ==
  /\ sub.pc = "idle"
  /\ runs[r].read # {} /\ \A v \in posted : v.run # r
  /\ sub' = [IdleSub EXCEPT !.pc = "resolved", !.run = r, !.kind = Source,
               !.writes = Source = "real" /\ AdapterWrites, !.torn = row.of # credential]
  /\ UNCHANGED <<exec, runs, posted>> /\ Outside

ReadSwitch ==
  /\ sub.pc = "resolved"
  /\ sub' = [sub EXCEPT !.pc = "ready", !.switch = sub.kind = "real" /\ row.writes,
                        !.torn = @ \/ row.of # credential]
  /\ UNCHANGED <<exec, runs, posted>> /\ Outside

\* What the gate and the adapter ask, of a proposal approved as it is.
GateOpen ==
  /\ sub.kind = "real" /\ sub.switch /\ sub.writes
  /\ EngineWired /\ ~shadowMode(env)

Post ==
  /\ sub.pc = "ready" /\ GateOpen
  /\ credential # 0
  /\ posted' = posted \cup {[run |-> sub.run, company |-> credential,
                             excused |-> sub.moved \/ sub.torn]}
  /\ sub' = IdleSub
  /\ UNCHANGED <<exec, runs>> /\ Outside

\* Blocked, or refused.
EndSubmission ==
  /\ sub.pc = "ready"
  /\ ~GateOpen \/ credential = 0
  /\ sub' = IdleSub
  /\ UNCHANGED <<exec, runs, posted>> /\ Outside

Connections ==
  \/ SaveCredential \/ MarkConnected \/ ConsentFails
  \/ DeleteCredential \/ MarkDisconnected
  \/ GrantDies
  \/ AskFortnox \/ RecordCheck
  \/ \E enabled \in BOOLEAN : ReadForSwitch(enabled)
  \/ SetWrites

Executions ==
  \/ \E r \in 1..MaxRuns : StartExecution(r)
  \/ RecordSource \/ Readiness \/ ReadLedger \/ EndImport \/ ImportFails

Submissions ==
  \/ \E r \in 1..MaxRuns : Resolve(r)
  \/ ReadSwitch \/ Post \/ EndSubmission

Next ==
  \/ \E e \in Environments : Restart(e)
  \/ Connections \/ Executions \/ Submissions

Spec == Init /\ [][Next]_vars

-----------------------------------------------------------------------------
(* Properties *)

Kinds == {"real", "mock", "none"}

Row == [status : {"none", "connected", "needs_reconnect", "disconnected"},
        writes : BOOLEAN, of : Nat]
Toggle == [pc : {"idle", "checked"}, enabled : BOOLEAN, of : Nat]
Execution == [pc : {"idle", "resolved", "started", "reading"}, run : 0..MaxRuns,
              kind : Kinds, read : SUBSET Nat, moved : BOOLEAN]
Submission == [pc : {"idle", "resolved", "ready"}, run : 0..MaxRuns, kind : Kinds,
               writes : BOOLEAN, switch : BOOLEAN, moved : BOOLEAN, torn : BOOLEAN]
Run == [source : Kinds, read : SUBSET Nat, moved : BOOLEAN, again : BOOLEAN]
Voucher == [run : 1..MaxRuns, company : Nat \ {0}, excused : BOOLEAN]

\* Rows, local states and vouchers keep their shape, and the process runs under an
\* environment it may start under.
TypeOK ==
  /\ env \in Environments /\ Starts(env)
  /\ row \in Row
  /\ credential \in Nat /\ callback \in Nat /\ consents \in Nat
  /\ disconnect \in BOOLEAN
  /\ check \in [pc : {"idle", "answered"}, dead : BOOLEAN]
  /\ toggle \in Toggle
  /\ exec \in Execution /\ (exec.pc # "idle" => exec.run # 0)
  /\ sub \in Submission /\ (sub.pc # "idle" => sub.run # 0)
  /\ runs \in [1..MaxRuns -> Run]
  /\ posted \subseteq Voucher
  /\ switched \subseteq Nat

\* As much as the code keeps of "consent grants reading, writing stays gated"
\* (connection.ts): the switch that was on for one grant does
\* not open the books of the next. A voucher reaches a company only if the
\* switch was turned on for that consent, or by a request that had read the row of
\* an older one; unless tokens were stored during the submission, or before it
\* without their row.
SwitchedForThisGrant ==
  \A v \in posted : v.company \in switched \/ v.excused

\* A run does not read through a connection that may write while the system is in
\* shadow mode (readiness.ts), from its first read to its last.
ShadowNeverBesideWrites ==
  exec.pc = "reading" /\ exec.kind = "real" /\ shadowMode(env) => ~row.writes

\* The run row tells "which data source the run read from" (schema,
\* closeRuns.dataSource), as far as the code keeps to it: a run read demo data or a
\* company's books, never both, and one company's only unless tokens of another
\* were stored while it read. Until it is executed again: that execution writes the
\* source it has, and reads nothing.
RunTellsSource ==
  \A r \in 1..MaxRuns :
    LET run == runs[r]
    IN  run.read # {} /\ ~run.again =>
          /\ run.source = IF DEMO \in run.read THEN "mock" ELSE "real"
          /\ DEMO \in run.read => run.read = {DEMO}
          /\ run.moved \/ \A c, d \in run.read : c = d
=============================================================================
