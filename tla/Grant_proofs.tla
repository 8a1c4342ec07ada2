---------------------------- MODULE Grant_proofs ----------------------------
(***************************************************************************)
(* Proofs about Grant, for every set of environments, any number of runs,  *)
(* consents, restarts and switch requests, with or without the demo row.   *)
(***************************************************************************)
EXTENDS Grant, TLAPS

-----------------------------------------------------------------------------
(* Shapes *)

\* The settings read from the environment are booleans.
LEMMA SettingsAreBoolean ==
  \A e : shadowMode(e) \in BOOLEAN /\ fortnoxWritesEnabled(e) \in BOOLEAN
  BY DEF shadowMode, fortnoxWritesEnabled, boolFromEnv

\* The data source is of one of its kinds.
LEMMA SourceTyped == Source \in Kinds
  BY DEF Source, Kinds

\* An execution and a submission not made have their types.
LEMMA IdleTyped ==
  /\ IdleExec \in Execution /\ IdleExec.pc = "idle"
  /\ IdleSub \in Submission /\ IdleSub.pc = "idle"
<1>1. 0 \in 0..MaxRuns
  BY GrantAssumption
<1> QED
  BY <1>1 DEF IdleExec, IdleSub, Execution, Submission, Kinds

\* Marking the connection keeps its row typed, its writes and its owner.
LEMMA MarkTyped ==
  ASSUME row \in Row, NEW s \in {"connected", "needs_reconnect", "disconnected"}, Mark(s)
  PROVE  row' \in Row /\ row'.writes = row.writes /\ row'.of = row.of
  BY DEF Row, Mark

\* The initial state is typed.
LEMMA TypedInit == Init => TypeOK
<1> SUFFICES ASSUME Init PROVE TypeOK
  OBVIOUS
<1>1. runs \in [1..MaxRuns -> Run]
  BY DEF Init, Run, Kinds
<1>2. row \in Row /\ toggle \in Toggle
  BY DEF Init, Row, Toggle, IdleToggle
<1> QED
  BY <1>1, <1>2, IdleTyped DEF Init, TypeOK, IdleCheck

\* Every step keeps the types.
LEMMA TypedStep == TypeOK /\ [Next]_vars => TypeOK'
<1> SUFFICES ASSUME TypeOK, [Next]_vars PROVE TypeOK'
  OBVIOUS
<1> USE DEF TypeOK
<1>1. ASSUME NEW e \in Environments, Restart(e) PROVE TypeOK'
  BY <1>1, IdleTyped DEF Restart, IdleCheck, IdleToggle, Toggle
<1>2. ASSUME SaveCredential PROVE TypeOK'
  <2>1. (exec.pc # "idle") \in BOOLEAN /\ (sub.pc # "idle") \in BOOLEAN
    OBVIOUS
  <2>2. exec' \in Execution /\ exec'.pc = exec.pc /\ exec'.run = exec.run
    BY <1>2, <2>1 DEF SaveCredential, Execution
  <2>3. sub' \in Submission /\ sub'.pc = sub.pc /\ sub'.run = sub.run
    BY <1>2, <2>1 DEF SaveCredential, Submission
  <2> QED
    BY <1>2, <2>2, <2>3 DEF SaveCredential, Rest
<1>3. ASSUME MarkConnected PROVE TypeOK'
  BY <1>3 DEF MarkConnected, Rest, work, Row
<1>4. ASSUME ConsentFails PROVE TypeOK'
  BY <1>4, MarkTyped DEF ConsentFails, Rest, work
<1>5. ASSUME DeleteCredential PROVE TypeOK'
  BY <1>5 DEF DeleteCredential, Rest, work
<1>6. ASSUME MarkDisconnected PROVE TypeOK'
  BY <1>6, MarkTyped DEF MarkDisconnected, Rest, work
<1>7. ASSUME GrantDies PROVE TypeOK'
  BY <1>7, MarkTyped DEF GrantDies, Rest, work
<1>8. ASSUME AskFortnox PROVE TypeOK'
  BY <1>8, MarkTyped DEF AskFortnox, Rest, work
<1>9. ASSUME RecordCheck PROVE TypeOK'
  BY <1>9, MarkTyped DEF RecordCheck, Rest, work, IdleCheck
<1>10. ASSUME NEW b \in BOOLEAN, ReadForSwitch(b) PROVE TypeOK'
  BY <1>10 DEF ReadForSwitch, work, grant, Row, Toggle
<1>11. ASSUME SetWrites PROVE TypeOK'
  BY <1>11 DEF SetWrites, work, Row, Toggle, IdleToggle
<1>12. ASSUME NEW r \in 1..MaxRuns, StartExecution(r) PROVE TypeOK'
  <2>1. r \in 0..MaxRuns /\ r # 0
    BY GrantAssumption
  <2>2. exec' \in Execution /\ exec'.run = r
    BY <1>12, <2>1, IdleTyped, SourceTyped DEF StartExecution, Execution
  <2> QED
    BY <1>12, <2>1, <2>2 DEF StartExecution, Outside, grant
<1>13. ASSUME RecordSource PROVE TypeOK'
  <2>1. exec' \in Execution /\ exec'.run = exec.run
    BY <1>13 DEF RecordSource, Execution
  <2>2. exec.run \in 1..MaxRuns /\ exec.run # 0 /\ exec.kind \in Kinds
    BY <1>13 DEF RecordSource, Execution
  <2> DEFINE again == runs[exec.run].again \/ runs[exec.run].read # {}
  <2>3. again \in BOOLEAN
    BY <2>2 DEF Run
  <2>4. runs' = [runs EXCEPT ![exec.run] = [@ EXCEPT !.again = again, !.source = exec.kind]]
    BY <1>13, <2>2 DEF RecordSource, Run
  <2>5. [runs[exec.run] EXCEPT !.again = again, !.source = exec.kind] \in Run
    BY <2>2, <2>3 DEF Run
  <2>6. runs' \in [1..MaxRuns -> Run]
    BY <2>2, <2>4, <2>5
  <2> QED
    BY <1>13, <2>1, <2>2, <2>6 DEF RecordSource, Outside, grant
<1>14. ASSUME Readiness PROVE TypeOK'
  BY <1>14, IdleTyped DEF Readiness, Outside, grant, Execution
<1>15. ASSUME ReadLedger PROVE TypeOK'
  BY <1>15 DEF ReadLedger, Outside, grant, Execution, DEMO
<1>16. ASSUME EndImport PROVE TypeOK'
  BY <1>16, IdleTyped DEF EndImport, Outside, grant, Execution, Run
<1>17. ASSUME ImportFails PROVE TypeOK'
  BY <1>17, IdleTyped DEF ImportFails, Outside, grant
<1>18. ASSUME NEW r \in 1..MaxRuns, Resolve(r) PROVE TypeOK'
  <2>1. r \in 0..MaxRuns /\ r # 0
    BY GrantAssumption
  <2> DEFINE writes == Source = "real" /\ AdapterWrites
             torn == row.of # credential
  <2>2. writes \in BOOLEAN /\ torn \in BOOLEAN
    OBVIOUS
  <2>3. sub' = [IdleSub EXCEPT !.pc = "resolved", !.run = r, !.kind = Source,
                  !.writes = writes, !.torn = torn]
    BY <1>18 DEF Resolve
  <2> HIDE DEF writes, torn
  <2>4. sub' \in Submission /\ sub'.run = r
    BY <2>1, <2>2, <2>3, IdleTyped, SourceTyped DEF Submission
  <2> QED
    BY <1>18, <2>1, <2>4 DEF Resolve, Outside, grant
<1>19. ASSUME ReadSwitch PROVE TypeOK'
  BY <1>19 DEF ReadSwitch, Outside, grant, Submission, Row
<1>20. ASSUME Post PROVE TypeOK'
  BY <1>20, IdleTyped DEF Post, Outside, grant, Submission, Voucher
<1>21. ASSUME EndSubmission PROVE TypeOK'
  BY <1>21, IdleTyped DEF EndSubmission, Outside, grant
<1>22. ASSUME UNCHANGED vars PROVE TypeOK'
  BY <1>22 DEF vars, grant, work
<1> QED
  BY <1>1, <1>2, <1>3, <1>4, <1>5, <1>6, <1>7, <1>8, <1>9, <1>10, <1>11, <1>12,
     <1>13, <1>14, <1>15, <1>16, <1>17, <1>18, <1>19, <1>20, <1>21, <1>22
     DEF Next, Connections, Executions, Submissions

\* Rows, local states and vouchers keep their shape.
THEOREM TypeCorrect == Spec => []TypeOK
  BY TypedInit, TypedStep, PTL DEF Spec

-----------------------------------------------------------------------------
(* What a request does to the grant *)

\* The requests about the grant leave environment, runs and vouchers alone, and
\* of executions and submissions change at most that tokens were stored meanwhile.
LEMMA ConnectionsDigest ==
  ASSUME TypeOK, Connections
  PROVE  /\ UNCHANGED <<env, runs, posted>>
         /\ exec' \in {exec, [exec EXCEPT !.moved = (exec.pc # "idle")]}
         /\ sub' \in {sub, [sub EXCEPT !.moved = (sub.pc # "idle")]}
         /\ \/ credential' \in {0, credential}
            \/ exec'.moved = (exec.pc # "idle") /\ sub'.moved = (sub.pc # "idle")
<1> USE DEF TypeOK, Execution, Submission
<1>1. CASE SaveCredential
  BY <1>1 DEF SaveCredential, Rest
<1>2. CASE MarkConnected
  BY <1>2 DEF MarkConnected, Rest, work
<1>3. CASE ConsentFails
  BY <1>3 DEF ConsentFails, Rest, work
<1>4. CASE DeleteCredential
  BY <1>4 DEF DeleteCredential, Rest, work
<1>5. CASE MarkDisconnected
  BY <1>5 DEF MarkDisconnected, Rest, work
<1>6. CASE GrantDies
  BY <1>6 DEF GrantDies, Rest, work
<1>7. CASE AskFortnox
  BY <1>7 DEF AskFortnox, Rest, work
<1>8. CASE RecordCheck
  BY <1>8 DEF RecordCheck, Rest, work
<1>9. ASSUME NEW b \in BOOLEAN, ReadForSwitch(b)
      PROVE  UNCHANGED <<env, runs, posted, exec, sub, credential>>
  BY <1>9 DEF ReadForSwitch, work, grant
<1>10. CASE SetWrites
  BY <1>10 DEF SetWrites, work
<1> QED
  BY <1>1, <1>2, <1>3, <1>4, <1>5, <1>6, <1>7, <1>8, <1>9, <1>10 DEF Connections

\* Only the switch turns on writing, for the row there is and with shadow mode off.
LEMMA SwitchDigest ==
  ASSUME TypeOK, Connections
  PROVE  /\ switched \subseteq switched'
         /\ \/ row'.writes = row.writes /\ row'.of = row.of
            \/ ~row'.writes
            \/ toggle.pc = "checked" /\ toggle.enabled /\ row'.of \in switched'
         /\ \/ toggle' = toggle
            \/ toggle' = IdleToggle
            \/ toggle'.enabled => ~shadowMode(env)
<1>0. \A s \in {"connected", "needs_reconnect", "disconnected"} :
        Mark(s) => row'.writes = row.writes /\ row'.of = row.of
  BY MarkTyped DEF TypeOK
<1> USE DEF TypeOK, Row, Toggle
<1>1. CASE SaveCredential
  BY <1>1 DEF SaveCredential, Rest
<1>2. CASE MarkConnected
  BY <1>2 DEF MarkConnected, Rest
<1>3. CASE ConsentFails
  BY <1>0, <1>3 DEF ConsentFails, Rest
<1>4. CASE DeleteCredential
  BY <1>4 DEF DeleteCredential, Rest
<1>5. CASE MarkDisconnected
  BY <1>0, <1>5 DEF MarkDisconnected, Rest
<1>6. CASE GrantDies
  BY <1>0, <1>6 DEF GrantDies, Rest
<1>7. CASE AskFortnox
  BY <1>0, <1>7 DEF AskFortnox, Rest
<1>8. CASE RecordCheck
  BY <1>0, <1>8 DEF RecordCheck, Rest
<1>9. ASSUME NEW b \in BOOLEAN, ReadForSwitch(b)
      PROVE  /\ UNCHANGED <<switched, row>>
             /\ toggle'.enabled => ~shadowMode(env)
  BY <1>9 DEF ReadForSwitch, grant
<1>10. CASE SetWrites
  BY <1>10 DEF SetWrites
<1> QED
  BY <1>1, <1>2, <1>3, <1>4, <1>5, <1>6, <1>7, <1>8, <1>9, <1>10 DEF Connections

-----------------------------------------------------------------------------
(* Shadow mode and the switch *)

ShadowInv ==
  /\ toggle.enabled => ~shadowMode(env)
  /\ ShadowNeverBesideWrites

\* The shadow invariant holds in the initial state.
LEMMA ShadowInit == Init => ShadowInv
  BY DEF Init, ShadowInv, ShadowNeverBesideWrites, IdleToggle, IdleExec

\* Every step keeps the shadow invariant.
LEMMA ShadowStep == TypeOK /\ ShadowInv /\ [Next]_vars => ShadowInv'
<1> SUFFICES ASSUME TypeOK, ShadowInv, [Next]_vars PROVE ShadowInv'
  OBVIOUS
<1> USE DEF ShadowInv
<1>1. ASSUME NEW e \in Environments, Restart(e) PROVE ShadowInv'
  BY <1>1 DEF Restart, ShadowNeverBesideWrites, IdleToggle, IdleExec
<1>2. CASE Connections
  <2>1. env' = env /\ exec'.pc = exec.pc /\ exec'.kind = exec.kind
    BY <1>2, ConnectionsDigest DEF TypeOK, Execution
  <2>2. ShadowNeverBesideWrites'
    BY <1>2, <2>1, SwitchDigest DEF ShadowNeverBesideWrites
  <2> DEFINE shadow == shadowMode(env)
  <2>3. shadow' = shadow
    BY <2>1 DEF shadowMode, boolFromEnv
  <2> HIDE DEF shadow
  <2>4. toggle'.enabled => ~shadow
    <3>1. toggle.enabled => ~shadow
      BY DEF shadow
    <3> QED
      BY <1>2, <3>1, SwitchDigest DEF IdleToggle, shadow
  <2> QED
    BY <2>2, <2>3, <2>4 DEF shadow
<1>3. ASSUME NEW r \in 1..MaxRuns, StartExecution(r) PROVE ShadowInv'
  <2>1. exec'.pc # "reading"
    BY <1>3, IdleTyped DEF StartExecution, Execution
  <2> QED
    BY <1>3, <2>1 DEF StartExecution, Outside, ShadowNeverBesideWrites
<1>4. CASE RecordSource
  <2>1. exec'.pc # "reading"
    BY <1>4 DEF RecordSource, TypeOK, Execution
  <2> QED
    BY <1>4, <2>1 DEF RecordSource, Outside, ShadowNeverBesideWrites
<1>5. CASE Readiness
  <2>1. UNCHANGED <<env, row, toggle>>
    BY <1>5 DEF Readiness, Outside, grant
  <2>2. exec'.pc = "reading" => Ready /\ exec'.kind = exec.kind
    BY <1>5, IdleTyped DEF Readiness, TypeOK, Execution
  <2> QED
    BY <2>1, <2>2 DEF Ready, ShadowNeverBesideWrites
<1>6. CASE ReadLedger
  BY <1>6 DEF ReadLedger, Outside, grant, TypeOK, Execution, ShadowNeverBesideWrites
<1>7. CASE EndImport \/ ImportFails
  BY <1>7, IdleTyped DEF EndImport, ImportFails, Outside, ShadowNeverBesideWrites
<1>8. CASE Submissions
  BY <1>8 DEF Submissions, Resolve, ReadSwitch, Post, EndSubmission, Outside, grant,
       ShadowNeverBesideWrites
<1>9. CASE UNCHANGED vars
  BY <1>9 DEF vars, grant, work, ShadowNeverBesideWrites
<1> QED
  BY <1>1, <1>2, <1>3, <1>4, <1>5, <1>6, <1>7, <1>8, <1>9 DEF Next, Executions

\* No run reads through a connection whose switch is on while the process is in
\* shadow mode.
THEOREM ShadowReadsBesideNoWrites == Spec => []ShadowNeverBesideWrites
<1>1. ShadowInv => ShadowNeverBesideWrites
  BY DEF ShadowInv
<1> QED
  BY <1>1, TypeCorrect, ShadowInit, ShadowStep, PTL DEF Spec

-----------------------------------------------------------------------------
(* The run row tells the source *)

\* While a run reads, what it has read so far is of the source its row names, and
\* of one company unless tokens were stored meanwhile.
SourceInv ==
  /\ exec.pc \in {"started", "reading"} => runs[exec.run].source = exec.kind
  /\ exec.pc = "reading" => exec.kind \in {"real", "mock"}
  /\ exec.read # {} => exec.pc = "reading"
  /\ \A c \in exec.read : c = DEMO <=> exec.kind = "mock"
  /\ ~exec.moved => \A c, d \in exec.read : c = d
  /\ ~exec.moved /\ credential # 0 /\ exec.kind = "real" =>
       \A c \in exec.read : c = credential
  /\ RunTellsSource

\* The invariant of the source each call uses holds in the initial state.
LEMMA SourceInit == Init => SourceInv
  BY DEF Init, SourceInv, RunTellsSource, IdleExec, DEMO

\* Every step keeps the invariant of the source each call uses.
LEMMA SourceStep == TypeOK /\ SourceInv /\ [Next]_vars => SourceInv'
<1> SUFFICES ASSUME TypeOK, SourceInv, [Next]_vars PROVE SourceInv'
  OBVIOUS
<1> USE DEF SourceInv
<1>1. ASSUME exec' = IdleExec, runs' = runs PROVE SourceInv'
  BY <1>1 DEF IdleExec, RunTellsSource, DEMO
<1>2. ASSUME UNCHANGED <<exec, runs, credential>> PROVE SourceInv'
  BY <1>2 DEF RunTellsSource
<1>3. ASSUME NEW e \in Environments, Restart(e) PROVE SourceInv'
  BY <1>1, <1>3 DEF Restart
<1>4. CASE Connections
  <2>1. /\ runs' = runs
        /\ exec'.pc = exec.pc /\ exec'.kind = exec.kind
        /\ exec'.run = exec.run /\ exec'.read = exec.read
        /\ exec.pc # "idle" /\ exec.moved => exec'.moved
        /\ credential' \in {0, credential} \/ (exec.pc = "reading" => exec'.moved)
        /\ exec.pc = "reading" /\ ~exec'.moved => ~exec.moved
    BY <1>4, ConnectionsDigest DEF TypeOK, Execution
  <2> QED
    BY <2>1 DEF RunTellsSource
<1>5. ASSUME NEW r \in 1..MaxRuns, StartExecution(r) PROVE SourceInv'
  <2>1. exec'.pc = "resolved" /\ exec'.read = {} /\ runs' = runs
    BY <1>5, IdleTyped DEF StartExecution, Execution, IdleExec
  <2> QED
    BY <2>1 DEF RunTellsSource
<1>6. CASE RecordSource
  <2>1. /\ exec'.pc = "started" /\ exec'.read = {}
        /\ exec'.kind = exec.kind /\ exec'.run = exec.run
    BY <1>6 DEF RecordSource, TypeOK, Execution
  <2>2. exec.run \in 1..MaxRuns
    BY <1>6 DEF RecordSource, TypeOK, Execution
  <2>3. /\ runs'[exec.run].source = exec.kind
        /\ runs'[exec.run].read = runs[exec.run].read
        /\ runs[exec.run].read # {} => runs'[exec.run].again
    BY <1>6, <2>2 DEF RecordSource, TypeOK, Run
  <2>4. \A r \in 1..MaxRuns : r # exec.run => runs'[r] = runs[r]
    BY <1>6 DEF RecordSource, TypeOK
  <2>5. RunTellsSource'
    BY <2>2, <2>3, <2>4 DEF RunTellsSource
  <2> QED
    BY <2>1, <2>3, <2>5
<1>7. CASE Readiness
  <2>1. CASE exec' = IdleExec
    BY <1>1, <1>7, <2>1 DEF Readiness
  <2>2. CASE exec' = [exec EXCEPT !.pc = "reading"] /\ Ready
    <3>1. /\ exec'.pc = "reading" /\ exec'.kind = exec.kind /\ exec'.run = exec.run
          /\ exec'.read = exec.read /\ exec'.moved = exec.moved /\ exec.read = {}
          /\ runs' = runs
      BY <1>7, <2>2 DEF Readiness, TypeOK, Execution
    <3> QED
      BY <1>7, <2>2, <3>1 DEF Readiness, Ready, RunTellsSource
  <2> QED
    BY <1>7, <2>1, <2>2 DEF Readiness
<1>8. CASE ReadLedger
  <2> DEFINE new == IF exec.kind = "mock" THEN DEMO ELSE credential
  <2>1. /\ exec.pc = "reading" /\ UNCHANGED <<runs, credential>>
        /\ exec' = [exec EXCEPT !.read = @ \cup {new}]
        /\ exec.kind = "real" => credential # 0
    BY <1>8 DEF ReadLedger, Outside, grant
  <2>2. /\ exec'.pc = exec.pc /\ exec'.kind = exec.kind /\ exec'.run = exec.run
        /\ exec'.moved = exec.moved /\ exec'.read = exec.read \cup {new}
    BY <2>1 DEF TypeOK, Execution
  <2> QED
    BY <2>1, <2>2 DEF RunTellsSource, DEMO
<1>9. CASE EndImport
  <2>1. /\ exec.pc = "reading" /\ exec.run \in 1..MaxRuns /\ exec.read # {}
        /\ exec' = IdleExec
    BY <1>9 DEF EndImport, TypeOK, Execution
  <2>2. /\ runs'[exec.run].source = runs[exec.run].source
        /\ runs'[exec.run].read = exec.read
        /\ runs'[exec.run].moved = exec.moved
    BY <1>9, <2>1 DEF EndImport, TypeOK, Run
  <2>3. \A r \in 1..MaxRuns : r # exec.run => runs'[r] = runs[r]
    BY <1>9 DEF EndImport, TypeOK
  <2>4. RunTellsSource'
    BY <2>1, <2>2, <2>3 DEF RunTellsSource, DEMO
  <2> QED
    BY <2>1, <2>4 DEF IdleExec
<1>10. CASE ImportFails
  BY <1>1, <1>10 DEF ImportFails
<1>11. CASE Submissions
  BY <1>2, <1>11 DEF Submissions, Resolve, ReadSwitch, Post, EndSubmission, Outside, grant
<1>12. CASE UNCHANGED vars
  BY <1>2, <1>12 DEF vars, grant, work
<1> QED
  BY <1>3, <1>4, <1>5, <1>6, <1>7, <1>8, <1>9, <1>10, <1>11, <1>12 DEF Next, Executions

\* The row of a run tells what the run read, until the run is executed again.
THEOREM RunRowTellsSource == Spec => []RunTellsSource
<1>1. SourceInv => RunTellsSource
  BY DEF SourceInv
<1> QED
  BY <1>1, TypeCorrect, SourceInit, SourceStep, PTL DEF Spec

-----------------------------------------------------------------------------
(* The switch belongs to a grant *)

\* A switch that is on was turned on for the consent of its row; and what a
\* submission holds between reading the switch and the post is a grant the switch
\* was turned on for, unless its reads were torn or tokens were stored since.
SwitchInv ==
  /\ row.writes => row.of \in switched
  /\ sub.pc = "ready" /\ sub.switch /\ ~sub.torn /\ ~sub.moved =>
       credential = 0 \/ credential \in switched
  /\ SwitchedForThisGrant

\* The invariant of the write switch holds in the initial state.
LEMMA SwitchInit == Init => SwitchInv
  BY DEF Init, SwitchInv, SwitchedForThisGrant, IdleSub

\* Every step keeps the invariant of the write switch.
LEMMA SwitchStep == TypeOK /\ SwitchInv /\ [Next]_vars => SwitchInv'
<1> SUFFICES ASSUME TypeOK, SwitchInv, [Next]_vars PROVE SwitchInv'
  OBVIOUS
<1> USE DEF SwitchInv
<1>1. ASSUME UNCHANGED <<row, switched, credential, posted>>,
             sub'.pc = "ready" => sub' = sub
      PROVE  SwitchInv'
  BY <1>1 DEF SwitchedForThisGrant
<1>2. ASSUME NEW e \in Environments, Restart(e) PROVE SwitchInv'
  BY <1>1, <1>2, IdleTyped DEF Restart
<1>3. CASE Connections
  <2>1. posted' = posted /\ switched \subseteq switched'
    BY <1>3, ConnectionsDigest, SwitchDigest
  <2>2. (row.writes => row.of \in switched)'
    BY <1>3, SwitchDigest
  <2>3. /\ sub'.pc = sub.pc /\ sub'.switch = sub.switch /\ sub'.torn = sub.torn
        /\ sub.pc = "ready" /\ ~sub'.moved => ~sub.moved /\ credential' \in {0, credential}
    BY <1>3, ConnectionsDigest DEF TypeOK, Submission
  <2> QED
    BY <2>1, <2>2, <2>3 DEF SwitchedForThisGrant
<1>4. CASE Executions
  BY <1>1, <1>4 DEF Executions, StartExecution, RecordSource, Readiness, ReadLedger,
       EndImport, ImportFails, Outside, grant
<1>5. ASSUME NEW r \in 1..MaxRuns, Resolve(r) PROVE SwitchInv'
  <2>1. sub'.pc = "resolved"
    BY <1>5, IdleTyped DEF Resolve, Submission
  <2> QED
    BY <1>1, <1>5, <2>1 DEF Resolve, Outside, grant
<1>6. CASE ReadSwitch
  <2>1. /\ UNCHANGED <<row, switched, credential, posted>>
        /\ sub'.switch => row.writes
        /\ ~sub'.torn => row.of = credential
    BY <1>6 DEF ReadSwitch, Outside, grant, TypeOK, Submission, Row
  <2> QED
    BY <2>1 DEF SwitchedForThisGrant
<1>7. CASE Post
  <2>1. /\ UNCHANGED <<row, switched, credential>>
        /\ sub.pc = "ready" /\ sub.switch /\ credential # 0 /\ sub'.pc = "idle"
    BY <1>7, IdleTyped DEF Post, GateOpen, Outside, grant
  <2> DEFINE excused == sub.moved \/ sub.torn
             new == [run |-> sub.run, company |-> credential,
                     excused |-> excused]
  <2>2. posted' = posted \cup {new}
    BY <1>7 DEF Post
  <2>3. excused \in BOOLEAN
    OBVIOUS
  <2> HIDE DEF excused
  <2>4. new.company = credential /\ new.excused = excused
    BY <2>3
  <2> HIDE DEF new
  <2>5. \A v \in posted' :
         v \notin posted => /\ v.company = credential
                           /\ v.excused = excused
    BY <2>2, <2>4
  <2> QED
    BY <2>1, <2>5 DEF SwitchedForThisGrant, TypeOK, Submission, excused
<1>8. CASE EndSubmission
  BY <1>1, <1>8, IdleTyped DEF EndSubmission, Outside, grant
<1>9. CASE UNCHANGED vars
  BY <1>1, <1>9 DEF vars, grant, work
<1> QED
  BY <1>2, <1>3, <1>4, <1>5, <1>6, <1>7, <1>8, <1>9 DEF Next, Submissions

\* A voucher reaches a company only under a switch turned on for its grant, but for
\* what SwitchedForThisGrant excuses.
THEOREM SwitchIsForTheGrant == Spec => []SwitchedForThisGrant
<1>1. SwitchInv => SwitchedForThisGrant
  BY DEF SwitchInv
<1> QED
  BY <1>1, TypeCorrect, SwitchInit, SwitchStep, PTL DEF Spec
=============================================================================
