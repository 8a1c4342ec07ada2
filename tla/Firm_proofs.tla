----------------------------- MODULE Firm_proofs -----------------------------
(***************************************************************************)
(* Proofs about Firm, for any clients and periods, any number of requests  *)
(* served at once and of failures.                                         *)
(***************************************************************************)
EXTENDS Firm, TLAPS

-----------------------------------------------------------------------------
(* Shapes *)

\* A request of its shape, about what there is to be about.
Fit(r) ==
  /\ r \in Request
  /\ r.pc \in Starting \cup Holding =>
       r.client \in Clients /\ r.period \in Periods /\ r.kind \in {"one", "all"}
  /\ r.pc \in Holding => r.run \in Ids
  /\ r.kind = "all" => r.pc \in {"next"} \cup Starting \cup Holding
  /\ r.pc = "next" => r.kind = "all" /\ r.period \in Periods
  /\ r.pc = "count" => r.kind = "overview"
  /\ r.pc = "policy" => r.kind = "client" /\ r.client \in Clients

ShapeInv == TypeOK /\ \A w \in Workers : Fit(worker[w])

\* The id of no run is not the id of a run.
LEMMA NoIdIsNone == NoId \notin Ids
<1>1. \A id \in Ids : id.client \in Clients
  BY DEF Ids
<1>2. NoId.client = 0 /\ 0 \notin Clients
  BY FirmAssumption DEF NoId
<1> QED
  BY <1>1, <1>2

\* A worker without a request fits the shape, with nothing to do.
LEMMA IdleFits == Fit(Idle) /\ Idle.pc = "idle" /\ Idle.kind = "none" /\ Idle.todo = {}
  BY DEF Fit, Idle, Request, Starting, Holding

\* Where a turn leaves the request.
LEMMA TurnIs ==
  ASSUME NEW r \in Request, NEW run
  PROVE  /\ r.kind # "all" => Turn(r, run) = Idle
         /\ r.kind = "all" =>
              /\ Turn(r, run).pc = "next" /\ Turn(r, run).kind = "all"
              /\ Turn(r, run).period = r.period
              /\ Turn(r, run).todo = r.todo \ {r.client}
              /\ Turn(r, run).before = r.before /\ Turn(r, run).seen = r.seen
              /\ Turn(r, run).results =
                   r.results \cup {[client |-> r.client, run |-> run]}
  BY DEF Turn, Request

\* A request that turns to its next run, or ends, still fits.
LEMMA TurnFits ==
  ASSUME NEW r, Fit(r), r.pc # "next", NEW run \in Ids \cup {NoId}
  PROVE  Fit(Turn(r, run))
<1>1. CASE r.kind = "all"
  <2>1. r \in Request /\ r.client \in Clients /\ r.period \in Periods
    BY <1>1 DEF Fit
  <2>2. r.results \cup {[client |-> r.client, run |-> run]}
          \in SUBSET [client : Clients, run : Ids \cup {NoId}]
    BY <2>1 DEF Request
  <2>3. Turn(r, run) \in Request
    BY <1>1, <2>1, <2>2 DEF Turn, Request
  <2> QED
    BY <1>1, <2>1, <2>3, TurnIs DEF Fit, Starting, Holding
<1>2. CASE r.kind # "all"
  BY <1>2, IdleFits DEF Turn
<1> QED
  BY <1>1, <1>2

\* The initial state has its shape.
LEMMA ShapeInit == Init => ShapeInv
<1> SUFFICES ASSUME Init PROVE ShapeInv
  OBVIOUS
<1>1. Absent \in Run
  BY DEF Absent, Run
<1>2. TypeOK
  BY <1>1, IdleFits, FirmAssumption DEF Init, TypeOK, Fit
<1>3. \A w \in Workers : worker[w] = Idle
  BY DEF Init
<1> QED
  BY <1>2, <1>3, IdleFits DEF ShapeInv

\* A request that a worker accepts leaves the shape as it was.
LEMMA Accepted ==
  ASSUME ShapeInv, NEW w \in Workers, NEW q, Fit(q), Accept(w, q),
         clients' \subseteq Clients
  PROVE  ShapeInv'
<1>1. /\ worker' = [worker EXCEPT ![w] = q] /\ requests' \in Nat
      /\ UNCHANGED <<policies, periods, runs, clock, faults>>
  BY DEF Accept, Goto, ShapeInv, TypeOK
<1> QED
  BY <1>1 DEF ShapeInv, TypeOK, Fit

\* A worker that goes on, leaving typed rows behind, leaves the shape as it was.
LEMMA Went ==
  ASSUME ShapeInv, NEW w \in Workers, NEW q, Fit(q), Goto(w, q),
         UNCHANGED <<clients, clock, requests>>, faults' \in Nat,
         policies' \subseteq Clients, periods' \subseteq [client : Clients, period : Periods],
         runs' \in [Ids -> Run]
  PROVE  ShapeInv'
  BY DEF Goto, ShapeInv, TypeOK, Fit

\* Every step keeps the shape.
LEMMA ShapeStep == ShapeInv /\ [Next]_vars => ShapeInv'
<1> SUFFICES ASSUME ShapeInv, [Next]_vars PROVE ShapeInv'
  OBVIOUS
<1>0. /\ TypeOK /\ \A w \in Workers : Fit(worker[w]) /\ worker[w] \in Request
      /\ faults \in Nat /\ policies \subseteq Clients /\ runs \in [Ids -> Run]
      /\ periods \subseteq [client : Clients, period : Periods]
  BY DEF ShapeInv, TypeOK, Fit
<1>1. ASSUME NEW w \in Workers, NEW c \in Clients, CreateClient(w, c) PROVE ShapeInv'
  <2>1. Fit([Idle EXCEPT !.pc = "policy", !.kind = "client", !.client = c])
    BY DEF Fit, Idle, Request, Starting, Holding
  <2> QED
    BY <1>0, <1>1, <2>1, Accepted DEF CreateClient, TypeOK
<1>2. ASSUME NEW w \in Workers, NEW c \in Clients, NEW p \in Periods, RunOne(w, c, p)
      PROVE  ShapeInv'
  <2>1. Fit([Idle EXCEPT !.pc = "start", !.kind = "one", !.client = c, !.period = p])
    BY DEF Fit, Idle, Request, Starting, Holding
  <2> QED
    BY <1>0, <1>2, <2>1, Accepted DEF RunOne, TypeOK
<1>3. ASSUME NEW w \in Workers, NEW p \in Periods, RunAll(w, p) PROVE ShapeInv'
  <2>1. Fit([Idle EXCEPT !.pc = "next", !.kind = "all", !.period = p,
                         !.todo = clients, !.before = clients])
    BY <1>0 DEF Fit, Idle, Request, Starting, Holding, TypeOK
  <2> QED
    BY <1>0, <1>3, <2>1, Accepted DEF RunAll, TypeOK
<1>4. ASSUME NEW w \in Workers, Overview(w) PROVE ShapeInv'
  <2>1. Fit([Idle EXCEPT !.pc = "count", !.kind = "overview", !.todo = clients,
                         !.before = clients, !.seen = Existing])
    BY <1>0 DEF Fit, Idle, Request, Starting, Holding, TypeOK, Existing
  <2> QED
    BY <1>0, <1>4, <2>1, Accepted DEF Overview, TypeOK
<1>5. ASSUME NEW w \in Workers, InsertPolicy(w) PROVE ShapeInv'
  <2>1. policies' \subseteq Clients
    BY <1>0, <1>5 DEF InsertPolicy, Fit
  <2> QED
    BY <1>0, <1>5, <2>1, IdleFits, Went DEF InsertPolicy, Rest
<1>6. ASSUME NEW w \in Workers, NextClient(w) PROVE ShapeInv'
  <2>1. PICK c \in Clients :
          Goto(w, [worker[w] EXCEPT !.pc = "start", !.client = c])
    BY <1>6 DEF NextClient
  <2>2. Fit([worker[w] EXCEPT !.pc = "start", !.client = c])
    BY <1>0, <1>6 DEF NextClient, Fit, Request, Starting, Holding
  <2> QED
    BY <1>0, <1>6, <2>1, <2>2, Went DEF NextClient, Tables, Rest
<1>7. ASSUME NEW w \in Workers, Respond(w) PROVE ShapeInv'
  BY <1>0, <1>7, IdleFits, Went DEF Respond, Tables, Rest
<1>8. ASSUME NEW w \in Workers, UpsertPeriod(w) PROVE ShapeInv'
  <2>1. worker[w].client \in Clients /\ worker[w].period \in Periods
    BY <1>0, <1>8 DEF UpsertPeriod, Fit, Starting
  <2>2. Fit([worker[w] EXCEPT !.pc = "create"])
    BY <1>0, <1>8 DEF UpsertPeriod, Fit, Request, Starting, Holding
  <2>3. periods' \subseteq [client : Clients, period : Periods]
    BY <1>0, <1>8, <2>1 DEF UpsertPeriod
  <2> QED
    BY <1>0, <1>8, <2>2, <2>3, Went DEF UpsertPeriod, Rest
<1>9. ASSUME NEW w \in Workers, CreateRun(w) PROVE ShapeInv'
  <2> DEFINE id == IdNow(worker[w])
  <2>1. worker[w].client \in Clients /\ worker[w].period \in Periods
    BY <1>0, <1>9 DEF CreateRun, Fit, Starting
  <2>2. id \in Ids
    BY <1>0, <2>1 DEF IdNow, Ids, TypeOK
  <2>3. ASSUME NEW i \in Ids PROVE Fit([worker[w] EXCEPT !.pc = "steps", !.run = i])
    BY <1>0, <1>9 DEF CreateRun, Fit, Request, Starting, Holding
  <2>4. [status |-> "pending", steps |-> "none", before |-> Existing] \in Run
    BY DEF Run, Existing
  <2>5. runs' \in [Ids -> Run]
    BY <1>0, <1>9, <2>4 DEF CreateRun
  <2> QED
    BY <1>0, <1>9, <2>2, <2>3, <2>5, Went DEF CreateRun, Rest
<1>10. ASSUME NEW w \in Workers, CreateRefused(w) PROVE ShapeInv'
  BY <1>0, <1>10, TurnFits, Went DEF CreateRefused, Tables, Rest
<1>11. ASSUME NEW w \in Workers, NoPolicy(w) PROVE ShapeInv'
  BY <1>0, <1>11, TurnFits, Went DEF NoPolicy, Tables, Rest
<1>12. ASSUME NEW w \in Workers, InsertSteps(w) PROVE ShapeInv'
  <2>1. Fit([worker[w] EXCEPT !.pc = "resolve"])
    BY <1>0, <1>12 DEF InsertSteps, Fit, Request, Starting, Holding
  <2>2. \A row \in Run : [row EXCEPT !.steps = "pending"] \in Run
    BY DEF Run
  <2>3. runs' \in [Ids -> Run]
    BY <1>0, <1>12, <2>2 DEF InsertSteps
  <2> QED
    BY <1>0, <1>12, <2>1, <2>3, Went DEF InsertSteps, Rest
<1>13. ASSUME NEW w \in Workers, StartExecution(w) PROVE ShapeInv'
  <2>1. Fit([worker[w] EXCEPT !.pc = "execute"])
    BY <1>0, <1>13 DEF StartExecution, Fit, Request, Starting, Holding
  <2>2. \A row \in Run : [row EXCEPT !.status = "running"] \in Run
    BY DEF Run
  <2>3. runs' \in [Ids -> Run]
    BY <1>0, <1>13, <2>2 DEF StartExecution
  <2> QED
    BY <1>0, <1>13, <2>1, <2>3, Went DEF StartExecution, Rest
<1>14. ASSUME NEW w \in Workers, EndExecution(w) PROVE ShapeInv'
  <2>1. worker[w].run \in Ids
    BY <1>0, <1>14 DEF EndExecution, Fit, Holding
  <2>2. \A row \in Run : [row EXCEPT !.status = "ended", !.steps = "settled"] \in Run
    BY DEF Run
  <2>3. runs' \in [Ids -> Run]
    BY <1>0, <1>14, <2>2 DEF EndExecution
  <2> QED
    BY <1>0, <1>14, <2>1, <2>3, TurnFits, Went DEF EndExecution, Rest
<1>15. ASSUME NEW w \in Workers, CountClient(w) PROVE ShapeInv'
  <2>1. PICK c \in Clients, id \in Ids \cup {NoId} :
          Goto(w, [worker[w] EXCEPT !.todo = @ \ {c},
                                    !.results = @ \cup {[client |-> c, run |-> id]}])
    BY <1>15 DEF CountClient
  <2>2. worker[w].results \cup {[client |-> c, run |-> id]}
          \in SUBSET [client : Clients, run : Ids \cup {NoId}]
    BY <1>0 DEF Request
  <2>3. Fit([worker[w] EXCEPT !.todo = @ \ {c},
                              !.results = @ \cup {[client |-> c, run |-> id]}])
    BY <1>0, <1>15, <2>2 DEF CountClient, Fit, Request, Starting, Holding
  <2> QED
    BY <1>0, <1>15, <2>1, <2>3, Went DEF CountClient, Tables, Rest
<1>16. ASSUME NEW w \in Workers, Fail(w) PROVE ShapeInv'
  <2>1. Fit(Turn(worker[w], NoId)) /\ faults' \in Nat
    BY <1>0, <1>16, TurnFits DEF Fail
  <2> QED
    BY <1>0, <1>16, <2>1, Went DEF Fail, Tables
<1>17. CASE Crash
  BY <1>0, <1>17, IdleFits DEF Crash, ShapeInv, TypeOK, Fit, Tables
<1>18. CASE Tick
  <2>1. clock' \in 0..MaxClock
    BY <1>0, <1>18, FirmAssumption DEF Tick, TypeOK
  <2> QED
    BY <1>0, <1>18, <2>1 DEF Tick, ShapeInv, TypeOK, Fit, Tables
<1>19. CASE UNCHANGED vars
  BY <1>0, <1>19 DEF vars, ShapeInv, TypeOK, Fit
<1> QED
  BY <1>1, <1>2, <1>3, <1>4, <1>5, <1>6, <1>7, <1>8, <1>9, <1>10, <1>11, <1>12,
     <1>13, <1>14, <1>15, <1>16, <1>17, <1>18, <1>19
     DEF Next, Serve

\* Rows and requests keep their shape.
THEOREM TypeCorrect == Spec => []ShapeInv
  BY ShapeInit, ShapeStep, PTL DEF Spec

-----------------------------------------------------------------------------
(* Runs are whole, and each has one executor *)

\* What a request holds while it makes its run: a client, the period once it is
\* there, and a run of its own as far as it has come.
Held(r, cl, pol, per, rs) ==
  /\ r.todo \subseteq cl
  /\ r.pc \in Starting \cup Holding \cup {"policy"} => r.client \in cl
  /\ r.pc \in {"create"} \cup Holding =>
       [client |-> r.client, period |-> r.period] \in per
  /\ r.pc \in Holding => r.run.client = r.client /\ r.run.period = r.period
  /\ r.pc \in {"steps", "resolve"} => rs[r.run].status = "pending"
  /\ r.pc = "execute" => rs[r.run].status = "running" /\ r.client \in pol
  /\ r.pc \in {"resolve", "execute"} => rs[r.run].steps # "none"

WorkInv ==
  /\ policies \subseteq clients
  /\ \A w \in Workers : Held(worker[w], clients, policies, periods, runs)
  /\ OneExecutor
  /\ RunsAreWhole

\* A worker without a request has promised nothing of the rows.
LEMMA IdleHolds == \A cl, pol, per, rs : Held(Idle, cl, pol, per, rs)
  BY DEF Held, Idle, Starting, Holding

\* The work invariant holds in the initial state.
LEMMA WorkInit == Init => WorkInv
<1> SUFFICES ASSUME Init PROVE WorkInv
  OBVIOUS
<1>1. \A w \in Workers : worker[w] = Idle
  BY DEF Init
<1>2. \A id \in Ids : runs[id].status = "absent"
  BY DEF Init, Absent
<1>3. policies \subseteq clients
  BY DEF Init
<1>4. Idle.pc \notin Holding
  BY DEF Idle, Holding
<1> QED
  BY <1>1, <1>2, <1>3, <1>4, IdleHolds DEF WorkInv, OneExecutor, RunsAreWhole, Existing

\* After its turn a request holds nothing but the clients still to come.
LEMMA TurnHolds ==
  ASSUME NEW r, Fit(r), NEW run, NEW cl, NEW pol, NEW per, NEW rs,
         Held(r, cl, pol, per, rs), NEW rs2
  PROVE  Held(Turn(r, run), cl, pol, per, rs2) /\ Turn(r, run).pc \notin Holding
<1>1. r \in Request
  BY DEF Fit
<1>2. Idle.pc \notin Holding
  BY DEF Idle, Holding
<1> QED
  BY <1>1, <1>2, TurnIs, IdleHolds DEF Held, Starting, Holding

\* The step of one request, touching no run that another one holds.
LEMMA WorkBy ==
  ASSUME ShapeInv, WorkInv, NEW w \in Workers, NEW q, Goto(w, q),
         clients \subseteq clients', policies \subseteq policies', policies' \subseteq clients',
         periods \subseteq periods',
         NEW touched,
         \A id \in Ids \ touched : runs'[id] = runs[id],
         \A v \in Workers : v # w /\ worker[v].pc \in Holding =>
           worker[v].run \notin touched /\ (q.pc \in Holding => worker[v].run # q.run),
         \A id \in touched : runs'[id].status \notin {"absent", "pending"} =>
           /\ runs'[id].steps # "none"
           /\ id.client \in policies'
           /\ [client |-> id.client, period |-> id.period] \in periods',
         Held(q, clients', policies', periods', runs')
  PROVE  WorkInv'
<1>0. /\ \A v \in Workers : Fit(worker[v]) /\ Held(worker[v], clients, policies, periods, runs)
      /\ worker'[w] = q /\ \A v \in Workers : v # w => worker'[v] = worker[v]
  BY DEF ShapeInv, TypeOK, WorkInv, Goto
<1>1. ASSUME NEW v \in Workers, v # w
      PROVE  Held(worker'[v], clients', policies', periods', runs')
  <2>1. worker[v].pc \in Holding => runs'[worker[v].run] = runs[worker[v].run]
    BY <1>0, <1>1 DEF Fit
  <2> QED
    BY <1>0, <1>1, <2>1 DEF Held, Holding
<1>2. OneExecutor'
  BY <1>0 DEF WorkInv, OneExecutor
<1>3. RunsAreWhole'
  BY DEF WorkInv, RunsAreWhole, Existing
<1> QED
  BY <1>0, <1>1, <1>2, <1>3 DEF WorkInv

\* A step that holds no run and takes no row away keeps the work invariant.
LEMMA WorkPlain ==
  ASSUME ShapeInv, WorkInv, NEW w \in Workers, NEW q, Goto(w, q), runs' = runs,
         clients \subseteq clients', policies \subseteq policies', policies' \subseteq clients',
         periods \subseteq periods', q.pc \notin Holding,
         Held(q, clients', policies', periods', runs')
  PROVE  WorkInv'
<1> DEFINE touched == {}
<1>1. /\ \A id \in Ids \ touched : runs'[id] = runs[id]
      /\ \A v \in Workers : v # w /\ worker[v].pc \in Holding =>
           worker[v].run \notin touched /\ (q.pc \in Holding => worker[v].run # q.run)
      /\ \A id \in touched : runs'[id].status \notin {"absent", "pending"} =>
           /\ runs'[id].steps # "none"
           /\ id.client \in policies'
           /\ [client |-> id.client, period |-> id.period] \in periods'
  OBVIOUS
<1> HIDE DEF touched
<1> QED
  BY <1>1, WorkBy

\* A step on one run keeps it when no other worker holds that run.
LEMMA WorkOn ==
  ASSUME ShapeInv, WorkInv, NEW w \in Workers, NEW q, Goto(w, q), NEW id \in Ids,
         clients' = clients, policies' = policies, periods' = periods,
         \A i \in Ids \ {id} : runs'[i] = runs[i],
         \A v \in Workers : v # w /\ worker[v].pc \in Holding => worker[v].run # id,
         q.pc \in Holding => q.run = id,
         runs'[id].status \notin {"absent", "pending"} =>
           /\ runs'[id].steps # "none"
           /\ id.client \in policies
           /\ [client |-> id.client, period |-> id.period] \in periods,
         Held(q, clients', policies', periods', runs')
  PROVE  WorkInv'
<1> DEFINE touched == {id}
<1>1. /\ \A i \in Ids \ touched : runs'[i] = runs[i]
      /\ \A v \in Workers : v # w /\ worker[v].pc \in Holding =>
           worker[v].run \notin touched /\ (q.pc \in Holding => worker[v].run # q.run)
      /\ \A i \in touched : runs'[i].status \notin {"absent", "pending"} =>
           /\ runs'[i].steps # "none"
           /\ i.client \in policies'
           /\ [client |-> i.client, period |-> i.period] \in periods'
  OBVIOUS
<1>2. policies' \subseteq clients'
  BY DEF WorkInv
<1> HIDE DEF touched
<1> QED
  BY <1>1, <1>2, WorkBy

\* Every step keeps the work invariant.
LEMMA WorkStep == ShapeInv /\ WorkInv /\ [Next]_vars => WorkInv'
<1> SUFFICES ASSUME ShapeInv, WorkInv, [Next]_vars PROVE WorkInv'
  OBVIOUS
<1>0. /\ TypeOK /\ \A w \in Workers : Fit(worker[w]) /\ worker[w] \in Request
      /\ policies \subseteq clients
      /\ \A w \in Workers : Held(worker[w], clients, policies, periods, runs)
      /\ \A v, w \in Workers : v # w /\ worker[v].pc \in Holding /\ worker[w].pc \in Holding =>
           worker[v].run # worker[w].run
      /\ \A w \in Workers : worker[w].pc \in Holding =>
           worker[w].run \in Ids /\ runs[worker[w].run].status # "absent"
  <2>1. \A w \in Workers : Fit(worker[w]) /\ Held(worker[w], clients, policies, periods, runs)
    BY DEF ShapeInv, WorkInv
  <2> QED
    BY <2>1 DEF ShapeInv, WorkInv, Fit, Held, Holding, OneExecutor
<1>1. ASSUME NEW w \in Workers, NEW c \in Clients, CreateClient(w, c) PROVE WorkInv'
  <2>1. /\ Held([Idle EXCEPT !.pc = "policy", !.kind = "client", !.client = c],
                clients', policies', periods', runs')
        /\ [Idle EXCEPT !.pc = "policy", !.kind = "client", !.client = c].pc \notin Holding
    BY <1>0, <1>1 DEF CreateClient, Held, Idle, Starting, Holding
  <2>2. /\ clients \subseteq clients' /\ policies \subseteq policies'
        /\ policies' \subseteq clients' /\ periods \subseteq periods' /\ runs' = runs
    BY <1>0, <1>1 DEF CreateClient, Accept, Tables
  <2>3. Goto(w, [Idle EXCEPT !.pc = "policy", !.kind = "client", !.client = c])
    BY <1>1 DEF CreateClient, Accept
  <2> QED
    BY <2>1, <2>2, <2>3, WorkPlain
<1>2. ASSUME NEW w \in Workers, NEW c \in Clients, NEW p \in Periods,
              RunOne(w, c, p) PROVE WorkInv'
  <2>1. /\ Held([Idle EXCEPT !.pc = "start", !.kind = "one", !.client = c, !.period = p],
                clients', policies', periods', runs')
        /\ [Idle EXCEPT !.pc = "start", !.kind = "one", !.client = c, !.period = p].pc
             \notin Holding
    BY <1>0, <1>2 DEF RunOne, Held, Idle, Starting, Holding
  <2>2. /\ clients \subseteq clients' /\ policies \subseteq policies'
        /\ policies' \subseteq clients' /\ periods \subseteq periods' /\ runs' = runs
    BY <1>0, <1>2 DEF RunOne, Accept, Tables
  <2>3. Goto(w, [Idle EXCEPT !.pc = "start", !.kind = "one", !.client = c, !.period = p])
    BY <1>2 DEF RunOne, Accept
  <2> QED
    BY <2>1, <2>2, <2>3, WorkPlain
<1>3. ASSUME NEW w \in Workers, NEW p \in Periods, RunAll(w, p) PROVE WorkInv'
  <2>1. /\ Held([Idle EXCEPT !.pc = "next", !.kind = "all", !.period = p,
                          !.todo = clients, !.before = clients],
                clients', policies', periods', runs')
        /\ [Idle EXCEPT !.pc = "next", !.kind = "all", !.period = p,
                          !.todo = clients, !.before = clients].pc \notin Holding
    BY <1>0, <1>3 DEF RunAll, Held, Idle, Starting, Holding
  <2>2. /\ clients \subseteq clients' /\ policies \subseteq policies'
        /\ policies' \subseteq clients' /\ periods \subseteq periods' /\ runs' = runs
    BY <1>0, <1>3 DEF RunAll, Accept, Tables
  <2>3. Goto(w, [Idle EXCEPT !.pc = "next", !.kind = "all", !.period = p,
                          !.todo = clients, !.before = clients])
    BY <1>3 DEF RunAll, Accept
  <2> QED
    BY <2>1, <2>2, <2>3, WorkPlain
<1>4. ASSUME NEW w \in Workers, Overview(w) PROVE WorkInv'
  <2>1. /\ Held([Idle EXCEPT !.pc = "count", !.kind = "overview", !.todo = clients,
                          !.before = clients, !.seen = Existing],
                clients', policies', periods', runs')
        /\ [Idle EXCEPT !.pc = "count", !.kind = "overview", !.todo = clients,
                          !.before = clients, !.seen = Existing].pc \notin Holding
    BY <1>0, <1>4 DEF Overview, Held, Idle, Starting, Holding
  <2>2. /\ clients \subseteq clients' /\ policies \subseteq policies'
        /\ policies' \subseteq clients' /\ periods \subseteq periods' /\ runs' = runs
    BY <1>0, <1>4 DEF Overview, Accept, Tables
  <2>3. Goto(w, [Idle EXCEPT !.pc = "count", !.kind = "overview", !.todo = clients,
                          !.before = clients, !.seen = Existing])
    BY <1>4 DEF Overview, Accept
  <2> QED
    BY <2>1, <2>2, <2>3, WorkPlain
<1>5. ASSUME NEW w \in Workers, InsertPolicy(w) PROVE WorkInv'
  <2>1. /\ Goto(w, Idle) /\ UNCHANGED <<clients, periods, runs>>
        /\ policies' = policies \cup {worker[w].client} /\ worker[w].client \in clients
    BY <1>0, <1>5 DEF InsertPolicy, Held
  <2>2. Idle.pc \notin Holding
    BY DEF Idle, Holding
  <2> QED
    BY <1>0, <2>1, <2>2, IdleHolds, WorkPlain
<1>6. ASSUME NEW w \in Workers, NextClient(w) PROVE WorkInv'
  <2>1. PICK c \in Clients :
          /\ c \in worker[w].todo
          /\ Goto(w, [worker[w] EXCEPT !.pc = "start", !.client = c])
    BY <1>6 DEF NextClient, IsFirst
  <2> DEFINE q == [worker[w] EXCEPT !.pc = "start", !.client = c]
  <2>2. q.pc = "start" /\ q.client = c /\ q.todo = worker[w].todo
    BY <1>0 DEF Request
  <2>3. UNCHANGED <<clients, policies, periods, runs>>
    BY <1>6 DEF NextClient, Tables
  <2> HIDE DEF q
  <2>4. Held(q, clients', policies', periods', runs') /\ q.pc \notin Holding
    BY <1>0, <2>1, <2>2, <2>3 DEF Held, Starting, Holding
  <2>5. Goto(w, q)
    BY <2>1 DEF q
  <2> QED
    BY <1>0, <2>3, <2>4, <2>5, WorkPlain
<1>7. ASSUME NEW w \in Workers, Respond(w) PROVE WorkInv'
  <2>1. Goto(w, Idle) /\ UNCHANGED <<clients, policies, periods, runs>>
    BY <1>7 DEF Respond, Tables
  <2>2. Idle.pc \notin Holding
    BY DEF Idle, Holding
  <2> QED
    BY <1>0, <2>1, <2>2, IdleHolds, WorkPlain
<1>8. ASSUME NEW w \in Workers, UpsertPeriod(w) PROVE WorkInv'
  <2> DEFINE q == [worker[w] EXCEPT !.pc = "create"]
             here == [client |-> worker[w].client, period |-> worker[w].period]
  <2>1. /\ q.pc = "create" /\ q.client = worker[w].client /\ q.todo = worker[w].todo
        /\ q.period = worker[w].period
    BY <1>0 DEF Request
  <2>2. /\ UNCHANGED <<clients, policies, runs>> /\ worker[w].pc = "start"
        /\ periods' = periods \cup {here} /\ Goto(w, q)
    BY <1>8 DEF UpsertPeriod
  <2> HIDE DEF q
  <2>3. Held(q, clients', policies', periods', runs') /\ q.pc \notin Holding
    BY <1>0, <2>1, <2>2 DEF Held, Starting, Holding
  <2> QED
    BY <1>0, <2>2, <2>3, WorkPlain
<1>9. ASSUME NEW w \in Workers, CreateRun(w) PROVE WorkInv'
  <2> DEFINE id == IdNow(worker[w])
             q == [worker[w] EXCEPT !.pc = "steps", !.run = id]
  <2>1. /\ q.pc = "steps" /\ q.client = worker[w].client /\ q.todo = worker[w].todo
        /\ q.period = worker[w].period /\ q.run = id
    BY <1>0 DEF Request
  <2>2. /\ UNCHANGED <<clients, policies, periods>> /\ worker[w].pc = "create"
        /\ id \notin Existing /\ Goto(w, q)
        /\ runs' = [runs EXCEPT ![id] = [status |-> "pending", steps |-> "none",
                                        before |-> Existing]]
    BY <1>9 DEF CreateRun
  <2>3. id \in Ids /\ id.client = worker[w].client /\ id.period = worker[w].period
    BY <1>0, <2>2 DEF IdNow, Ids, TypeOK, Fit, Starting
  <2> HIDE DEF q, id
  <2>4. /\ runs'[id].status = "pending"
        /\ \A i \in Ids \ {id} : runs'[i] = runs[i]
    BY <1>0, <2>2, <2>3 DEF TypeOK
  <2>5. Held(q, clients', policies', periods', runs')
    BY <1>0, <2>1, <2>2, <2>3, <2>4 DEF Held, Starting, Holding
  <2>6. \A v \in Workers : worker[v].pc \in Holding => worker[v].run # id
    BY <1>0, <2>2 DEF Existing
  <2> QED
    <3>1. /\ Goto(w, q) /\ UNCHANGED <<clients, policies, periods>>
          /\ q.pc \in Holding => q.run = id
          /\ runs'[id].status = "pending"
      BY <2>1, <2>2, <2>4
    <3> QED
      BY <2>3, <2>4, <2>5, <2>6, <3>1, WorkOn
<1>10. ASSUME NEW w \in Workers, CreateRefused(w) PROVE WorkInv'
  <2>1. Goto(w, Turn(worker[w], NoId)) /\ UNCHANGED <<clients, policies, periods, runs>>
    BY <1>10 DEF CreateRefused, Tables
  <2> QED
    BY <1>0, <2>1, TurnHolds, WorkPlain
<1>11. ASSUME NEW w \in Workers, NoPolicy(w) PROVE WorkInv'
  <2>1. Goto(w, Turn(worker[w], NoId)) /\ UNCHANGED <<clients, policies, periods, runs>>
    BY <1>11 DEF NoPolicy, Tables
  <2> QED
    BY <1>0, <2>1, TurnHolds, WorkPlain
<1>12. ASSUME NEW w \in Workers, InsertSteps(w) PROVE WorkInv'
  <2> DEFINE id == worker[w].run
             q == [worker[w] EXCEPT !.pc = "resolve"]
  <2>1. /\ q.pc = "resolve" /\ q.client = worker[w].client /\ q.todo = worker[w].todo
        /\ q.period = worker[w].period /\ q.run = id
    BY <1>0 DEF Request
  <2>2. /\ UNCHANGED <<clients, policies, periods>> /\ worker[w].pc = "steps"
        /\ runs' = [runs EXCEPT ![id].steps = "pending"] /\ Goto(w, q)
    BY <1>12 DEF InsertSteps
  <2>3. /\ id \in Ids /\ id.client = worker[w].client /\ id.period = worker[w].period
        /\ [client |-> id.client, period |-> id.period] \in periods
    BY <1>0, <2>2 DEF Held, Holding
  <2> HIDE DEF q, id
  <2>4. /\ runs'[id].steps = "pending" /\ runs'[id].status = "pending"
        /\ \A i \in Ids \ {id} : runs'[i] = runs[i]
    BY <1>0, <2>2, <2>3 DEF TypeOK, Run, Held, id
  <2>5. Held(q, clients', policies', periods', runs')
    BY <1>0, <2>1, <2>2, <2>3, <2>4 DEF Held, Starting, Holding
  <2>6. \A v \in Workers : v # w /\ worker[v].pc \in Holding => worker[v].run # id
    BY <1>0, <2>2 DEF Holding, id
  <2> QED
    BY <1>0, <2>1, <2>2, <2>3, <2>4, <2>5, <2>6, WorkOn
<1>13. ASSUME NEW w \in Workers, StartExecution(w) PROVE WorkInv'
  <2> DEFINE id == worker[w].run
             q == [worker[w] EXCEPT !.pc = "execute"]
  <2>1. /\ q.pc = "execute" /\ q.client = worker[w].client /\ q.todo = worker[w].todo
        /\ q.period = worker[w].period /\ q.run = id
    BY <1>0 DEF Request
  <2>2. /\ UNCHANGED <<clients, policies, periods>> /\ worker[w].pc = "resolve"
        /\ worker[w].client \in policies
        /\ runs' = [runs EXCEPT ![id].status = "running"] /\ Goto(w, q)
    BY <1>13 DEF StartExecution
  <2>3. /\ id \in Ids /\ id.client = worker[w].client /\ id.period = worker[w].period
        /\ [client |-> id.client, period |-> id.period] \in periods
    BY <1>0, <2>2 DEF Held, Holding
  <2> HIDE DEF q, id
  <2>4. /\ runs'[id].steps # "none" /\ runs'[id].status = "running"
        /\ \A i \in Ids \ {id} : runs'[i] = runs[i]
    BY <1>0, <2>2, <2>3 DEF TypeOK, Run, Held, id
  <2>5. Held(q, clients', policies', periods', runs')
    BY <1>0, <2>1, <2>2, <2>3, <2>4 DEF Held, Starting, Holding
  <2>6. \A v \in Workers : v # w /\ worker[v].pc \in Holding => worker[v].run # id
    BY <1>0, <2>2 DEF Holding, id
  <2> QED
    BY <1>0, <2>1, <2>2, <2>3, <2>4, <2>5, <2>6, WorkOn
<1>14. ASSUME NEW w \in Workers, EndExecution(w) PROVE WorkInv'
  <2> DEFINE id == worker[w].run
             q == Turn(worker[w], id)
  <2>1. /\ UNCHANGED <<clients, policies, periods>> /\ worker[w].pc = "execute"
        /\ runs' = [runs EXCEPT ![id] = [@ EXCEPT !.status = "ended", !.steps = "settled"]]
        /\ Goto(w, q)
    BY <1>14 DEF EndExecution
  <2>2. /\ id \in Ids /\ id.client \in policies
        /\ [client |-> id.client, period |-> id.period] \in periods
    BY <1>0, <2>1 DEF Held, Holding
  <2>3. Held(q, clients', policies', periods', runs') /\ q.pc \notin Holding
    BY <1>0, <2>1, TurnHolds
  <2> HIDE DEF q, id
  <2>4. /\ runs'[id].steps = "settled" /\ \A i \in Ids \ {id} : runs'[i] = runs[i]
    BY <1>0, <2>1, <2>2 DEF TypeOK, Run
  <2>5. \A v \in Workers : v # w /\ worker[v].pc \in Holding => worker[v].run # id
    BY <1>0, <2>1 DEF Holding, id
  <2>6. Goto(w, q) /\ UNCHANGED <<clients, policies, periods>>
    BY <2>1
  <2> QED
    BY <2>2, <2>3, <2>4, <2>5, <2>6, WorkOn
<1>15. ASSUME NEW w \in Workers, CountClient(w) PROVE WorkInv'
  <2>1. PICK c \in Clients, id \in Ids \cup {NoId} :
          Goto(w, [worker[w] EXCEPT !.todo = @ \ {c},
                                    !.results = @ \cup {[client |-> c, run |-> id]}])
    BY <1>15 DEF CountClient
  <2> DEFINE q == [worker[w] EXCEPT !.todo = @ \ {c},
                                    !.results = @ \cup {[client |-> c, run |-> id]}]
  <2>2. q.pc = "count" /\ q.todo \subseteq worker[w].todo
    BY <1>0, <1>15 DEF CountClient, Request
  <2>3. UNCHANGED <<clients, policies, periods, runs>>
    BY <1>15 DEF CountClient, Tables
  <2> HIDE DEF q
  <2>4. Held(q, clients', policies', periods', runs') /\ q.pc \notin Holding
    BY <1>0, <2>2, <2>3 DEF Held, Starting, Holding
  <2>5. Goto(w, q)
    BY <2>1 DEF q
  <2> QED
    BY <1>0, <2>3, <2>4, <2>5, WorkPlain
<1>16. ASSUME NEW w \in Workers, Fail(w) PROVE WorkInv'
  <2>1. Goto(w, Turn(worker[w], NoId)) /\ UNCHANGED <<clients, policies, periods, runs>>
    BY <1>16 DEF Fail, Tables
  <2> QED
    BY <1>0, <2>1, TurnHolds, WorkPlain
<1>17. CASE Crash
  <2>1. /\ UNCHANGED <<clients, policies, periods, runs>>
        /\ \A w \in Workers : worker'[w] = Idle
    BY <1>17 DEF Crash, Tables
  <2>2. Idle.pc \notin Holding
    BY DEF Idle, Holding
  <2> QED
    BY <2>1, <2>2, IdleHolds DEF WorkInv, OneExecutor, RunsAreWhole, Existing
<1>18. ASSUME UNCHANGED <<clients, policies, periods, runs, worker>> PROVE WorkInv'
  BY <1>18 DEF WorkInv, OneExecutor, RunsAreWhole, Existing
<1> QED
  BY <1>1, <1>2, <1>3, <1>4, <1>5, <1>6, <1>7, <1>8, <1>9, <1>10, <1>11, <1>12,
     <1>13, <1>14, <1>15, <1>16, <1>17, <1>18
     DEF Next, Serve, Tick, Tables, vars

\* No two requests ever hold the same run.
THEOREM RunsHaveOneExecutor == Spec => []OneExecutor
<1>1. WorkInv => OneExecutor
  BY DEF WorkInv
<1> QED
  BY <1>1, TypeCorrect, WorkInit, WorkStep, PTL DEF Spec

\* A run that was begun has its steps, its period and a client with a policy.
THEOREM BegunRunsAreWhole == Spec => []RunsAreWhole
<1>1. WorkInv => RunsAreWhole
  BY DEF WorkInv
<1> QED
  BY <1>1, TypeCorrect, WorkInit, WorkStep, PTL DEF Spec

-----------------------------------------------------------------------------
(* Nobody is left out or counted twice *)

\* The clients with a result and those still to come are the list, in order.
Listed(r) ==
  /\ r.todo \subseteq r.before
  /\ {result.client : result \in r.results} = r.before \ r.todo
  /\ \A a, b \in r.results : a.client = b.client => a = b
  /\ \A result \in r.results, c \in r.todo : result.client < c
  /\ r.pc \in Starting \cup Holding => IsFirst(r.client, r.todo)

\* A result has a run of its client, or none: executed to the end, or none older
\* than those there were.
Ran(r, rs) ==
  /\ \A result \in r.results : result.run # NoId =>
       /\ result.run \in Ids /\ result.run.client = result.client
       /\ rs[result.run].status # "absent"
       /\ r.kind = "all" =>
            result.run.period = r.period /\ rs[result.run].status = "ended"
  /\ \A id \in r.seen : rs[id].status # "absent"
  /\ \A result \in r.results, id \in r.seen : id.client = result.client =>
       result.run # NoId /\ rs[id].before \subseteq rs[result.run].before
  /\ r.kind = "all" => r.seen = {}

Counted(r, rs) == r.kind \in {"all", "overview"} => Listed(r) /\ Ran(r, rs)

ResultInv == \A w \in Workers : Counted(worker[w], runs)

\* What is there stays, with what was before it, and what has ended has.
Grown(rs, rs2) ==
  \A id \in Ids : rs[id].status # "absent" =>
    /\ rs2[id].status # "absent" /\ rs2[id].before = rs[id].before
    /\ rs[id].status = "ended" => rs2[id].status = "ended"

\* A worker without a request has counted nothing.
LEMMA IdleCounts == \A rs : Counted(Idle, rs)
  BY DEF Counted, Idle

\* What a request has counted stays true while the runs only grow.
LEMMA CountedStays ==
  ASSUME NEW r \in Request, NEW rs, NEW rs2, Grown(rs, rs2), Counted(r, rs)
  PROVE  Counted(r, rs2)
<1> SUFFICES ASSUME r.kind \in {"all", "overview"} PROVE Listed(r) /\ Ran(r, rs2)
  BY DEF Counted
<1>1. Listed(r) /\ Ran(r, rs) /\ r.seen \subseteq Ids
  BY DEF Counted, Request
<1> QED
  BY <1>1 DEF Ran, Grown

\* A request that goes on with the same client has the same results.
LEMMA SameCounts ==
  ASSUME NEW r, NEW q, NEW rs, Counted(r, rs), r.pc \in Starting \cup Holding,
         q.kind = r.kind, q.client = r.client, q.period = r.period,
         q.todo = r.todo, q.before = r.before, q.seen = r.seen, q.results = r.results
  PROVE  Counted(q, rs)
<1>1. Listed(r) => Listed(q)
  BY DEF Listed
<1>2. Ran(r, rs) => Ran(q, rs)
  BY DEF Ran
<1> QED
  BY <1>1, <1>2 DEF Counted

\* The end of a turn is one result more and one client less.
LEMMA TurnCounts ==
  ASSUME NEW r, Fit(r), r.pc # "next", NEW rs, Counted(r, rs),
         NEW run \in Ids \cup {NoId},
         run # NoId => /\ run.client = r.client /\ run.period = r.period
                       /\ rs[run].status = "ended"
  PROVE  Counted(Turn(r, run), rs)
<1> SUFFICES ASSUME r.kind = "all" PROVE Counted(Turn(r, run), rs)
  BY TurnIs, IdleCounts DEF Fit
<1> DEFINE q == Turn(r, run)
           new == [client |-> r.client, run |-> run]
<1>1. /\ r \in Request /\ r.pc \in Starting \cup Holding /\ r.todo \subseteq Clients
      /\ r.client \in Clients
  BY DEF Fit, Request
<1>2. Listed(r) /\ Ran(r, rs)
  BY DEF Counted
<1>3. /\ q.pc = "next" /\ q.kind = "all" /\ q.period = r.period
      /\ q.todo = r.todo \ {r.client} /\ q.before = r.before /\ q.seen = r.seen
      /\ q.results = r.results \cup {new}
  BY <1>1, TurnIs
<1>4. r.client \in r.todo /\ \A c \in r.todo : r.client <= c
  BY <1>1, <1>2 DEF Listed, IsFirst
<1>5. new.client = r.client /\ new.run = run
  OBVIOUS
<1> HIDE DEF q, new
<1>6. Listed(q)
  <2>1. q.todo \subseteq q.before
    BY <1>2, <1>3 DEF Listed
  <2>2. {result.client : result \in q.results} = q.before \ q.todo
    <3>1. {result.client : result \in q.results} =
            {result.client : result \in r.results} \cup {r.client}
      BY <1>3, <1>5
    <3> QED
      BY <3>1, <1>2, <1>3, <1>4 DEF Listed
  <2>3. \A result \in r.results : result.client # r.client
    <3> TAKE result \in r.results
    <3>1. result.client \in {a.client : a \in r.results}
      OBVIOUS
    <3> QED
      BY <3>1, <1>2, <1>4 DEF Listed
  <2>4. \A a, b \in q.results : a.client = b.client => a = b
    BY <2>3, <1>2, <1>3, <1>5 DEF Listed
  <2>5. \A result \in q.results, c \in q.todo : result.client < c
    <3>1. \A c \in q.todo : r.client < c
      <4> TAKE c \in q.todo
      <4>1. c \in r.todo /\ c # r.client
        BY <1>3
      <4>2. c \in Nat /\ r.client \in Nat
        BY <1>1, <4>1, FirmAssumption
      <4> QED
        BY <1>4, <4>1, <4>2
    <3> QED
      BY <3>1, <1>2, <1>3, <1>5 DEF Listed
  <2>6. q.pc \notin Starting \cup Holding
    BY <1>3 DEF Starting, Holding
  <2> QED
    BY <2>1, <2>2, <2>4, <2>5, <2>6 DEF Listed
<1>7. Ran(q, rs)
  BY <1>2, <1>3, <1>5, NoIdIsNone DEF Ran
<1> QED
  BY <1>6, <1>7 DEF Counted, q

\* A step that counts right, while the runs only grow, keeps the results right.
LEMMA ResultBy ==
  ASSUME ShapeInv, ResultInv, NEW w \in Workers, NEW q, Goto(w, q), Grown(runs, runs'),
         Counted(q, runs')
  PROVE  ResultInv'
<1>1. /\ worker'[w] = q /\ \A v \in Workers : v # w => worker'[v] = worker[v]
      /\ \A v \in Workers : worker[v] \in Request /\ Counted(worker[v], runs)
  BY DEF ShapeInv, TypeOK, Goto, ResultInv
<1>2. \A v \in Workers : Counted(worker[v], runs')
  BY <1>1, CountedStays
<1> QED
  BY <1>1, <1>2 DEF ResultInv

\* Every step keeps the results right.
LEMMA ResultStep == ShapeInv /\ WorkInv /\ ResultInv /\ [Next]_vars => ResultInv'
<1> SUFFICES ASSUME ShapeInv, WorkInv, ResultInv, [Next]_vars PROVE ResultInv'
  OBVIOUS
<1>0. /\ \A w \in Workers : /\ Fit(worker[w]) /\ worker[w] \in Request
                            /\ Counted(worker[w], runs)
                            /\ Held(worker[w], clients, policies, periods, runs)
      /\ runs \in [Ids -> Run] /\ clients \subseteq Clients /\ clock \in 0..MaxClock
  BY DEF ShapeInv, TypeOK, Fit, ResultInv, WorkInv
<1>a. runs' = runs => Grown(runs, runs')
  BY DEF Grown
<1>1. ASSUME NEW w \in Workers, NEW c \in Clients, CreateClient(w, c) PROVE ResultInv'
  <2> DEFINE q == [Idle EXCEPT !.pc = "policy", !.kind = "client", !.client = c]
  <2>1. Goto(w, q) /\ runs' = runs
    BY <1>1 DEF CreateClient, Accept
  <2>2. Counted(q, runs')
    BY DEF Counted, Idle
  <2> QED
    BY <1>a, <2>1, <2>2, ResultBy
<1>2. ASSUME NEW w \in Workers, NEW c \in Clients, NEW p \in Periods,
              RunOne(w, c, p) PROVE ResultInv'
  <2> DEFINE q == [Idle EXCEPT !.pc = "start", !.kind = "one", !.client = c,
                                !.period = p]
  <2>1. Goto(w, q) /\ runs' = runs
    BY <1>2 DEF RunOne, Accept
  <2>2. Counted(q, runs')
    BY DEF Counted, Idle
  <2> QED
    BY <1>a, <2>1, <2>2, ResultBy
<1>3. ASSUME NEW w \in Workers, NEW p \in Periods, RunAll(w, p) PROVE ResultInv'
  <2> DEFINE q == [Idle EXCEPT !.pc = "next", !.kind = "all", !.period = p,
                                !.todo = clients, !.before = clients]
  <2>1. Goto(w, q) /\ runs' = runs
    BY <1>3 DEF RunAll, Accept
  <2>2. /\ q.pc = "next" /\ q.todo = clients /\ q.before = clients
        /\ q.seen = {} /\ q.results = {}
    BY DEF Idle
  <2> HIDE DEF q
  <2>3. Listed(q)
    BY <2>2 DEF Listed, Starting, Holding
  <2>4. Counted(q, runs')
    BY <2>2, <2>3 DEF Counted, Ran
  <2> QED
    BY <1>a, <2>1, <2>4, ResultBy
<1>4. ASSUME NEW w \in Workers, Overview(w) PROVE ResultInv'
  <2> DEFINE q == [Idle EXCEPT !.pc = "count", !.kind = "overview", !.todo = clients,
                                !.before = clients, !.seen = Existing]
  <2>1. Goto(w, q) /\ runs' = runs
    BY <1>4 DEF Overview, Accept
  <2>2. /\ q.pc = "count" /\ q.kind = "overview" /\ q.todo = clients
        /\ q.before = clients /\ q.seen = Existing /\ q.results = {}
    BY DEF Idle
  <2> HIDE DEF q
  <2>3. Listed(q)
    BY <2>2 DEF Listed, Starting, Holding
  <2>4. Counted(q, runs)
    BY <2>2, <2>3 DEF Counted, Ran, Existing
  <2> QED
    BY <1>a, <2>1, <2>4, ResultBy
<1>5. ASSUME NEW w \in Workers, InsertPolicy(w) \/ Respond(w) PROVE ResultInv'
  <2>1. Goto(w, Idle) /\ runs' = runs
    BY <1>5 DEF InsertPolicy, Respond, Tables
  <2> QED
    BY <1>a, <2>1, IdleCounts, ResultBy
<1>6. ASSUME NEW w \in Workers, NextClient(w) PROVE ResultInv'
  <2>1. PICK c \in Clients :
          /\ IsFirst(c, worker[w].todo)
          /\ Goto(w, [worker[w] EXCEPT !.pc = "start", !.client = c])
    BY <1>6 DEF NextClient
  <2> DEFINE q == [worker[w] EXCEPT !.pc = "start", !.client = c]
  <2>2. Goto(w, q) /\ runs' = runs
    BY <1>6, <2>1 DEF NextClient, Tables
  <2>3. /\ q.client = c /\ q.kind = worker[w].kind /\ q.period = worker[w].period
        /\ q.todo = worker[w].todo /\ q.before = worker[w].before
        /\ q.seen = worker[w].seen /\ q.results = worker[w].results
    BY <1>0 DEF Request
  <2> HIDE DEF q
  <2>4. Listed(worker[w]) => Listed(q)
    BY <2>1, <2>3 DEF Listed
  <2>5. Ran(worker[w], runs) => Ran(q, runs)
    BY <2>3 DEF Ran
  <2>6. Counted(q, runs)
    BY <1>0, <2>3, <2>4, <2>5 DEF Counted
  <2> QED
    BY <1>a, <2>2, <2>6, ResultBy
<1>7. ASSUME NEW w \in Workers, UpsertPeriod(w) PROVE ResultInv'
  <2> DEFINE r == worker[w]
             q == [r EXCEPT !.pc = "create"]
  <2>1. Goto(w, q) /\ r.pc \in Starting \cup Holding
    BY <1>7 DEF UpsertPeriod, Starting, Holding
  <2>2. /\ q.kind = r.kind /\ q.client = r.client /\ q.period = r.period
        /\ q.todo = r.todo /\ q.before = r.before
        /\ q.seen = r.seen /\ q.results = r.results
    BY <1>0 DEF Request
  <2>3. Grown(runs, runs')
    BY <1>a, <1>7 DEF UpsertPeriod
  <2>4. Counted(r, runs')
    BY <1>0, <2>3, CountedStays
  <2> HIDE DEF q, r
  <2>5. Counted(q, runs')
    BY <2>1, <2>2, <2>4, SameCounts
  <2> QED
    BY <2>1, <2>3, <2>5, ResultBy
<1>8. ASSUME NEW w \in Workers, CreateRun(w) PROVE ResultInv'
  <2> DEFINE r == worker[w]
             q == [r EXCEPT !.pc = "steps", !.run = IdNow(r)]
  <2>1. Goto(w, q) /\ r.pc \in Starting \cup Holding
    BY <1>8 DEF CreateRun, Starting, Holding
  <2>2. /\ q.kind = r.kind /\ q.client = r.client /\ q.period = r.period
        /\ q.todo = r.todo /\ q.before = r.before
        /\ q.seen = r.seen /\ q.results = r.results
    BY <1>0 DEF Request
  <2>3. Grown(runs, runs')
    BY <1>0, <1>8 DEF CreateRun, Existing, Grown
  <2>4. Counted(r, runs')
    BY <1>0, <2>3, CountedStays
  <2> HIDE DEF q, r
  <2>5. Counted(q, runs')
    BY <2>1, <2>2, <2>4, SameCounts
  <2> QED
    BY <2>1, <2>3, <2>5, ResultBy
<1>9. ASSUME NEW w \in Workers, InsertSteps(w) PROVE ResultInv'
  <2> DEFINE r == worker[w]
             q == [r EXCEPT !.pc = "resolve"]
  <2>1. Goto(w, q) /\ r.pc \in Starting \cup Holding
    BY <1>9 DEF InsertSteps, Starting, Holding
  <2>2. /\ q.kind = r.kind /\ q.client = r.client /\ q.period = r.period
        /\ q.todo = r.todo /\ q.before = r.before
        /\ q.seen = r.seen /\ q.results = r.results
    BY <1>0 DEF Request
  <2>3. Grown(runs, runs')
    BY <1>0, <1>9 DEF InsertSteps, Grown, Run
  <2>4. Counted(r, runs')
    BY <1>0, <2>3, CountedStays
  <2> HIDE DEF q, r
  <2>5. Counted(q, runs')
    BY <2>1, <2>2, <2>4, SameCounts
  <2> QED
    BY <2>1, <2>3, <2>5, ResultBy
<1>10. ASSUME NEW w \in Workers, StartExecution(w) PROVE ResultInv'
  <2> DEFINE r == worker[w]
             q == [r EXCEPT !.pc = "execute"]
  <2>1. Goto(w, q) /\ r.pc \in Starting \cup Holding
    BY <1>10 DEF StartExecution, Starting, Holding
  <2>2. /\ q.kind = r.kind /\ q.client = r.client /\ q.period = r.period
        /\ q.todo = r.todo /\ q.before = r.before
        /\ q.seen = r.seen /\ q.results = r.results
    BY <1>0 DEF Request
  <2>3. Grown(runs, runs')
    <3>1. /\ r.run \in Ids /\ runs[r.run].status = "pending"
          /\ runs' = [runs EXCEPT ![r.run].status = "running"]
      BY <1>0, <1>10 DEF StartExecution, Fit, Held, Holding
    <3> HIDE DEF r
    <3> QED
      BY <1>0, <3>1 DEF Grown, Run
  <2>4. Counted(r, runs')
    BY <1>0, <2>3, CountedStays
  <2> HIDE DEF q, r
  <2>5. Counted(q, runs')
    BY <2>1, <2>2, <2>4, SameCounts
  <2> QED
    BY <2>1, <2>3, <2>5, ResultBy
<1>11. ASSUME NEW w \in Workers, CreateRefused(w) \/ NoPolicy(w) \/ Fail(w) PROVE ResultInv'
  <2>1. Goto(w, Turn(worker[w], NoId)) /\ runs' = runs /\ worker[w].pc # "next"
    BY <1>11 DEF CreateRefused, NoPolicy, Fail, Tables
  <2>2. Counted(Turn(worker[w], NoId), runs)
    BY <1>0, <2>1, TurnCounts
  <2> QED
    BY <1>a, <2>1, <2>2, ResultBy
<1>12. ASSUME NEW w \in Workers, EndExecution(w) PROVE ResultInv'
  <2> DEFINE r == worker[w]
  <2>1. /\ r.pc = "execute" /\ Goto(w, Turn(r, r.run))
        /\ runs' = [runs EXCEPT ![r.run] = [@ EXCEPT !.status = "ended",
                                                     !.steps = "settled"]]
    BY <1>12 DEF EndExecution
  <2>2. /\ r.run \in Ids /\ r.run.client = r.client /\ r.run.period = r.period
        /\ Fit(r)
    BY <1>0, <2>1 DEF Fit, Held, Holding
  <2>3. /\ runs'[r.run].status = "ended" /\ runs'[r.run].before = runs[r.run].before
        /\ \A id \in Ids \ {r.run} : runs'[id] = runs[id]
    BY <1>0, <2>1, <2>2 DEF Run
  <2>4. Grown(runs, runs')
    <3>1. runs'[r.run].status # "absent"
      BY <2>3
    <3> HIDE DEF r
    <3> QED
      BY <2>3, <3>1 DEF Grown
  <2>5. Counted(r, runs')
    BY <1>0, <2>4, CountedStays
  <2>6. Counted(Turn(r, r.run), runs')
    <3>1. r.pc # "next" /\ runs'[r.run].status = "ended"
      BY <2>1, <2>3
    <3> HIDE DEF r
    <3> QED
      BY <2>2, <2>5, <3>1, TurnCounts
  <2>7. Goto(w, Turn(r, r.run))
    BY <2>1
  <2> HIDE DEF r
  <2> QED
    BY <2>4, <2>6, <2>7, ResultBy
<1>13. ASSUME NEW w \in Workers, CountClient(w) PROVE ResultInv'
  <2> DEFINE r == worker[w]
  <2>1. PICK c \in Clients, id \in Ids \cup {NoId} :
          /\ IsFirst(c, r.todo) /\ IsLatest(id, c)
          /\ Goto(w, [r EXCEPT !.todo = @ \ {c},
                               !.results = @ \cup {[client |-> c, run |-> id]}])
    BY <1>13 DEF CountClient
  <2> DEFINE new == [client |-> c, run |-> id]
             q == [r EXCEPT !.todo = @ \ {c}, !.results = @ \cup {new}]
  <2>2. /\ r.pc = "count" /\ r.kind = "overview" /\ runs' = runs /\ r.seen \subseteq Ids
        /\ r.todo \subseteq Clients
    BY <1>0, <1>13 DEF CountClient, Tables, Fit, Request
  <2>3. /\ q.pc = "count" /\ q.kind = "overview" /\ q.todo = r.todo \ {c}
        /\ q.before = r.before /\ q.seen = r.seen /\ q.results = r.results \cup {new}
    BY <1>0, <2>2 DEF Request
  <2>4. Goto(w, q)
    BY <2>1
  <2>5. new.client = c /\ new.run = id
    OBVIOUS
  <2>6. Listed(r) /\ Ran(r, runs)
    BY <1>0, <2>2 DEF Counted
  <2> HIDE DEF q, new
  <2>7. Listed(q)
    <3>1. c \in r.todo /\ \A d \in r.todo : c <= d
      BY <2>1 DEF IsFirst
    <3>2. {result.client : result \in q.results} =
            {result.client : result \in r.results} \cup {c}
      BY <2>3, <2>5
    <3>3. \A result \in r.results : result.client # c
      <4> TAKE result \in r.results
      <4>1. result.client \in {a.client : a \in r.results}
        OBVIOUS
      <4> QED
        BY <4>1, <2>6, <3>1 DEF Listed
    <3>4. \A a, b \in q.results : a.client = b.client => a = b
      BY <3>3, <2>3, <2>5, <2>6 DEF Listed
    <3>5. \A d \in q.todo : c < d
      <4> TAKE d \in q.todo
      <4>1. d \in r.todo /\ d # c
        BY <2>3
      <4>2. c \in Nat /\ d \in Nat
        BY <2>2, <4>1, FirmAssumption
      <4> QED
        BY <3>1, <4>1, <4>2
    <3>6. \A result \in q.results, d \in q.todo : result.client < d
      BY <3>5, <2>3, <2>5, <2>6 DEF Listed
    <3>7. /\ q.todo \subseteq q.before /\ q.pc \notin Starting \cup Holding
          /\ {result.client : result \in q.results} = q.before \ q.todo
      BY <2>3, <2>6, <3>1, <3>2 DEF Listed, Starting, Holding
    <3> QED
      BY <3>4, <3>6, <3>7 DEF Listed
  <2>8. /\ id # NoId => id \in Ids /\ id.client = c /\ runs[id].status # "absent"
        /\ \A i \in r.seen : i.client = c =>
             id # NoId /\ runs[i].before \subseteq runs[id].before
    <3>1. \A i \in r.seen : i.client = c => i \in RunsOf(c)
      BY <2>2, <2>6 DEF RunsOf, Existing, Ran
    <3>2. CASE RunsOf(c) = {}
      BY <2>1, <3>1, <3>2 DEF IsLatest
    <3>3. CASE RunsOf(c) # {}
      <4>1. id \in RunsOf(c) /\ \A j \in RunsOf(c) : runs[j].before \subseteq runs[id].before
        BY <2>1, <3>3 DEF IsLatest
      <4> QED
        BY <3>1, <4>1, NoIdIsNone DEF RunsOf, Existing
    <3> QED
      BY <3>2, <3>3
  <2>9. Ran(q, runs)
    BY <2>3, <2>5, <2>6, <2>8 DEF Ran
  <2>10. Counted(q, runs)
    BY <2>7, <2>9 DEF Counted
  <2> QED
    BY <1>a, <2>2, <2>4, <2>10, ResultBy
<1>14. CASE Crash
  <2>1. \A w \in Workers : worker'[w] = Idle
    BY <1>14 DEF Crash
  <2> QED
    BY <2>1, IdleCounts DEF ResultInv
<1>15. ASSUME UNCHANGED <<runs, worker>> PROVE ResultInv'
  BY <1>15 DEF ResultInv
<1> QED
  BY <1>1, <1>2, <1>3, <1>4, <1>5, <1>6, <1>7, <1>8, <1>9, <1>10, <1>11, <1>12,
     <1>13, <1>14, <1>15
     DEF Next, Serve, Tick, Tables, vars

\* Each client of a list has one result, in order, with a run of its own or none,
\* whatever fails on the way; the overview counts no run that was superseded.
THEOREM OneResultForEach == Spec => []OneResultPerClient
<1>1. Init => ResultInv
  BY IdleCounts DEF Init, ResultInv
<1>2. ResultInv => OneResultPerClient
  BY DEF ResultInv, Counted, Listed, Ran, OneResultPerClient
<1> QED
  BY <1>1, <1>2, TypeCorrect, WorkInit, WorkStep, ResultStep, PTL DEF Spec
=============================================================================
