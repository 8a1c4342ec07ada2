-------------------------------- MODULE Firm --------------------------------
(***************************************************************************)
(* The work of a whole firm: clients are added, a period is run for one of *)
(* them or for all, and the overview counts their latest runs              *)
(* (routes/firm.ts, routes/index.ts), with startCloseRun of engine.ts      *)
(* statement by statement. Any statement may fail, and the process may die *)
(* between two.                                                            *)
(*                                                                         *)
(* A client is its place in the list, which is ordered by name; a client is*)
(* never removed. Between its first and its last statement an execution is *)
(* one step: CloseRun has it in full. The id of a run holds the time in    *)
(* milliseconds, of which the requests of an instance see a few.           *)
(***************************************************************************)
EXTENDS Integers

CONSTANTS
  Clients,        \* clients there may be
  Seeded,         \* clients, with policies, of the first start
  Periods,
  Workers,        \* requests served at once
  MaxClock, MaxRequests, MaxFaults   \* bounds

ASSUME FirmAssumption ==
  /\ Clients \subseteq Nat \ {0} /\ Seeded \subseteq Clients
  /\ MaxClock \in Nat /\ MaxRequests \in Nat /\ MaxFaults \in Nat

Ids == [client : Clients, period : Periods, ms : 0..MaxClock]
NoId == [client |-> 0]

VARIABLES
  clients, policies,    \* clients with a row, and with a policy
  periods,              \* accounting_periods, as [client, period]
  runs,                 \* close_runs by id, with their steps
  worker,               \* what each request is about
  clock, requests, faults

vars == <<clients, policies, periods, runs, worker, clock, requests, faults>>

\* todo: clients whose turn has not ended; before: those of the list, and seen the
\* runs there were, when the request began; results: one for each client so far.
Idle == [pc |-> "idle", kind |-> "none", client |-> 0, period |-> 0, run |-> NoId,
         todo |-> {}, before |-> {}, seen |-> {}, results |-> {}]

\* Instead of the time it was created, the row of a run has the runs there were.
Absent == [status |-> "absent", steps |-> "none", before |-> {}]

IsFirst(c, set) == c \in set /\ \A d \in set : c <= d

Existing == {id \in Ids : runs[id].status # "absent"}

Init ==
  /\ clients = Seeded /\ policies = Seeded
  /\ periods = {}
  /\ runs = [id \in Ids |-> Absent]
  /\ worker = [w \in Workers |-> Idle]
  /\ clock = 0 /\ requests = 0 /\ faults = 0

-----------------------------------------------------------------------------
(* Requests *)

Goto(w, state) == worker' = [worker EXCEPT ![w] = state]

Accept(w, state) ==
  /\ worker[w].pc = "idle"
  /\ requests < MaxRequests
  /\ requests' = requests + 1
  /\ Goto(w, state)
  /\ UNCHANGED <<policies, periods, runs, clock, faults>>

Tables == <<clients, policies, periods, runs>>
Rest == UNCHANGED <<clock, requests, faults>>

\* POST /api/clients: the organisation number of a client is taken once. The client
\* is there before its policy.
CreateClient(w, c) ==
  /\ c \notin clients
  /\ clients' = clients \cup {c}
  /\ Accept(w, [Idle EXCEPT !.pc = "policy", !.kind = "client", !.client = c])

InsertPolicy(w) ==
  /\ worker[w].pc = "policy"
  /\ policies' = policies \cup {worker[w].client}
  /\ Goto(w, Idle)
  /\ UNCHANGED <<clients, periods, runs>> /\ Rest

\* POST /api/clients/:clientId/close-runs, with the client read.
RunOne(w, c, p) ==
  /\ c \in clients
  /\ Accept(w, [Idle EXCEPT !.pc = "start", !.kind = "one", !.client = c, !.period = p])
  /\ UNCHANGED clients

\* POST /api/close-runs/run-all: the clients are listed once.
RunAll(w, p) ==
  /\ Accept(w, [Idle EXCEPT !.pc = "next", !.kind = "all", !.period = p,
                  !.todo = clients, !.before = clients])
  /\ UNCHANGED clients

\* GET /api/firm/overview.
Overview(w) ==
  /\ Accept(w, [Idle EXCEPT !.pc = "count", !.kind = "overview", !.todo = clients,
                  !.before = clients, !.seen = Existing])
  /\ UNCHANGED clients

\* Mutated form: a failure ends the loop.
TurnOrEnd(r, run) ==
  IF r.kind = "all"
  THEN [r EXCEPT !.pc = "next", !.client = 0, !.run = NoId,
          !.todo = IF run = NoId THEN {} ELSE @ \ {r.client},
          !.results = @ \cup {[client |-> r.client, run |-> run]}]
  ELSE Idle

\* Mutated form: a client whose turn has failed stays on the list.
TurnAgain(r, run) ==
  IF r.kind = "all"
  THEN [r EXCEPT !.pc = "next", !.client = 0, !.run = NoId,
          !.todo = IF run = NoId THEN @ ELSE @ \ {r.client},
          !.results = @ \cup {[client |-> r.client, run |-> run]}]
  ELSE Idle

\* The state of a worker whose client's turn has ended with a run, or without.
Turn(r, run) ==
  IF r.kind = "all"
  THEN [r EXCEPT !.pc = "next", !.client = 0, !.run = NoId, !.todo = @ \ {r.client},
          !.results = @ \cup {[client |-> r.client, run |-> run]}]
  ELSE Idle

NextClient(w) ==
  /\ worker[w].pc = "next"
  /\ \E c \in Clients : /\ IsFirst(c, worker[w].todo)
                        /\ Goto(w, [worker[w] EXCEPT !.pc = "start", !.client = c])
  /\ UNCHANGED Tables /\ Rest

Respond(w) ==
  /\ worker[w].pc \in {"next", "count"} /\ worker[w].todo = {}
  /\ Goto(w, Idle)
  /\ UNCHANGED Tables /\ Rest

-----------------------------------------------------------------------------
(* A run, from its period to its end *)

UpsertPeriod(w) ==
  LET r == worker[w]
  IN  /\ r.pc = "start"
      /\ periods' = periods \cup {[client |-> r.client, period |-> r.period]}
      /\ Goto(w, [r EXCEPT !.pc = "create"])
      /\ UNCHANGED <<clients, policies, runs>> /\ Rest

IdNow(r) == [client |-> r.client, period |-> r.period, ms |-> clock]

\* Mutated form: a run that is there already is taken.
CreateOrTakeRun(w) ==
  LET r == worker[w]
      id == IdNow(r)
  IN  /\ r.pc = "create"
      /\ runs' = IF id \in Existing THEN runs
                 ELSE [runs EXCEPT ![id] = [status |-> "pending", steps |-> "none",
                                            before |-> Existing]]
      /\ Goto(w, [r EXCEPT !.pc = "steps", !.run = id])
      /\ UNCHANGED <<clients, policies, periods>> /\ Rest

\* A run with this id is refused when there is one.
CreateRun(w) ==
  LET r == worker[w]
      id == IdNow(r)
  IN  /\ r.pc = "create" /\ id \notin Existing
      /\ runs' = [runs EXCEPT ![id] = [status |-> "pending", steps |-> "none",
                                       before |-> Existing]]
      /\ Goto(w, [r EXCEPT !.pc = "steps", !.run = id])
      /\ UNCHANGED <<clients, policies, periods>> /\ Rest

CreateRefused(w) ==
  /\ worker[w].pc = "create" /\ IdNow(worker[w]) \in Existing
  /\ Goto(w, Turn(worker[w], NoId))
  /\ UNCHANGED Tables /\ Rest

InsertSteps(w) ==
  LET r == worker[w]
  IN  /\ r.pc = "steps"
      /\ runs' = [runs EXCEPT ![r.run].steps = "pending"]
      /\ Goto(w, [r EXCEPT !.pc = "resolve"])
      /\ UNCHANGED <<clients, policies, periods>> /\ Rest

\* Mutated form: a client without a policy is run with the default.
StartAnyExecution(w) ==
  LET r == worker[w]
  IN  /\ r.pc = "resolve"
      /\ runs' = [runs EXCEPT ![r.run].status = "running"]
      /\ Goto(w, [r EXCEPT !.pc = "execute"])
      /\ UNCHANGED <<clients, policies, periods>> /\ Rest

\* executeCloseRun reads the policy before it writes anything ...
StartExecution(w) ==
  LET r == worker[w]
  IN  /\ r.pc = "resolve" /\ r.client \in policies
      /\ runs' = [runs EXCEPT ![r.run].status = "running"]
      /\ Goto(w, [r EXCEPT !.pc = "execute"])
      /\ UNCHANGED <<clients, policies, periods>> /\ Rest

\* ... and throws without: the run stays pending.
NoPolicy(w) ==
  /\ worker[w].pc = "resolve" /\ worker[w].client \notin policies
  /\ Goto(w, Turn(worker[w], NoId))
  /\ UNCHANGED Tables /\ Rest

\* What CloseRun does between.
EndExecution(w) ==
  LET r == worker[w]
  IN  /\ r.pc = "execute"
      /\ runs' = [runs EXCEPT ![r.run] = [@ EXCEPT !.status = "ended", !.steps = "settled"]]
      /\ Goto(w, Turn(r, r.run))
      /\ UNCHANGED <<clients, policies, periods>> /\ Rest

\* A statement fails. The loop of run-all catches what a client's turn throws.
Fail(w) ==
  /\ worker[w].pc \notin {"idle", "next"}
  /\ faults < MaxFaults
  /\ faults' = faults + 1
  /\ Goto(w, Turn(worker[w], NoId))
  /\ UNCHANGED Tables /\ UNCHANGED <<clock, requests>>

\* The process dies with all it was about.
Crash ==
  /\ faults < MaxFaults
  /\ \E w \in Workers : worker[w].pc # "idle"
  /\ faults' = faults + 1
  /\ worker' = [w \in Workers |-> Idle]
  /\ UNCHANGED Tables /\ UNCHANGED <<clock, requests>>

-----------------------------------------------------------------------------
(* What is reported *)

\* getSummary of a run there is, from its steps: without any, nothing blocks it;
\* what steps that are settled make of it is in CloseRun.
Reported(id) ==
  [none |-> "completed", pending |-> "running", settled |-> "settled"][runs[id].steps]

RunsOf(c) == {id \in Existing : id.client = c}

IsLatest(id, c) ==
  IF RunsOf(c) = {} THEN id = NoId
  ELSE id \in RunsOf(c) /\ \A j \in RunsOf(c) : runs[j].before \subseteq runs[id].before

CountClient(w) ==
  LET r == worker[w]
  IN  /\ r.pc = "count"
      /\ \E c \in Clients, id \in Ids \cup {NoId} :
           /\ IsFirst(c, r.todo) /\ IsLatest(id, c)
           /\ Goto(w, [r EXCEPT !.todo = @ \ {c},
                                !.results = @ \cup {[client |-> c, run |-> id]}])
      /\ UNCHANGED Tables /\ Rest

Tick ==
  /\ clock < MaxClock
  /\ clock' = clock + 1
  /\ UNCHANGED Tables /\ UNCHANGED <<worker, requests, faults>>

-----------------------------------------------------------------------------

Serve(w) ==
  \/ InsertPolicy(w)
  \/ NextClient(w) \/ Respond(w)
  \/ UpsertPeriod(w) \/ CreateRun(w) \/ CreateRefused(w) \/ InsertSteps(w)
  \/ StartExecution(w) \/ NoPolicy(w) \/ EndExecution(w)
  \/ CountClient(w)

Next ==
  \/ \E w \in Workers :
       \/ \E c \in Clients : CreateClient(w, c)
       \/ \E c \in Clients, p \in Periods : RunOne(w, c, p)
       \/ \E p \in Periods : RunAll(w, p)
       \/ Overview(w)
       \/ Serve(w)
       \/ Fail(w)
  \/ Crash
  \/ Tick

\* Every request is served: its statements are answered.
Spec == Init /\ [][Next]_vars /\ \A w \in Workers : WF_vars(Serve(w))

-----------------------------------------------------------------------------
(* Properties *)

Starting == {"start", "create"}
Holding == {"steps", "resolve", "execute"}

Request ==
  [pc : {"idle", "policy", "next", "count"} \cup Starting \cup Holding,
   kind : {"none", "client", "one", "all", "overview"},
   client : Clients \cup {0}, period : Periods \cup {0}, run : Ids \cup {NoId},
   todo : SUBSET Clients, before : SUBSET Clients, seen : SUBSET Ids,
   results : SUBSET [client : Clients, run : Ids \cup {NoId}]]

Run == [status : {"absent", "pending", "running", "ended"},
        steps : {"none", "pending", "settled"}, before : SUBSET Ids]

\* Rows and requests keep their shape.
TypeOK ==
  /\ clients \subseteq Clients /\ policies \subseteq Clients
  /\ periods \subseteq [client : Clients, period : Periods]
  /\ runs \in [Ids -> Run]
  /\ worker \in [Workers -> Request]
  /\ clock \in 0..MaxClock /\ requests \in Nat /\ faults \in Nat

\* The engine takes it for granted that nobody else executes its run (CloseRun has
\* what happens otherwise): no two requests ever hold the same run, not when they
\* are about the same client and period in the same millisecond.
OneExecutor ==
  \A v, w \in Workers :
    v # w /\ worker[v].pc \in Holding /\ worker[w].pc \in Holding =>
      worker[v].run # worker[w].run

\* What has been executed, if only begun, is a whole run: it has its steps, its
\* period, and a client with a policy, whichever statement of another request
\* failed, or was not there yet.
RunsAreWhole ==
  \A id \in Existing : runs[id].status # "pending" =>
    /\ runs[id].steps # "none"
    /\ id.client \in policies
    /\ [client |-> id.client, period |-> id.period] \in periods

\* Running a period for every client "finishes in order" (firm.ts) and leaves none
\* out, whatever fails on the way: each client of the list whose turn is over has
\* one result, before those still to come, with a run of its own that was executed
\* to the end, or with none. The overview counts each client once as well, and
\* none by a run that was superseded when it began, or as never run when it had
\* been.
OneResultPerClient ==
  \A w \in Workers :
    LET r == worker[w]
    IN  r.kind \in {"all", "overview"} =>
          /\ {result.client : result \in r.results} = r.before \ r.todo
          /\ \A result \in r.results :
               /\ \A other \in r.results : other.client = result.client => other = result
               /\ \A c \in r.todo : result.client < c
               /\ result.run # NoId => result.run.client = result.client
               /\ r.kind = "all" /\ result.run # NoId =>
                    result.run.period = r.period /\ runs[result.run].status = "ended"
               /\ \A id \in r.seen : id.client = result.client =>
                    result.run # NoId /\ runs[id].before \subseteq runs[result.run].before

\* "The system must never report a period as complete because it simply did not
\* look" (state-machine.ts).
NeverCompleteUnlooked ==
  \A id \in Existing : Reported(id) = "completed" => runs[id].status = "ended"

\* A request ends, whatever fails: the loop of run-all goes on to the next client
\* after a failure and does not come back to one.
EveryRequestEnds == \A w \in Workers : worker[w].pc # "idle" ~> worker[w].pc = "idle"
=============================================================================
