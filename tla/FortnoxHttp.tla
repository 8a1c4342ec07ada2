---------------------------- MODULE FortnoxHttp -----------------------------
(***************************************************************************)
(* The calls one adapter object has under way at Fortnox: the limiter they *)
(* queue at (rate-limiter.ts), the requests, retries and pages of the HTTP *)
(* client (client.ts) and the loads the adapter shares (#cached in         *)
(* real-adapter.ts).                                                       *)
(*                                                                         *)
(* Time is counted in ticks, a second each: a stamp is its age, a back-off *)
(* the ticks it has left. There is one cached list and it only grows, at   *)
(* its end; its items are numbered. A call that has its slot awaits the    *)
(* token, for any time: getAccessToken reads the database and may refresh. *)
(* Each call is made once.                                                 *)
(***************************************************************************)
EXTENDS Integers, Sequences, FiniteSets

CONSTANTS
  Calls,
  NoCall,
  Makes,                      \* the kinds of request a call may make
  maxRequests, windowTicks,   \* of the limiter
  maxRetries,
  PageSize,
  MaxItems                    \* bound: items of the list

Kinds == {"list", "get", "post"}

ASSUME HttpAssumption ==
  /\ Makes \in [Calls -> SUBSET Kinds]
  /\ NoCall \notin Calls
  /\ maxRequests \in Nat \ {0} /\ windowTicks \in Nat \ {0}
  /\ maxRetries \in Nat /\ PageSize \in Nat \ {0} /\ MaxItems \in Nat

VARIABLES
  items,    \* length of the list at Fortnox
  stamps,   \* ages of the limiter's stamps, oldest first
  queue,    \* calls waiting for a slot, in turn
  cache,    \* the call whose load the adapter's cache holds, or NoCall
  call,     \* state of each call
  wire      \* history: the requests of the last window, oldest first

vars == <<items, stamps, queue, cache, call, wire>>

Ended == {"done", "failed"}

\* had: items there when the load began; sent: how often a create went out;
\* slot: age of the slot it has, while it awaits its token.
NotMade == [pc |-> "idle", kind |-> "get", page |-> 1, attempt |-> 0, wait |-> 0,
            slot |-> 0, had |-> 0, got |-> << >>, sent |-> 0]

\* What is left of a call.
Over(state, pc, got) ==
  [state EXCEPT !.pc = pc, !.page = 1, !.attempt = 0, !.wait = 0, !.slot = 0, !.got = got]

-----------------------------------------------------------------------------
(* The limiter *)

\* How many of the oldest are of that age.
Expired(ages, limit) ==
  CHOOSE n \in 0..Len(ages) :
    /\ \A k \in 1..n : ages[k] >= limit
    /\ n < Len(ages) => ages[n + 1] < limit

ShiftOff(ages, limit) == SubSeq(ages, 1 + Expired(ages, limit), Len(ages))

\* Mutated form: a stamp leaves the window a tick early.
FreshEarly(ages) == ShiftOff(ages, windowTicks - 1)

Fresh(ages) == ShiftOff(ages, windowTicks)

\* A call whose turn has come sleeps until the window has room.
WaitForSlot(c) ==
  /\ queue # << >> /\ Head(queue) = c
  /\ Len(Fresh(stamps)) < maxRequests
  /\ stamps' = Append(Fresh(stamps), 0)
  /\ queue' = Tail(queue)
  /\ call' = [call EXCEPT ![c].pc = "granted", ![c].slot = 0]
  /\ UNCHANGED <<items, cache, wire>>

-----------------------------------------------------------------------------
(* What becomes of a call, and of those who wait for its load *)

Joined == {d \in Calls : call[d].pc = "joined"}

\* Mutated form: the load resolves for the call that made it alone.
DoneAlone(c, got) ==
  /\ call' = [call EXCEPT ![c] = Over(@, "done", got)]
  /\ UNCHANGED cache

Done(c, got) ==
  LET served == IF call[c].kind = "list" THEN Joined \cup {c} ELSE {c}
  IN  /\ call' = [d \in Calls |->
           IF d \in served THEN Over(call[d], "done", got) ELSE call[d]]
      /\ UNCHANGED cache

\* Mutated form: the failed load stays in the cache.
FailCached(c) ==
  /\ call' = [d \in Calls |->
       IF d = c \/ (call[c].kind = "list" /\ d \in Joined)
       THEN Over(call[d], "failed", << >>) ELSE call[d]]
  /\ UNCHANGED cache

\* A failed load is not kept.
Fail(c) ==
  /\ call' = [d \in Calls |->
       IF d = c \/ (call[c].kind = "list" /\ d \in Joined)
       THEN Over(call[d], "failed", << >>) ELSE call[d]]
  /\ cache' = IF call[c].kind = "list" THEN NoCall ELSE cache

Enqueue(c, state) ==
  /\ queue' = Append(queue, c)
  /\ call' = [call EXCEPT ![c] = state]

-----------------------------------------------------------------------------
(* The calls *)

Init ==
  /\ items = 0
  /\ stamps = << >>
  /\ queue = << >>
  /\ cache = NoCall
  /\ call = [c \in Calls |-> NotMade]
  /\ wire = << >>

\* get and post of the client.
Request(c, kind) ==
  /\ call[c].pc = "idle" /\ kind \in Makes[c]
  /\ Enqueue(c, [NotMade EXCEPT !.pc = "queued", !.kind = kind])
  /\ UNCHANGED <<items, stamps, cache, wire>>

\* A cached list: the load the cache holds, in whatever state it is, or a new
\* one.
Cached(c) ==
  /\ call[c].pc = "idle" /\ "list" \in Makes[c]
  /\ IF cache = NoCall
     THEN /\ cache' = c
          /\ Enqueue(c, [NotMade EXCEPT !.pc = "queued", !.kind = "list", !.had = items])
     ELSE /\ call' = [call EXCEPT ![c] =
               [NotMade EXCEPT !.kind = "list", !.had = call[cache].had,
                  !.pc = IF call[cache].pc \in Ended THEN call[cache].pc ELSE "joined",
                  !.got = IF call[cache].pc = "done" THEN call[cache].got ELSE << >>]]
          /\ UNCHANGED <<cache, queue>>
  /\ UNCHANGED <<items, stamps, wire>>

\* The token is there and the request goes out.
Send(c) ==
  /\ call[c].pc = "granted"
  /\ call' = [call EXCEPT ![c].pc = "sent", ![c].slot = 0,
                           ![c].sent = IF call[c].kind = "post" THEN @ + 1 ELSE @]
  /\ wire' = Append(wire, [by |-> c, age |-> 0, slot |-> call[c].slot])
  /\ UNCHANGED <<items, stamps, queue, cache>>

\* Items first to last of a page.
Page(n) ==
  LET first == (n - 1) * PageSize
      size == IF items - first < PageSize THEN items - first ELSE PageSize
  IN  [k \in 1..(IF size > 0 THEN size ELSE 0) |-> first + k]

\* Mutated form: the last page is left out.
MorePagesButOne(page) == (page + 1) * PageSize < items

\* page < totalPages, by the answer to this page.
MorePages(page) == page * PageSize < items

Answer(c) ==
  LET got == call[c].got \o Page(call[c].page)
  IN  /\ call[c].pc = "sent"
      /\ IF call[c].kind = "list" /\ MorePages(call[c].page)
         THEN /\ Enqueue(c, [call[c] EXCEPT !.pc = "queued", !.page = @ + 1,
                                            !.attempt = 0, !.got = got])
              /\ UNCHANGED cache
         ELSE /\ Done(c, IF call[c].kind = "list" THEN got ELSE << >>)
              /\ UNCHANGED queue
      /\ UNCHANGED <<items, stamps, wire>>

\* Mutated form: a create is retried like a read.
RetriesAlways(c) == maxRetries

Retries(c) == IF call[c].kind = "post" THEN 0 ELSE maxRetries

\* 429 or 5xx.
AnswerTransient(c) ==
  /\ call[c].pc = "sent"
  /\ IF call[c].attempt < Retries(c)
     THEN /\ call' = [call EXCEPT ![c].pc = "backoff", ![c].attempt = @ + 1,
                                  ![c].wait = call[c].attempt + 1]
          /\ UNCHANGED cache
     ELSE Fail(c)
  /\ UNCHANGED <<items, stamps, queue, wire>>

Resume(c) ==
  /\ call[c].pc = "backoff" /\ call[c].wait = 0
  /\ Enqueue(c, [call[c] EXCEPT !.pc = "queued"])
  /\ UNCHANGED <<items, stamps, cache, wire>>

\* There is no token; or another status, a body of another shape, no answer
\* within the timeout.
CallFails(c) ==
  /\ call[c].pc \in {"granted", "sent"}
  /\ Fail(c)
  /\ UNCHANGED <<items, stamps, queue, wire>>

-----------------------------------------------------------------------------
(* Time, and the books *)

\* A second older; ages beyond the window are all one.
Aged(age) == IF age < windowTicks THEN age + 1 ELSE age

Older(ages) == [n \in DOMAIN ages |-> Aged(ages[n])]

\* The requests a second later, those that have left the window dropped.
OlderWire ==
  LET older == [n \in DOMAIN wire |->
                 [wire[n] EXCEPT !.age = Aged(@), !.slot = Aged(@)]]
      gone == Expired([n \in DOMAIN wire |-> older[n].age], windowTicks)
  IN  SubSeq(older, 1 + gone, Len(older))

Tick ==
  /\ \/ wire # << >>
     \/ \E n \in DOMAIN stamps : stamps[n] < windowTicks
     \/ \E c \in Calls : call[c].wait > 0
  /\ stamps' = Older(stamps)
  /\ wire' = OlderWire
  /\ call' = [c \in Calls |->
       [call[c] EXCEPT !.wait = IF @ > 0 THEN @ - 1 ELSE 0,
                       !.slot = IF call[c].pc = "granted" THEN Aged(@) ELSE 0]]
  /\ UNCHANGED <<items, queue, cache>>

AddItem ==
  /\ items < MaxItems
  /\ items' = items + 1
  /\ UNCHANGED <<stamps, queue, cache, call, wire>>

Step(c) ==
  \/ WaitForSlot(c) \/ Send(c) \/ Answer(c) \/ AnswerTransient(c)
  \/ Resume(c) \/ CallFails(c)

Next ==
  \/ \E c \in Calls :
       \/ \E kind \in Kinds \ {"list"} : Request(c, kind)
       \/ Cached(c)
       \/ Step(c)
  \/ Tick
  \/ AddItem

Spec == Init /\ [][Next]_vars

\* Node runs every continuation, a request ends by its timeout, time passes.
FairSpec == Spec /\ WF_vars(Tick) /\ \A c \in Calls : WF_vars(Step(c))

-----------------------------------------------------------------------------
(* Properties *)

\* The calls with a request in the window whose slot is older than the window:
\* the token took that long (client.ts, between the limiter and fetch).
Late == {wire[n].by : n \in {m \in DOMAIN wire : wire[m].slot >= windowTicks}}

\* However long tokens take, the requests of a window exceed maxRequests by one
\* at most for each call that came late: the retries and pages of a call and all
\* concurrent calls of the adapter together (rate-limiter.ts, client.ts).
WindowKept == Len(wire) <= maxRequests + Cardinality(Late)

\* Everyone who reads a cached list of the adapter sees the same one, though it
\* grows and loads of it fail (real-adapter.ts, #cached), and sees it whole
\* (client.ts, list): every item that was there when the load began, once and in
\* order, whatever retries its pages took and whatever was added meanwhile.
ReadersAgree ==
  LET readers == {c \in Calls : call[c].kind = "list" /\ call[c].pc = "done"}
  IN  /\ \A c, d \in readers : call[c].got = call[d].got
      /\ \A c \in readers :
           /\ Len(call[c].got) >= call[c].had
           /\ \A n \in DOMAIN call[c].got : call[c].got[n] = n

\* A create is on the wire once at most, whatever the answer (client.ts, post).
CreateSentOnce == \A c \in Calls : call[c].kind = "post" => call[c].sent <= 1

\* "A failed load must not be cached, or one transient error would poison every
\* later read in the run": a read that starts later does not fail by it.
FailureNotCached ==
  [][\A c \in Calls : call[c].pc = "idle" => call'[c].pc # "failed"]_vars

\* Every call ends, those that queue behind failed ones and those that joined
\* the load of another included.
EveryCallEnds ==
  \A c \in Calls : (call[c].pc # "idle") ~> (call[c].pc \in Ended)
=============================================================================
