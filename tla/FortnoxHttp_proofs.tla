------------------------- MODULE FortnoxHttp_proofs -------------------------
(***************************************************************************)
(* Proofs about FortnoxHttp, for every number of calls of every kind, each *)
(* limit, page size and number of retries, and however long tokens take:   *)
(* creates are sent once, readers of a cached list agree, failures are not *)
(* cached, and the requests of a window exceed the limit by no more than   *)
(* one for each call that came late.                                       *)
(***************************************************************************)
EXTENDS FortnoxHttp, FiniteSetTheorems, SequenceTheorems, WellFoundedInduction, TLAPS

Loading == {"queued", "granted", "sent", "backoff"}
CallState ==
  [pc: Loading \cup Ended \cup {"idle", "joined"}, kind: Kinds, page: Nat \ {0},
   attempt: Nat, wait: Nat, slot: Nat, had: Nat, got: Seq(Nat), sent: Nat]

Shape ==
  /\ items \in Nat
  /\ queue \in Seq(Calls)
  /\ cache \in Calls \cup {NoCall}
  /\ call \in [Calls -> CallState]

\* Those in the queue wait there, once each.
QueueOK ==
  /\ \A i \in DOMAIN queue : call[queue[i]].pc = "queued"
  /\ \A i, j \in DOMAIN queue : queue[i] = queue[j] => i = j

\* A create comes to the wire with nothing sent and does not come back to it.
CreateOK(state) ==
  state.kind = "post" =>
    /\ state.pc \notin {"backoff", "joined"}
    /\ state.sent <= 1
    /\ state.pc \in {"idle", "queued", "granted"} => state.sent = 0

\* The pages a load has fetched are full and are the first of the list.
SoFar(state) ==
  /\ state.had <= items
  /\ Len(state.got) <= items
  /\ Len(state.got) = (state.page - 1) * PageSize
  /\ \A n \in DOMAIN state.got : state.got[n] = n

\* What the cache holds is a list under way or a whole one; whoever loads is the
\* one it holds, whoever joined waits for it, whoever has read it has what it has.
LoadOK(c) ==
  /\ cache = c => call[c].kind = "list" /\ call[c].pc \in Loading \cup {"done"}
  /\ call[c].kind = "list" /\ call[c].pc \in Loading => cache = c /\ SoFar(call[c])
  /\ call[c].pc = "joined" =>
       /\ call[c].kind = "list" /\ cache \in Calls
       /\ call[cache].pc \in Loading /\ call[c].had = call[cache].had
  /\ call[c].kind = "list" /\ call[c].pc = "done" =>
       /\ cache \in Calls
       /\ call[cache].pc = "done" /\ call[c].got = call[cache].got
       /\ call[c].had <= Len(call[c].got)
       /\ \A n \in DOMAIN call[c].got : call[c].got[n] = n

HttpInv ==
  /\ Shape
  /\ QueueOK
  /\ \A c \in Calls : CreateOK(call[c])
  /\ \A c \in Calls : LoadOK(c)

-----------------------------------------------------------------------------
(* Lists and the queue *)

\* A page holds the items of its range in order, all of them or what is left.
LEMMA PageIs ==
  ASSUME items \in Nat, NEW n \in Nat \ {0}, (n - 1) * PageSize <= items
  PROVE  /\ Page(n) \in Seq(Nat)
         /\ Len(Page(n)) = IF n * PageSize <= items THEN PageSize
                                                    ELSE items - (n - 1) * PageSize
         /\ \A k \in DOMAIN Page(n) : Page(n)[k] = (n - 1) * PageSize + k
<1> DEFINE first == (n - 1) * PageSize
           size == IF items - first < PageSize THEN items - first ELSE PageSize
<1>1. PageSize \in Nat \ {0}
  BY HttpAssumption
<1>2. first \in Nat /\ n * PageSize = first + PageSize
  BY <1>1
<1>3. size \in Nat /\ first <= items
  BY <1>1, <1>2
<1>4. Page(n) = [k \in 1 .. (IF size > 0 THEN size ELSE 0) |-> first + k]
  BY DEF Page
<1> HIDE DEF first
<1>5. Page(n) = [k \in 1 .. size |-> first + k]
  BY <1>3, <1>4
<1>6. size = IF n * PageSize <= items THEN PageSize ELSE items - first
  BY <1>1, <1>2, <1>3
<1> HIDE DEF size
<1>7. Page(n) \in Seq(Nat) /\ Len(Page(n)) = size
  BY <1>2, <1>3, <1>5
<1>8. \A k \in DOMAIN Page(n) : Page(n)[k] = first + k
  BY <1>5
<1> QED
  BY <1>6, <1>7, <1>8 DEF first

\* A page read after the pages before it makes the list whole up to its end.
LEMMA GotGrows ==
  ASSUME items \in Nat, NEW state \in CallState, SoFar(state)
  PROVE  LET got == state.got \o Page(state.page)
         IN  /\ got \in Seq(Nat)
             /\ Len(got) = IF state.page * PageSize <= items
                             THEN state.page * PageSize ELSE items
             /\ \A n \in DOMAIN got : got[n] = n
<1> DEFINE page == Page(state.page)
           first == (state.page - 1) * PageSize
           got == state.got \o page
<1>1. /\ state.got \in Seq(Nat) /\ state.page \in Nat \ {0}
      /\ Len(state.got) = first /\ first <= items
      /\ \A n \in DOMAIN state.got : state.got[n] = n
  BY DEF CallState, SoFar
<1>2. /\ page \in Seq(Nat)
      /\ Len(page) = IF state.page * PageSize <= items THEN PageSize ELSE items - first
      /\ \A k \in DOMAIN page : page[k] = first + k
  BY <1>1, PageIs
<1>3. first \in Nat /\ state.page * PageSize = first + PageSize /\ PageSize \in Nat
  <2>1. \A p \in Nat \ {0}, q \in Nat : (p - 1) * q \in Nat /\ p * q = (p - 1) * q + q
    OBVIOUS
  <2>2. PageSize \in Nat
    BY HttpAssumption
  <2> QED
    BY <1>1, <2>1, <2>2
<1> HIDE DEF page, first
<1>4. got \in Seq(Nat) /\ Len(got) = first + Len(page)
  <2>1. state.got \in Seq(Nat) /\ page \in Seq(Nat) /\ Len(state.got) = first
    BY <1>1, <1>2
  <2> QED
    BY <2>1, ConcatProperties
<1>5. Len(got) = IF state.page * PageSize <= items THEN state.page * PageSize ELSE items
  BY <1>2, <1>3, <1>4
<1>6. ASSUME NEW n \in DOMAIN got PROVE got[n] = n
  <2>1. n \in 1 .. first + Len(page) /\ Len(page) \in Nat
    BY <1>2, <1>4
  <2>2. CASE n <= first
    <3>1. n \in DOMAIN state.got /\ got[n] = state.got[n]
      BY <1>1, <1>2, <1>3, <2>1, <2>2
    <3> QED
      BY <1>1, <3>1
  <2>3. CASE n > first
    <3>1. n - first \in DOMAIN page /\ got[n] = page[n - first]
      BY <1>1, <1>2, <1>3, <2>1, <2>3
    <3>2. page[n - first] = first + (n - first)
      BY <1>2, <3>1
    <3> QED
      BY <1>3, <2>1, <3>1, <3>2
  <2> QED
    BY <1>3, <2>1, <2>2, <2>3
<1> QED
  BY <1>4, <1>5, <1>6 DEF page

\* A call that joins the queue stands in it once, and so do the others.
LEMMA EnqueueKeeps ==
  ASSUME Shape, QueueOK, NEW c \in Calls, call[c].pc # "queued",
         NEW e \in CallState, e.pc = "queued", Enqueue(c, e)
  PROVE  QueueOK' /\ queue' \in Seq(Calls) /\ call' \in [Calls -> CallState] /\ call'[c] = e
<1>1. /\ queue \in Seq(Calls) /\ call \in [Calls -> CallState]
      /\ queue' = Append(queue, c) /\ call' = [call EXCEPT ![c] = e]
  BY DEF Shape, Enqueue
<1>2. /\ queue' \in Seq(Calls) /\ Len(queue) \in Nat
      /\ DOMAIN queue = 1 .. Len(queue) /\ DOMAIN queue' = 1 .. Len(queue) + 1
      /\ \A i \in 1 .. Len(queue) : queue'[i] = queue[i]
      /\ queue'[Len(queue) + 1] = c
  BY <1>1
<1>3. call' \in [Calls -> CallState] /\ call'[c] = e
      /\ \A d \in Calls \ {c} : call'[d] = call[d]
  BY <1>1
<1>4. \A i \in 1 .. Len(queue) : queue[i] \in Calls /\ queue[i] # c
  BY <1>1, <1>2 DEF QueueOK
<1>5. \A i \in DOMAIN queue' : call'[queue'[i]].pc = "queued"
  <2> SUFFICES ASSUME NEW i \in 1 .. Len(queue) + 1 PROVE call'[queue'[i]].pc = "queued"
    BY <1>2
  <2>1. CASE i \in 1 .. Len(queue)
    <3>1. call[queue[i]].pc = "queued"
      BY <1>2, <2>1 DEF QueueOK
    <3>2. call'[queue'[i]] = call[queue[i]]
      BY <1>2, <1>3, <1>4, <2>1
    <3> QED
      BY <3>1, <3>2
  <2>2. CASE i = Len(queue) + 1
    BY <1>2, <1>3, <2>2
  <2> QED
    BY <1>2, <2>1, <2>2
<1>6. \A i, j \in DOMAIN queue' : queue'[i] = queue'[j] => i = j
  <2> SUFFICES ASSUME NEW i \in 1 .. Len(queue) + 1, NEW j \in 1 .. Len(queue) + 1,
                      queue'[i] = queue'[j]
               PROVE  i = j
    BY <1>2
  <2>1. CASE i \in 1 .. Len(queue) /\ j \in 1 .. Len(queue)
    BY <1>2, <2>1 DEF QueueOK
  <2>2. CASE i = Len(queue) + 1 \/ j = Len(queue) + 1
    BY <1>2, <1>4, <2>2
  <2> QED
    BY <1>2, <2>1, <2>2
<1> QED
  BY <1>2, <1>3, <1>5, <1>6 DEF QueueOK

\* The queue stays right while it does and every queued call stays queued.
LEMMA QueueStays ==
  ASSUME Shape, QueueOK, queue' = queue,
         \A d \in Calls : call[d].pc = "queued" => call'[d].pc = "queued"
  PROVE  QueueOK'
<1>1. \A i \in DOMAIN queue : queue[i] \in Calls
  BY DEF Shape
<1> QED
  BY <1>1 DEF QueueOK

-----------------------------------------------------------------------------
(* One call goes on, or ends *)

\* A call not made is a call on its first page, with nothing got and nothing sent.
LEMMA NotMadeIs ==
  /\ NotMade \in CallState /\ NotMade.pc = "idle" /\ NotMade.kind = "get"
  /\ NotMade.page = 1 /\ NotMade.got = << >> /\ NotMade.sent = 0
<1>1. << >> \in Seq(Nat) /\ 1 \in Nat \ {0} /\ "get" \in Kinds
  BY DEF Kinds
<1> QED
  BY <1>1 DEF NotMade, CallState

\* A call that is over keeps what it asked for and how often it was sent.
LEMMA OverIs ==
  ASSUME NEW state \in CallState, NEW pc \in Ended, NEW got \in Seq(Nat)
  PROVE  /\ Over(state, pc, got) \in CallState
         /\ Over(state, pc, got).pc = pc /\ Over(state, pc, got).got = got
         /\ Over(state, pc, got).kind = state.kind
         /\ Over(state, pc, got).had = state.had
         /\ Over(state, pc, got).sent = state.sent
<1>1. /\ pc \in Loading \cup Ended \cup {"idle", "joined"}
      /\ 1 \in Nat \ {0} /\ 0 \in Nat
  OBVIOUS
<1> QED
  BY <1>1 DEF Over, CallState

\* A call goes on with its request, its retry or its next page.
LEMMA GoesOn ==
  ASSUME Shape, \A d \in Calls : LoadOK(d),
         NEW c \in Calls, NEW e \in CallState, call' = [call EXCEPT ![c] = e],
         call[c].pc \in Loading, e.pc \in Loading, e.kind = call[c].kind,
         e.had = call[c].had, e.kind = "list" => SoFar(e),
         UNCHANGED <<cache, items>>
  PROVE  \A d \in Calls : LoadOK(d)'
<1>1. /\ call'[c] = e
      /\ \A d \in Calls \ {c} : call'[d] = call[d]
  BY DEF Shape
<1>2. \A s : SoFar(s)' <=> SoFar(s)
  BY DEF SoFar
<1>3. LoadOK(c)
  OBVIOUS
<1>4. ASSUME NEW d \in Calls PROVE LoadOK(d)'
  <2>1. LoadOK(d) /\ e.pc # "done" /\ e.pc # "joined" /\ call[c].pc # "done"
    BY DEF Loading
  <2>2. CASE d = c
    <3>1. cache' = c => e.kind = "list" /\ e.pc \in Loading \cup {"done"}
      BY <1>3 DEF LoadOK
    <3>2. e.kind = "list" => cache' = c /\ SoFar(e)
      BY <1>3 DEF LoadOK
    <3>3. SoFar(call[c])' <=> SoFar(e)
      BY <1>1 DEF SoFar
    <3> QED
      BY <1>1, <2>1, <2>2, <3>1, <3>2, <3>3 DEF LoadOK
  <2>3. CASE d # c
    <3>1. call'[d] = call[d]
      BY <1>1, <2>3
    <3>2. SoFar(call[d])' <=> SoFar(call[d])
      BY <3>1 DEF SoFar
    <3>3. \/ cache = c /\ call'[cache] = e
          \/ cache # c /\ call'[cache] = call[cache]
          \/ cache \notin Calls
      BY <1>1
    <3> QED
      BY <2>1, <2>3, <3>1, <3>2, <3>3 DEF LoadOK
  <2> QED
    BY <2>2, <2>3
<1> QED
  BY <1>4

\* What a call that is no list does is nothing to the list.
LEMMA OtherMoves ==
  ASSUME Shape, \A d \in Calls : LoadOK(d),
         NEW c \in Calls, cache # c, NEW e \in CallState,
         e.kind # "list", e.pc # "joined",
         call' = [call EXCEPT ![c] = e], UNCHANGED <<cache, items>>
  PROVE  \A d \in Calls : LoadOK(d)'
<1>1. call'[c] = e /\ \A d \in Calls \ {c} : call'[d] = call[d]
  BY DEF Shape
<1>2. LoadOK(c)'
  BY <1>1 DEF LoadOK
<1>3. ASSUME NEW d \in Calls \ {c} PROVE LoadOK(d)'
  <2>1. call'[d] = call[d] /\ LoadOK(d)
    BY <1>1
  <2>2. SoFar(call[d])' <=> SoFar(call[d])
    BY <2>1 DEF SoFar
  <2>3. cache \in Calls => call'[cache] = call[cache]
    BY <1>1
  <2> QED
    BY <2>1, <2>2, <2>3 DEF LoadOK
<1> QED
  BY <1>2, <1>3

\* A load ends, and with it the calls that joined it.
LEMMA ListEnds ==
  ASSUME Shape, \A d \in Calls : LoadOK(d),
         NEW c \in Calls, call[c].kind = "list", call[c].pc \in Loading,
         NEW got \in Seq(Nat),
         call' = [d \in Calls |-> IF d \in Joined \cup {c}
                                    THEN Over(call[d], "done", got) ELSE call[d]],
         cache' = cache, items' = items,
         call[c].had <= Len(got), \A n \in DOMAIN got : got[n] = n
  PROVE  \A d \in Calls : LoadOK(d)'
<1>1. cache = c /\ call \in [Calls -> CallState]
  BY DEF LoadOK, Shape
<1>2. ASSUME NEW d \in Joined \cup {c}
      PROVE  /\ call'[d].pc = "done" /\ call'[d].got = got
             /\ call'[d].kind = "list" /\ call'[d].had = call[c].had
  <2>1. d \in Calls /\ call[d].kind = "list" /\ call[d].had = call[c].had
    BY <1>1, <1>2 DEF Joined, LoadOK
  <2>2. /\ Over(call[d], "done", got).pc = "done"
        /\ Over(call[d], "done", got).got = got
        /\ Over(call[d], "done", got).kind = call[d].kind
        /\ Over(call[d], "done", got).had = call[d].had
    BY <1>1, <2>1, OverIs DEF Ended
  <2>3. call'[d] = Over(call[d], "done", got)
    BY <1>2, <2>1
  <2> QED
    BY <2>1, <2>2, <2>3
<1>3. ASSUME NEW d \in Calls, d \notin Joined \cup {c}
      PROVE  /\ call'[d] = call[d] /\ cache # d
             /\ call[d].pc # "joined"
             /\ ~(call[d].kind = "list" /\ call[d].pc \in Loading \cup {"done"})
  <2>1. LoadOK(d) /\ d # c /\ call[d].pc # "joined"
    BY <1>3 DEF Joined
  <2>2. call[cache].pc # "done"
    BY <1>1 DEF Loading
  <2> QED
    BY <1>1, <1>3, <2>1, <2>2 DEF LoadOK
<1>4. ASSUME NEW d \in Calls PROVE LoadOK(d)'
  <2>1. CASE d \in Joined \cup {c}
    <3>1. cache' = c /\ c \in Joined \cup {c}
      BY <1>1
    <3>2. /\ call'[d].pc = "done" /\ call'[d].kind = "list" /\ call'[d].got = got
          /\ call'[d].had <= Len(got)
          /\ call'[c].pc = "done" /\ call'[c].got = got
      BY <1>2, <2>1, <3>1
    <3> QED
      BY <3>1, <3>2 DEF LoadOK, Loading
  <2>2. CASE d \notin Joined \cup {c}
    BY <1>1, <1>3, <2>2 DEF LoadOK
  <2> QED
    BY <2>1, <2>2
<1> QED
  BY <1>4

\* A load fails, and with it the calls that joined it; the cache is empty.
LEMMA ListFails ==
  ASSUME Shape, \A d \in Calls : LoadOK(d),
         NEW c \in Calls, call[c].kind = "list", call[c].pc \in Loading,
         call' = [d \in Calls |-> IF d \in Joined \cup {c}
                                    THEN Over(call[d], "failed", << >>) ELSE call[d]],
         cache' = NoCall
  PROVE  \A d \in Calls : LoadOK(d)'
<1>1. cache = c /\ call \in [Calls -> CallState]
  BY DEF LoadOK, Shape
<1>2. ASSUME NEW d \in Joined \cup {c} PROVE call'[d].pc = "failed"
  <2>1. d \in Calls
    BY <1>2 DEF Joined
  <2>2. call[d] \in CallState /\ << >> \in Seq(Nat) /\ "failed" \in Ended
    BY <1>1, <2>1 DEF Ended
  <2>3. Over(call[d], "failed", << >>).pc = "failed"
    BY <2>2, OverIs
  <2> QED
    BY <1>2, <2>1, <2>3
<1>3. ASSUME NEW d \in Calls, d \notin Joined \cup {c}
      PROVE  /\ call'[d] = call[d]
             /\ call[d].pc # "joined"
             /\ ~(call[d].kind = "list" /\ call[d].pc \in Loading \cup {"done"})
  <2>1. LoadOK(d) /\ d # c /\ call[d].pc # "joined"
    BY <1>3 DEF Joined
  <2>2. call[cache].pc # "done"
    BY <1>1 DEF Loading
  <2> QED
    BY <1>1, <1>3, <2>1, <2>2 DEF LoadOK
<1>4. NoCall \notin Calls
  BY HttpAssumption
<1>5. ASSUME NEW d \in Calls PROVE LoadOK(d)'
  <2>1. CASE d \in Joined \cup {c}
    BY <1>2, <1>4, <2>1 DEF LoadOK, Loading
  <2>2. CASE d \notin Joined \cup {c}
    BY <1>3, <1>4, <2>2 DEF LoadOK
  <2> QED
    BY <2>1, <2>2
<1> QED
  BY <1>5

\* What an end leaves of the calls, whichever end it is.
LEMMA EndedCalls ==
  ASSUME Shape, QueueOK, \A d \in Calls : CreateOK(call[d]),
         NEW S \in SUBSET Calls, \A d \in S : call[d].pc # "queued",
         NEW pc \in Ended, NEW got \in Seq(Nat), queue' = queue,
         call' = [d \in Calls |-> IF d \in S THEN Over(call[d], pc, got) ELSE call[d]]
  PROVE  /\ call' \in [Calls -> CallState] /\ QueueOK'
         /\ \A d \in Calls : CreateOK(call[d])'
<1>1. ASSUME NEW state \in CallState
      PROVE  /\ Over(state, pc, got) \in CallState
             /\ Over(state, pc, got).pc = pc
             /\ Over(state, pc, got).kind = state.kind
             /\ Over(state, pc, got).sent = state.sent
  BY OverIs
<1>2. call \in [Calls -> CallState]
  BY DEF Shape
<1>3. call' \in [Calls -> CallState]
  BY <1>1, <1>2
<1>4. QueueOK'
  BY QueueStays
<1>5. ASSUME NEW d \in Calls PROVE CreateOK(call[d])'
  <2>1. CreateOK(call[d])
    OBVIOUS
  <2>2. CASE d \in S
    <3>1. call'[d].pc = pc /\ call'[d].kind = call[d].kind /\ call'[d].sent = call[d].sent
      BY <1>1, <1>2, <2>2
    <3> QED
      BY <2>1, <3>1 DEF CreateOK, Ended
  <2>3. CASE d \notin S
    BY <2>1, <2>3 DEF CreateOK
  <2> QED
    BY <2>2, <2>3
<1> QED
  BY <1>3, <1>4, <1>5

-----------------------------------------------------------------------------
(* The actions *)

\* A step of one call leaves what the others have sent alone.
LEMMA OneCreate ==
  ASSUME Shape, NEW c \in Calls, NEW e, call' = [call EXCEPT ![c] = e], CreateOK(e),
         \A d \in Calls : CreateOK(call[d])
  PROVE  \A d \in Calls : CreateOK(call[d])'
<1>1. call'[c] = e /\ \A d \in Calls \ {c} : call'[d] = call[d]
  BY DEF Shape
<1> QED
  BY <1>1 DEF CreateOK

\* A request that fails keeps the invariant.
LEMMA FailKeeps ==
  ASSUME HttpInv, NEW c \in Calls, call[c].pc \in {"granted", "sent"},
         Fail(c), UNCHANGED <<items, queue>>
  PROVE  HttpInv'
<1> DEFINE S == IF call[c].kind = "list" THEN Joined \cup {c} ELSE {c}
<1>1. /\ Shape /\ QueueOK /\ call[c].pc \in Loading /\ << >> \in Seq(Nat)
      /\ \A d \in Calls : CreateOK(call[d]) /\ LoadOK(d)
  BY DEF HttpInv, Loading
<1>2. /\ S \in SUBSET Calls /\ \A d \in S : call[d].pc # "queued"
      /\ call' = [d \in Calls |-> IF d \in S THEN Over(call[d], "failed", << >>) ELSE call[d]]
  BY DEF Fail, Joined
<1>3. /\ call' \in [Calls -> CallState] /\ QueueOK'
      /\ \A d \in Calls : CreateOK(call[d])'
  <2> HIDE DEF S
  <2> QED
    BY <1>1, <1>2, EndedCalls DEF Ended
<1>4. Shape'
  BY <1>1, <1>3 DEF Shape, Fail
<1>5. \A d \in Calls : LoadOK(d)'
  <2>1. CASE call[c].kind = "list"
    <3>1. cache' = NoCall
      BY <2>1 DEF Fail
    <3>2. call' = [d \in Calls |-> IF d \in Joined \cup {c}
                                     THEN Over(call[d], "failed", << >>) ELSE call[d]]
      BY <1>2, <2>1
    <3> QED
      BY <1>1, <2>1, <3>1, <3>2, ListFails
  <2>2. CASE call[c].kind # "list"
    <3> DEFINE e == Over(call[c], "failed", << >>)
    <3>1. call[c] \in CallState
      BY <1>1 DEF Shape
    <3>2. e \in CallState /\ e.kind = call[c].kind /\ e.pc = "failed"
      BY <1>1, <3>1, OverIs DEF Ended
    <3>3. call' = [call EXCEPT ![c] = e] /\ cache' = cache
      BY <1>1, <2>2 DEF Fail, Shape
    <3>4. cache # c
      BY <1>1, <2>2 DEF LoadOK
    <3> HIDE DEF e
    <3> QED
      BY <1>1, <2>2, <3>2, <3>3, <3>4, OtherMoves DEF Fail
  <2> QED
    BY <2>1, <2>2
<1> QED
  BY <1>3, <1>4, <1>5 DEF HttpInv

\* A step that leaves one call under way, in the queue or out of it.
LEMMA StepKeeps ==
  ASSUME HttpInv, NEW c \in Calls, NEW e \in CallState, call' = [call EXCEPT ![c] = e],
         call[c].pc \in Loading, e.pc \in Loading, e.kind = call[c].kind,
         e.had = call[c].had, e.kind = "list" => SoFar(e), CreateOK(e),
         QueueOK', queue' \in Seq(Calls), UNCHANGED <<cache, items>>
  PROVE  HttpInv'
<1>1. Shape'
  BY DEF HttpInv, Shape
<1>2. \A d \in Calls : CreateOK(call[d])'
  BY OneCreate DEF HttpInv
<1>3. \A d \in Calls : LoadOK(d)'
  BY GoesOn DEF HttpInv
<1> QED
  BY <1>1, <1>2, <1>3 DEF HttpInv

\* A call that waits for its slot or gets it keeps the invariant.
LEMMA SlotKeeps ==
  ASSUME HttpInv, NEW c \in Calls, WaitForSlot(c)
  PROVE  HttpInv'
<1> DEFINE e == [call[c] EXCEPT !.pc = "granted", !.slot = 0]
<1>1. /\ queue \in Seq(Calls) /\ queue # << >> /\ Head(queue) = c /\ queue' = Tail(queue)
      /\ call' = [call EXCEPT ![c] = e] /\ call[c] \in CallState
      /\ call \in [Calls -> CallState] /\ UNCHANGED <<cache, items>>
  BY DEF HttpInv, Shape, WaitForSlot
<1>2. /\ e \in CallState /\ e.pc = "granted" /\ e.kind = call[c].kind
      /\ e.had = call[c].had /\ e.got = call[c].got /\ e.page = call[c].page
      /\ e.sent = call[c].sent
  BY <1>1 DEF CallState, Loading
<1> HIDE DEF e
<1>3. /\ Len(queue) \in Nat \ {0} /\ DOMAIN queue = 1 .. Len(queue) /\ queue[1] = c
      /\ queue' \in Seq(Calls) /\ DOMAIN queue' = 1 .. Len(queue) - 1
      /\ \A i \in 1 .. Len(queue) - 1 : queue'[i] = queue[i + 1]
  BY <1>1
<1>4. call[c].pc = "queued"
  BY <1>3 DEF HttpInv, QueueOK
<1>5. QueueOK'
  <2>1. ASSUME NEW i \in DOMAIN queue'
        PROVE  i + 1 \in DOMAIN queue /\ queue'[i] = queue[i + 1] /\ queue'[i] # c
    <3>1. i + 1 \in DOMAIN queue /\ 1 \in DOMAIN queue /\ i + 1 # 1 /\ queue'[i] = queue[i + 1]
      BY <1>3, <2>1
    <3> QED
      BY <1>3, <3>1 DEF HttpInv, QueueOK
  <2>2. ASSUME NEW i \in DOMAIN queue' PROVE call'[queue'[i]].pc = "queued"
    <3>1. queue'[i] \in Calls \ {c}
      BY <1>3, <2>1, <2>2
    <3>2. call'[queue'[i]] = call[queue'[i]]
      BY <1>1, <3>1
    <3> QED
      BY <2>1, <2>2, <3>2 DEF HttpInv, QueueOK
  <2>3. ASSUME NEW i \in DOMAIN queue', NEW j \in DOMAIN queue', queue'[i] = queue'[j]
        PROVE  i = j
    <3>1. i + 1 = j + 1
      BY <2>1, <2>3 DEF HttpInv, QueueOK
    <3>2. i \in Nat /\ j \in Nat
      BY <1>3
    <3> QED
      BY <3>1, <3>2
  <2> QED
    BY <2>2, <2>3 DEF QueueOK
<1>6. CreateOK(e) /\ (e.kind = "list" => SoFar(e))
  <2>1. CreateOK(call[c]) /\ LoadOK(c)
    BY DEF HttpInv
  <2> QED
    BY <1>2, <1>4, <2>1 DEF CreateOK, LoadOK, SoFar, Loading
<1> QED
  BY <1>1, <1>2, <1>3, <1>4, <1>5, <1>6, StepKeeps DEF Loading

\* A request that goes out keeps the invariant.
LEMMA SendKeeps ==
  ASSUME HttpInv, NEW c \in Calls, Send(c)
  PROVE  HttpInv'
<1> DEFINE n == IF call[c].kind = "post" THEN call[c].sent + 1 ELSE call[c].sent
           e == [call[c] EXCEPT !.pc = "sent", !.slot = 0, !.sent = n]
<1>1. /\ call[c] \in CallState /\ call \in [Calls -> CallState] /\ call[c].pc = "granted"
      /\ queue \in Seq(Calls) /\ UNCHANGED <<queue, cache, items>>
  BY DEF HttpInv, Shape, Send
<1>2. call' = [call EXCEPT ![c] = e]
  BY <1>1 DEF Send, CallState
<1>3. n \in Nat
  BY <1>1 DEF CallState
<1>4. call[c].kind = "post" => n = 1
  BY <1>1 DEF HttpInv, CreateOK
<1> HIDE DEF n
<1>5. /\ e \in CallState /\ e.pc = "sent" /\ e.kind = call[c].kind
      /\ e.had = call[c].had /\ e.got = call[c].got /\ e.page = call[c].page
      /\ e.sent = n
  BY <1>1, <1>3 DEF CallState, Loading
<1> HIDE DEF e
<1>6. QueueOK'
  BY <1>1, <1>2, QueueStays DEF HttpInv
<1>7. CreateOK(e) /\ (e.kind = "list" => SoFar(e))
  <2>1. LoadOK(c)
    BY DEF HttpInv
  <2> QED
    BY <1>1, <1>4, <1>5, <2>1 DEF CreateOK, LoadOK, SoFar, Loading
<1> QED
  BY <1>1, <1>2, <1>5, <1>6, <1>7, StepKeeps DEF Loading

\* An answer that is read keeps the invariant.
LEMMA AnswerKeeps ==
  ASSUME HttpInv, NEW c \in Calls, Answer(c)
  PROVE  HttpInv'
<1> DEFINE got == call[c].got \o Page(call[c].page)
           e == [call[c] EXCEPT !.pc = "queued", !.page = call[c].page + 1, !.attempt = 0,
                                !.got = got]
<1>1. /\ call[c] \in CallState /\ call \in [Calls -> CallState] /\ call[c].pc = "sent"
      /\ queue \in Seq(Calls) /\ items \in Nat /\ UNCHANGED items
      /\ Shape /\ QueueOK /\ CreateOK(call[c]) /\ LoadOK(c)
      /\ \A d \in Calls : CreateOK(call[d]) /\ LoadOK(d)
  BY DEF HttpInv, Shape, Answer
<1>2. call[c].kind = "list" =>
        /\ cache = c /\ call[c].had <= items
        /\ got \in Seq(Nat) /\ \A n \in DOMAIN got : got[n] = n
        /\ Len(got) = IF call[c].page * PageSize <= items
                        THEN call[c].page * PageSize ELSE items
  BY <1>1, GotGrows DEF LoadOK, SoFar, Loading
<1>3. call[c].page \in Nat \ {0} /\ PageSize \in Nat \ {0} /\ call[c].page * PageSize \in Nat
  BY <1>1, HttpAssumption DEF CallState
<1>4. CASE call[c].kind = "list" /\ MorePages(call[c].page)
  <2> HIDE DEF got
  <2>1. Enqueue(c, e) /\ cache' = cache
    BY <1>4 DEF Answer, got
  <2>2. /\ e \in CallState /\ e.pc = "queued" /\ e.kind = call[c].kind
        /\ e.had = call[c].had /\ e.got = got /\ e.page = call[c].page + 1
    <3>1. got \in Seq(Nat) /\ call[c].page + 1 \in Nat \ {0} /\ call[c] \in CallState
      BY <1>1, <1>2, <1>3, <1>4
    <3> QED
      BY <3>1 DEF CallState, Loading
  <2>3. call' = [call EXCEPT ![c] = e]
    BY <2>1 DEF Enqueue
  <2> HIDE DEF e
  <2>4. QueueOK' /\ queue' \in Seq(Calls)
    BY <1>1, <2>1, <2>2, EnqueueKeeps
  <2>5. call[c].page * PageSize < items /\ Len(got) = call[c].page * PageSize
    BY <1>2, <1>3, <1>1, <1>4 DEF MorePages
  <2>6. (e.page - 1) * PageSize = Len(e.got)
    <3>1. e.page - 1 = call[c].page
      BY <1>3, <2>2
    <3> QED
      BY <2>2, <2>5, <3>1
  <2>7. SoFar(e) /\ CreateOK(e)
    BY <1>1, <1>2, <1>3, <1>4, <2>2, <2>5, <2>6 DEF SoFar, CreateOK
  <2> QED
    BY <1>1, <2>1, <2>2, <2>3, <2>4, <2>7, StepKeeps DEF Loading
<1>5. CASE call[c].kind = "list" /\ ~MorePages(call[c].page)
  <2> HIDE DEF got
  <2>1. Done(c, got) /\ UNCHANGED <<queue, cache>>
    BY <1>5 DEF Answer, Done, got
  <2>2. call' = [d \in Calls |-> IF d \in Joined \cup {c}
                                   THEN Over(call[d], "done", got) ELSE call[d]]
    BY <1>5, <2>1 DEF Done
  <2>3. Len(got) = items
    BY <1>1, <1>2, <1>3, <1>5 DEF MorePages
  <2>4. Joined \cup {c} \in SUBSET Calls /\ \A d \in Joined \cup {c} : call[d].pc # "queued"
    BY <1>1 DEF Joined
  <2>5. /\ call' \in [Calls -> CallState] /\ QueueOK'
        /\ \A d \in Calls : CreateOK(call[d])'
    BY <1>1, <1>2, <1>5, <2>1, <2>2, <2>4, EndedCalls DEF Ended
  <2>6. \A d \in Calls : LoadOK(d)'
    BY <1>1, <1>2, <1>5, <2>1, <2>2, <2>3, ListEnds DEF Loading
  <2>7. Shape'
    BY <1>1, <2>1, <2>5 DEF Shape
  <2> QED
    BY <2>5, <2>6, <2>7 DEF HttpInv
<1>6. CASE call[c].kind # "list"
  <2> DEFINE o == Over(call[c], "done", << >>)
  <2>1. Done(c, << >>) /\ UNCHANGED <<queue, cache>>
    BY <1>6 DEF Answer, Done
  <2>2. call' = [d \in Calls |-> IF d \in {c} THEN Over(call[d], "done", << >>) ELSE call[d]]
    BY <1>6, <2>1 DEF Done
  <2>3. << >> \in Seq(Nat) /\ {c} \in SUBSET Calls /\ \A d \in {c} : call[d].pc # "queued"
    BY <1>1
  <2>4. /\ call' \in [Calls -> CallState] /\ QueueOK'
        /\ \A d \in Calls : CreateOK(call[d])'
    BY <1>1, <2>1, <2>2, <2>3, EndedCalls DEF Ended
  <2>5. o \in CallState /\ o.kind = call[c].kind /\ o.pc = "done" /\ cache # c
    BY <1>1, <1>6, <2>3, OverIs DEF Ended, LoadOK
  <2>6. call' = [call EXCEPT ![c] = o]
    BY <1>1, <2>2
  <2> HIDE DEF o
  <2>7. \A d \in Calls : LoadOK(d)'
    BY <1>1, <1>6, <2>1, <2>5, <2>6, OtherMoves
  <2>8. Shape'
    BY <1>1, <2>1, <2>4 DEF Shape
  <2> QED
    BY <2>4, <2>7, <2>8 DEF HttpInv
<1> QED
  BY <1>4, <1>5, <1>6

\* An answer that asks to try again keeps the invariant.
LEMMA TransientKeeps ==
  ASSUME HttpInv, NEW c \in Calls, AnswerTransient(c)
  PROVE  HttpInv'
<1>1. /\ call[c] \in CallState /\ call \in [Calls -> CallState] /\ call[c].pc = "sent"
      /\ queue \in Seq(Calls) /\ UNCHANGED <<queue, items>>
      /\ Shape /\ QueueOK /\ CreateOK(call[c]) /\ LoadOK(c)
  BY DEF HttpInv, Shape, AnswerTransient
<1>2. CASE call[c].attempt < Retries(c)
  <2> DEFINE n == call[c].attempt + 1
             e == [call[c] EXCEPT !.pc = "backoff", !.attempt = n, !.wait = n]
  <2>1. n \in Nat /\ call[c].kind # "post"
    BY <1>1, <1>2 DEF CallState, Retries
  <2>2. call' = [call EXCEPT ![c] = e] /\ cache' = cache
    BY <1>1, <1>2 DEF AnswerTransient, CallState
  <2> HIDE DEF n
  <2>3. /\ e \in CallState /\ e.pc = "backoff" /\ e.kind = call[c].kind
        /\ e.had = call[c].had /\ e.got = call[c].got /\ e.page = call[c].page
    BY <1>1, <2>1 DEF CallState, Loading
  <2> HIDE DEF e
  <2>4. QueueOK'
    BY <1>1, <2>2, QueueStays
  <2>5. CreateOK(e) /\ (e.kind = "list" => SoFar(e))
    BY <1>1, <2>1, <2>3 DEF CreateOK, LoadOK, SoFar, Loading
  <2> QED
    BY <1>1, <2>2, <2>3, <2>4, <2>5, StepKeeps DEF Loading
<1>3. CASE ~(call[c].attempt < Retries(c))
  BY <1>1, <1>3, FailKeeps DEF AnswerTransient
<1> QED
  BY <1>2, <1>3

\* A call that wakes from its wait keeps the invariant.
LEMMA ResumeKeeps ==
  ASSUME HttpInv, NEW c \in Calls, Resume(c)
  PROVE  HttpInv'
<1> DEFINE e == [call[c] EXCEPT !.pc = "queued"]
<1>1. /\ call[c] \in CallState /\ call \in [Calls -> CallState] /\ call[c].pc = "backoff"
      /\ Enqueue(c, e) /\ UNCHANGED <<cache, items>>
      /\ Shape /\ QueueOK /\ CreateOK(call[c]) /\ LoadOK(c)
  BY DEF HttpInv, Shape, Resume
<1>2. /\ e \in CallState /\ e.pc = "queued" /\ e.kind = call[c].kind
      /\ e.had = call[c].had /\ e.got = call[c].got /\ e.page = call[c].page
  BY <1>1 DEF CallState, Loading
<1> HIDE DEF e
<1>3. QueueOK' /\ queue' \in Seq(Calls) /\ call' = [call EXCEPT ![c] = e]
  BY <1>1, <1>2, EnqueueKeeps DEF Enqueue
<1>4. CreateOK(e) /\ (e.kind = "list" => SoFar(e))
  BY <1>1, <1>2 DEF CreateOK, LoadOK, SoFar, Loading
<1> QED
  BY <1>1, <1>2, <1>3, <1>4, StepKeeps DEF Loading

\* A new call keeps the invariant.
LEMMA RequestKeeps ==
  ASSUME HttpInv, NEW c \in Calls, NEW kind \in Kinds \ {"list"}, Request(c, kind)
  PROVE  HttpInv'
<1> DEFINE e == [NotMade EXCEPT !.pc = "queued", !.kind = kind]
<1>1. /\ call[c] \in CallState /\ call \in [Calls -> CallState] /\ call[c].pc = "idle"
      /\ Enqueue(c, e) /\ UNCHANGED <<cache, items>>
      /\ Shape /\ QueueOK /\ LoadOK(c)
  BY DEF HttpInv, Shape, Request
<1>2. e \in CallState /\ e.pc = "queued" /\ e.kind = kind /\ e.sent = 0
  BY NotMadeIs DEF CallState, Loading
<1> HIDE DEF e
<1>3. /\ QueueOK' /\ queue' \in Seq(Calls) /\ call' = [call EXCEPT ![c] = e]
      /\ call' \in [Calls -> CallState]
  BY <1>1, <1>2, EnqueueKeeps DEF Enqueue
<1>4. cache # c
  BY <1>1 DEF LoadOK, Loading
<1>5. \A d \in Calls : LoadOK(d)'
  BY <1>1, <1>2, <1>3, <1>4, OtherMoves DEF HttpInv
<1>6. \A d \in Calls : CreateOK(call[d])'
  BY <1>1, <1>2, <1>3, OneCreate DEF HttpInv, CreateOK
<1> QED
  BY <1>1, <1>3, <1>5, <1>6 DEF HttpInv, Shape

\* Whoever reads a list the cache holds gets it, or joins those who wait for it.
LEMMA JoinKeeps ==
  ASSUME HttpInv, NEW c \in Calls, Cached(c), cache # NoCall
  PROVE  HttpInv' /\ call'[c].pc # "failed" /\ \A d \in Calls \ {c} : call'[d] = call[d]
<1> DEFINE pc == IF call[cache].pc \in Ended THEN call[cache].pc ELSE "joined"
           got == IF call[cache].pc = "done" THEN call[cache].got ELSE << >>
           e == [NotMade EXCEPT !.kind = "list", !.had = call[cache].had, !.pc = pc,
                                !.got = got]
<1>1. /\ call \in [Calls -> CallState] /\ call[c].pc = "idle"
      /\ cache \in Calls /\ UNCHANGED <<cache, items, queue>>
      /\ Shape /\ QueueOK /\ \A d \in Calls : LoadOK(d) /\ CreateOK(call[d])
  BY DEF HttpInv, Shape, Cached
<1>2. call' = [call EXCEPT ![c] = e]
  BY DEF Cached
<1>3. /\ call[cache] \in CallState /\ call[cache].kind = "list"
      /\ call[cache].pc \in Loading \cup {"done"} /\ cache # c
  BY <1>1 DEF LoadOK, Loading
<1>4. /\ pc \in {"joined", "done"}
      /\ pc = "done" <=> call[cache].pc = "done"
      /\ call[cache].pc = "done" => got = call[cache].got
      /\ got \in Seq(Nat) /\ call[cache].had \in Nat
  BY <1>3 DEF Loading, Ended, CallState
<1> HIDE DEF pc, got
<1>5. /\ e \in CallState /\ e.pc = pc /\ e.kind = "list"
      /\ e.had = call[cache].had /\ e.got = got
  <2>1. pc \in Loading \cup Ended \cup {"idle", "joined"} /\ "list" \in Kinds
    BY <1>4 DEF Ended, Kinds
  <2> QED
    BY <1>4, <2>1, NotMadeIs DEF CallState
<1> HIDE DEF e
<1>6. /\ call'[c] = e /\ call' \in [Calls -> CallState]
      /\ \A d \in Calls \ {c} : call'[d] = call[d]
  BY <1>1, <1>2, <1>5
<1>7. QueueOK'
  <2>1. \A d \in Calls : call[d].pc = "queued" => call'[d].pc = "queued"
    BY <1>1, <1>6
  <2> QED
    BY <1>1, <2>1, QueueStays
<1>8. \A d \in Calls : CreateOK(call[d])'
  BY <1>1, <1>2, <1>5, OneCreate DEF CreateOK
<1>9. LoadOK(c)'
  <2>1. call'[cache] = call[cache] /\ LoadOK(cache)
    BY <1>1, <1>3, <1>6
  <2>2. pc = "joined" => call[cache].pc \in Loading
    BY <1>3, <1>4 DEF Loading
  <2>3. pc = "done" => /\ call[cache].had <= Len(got)
                       /\ \A n \in DOMAIN got : got[n] = n
    BY <1>1, <1>3, <1>4, <2>1 DEF LoadOK
  <2> QED
    BY <1>1, <1>3, <1>4, <1>5, <1>6, <2>1, <2>2, <2>3 DEF LoadOK, Loading
<1>10. ASSUME NEW d \in Calls \ {c} PROVE LoadOK(d)'
  <2>1. call'[d] = call[d] /\ LoadOK(d) /\ call'[cache] = call[cache]
    BY <1>1, <1>3, <1>6
  <2>2. SoFar(call[d])' <=> SoFar(call[d])
    BY <1>1, <2>1 DEF SoFar
  <2> QED
    BY <1>1, <2>1, <2>2 DEF LoadOK
<1>11. Shape'
  BY <1>1, <1>6 DEF Shape
<1> QED
  BY <1>4, <1>5, <1>6, <1>7, <1>8, <1>9, <1>10, <1>11 DEF HttpInv

\* Whoever finds the cache empty loads the list.
LEMMA LoadKeeps ==
  ASSUME HttpInv, NEW c \in Calls, Cached(c), cache = NoCall
  PROVE  HttpInv' /\ call'[c].pc # "failed" /\ \A d \in Calls \ {c} : call'[d] = call[d]
<1> DEFINE e == [NotMade EXCEPT !.pc = "queued", !.kind = "list", !.had = items]
<1>1. /\ call \in [Calls -> CallState] /\ call[c].pc = "idle" /\ items \in Nat
      /\ cache' = c /\ Enqueue(c, e) /\ UNCHANGED items
      /\ Shape /\ QueueOK /\ \A d \in Calls : LoadOK(d) /\ CreateOK(call[d])
  BY DEF HttpInv, Shape, Cached
<1>2. /\ e \in CallState /\ e.pc = "queued" /\ e.kind = "list" /\ e.had = items
      /\ e.got = << >> /\ e.page = 1
  BY <1>1, NotMadeIs DEF CallState, Loading, Kinds
<1> HIDE DEF e
<1>3. /\ QueueOK' /\ queue' \in Seq(Calls) /\ call' = [call EXCEPT ![c] = e]
      /\ call' \in [Calls -> CallState] /\ call'[c] = e
  BY <1>1, <1>2, EnqueueKeeps DEF Enqueue
<1>4. \A d \in Calls \ {c} : call'[d] = call[d]
  BY <1>1, <1>3
<1>5. \A d \in Calls : CreateOK(call[d])'
  BY <1>1, <1>2, <1>3, OneCreate DEF CreateOK
<1>6. LoadOK(c)'
  <2>1. Len(e.got) = 0 /\ (e.page - 1) * PageSize = 0 /\ items <= items /\ 0 <= items
    BY <1>1, <1>2, HttpAssumption
  <2>2. SoFar(call[c])'
    BY <1>1, <1>2, <1>3, <2>1 DEF SoFar
  <2> QED
    BY <1>1, <1>2, <1>3, <2>2 DEF LoadOK, Loading
<1>7. ASSUME NEW d \in Calls \ {c} PROVE LoadOK(d)'
  <2>1. /\ call'[d] = call[d] /\ LoadOK(d) /\ NoCall \notin Calls
    BY <1>1, <1>4, HttpAssumption
  <2> QED
    BY <1>1, <2>1 DEF LoadOK
<1>8. Shape'
  BY <1>1, <1>3 DEF Shape
<1> QED
  BY <1>2, <1>3, <1>4, <1>5, <1>6, <1>7, <1>8 DEF HttpInv

\* Time and the books.
LEMMA TimeKeeps ==
  ASSUME HttpInv, Tick
  PROVE  HttpInv' /\ \A d \in Calls : call'[d].pc = call[d].pc
<1>1. /\ call \in [Calls -> CallState] /\ UNCHANGED <<items, queue, cache>>
      /\ Shape /\ QueueOK /\ \A d \in Calls : LoadOK(d) /\ CreateOK(call[d])
      /\ call' = [d \in Calls |->
           [call[d] EXCEPT !.wait = IF @ > 0 THEN @ - 1 ELSE 0,
                           !.slot = IF call[d].pc = "granted" THEN Aged(@) ELSE 0]]
  BY DEF HttpInv, Shape, Tick
<1>2. ASSUME NEW d \in Calls
      PROVE  /\ call'[d] \in CallState
             /\ call'[d].pc = call[d].pc /\ call'[d].kind = call[d].kind
             /\ call'[d].had = call[d].had /\ call'[d].got = call[d].got
             /\ call'[d].page = call[d].page /\ call'[d].sent = call[d].sent
  <2> DEFINE n == IF call[d].wait > 0 THEN call[d].wait - 1 ELSE 0
             a == IF call[d].pc = "granted" THEN Aged(call[d].slot) ELSE 0
  <2>1. call[d] \in CallState
    BY <1>1
  <2>2. n \in Nat /\ a \in Nat
    BY <2>1 DEF CallState, Aged
  <2>3. call'[d] = [call[d] EXCEPT !.wait = n, !.slot = a]
    BY <1>1, <2>1 DEF CallState
  <2> HIDE DEF n, a
  <2> QED
    BY <2>1, <2>2, <2>3 DEF CallState
<1>3. call' \in [Calls -> CallState]
  BY <1>1, <1>2
<1>4. QueueOK'
  BY <1>1, <1>2, QueueStays
<1>5. ASSUME NEW d \in Calls PROVE CreateOK(call[d])' /\ LoadOK(d)'
  <2>1. CreateOK(call[d])'
    BY <1>1, <1>2 DEF CreateOK
  <2>2. SoFar(call[d])' <=> SoFar(call[d])
    BY <1>1, <1>2 DEF SoFar
  <2>3. /\ cache' = cache /\ LoadOK(d)
        /\ cache \in Calls => /\ call'[cache].pc = call[cache].pc
                              /\ call'[cache].had = call[cache].had
                              /\ call'[cache].got = call[cache].got
    BY <1>1, <1>2
  <2>4. /\ call'[d].pc = call[d].pc /\ call'[d].kind = call[d].kind
        /\ call'[d].had = call[d].had /\ call'[d].got = call[d].got
    BY <1>2
  <2>5. LoadOK(d)'
    BY <2>2, <2>3, <2>4 DEF LoadOK
  <2> QED
    BY <2>1, <2>5
<1> QED
  BY <1>1, <1>2, <1>3, <1>4, <1>5 DEF HttpInv, Shape

\* An item added to the books while calls read them keeps the invariant.
LEMMA BooksKeep ==
  ASSUME HttpInv, AddItem
  PROVE  HttpInv'
<1>1. /\ UNCHANGED <<queue, cache, call>> /\ items \in Nat /\ items' = items + 1
      /\ call \in [Calls -> CallState]
  BY DEF HttpInv, Shape, AddItem
<1>2. Shape' /\ QueueOK' /\ \A d \in Calls : CreateOK(call[d])'
  BY <1>1 DEF HttpInv, Shape, QueueOK, CreateOK
<1>3. ASSUME NEW d \in Calls PROVE LoadOK(d)'
  <2>1. LoadOK(d) /\ call[d] \in CallState
    BY <1>1 DEF HttpInv
  <2>2. SoFar(call[d]) => SoFar(call[d])'
    BY <1>1, <2>1 DEF SoFar, CallState
  <2> QED
    BY <1>1, <2>1, <2>2 DEF LoadOK
<1> QED
  BY <1>2, <1>3 DEF HttpInv

\* The invariant holds before the first call.
LEMMA HttpInit == Init => HttpInv
<1> SUFFICES ASSUME Init PROVE HttpInv
  OBVIOUS
<1>1. /\ items = 0 /\ queue = << >> /\ cache = NoCall
      /\ call = [c \in Calls |-> NotMade]
  BY DEF Init
<1>2. NotMade \in CallState /\ NotMade.pc = "idle" /\ NotMade.kind = "get"
  BY NotMadeIs
<1>3. Shape /\ QueueOK
  BY <1>1, <1>2 DEF Shape, QueueOK
<1>4. ASSUME NEW c \in Calls PROVE CreateOK(call[c]) /\ LoadOK(c)
  <2>1. call[c].pc = "idle" /\ call[c].kind = "get" /\ cache # c
    BY <1>1, <1>2, HttpAssumption
  <2> QED
    BY <2>1 DEF CreateOK, LoadOK, Loading
<1> QED
  BY <1>3, <1>4 DEF HttpInv

\* Every step keeps the invariant.
LEMMA HttpNext == HttpInv /\ [Next]_vars => HttpInv'
<1> SUFFICES ASSUME HttpInv, [Next]_vars PROVE HttpInv'
  OBVIOUS
<1>1. ASSUME NEW c \in Calls, NEW kind \in Kinds \ {"list"}, Request(c, kind)
      PROVE  HttpInv'
  BY <1>1, RequestKeeps
<1>2. ASSUME NEW c \in Calls, Cached(c) PROVE HttpInv'
  BY <1>2, JoinKeeps, LoadKeeps
<1>3. ASSUME NEW c \in Calls, Step(c) PROVE HttpInv'
  <2>1. CASE CallFails(c)
    BY <2>1, FailKeeps DEF CallFails
  <2> QED
    BY <1>3, <2>1, SlotKeeps, SendKeeps, AnswerKeeps, TransientKeeps, ResumeKeeps DEF Step
<1>4. CASE Tick \/ AddItem
  BY <1>4, TimeKeeps, BooksKeep
<1>5. CASE UNCHANGED vars
  <2>1. UNCHANGED <<items, queue, cache, call>>
    BY <1>5 DEF vars
  <2> QED
    BY <2>1 DEF HttpInv, Shape, QueueOK, CreateOK, LoadOK, SoFar
<1> QED
  BY <1>1, <1>2, <1>3, <1>4, <1>5 DEF Next

-----------------------------------------------------------------------------
(* The window *)

\* The limiter drops the front of its stamps, exactly those out of the window.
LEMMA Shifted ==
  ASSUME NEW ages \in Seq(Nat), NEW limit \in Nat
  PROVE  LET n == Expired(ages, limit)
         IN  /\ n \in 0 .. Len(ages)
             /\ ShiftOff(ages, limit) = SubSeq(ages, n + 1, Len(ages))
             /\ \A k \in 1 .. n : ages[k] >= limit
             /\ n < Len(ages) => ages[n + 1] < limit
<1> DEFINE Gone(n) == /\ \A k \in 1 .. n : ages[k] >= limit
                      /\ n < Len(ages) => ages[n + 1] < limit
           Stops == {n \in 0 .. Len(ages) : n < Len(ages) => ages[n + 1] < limit}
<1>1. Len(ages) \in Nat /\ \A k \in 1 .. Len(ages) : ages[k] \in Nat
  OBVIOUS
<1>2. \E n \in 0 .. Len(ages) : Gone(n)
  <2>1. Len(ages) \in Stops /\ Stops \subseteq Nat
    BY <1>1
  <2>2. IsWellFoundedOn(OpToRel(<, Nat), Nat)
    BY NatLessThanWellFounded, Zenon
  <2>3. PICK m \in Stops : \A n \in Stops : ~(<<n, m>> \in OpToRel(<, Nat))
    BY <2>1, <2>2, WFMin, Zenon
  <2>4. ASSUME NEW n \in Stops PROVE ~(n < m)
    <3>1. ~(<<n, m>> \in {s \in Nat \X Nat : s[1] < s[2]})
      BY <2>3, Zenon DEF OpToRel
    <3> QED
      BY <2>1, <3>1
  <2>5. ASSUME NEW k \in 1 .. m PROVE ages[k] >= limit
    <3>1. k - 1 \in 0 .. Len(ages) /\ k - 1 < m /\ k \in 1 .. Len(ages)
      BY <1>1
    <3>2. k - 1 \notin Stops
      BY <1>1, <2>4, <3>1
    <3>3. (k - 1) + 1 = k
      BY <3>1
    <3> QED
      BY <1>1, <3>1, <3>2, <3>3
  <2> QED
    BY <1>1, <2>3, <2>5
<1> DEFINE n == Expired(ages, limit)
<1>3. n \in 0 .. Len(ages) /\ Gone(n)
  <2>1. n = CHOOSE m \in 0 .. Len(ages) : Gone(m)
    BY DEF Expired
  <2> HIDE DEF n, Gone
  <2> QED
    BY <1>2, <2>1
<1>4. ShiftOff(ages, limit) = SubSeq(ages, 1 + n, Len(ages))
  BY DEF ShiftOff
<1> HIDE DEF n
<1>5. ShiftOff(ages, limit) = SubSeq(ages, n + 1, Len(ages))
  BY <1>1, <1>3, <1>4
<1> QED
  BY <1>3, <1>5 DEF n

\* What is left of a sequence whose first n are shifted off.
LEMMA Rest ==
  ASSUME NEW ages \in Seq(Nat), NEW n \in 0 .. Len(ages)
  PROVE  LET rest == SubSeq(ages, n + 1, Len(ages))
         IN  /\ rest \in Seq(Nat) /\ Len(rest) = Len(ages) - n
             /\ \A i \in 1 .. Len(rest) : rest[i] = ages[i + n]
<1> DEFINE rest == SubSeq(ages, n + 1, Len(ages))
<1>1. Len(ages) \in Nat /\ n \in Nat /\ n <= Len(ages)
  OBVIOUS
<1>2. rest \in Seq(Nat) /\ Len(rest) = Len(ages) - n
  BY <1>1
<1>3. \A i \in 1 .. Len(ages) - n : rest[i] = ages[i + n]
  BY <1>1
<1> QED
  BY <1>2, <1>3

\* Every age grows by one, up to the window's; young ones were younger before.
LEMMA AgedIs ==
  ASSUME NEW age \in Nat
  PROVE  /\ Aged(age) \in Nat /\ Aged(age) >= 1 /\ Aged(age) >= age
         /\ \A k \in 1 .. windowTicks - 1 : Aged(age) <= k <=> age <= k - 1
         /\ \A other \in Nat : age <= other => Aged(age) <= Aged(other)
<1>1. windowTicks \in Nat \ {0}
  BY HttpAssumption
<1> QED
  BY <1>1 DEF Aged

Wire == [by: Calls, age: Nat, slot: Nat]

\* What is younger than k ticks: stamps s, requests w of the window, calls that
\* have a slot and have not sent.
Standing(s, k) == {i \in 1 .. Len(s) : s[i] <= k}
Used(w, k) == {n \in 1 .. Len(w) : w[n].slot <= k}
Granted == {c \in Calls : call[c].pc = "granted"}
Held(k) == {c \in Granted : call[c].slot <= k}

\* The young stamps, requests and calls are finitely many.
LEMMA FinitelyMany ==
  ASSUME NEW s \in Seq(Nat), NEW w \in Seq(Wire), NEW k \in Int
  PROVE  /\ IsFiniteSet(Standing(s, k)) /\ Cardinality(Standing(s, k)) \in Nat
         /\ Cardinality(Standing(s, k)) <= Len(s)
         /\ IsFiniteSet(Used(w, k)) /\ Cardinality(Used(w, k)) \in Nat
<1>1. Len(s) \in Nat /\ Len(w) \in Nat
  OBVIOUS
<1>2. /\ IsFiniteSet(1 .. Len(s)) /\ Cardinality(1 .. Len(s)) = Len(s)
      /\ IsFiniteSet(1 .. Len(w))
  <2>1. \A m \in Nat : IsFiniteSet(1 .. m) /\ Cardinality(1 .. m) = m
    <3> SUFFICES ASSUME NEW m \in Nat
                 PROVE  IsFiniteSet(1 .. m) /\ Cardinality(1 .. m) = m
      OBVIOUS
    <3>1. 1 \in Int /\ m \in Int
      OBVIOUS
    <3>2. IsFiniteSet(1 .. m) /\ Cardinality(1 .. m) = IF 1 > m THEN 0 ELSE m - 1 + 1
      BY <3>1, FS_Interval
    <3> QED
      BY <3>2
  <2> QED
    BY <1>1, <2>1
<1>3. Standing(s, k) \in SUBSET (1 .. Len(s)) /\ Used(w, k) \in SUBSET (1 .. Len(w))
  BY DEF Standing, Used
<1>4. /\ IsFiniteSet(Standing(s, k)) /\ Cardinality(Standing(s, k)) <= Len(s)
      /\ IsFiniteSet(Used(w, k))
  BY <1>2, <1>3, FS_Subset
<1> QED
  BY <1>4, FS_CardinalityType

\* A set moved along the integers, into another.
LEMMA Moved ==
  ASSUME NEW S \in SUBSET Int, NEW T, IsFiniteSet(T), NEW n \in Int,
         \A i \in S : i + n \in T
  PROVE  IsFiniteSet(S) /\ Cardinality(S) <= Cardinality(T)
<1> DEFINE f == [i \in S |-> i + n]
<1>1. f \in [S -> T]
  OBVIOUS
<1>2. \A i, j \in S : f[i] = f[j] => i = j
  OBVIOUS
<1>3. f \in Injection(S, T)
  BY <1>1, <1>2 DEF Injection, IsInjective
<1> HIDE DEF f
<1> QED
  BY <1>3, FS_Injection

\* A slot taken is a stamp more; none of those younger than the window goes.
LEMMA SlotTaken ==
  ASSUME NEW s \in Seq(Nat), Len(Fresh(s)) < maxRequests
  PROVE  LET t == Append(Fresh(s), 0)
         IN  /\ t \in Seq(Nat) /\ Len(t) <= maxRequests
             /\ \A k \in 0 .. windowTicks - 1 :
                  Cardinality(Standing(s, k)) + 1 <= Cardinality(Standing(t, k))
<1> DEFINE n == Expired(s, windowTicks)
           f == Fresh(s)
           t == Append(f, 0)
<1>1. Len(s) \in Nat /\ maxRequests \in Nat /\ windowTicks \in Nat
  BY HttpAssumption
<1>2. /\ n \in 0 .. Len(s) /\ f = SubSeq(s, n + 1, Len(s))
      /\ \A k \in 1 .. n : s[k] >= windowTicks
  BY <1>1, Shifted DEF Fresh
<1> HIDE DEF n
<1>3. /\ f \in Seq(Nat) /\ Len(f) = Len(s) - n
      /\ \A i \in 1 .. Len(f) : f[i] = s[i + n]
  BY <1>2, Rest
<1>4. Len(f) < maxRequests
  OBVIOUS
<1> HIDE DEF f
<1>5. /\ t \in Seq(Nat) /\ Len(t) = Len(s) - n + 1
      /\ \A i \in 1 .. Len(s) - n : t[i] = s[i + n]
      /\ t[Len(s) - n + 1] = 0
  BY <1>1, <1>2, <1>3
<1> HIDE DEF t
<1>6. ASSUME NEW k \in 0 .. windowTicks - 1
      PROVE  Cardinality(Standing(s, k)) + 1 <= Cardinality(Standing(t, k))
  <2> DEFINE rest == Standing(t, k) \ {Len(t)}
  <2>1. IsFiniteSet(Standing(t, k)) /\ Cardinality(Standing(t, k)) \in Nat
    <3>1. k \in Int
      OBVIOUS
    <3>2. << >> \in Seq(Wire)
      OBVIOUS
    <3> QED
      BY <1>5, <3>1, <3>2, FinitelyMany
  <2>2. Len(t) \in Standing(t, k)
    <3>1. Len(t) \in 1 .. Len(t) /\ t[Len(t)] = 0 /\ k >= 0
      BY <1>1, <1>2, <1>5
    <3> QED
      BY <3>1 DEF Standing
  <2>3. IsFiniteSet(rest) /\ Cardinality(rest) = Cardinality(Standing(t, k)) - 1
    BY <2>1, <2>2, FS_RemoveElement
  <2>4. ASSUME NEW i \in Standing(s, k) PROVE i + (-n) \in rest
    <3>1. i \in 1 .. Len(s) /\ s[i] <= k /\ s[i] \in Nat
      BY <2>4 DEF Standing
    <3>2. ~(s[i] >= windowTicks)
      BY <1>1, <3>1
    <3>3. i > n
      BY <1>1, <1>2, <3>1, <3>2
    <3>4. /\ i - n \in 1 .. Len(s) - n /\ (i - n) + n = i /\ i + (-n) = i - n
          /\ i - n \in 1 .. Len(t) /\ i - n # Len(t)
      <4>1. i \in Int /\ n \in Int /\ Len(s) \in Int /\ i > n /\ i <= Len(s)
        BY <1>1, <1>2, <3>1, <3>3
      <4>2. Len(t) = Len(s) - n + 1
        BY <1>5
      <4> QED
        BY <4>1, <4>2
    <3>5. t[i - n] = s[i]
      BY <1>5, <3>4
    <3> QED
      BY <3>1, <3>4, <3>5 DEF Standing
  <2>5. Standing(s, k) \in SUBSET Int /\ -n \in Int
    BY <1>1, <1>2 DEF Standing
  <2>6. Cardinality(Standing(s, k)) <= Cardinality(rest)
    <3> HIDE DEF rest
    <3> QED
      BY <2>3, <2>4, <2>5, Moved
  <2>7. Cardinality(Standing(s, k)) \in Nat
    <3>1. k \in Int /\ << >> \in Seq(Wire)
      OBVIOUS
    <3> QED
      BY <3>1, FinitelyMany
  <2> HIDE DEF rest
  <2> QED
    BY <2>1, <2>3, <2>6, <2>7
<1>7. Len(t) <= maxRequests
  BY <1>1, <1>2, <1>3, <1>4, <1>5
<1> QED
  BY <1>5, <1>6, <1>7 DEF t, f

\* A tick later, what is k ticks old or younger is what was younger than that.
LEMMA StampsAge ==
  ASSUME NEW s \in Seq(Nat)
  PROVE  /\ Older(s) \in Seq(Nat) /\ Len(Older(s)) = Len(s)
         /\ \A k \in 1 .. windowTicks - 1 : Standing(Older(s), k) = Standing(s, k - 1)
<1>1. Len(s) \in Nat /\ DOMAIN s = 1 .. Len(s) /\ \A i \in 1 .. Len(s) : s[i] \in Nat
  OBVIOUS
<1>2. /\ Older(s) \in Seq(Nat) /\ Len(Older(s)) = Len(s)
      /\ \A i \in 1 .. Len(s) : Older(s)[i] = Aged(s[i])
  <2>1. Older(s) = [i \in 1 .. Len(s) |-> Aged(s[i])]
    BY <1>1 DEF Older
  <2>2. \A i \in 1 .. Len(s) : Aged(s[i]) \in Nat
    BY <1>1, AgedIs
  <2> QED
    BY <1>1, <2>1, <2>2
<1>3. ASSUME NEW k \in 1 .. windowTicks - 1, NEW i \in 1 .. Len(s)
      PROVE  Older(s)[i] <= k <=> s[i] <= k - 1
  BY <1>1, <1>2, <1>3, AgedIs
<1> QED
  BY <1>2, <1>3 DEF Standing

\* A tick later the requests are those before, all a tick older, less the oldest.
LEMMA WireAges ==
  ASSUME wire \in Seq(Wire)
  PROVE  \E n \in 0 .. Len(wire) :
           /\ OlderWire \in Seq(Wire) /\ Len(OlderWire) = Len(wire) - n
           /\ \A i \in 1 .. Len(wire) - n :
                /\ OlderWire[i].by = wire[i + n].by
                /\ OlderWire[i].age = Aged(wire[i + n].age)
                /\ OlderWire[i].slot = Aged(wire[i + n].slot)
           /\ Len(OlderWire) > 0 => OlderWire[1].age < windowTicks
<1> DEFINE older == [m \in DOMAIN wire |-> [wire[m] EXCEPT !.age = Aged(@), !.slot = Aged(@)]]
           ages == [m \in DOMAIN wire |-> older[m].age]
           n == Expired(ages, windowTicks)
<1>1. /\ Len(wire) \in Nat /\ DOMAIN wire = 1 .. Len(wire) /\ windowTicks \in Nat
      /\ \A m \in 1 .. Len(wire) : wire[m] \in Wire
  BY HttpAssumption
<1>2. ASSUME NEW m \in 1 .. Len(wire)
      PROVE  /\ older[m] \in Wire /\ older[m].by = wire[m].by
             /\ older[m].age = Aged(wire[m].age) /\ older[m].slot = Aged(wire[m].slot)
  <2>1. Aged(wire[m].age) \in Nat /\ Aged(wire[m].slot) \in Nat
    BY <1>1, AgedIs DEF Wire
  <2>2. older[m] = [wire[m] EXCEPT !.age = Aged(wire[m].age), !.slot = Aged(wire[m].slot)]
    BY <1>1 DEF Wire
  <2> HIDE DEF older
  <2> QED
    BY <1>1, <2>1, <2>2 DEF Wire
<1>3. older \in Seq(Wire) /\ Len(older) = Len(wire)
  <2>1. older = [m \in 1 .. Len(wire) |-> older[m]]
    BY <1>1
  <2> HIDE DEF older
  <2> QED
    BY <1>1, <1>2, <2>1
<1>4. ages \in Seq(Nat) /\ Len(ages) = Len(wire)
      /\ \A m \in 1 .. Len(wire) : ages[m] = older[m].age
  <2>1. \A m \in 1 .. Len(wire) : older[m].age \in Nat
    BY <1>2 DEF Wire
  <2> HIDE DEF older
  <2> QED
    BY <1>1, <2>1
<1>5. OlderWire = SubSeq(older, 1 + n, Len(older))
  BY DEF OlderWire
<1> HIDE DEF older, ages
<1>6. n \in 0 .. Len(wire) /\ (n < Len(wire) => ages[n + 1] < windowTicks)
  BY <1>1, <1>4, Shifted
<1> HIDE DEF n
<1>7. /\ OlderWire \in Seq(Wire) /\ Len(OlderWire) = Len(wire) - n
      /\ \A i \in 1 .. Len(wire) - n : OlderWire[i] = older[i + n]
  BY <1>1, <1>3, <1>5, <1>6
<1>8. ASSUME NEW i \in 1 .. Len(wire) - n
      PROVE  /\ OlderWire[i].by = wire[i + n].by
             /\ OlderWire[i].age = Aged(wire[i + n].age)
             /\ OlderWire[i].slot = Aged(wire[i + n].slot)
  <2>1. i + n \in 1 .. Len(wire)
    BY <1>1, <1>6
  <2> QED
    BY <1>2, <1>7, <2>1
<1>9. Len(OlderWire) > 0 => OlderWire[1].age < windowTicks
  <2> SUFFICES ASSUME Len(OlderWire) > 0 PROVE OlderWire[1].age < windowTicks
    OBVIOUS
  <2>1. 1 \in 1 .. Len(wire) - n /\ 1 + n = n + 1 /\ n + 1 \in 1 .. Len(wire) /\ n < Len(wire)
    BY <1>1, <1>6, <1>7
  <2>2. OlderWire[1] = older[n + 1] /\ ages[n + 1] = older[n + 1].age
    BY <1>4, <1>7, <2>1
  <2> QED
    BY <1>6, <2>1, <2>2
<1> QED
  BY <1>6, <1>7, <1>8, <1>9

\* A tick later no more requests have a slot so young than had a younger one.
LEMMA UsedAge ==
  ASSUME wire \in Seq(Wire), NEW k \in 0 .. windowTicks - 1
  PROVE  /\ k = 0 => Used(OlderWire, k) = {}
         /\ k > 0 => Cardinality(Used(OlderWire, k)) <= Cardinality(Used(wire, k - 1))
<1>1. PICK n \in 0 .. Len(wire) :
        /\ OlderWire \in Seq(Wire) /\ Len(OlderWire) = Len(wire) - n
        /\ \A i \in 1 .. Len(wire) - n : OlderWire[i].slot = Aged(wire[i + n].slot)
  BY WireAges
<1>2. Len(wire) \in Nat /\ \A i \in 1 .. Len(wire) : wire[i].slot \in Nat
  <2>1. Len(wire) \in Nat /\ \A i \in 1 .. Len(wire) : wire[i] \in Wire
    OBVIOUS
  <2> QED
    BY <2>1 DEF Wire
<1>3. ASSUME NEW i \in Used(OlderWire, k)
      PROVE  /\ i \in 1 .. Len(wire) - n /\ i + n \in 1 .. Len(wire)
             /\ Aged(wire[i + n].slot) <= k
  BY <1>1, <1>2 DEF Used
<1>4. ASSUME k = 0 PROVE Used(OlderWire, k) = {}
  <2> SUFFICES ASSUME NEW i \in Used(OlderWire, k) PROVE FALSE
    OBVIOUS
  <2>1. wire[i + n].slot \in Nat /\ Aged(wire[i + n].slot) <= 0
    BY <1>2, <1>3, <1>4
  <2>2. Aged(wire[i + n].slot) \in Nat /\ Aged(wire[i + n].slot) >= 1
    BY <2>1, AgedIs
  <2> QED
    BY <2>1, <2>2
<1>5. ASSUME k > 0
      PROVE  Cardinality(Used(OlderWire, k)) <= Cardinality(Used(wire, k - 1))
  <2>1. ASSUME NEW i \in Used(OlderWire, k) PROVE i + n \in Used(wire, k - 1)
    <3>1. /\ i + n \in 1 .. Len(wire) /\ wire[i + n].slot \in Nat
          /\ Aged(wire[i + n].slot) <= k /\ k \in 1 .. windowTicks - 1
      BY <1>2, <1>3, <1>5, <2>1
    <3>2. wire[i + n].slot <= k - 1
      BY <3>1, AgedIs
    <3> QED
      BY <3>1, <3>2 DEF Used
  <2>2. k - 1 \in Int /\ << >> \in Seq(Nat)
    OBVIOUS
  <2>3. IsFiniteSet(Used(wire, k - 1))
    BY <2>2, FinitelyMany
  <2>4. Used(OlderWire, k) \in SUBSET Int
    BY DEF Used
  <2>5. n \in Int
    BY <1>1
  <2> DEFINE S == Used(OlderWire, k)
             T == Used(wire, k - 1)
  <2>6. S \in SUBSET Int /\ IsFiniteSet(T) /\ \A i \in S : i + n \in T
    BY <2>1, <2>3, <2>4
  <2> HIDE DEF S, T
  <2>7. Cardinality(S) <= Cardinality(T)
    BY <2>5, <2>6, Moved
  <2> QED
    BY <2>7 DEF S, T
<1> QED
  BY <1>4, <1>5

\* The requests of the window are in the order in which they went out; a call
\* takes its next slot after its last request.
InTurn ==
  /\ Len(wire) > 0 => wire[1].age < windowTicks
  /\ \A i, j \in 1 .. Len(wire) : i < j =>
       /\ wire[j].age <= wire[i].age
       /\ wire[i].by = wire[j].by => wire[j].slot <= wire[i].age
  /\ \A c \in Granted : \A i \in 1 .. Len(wire) :
       wire[i].by = c => call[c].slot <= wire[i].age

\* Every slot of a call or of a request younger than the window has its stamp.
Covered(k) ==
  Cardinality(Held(k)) + Cardinality(Used(wire, k)) <= Cardinality(Standing(stamps, k))

WindowInv ==
  /\ stamps \in Seq(Nat) /\ Len(stamps) <= maxRequests
  /\ wire \in Seq(Wire)
  /\ IsFiniteSet(Granted)
  /\ InTurn
  /\ \A k \in 0 .. windowTicks - 1 : Covered(k)

\* The window invariant holds in the initial state.
LEMMA NothingSent == Init => WindowInv
<1> SUFFICES ASSUME Init PROVE WindowInv
  OBVIOUS
<1>1. Granted = {}
  BY NotMadeIs DEF Init, Granted
<1>2. IsFiniteSet(Granted) /\ Cardinality({}) = 0
  BY <1>1, FS_EmptySet
<1>3. stamps = << >> /\ wire = << >> /\ maxRequests \in Nat
  BY HttpAssumption DEF Init
<1>4. InTurn
  BY <1>3 DEF InTurn
<1>5. ASSUME NEW k PROVE Covered(k)
  <2>1. Held(k) = {}
    BY <1>1 DEF Held
  <2>2. Used(wire, k) = {} /\ Standing(stamps, k) = {}
    BY <1>3 DEF Used, Standing
  <2> QED
    BY <1>2, <2>1, <2>2 DEF Covered
<1> QED
  BY <1>2, <1>3, <1>4, <1>5 DEF WindowInv

\* The calls that hold young slots are finitely many.
LEMMA HeldFinite ==
  ASSUME IsFiniteSet(Granted), NEW k
  PROVE  IsFiniteSet(Held(k)) /\ Cardinality(Held(k)) \in Nat
<1>1. Held(k) \in SUBSET Granted
  BY DEF Held
<1>2. IsFiniteSet(Held(k))
  BY <1>1, FS_Subset
<1> QED
  BY <1>2, FS_CardinalityType

\* The step does nothing to the slot of the call d.
SlotStays(d) ==
  \/ call'[d] = call[d]
  \/ call'[d].pc # "granted" /\ call[d].pc # "granted"

\* A step that takes or uses no slot keeps the window invariant.
LEMMA NoSlotMoves ==
  ASSUME WindowInv, UNCHANGED <<stamps, wire>>, \A d \in Calls : SlotStays(d)
  PROVE  WindowInv'
<1>1. Granted' = Granted /\ \A d \in Granted : call'[d] = call[d]
  BY DEF Granted, SlotStays
<1>2. \A k : Held(k)' = Held(k)
  BY <1>1 DEF Held
<1>3. InTurn'
  BY <1>1 DEF WindowInv, InTurn
<1>4. \A k \in 0 .. windowTicks - 1 : Covered(k)'
  BY <1>2 DEF WindowInv, Covered
<1> QED
  BY <1>1, <1>3, <1>4 DEF WindowInv

\* The slot of the call c is used or given up.
LEMMA SlotGoes ==
  ASSUME NEW c \in Calls, IsFiniteSet(Granted), call[c].pc = "granted",
         call'[c].pc # "granted", \A d \in Calls \ {c} : SlotStays(d)
  PROVE  /\ Granted' = Granted \ {c} /\ IsFiniteSet(Granted')
         /\ \A d \in Granted \ {c} : call'[d] = call[d]
         /\ \A k : Held(k)' = Held(k) \ {c}
<1>1. Granted' = Granted \ {c} /\ \A d \in Granted \ {c} : call'[d] = call[d]
  BY DEF Granted, SlotStays
<1>2. IsFiniteSet(Granted')
  BY <1>1, FS_RemoveElement
<1>3. \A k : Held(k)' = Held(k) \ {c}
  BY <1>1 DEF Held
<1> QED
  BY <1>1, <1>2, <1>3

\* A slot that is given up is not handed out before its stamp expires.
LEMMA SlotGivenUp ==
  ASSUME WindowInv, NEW c \in Calls, UNCHANGED <<stamps, wire>>, call[c].pc = "granted",
         call'[c].pc # "granted", \A d \in Calls \ {c} : SlotStays(d)
  PROVE  WindowInv'
<1>1. /\ Granted' = Granted \ {c} /\ IsFiniteSet(Granted')
      /\ \A d \in Granted \ {c} : call'[d] = call[d]
      /\ \A k : Held(k)' = Held(k) \ {c}
  BY SlotGoes DEF WindowInv
<1>2. InTurn'
  BY <1>1 DEF WindowInv, InTurn
<1>3. ASSUME NEW k \in 0 .. windowTicks - 1 PROVE Covered(k)'
  <2>1. IsFiniteSet(Held(k)) /\ Cardinality(Held(k)) \in Nat
    BY HeldFinite DEF WindowInv
  <2>2. Held(k) \ {c} \in SUBSET Held(k)
    OBVIOUS
  <2>3. Cardinality(Held(k) \ {c}) <= Cardinality(Held(k)) /\ IsFiniteSet(Held(k) \ {c})
    BY <2>1, <2>2, FS_Subset
  <2>4. Cardinality(Held(k) \ {c}) \in Nat
    BY <2>3, FS_CardinalityType
  <2>5. Cardinality(Used(wire, k)) \in Nat /\ Cardinality(Standing(stamps, k)) \in Nat
    BY FinitelyMany DEF WindowInv
  <2>6. Covered(k)' <=> Cardinality(Held(k) \ {c}) + Cardinality(Used(wire, k))
                          <= Cardinality(Standing(stamps, k))
    BY <1>1 DEF Covered
  <2> QED
    BY <2>1, <2>3, <2>4, <2>5, <2>6 DEF WindowInv, Covered
<1> QED
  BY <1>1, <1>2, <1>3 DEF WindowInv

\* A slot that is taken has a new stamp and is younger than all its call sent.
LEMMA SlotComes ==
  ASSUME WindowInv, NEW c \in Calls, call[c].pc # "granted",
         call'[c].pc = "granted", call'[c].slot = 0,
         \A d \in Calls \ {c} : call'[d] = call[d],
         Len(Fresh(stamps)) < maxRequests,
         stamps' = Append(Fresh(stamps), 0), wire' = wire
  PROVE  WindowInv'
<1>1. c \notin Granted /\ Granted' = Granted \cup {c}
  BY DEF Granted
<1>2. IsFiniteSet(Granted')
  BY <1>1, FS_AddElement DEF WindowInv
<1>3. /\ stamps' \in Seq(Nat) /\ Len(stamps') <= maxRequests
      /\ \A k \in 0 .. windowTicks - 1 :
           Cardinality(Standing(stamps, k)) + 1 <= Cardinality(Standing(stamps', k))
  BY SlotTaken DEF WindowInv
<1>4. \A i \in 1 .. Len(wire) : wire[i].age \in Nat
  <2>1. \A i \in 1 .. Len(wire) : wire[i] \in Wire
    BY DEF WindowInv
  <2> QED
    BY <2>1 DEF Wire
<1>5. InTurn'
  <2>1. \A d \in Granted' : \A i \in 1 .. Len(wire) :
          wire[i].by = d => call'[d].slot <= wire[i].age
    <3> SUFFICES ASSUME NEW d \in Granted', NEW i \in 1 .. Len(wire), wire[i].by = d
                 PROVE  call'[d].slot <= wire[i].age
      OBVIOUS
    <3>1. CASE d = c
      BY <1>4, <3>1
    <3>2. CASE d # c
      BY <1>1, <3>2 DEF Granted, WindowInv, InTurn
    <3> QED
      BY <3>1, <3>2
  <2> QED
    BY <2>1 DEF WindowInv, InTurn
<1>6. ASSUME NEW k \in 0 .. windowTicks - 1 PROVE Covered(k)'
  <2>1. Held(k)' = Held(k) \cup {c} /\ c \notin Held(k)
    BY <1>1 DEF Held, Granted
  <2>2. IsFiniteSet(Held(k)) /\ Cardinality(Held(k)) \in Nat
    BY HeldFinite DEF WindowInv
  <2>3. Cardinality(Held(k)') = Cardinality(Held(k)) + 1
    BY <2>1, <2>2, FS_AddElement
  <2>4. /\ Cardinality(Used(wire, k)) \in Nat /\ Cardinality(Standing(stamps, k)) \in Nat
        /\ Cardinality(Standing(stamps', k)) \in Nat
    <3>1. stamps \in Seq(Nat) /\ stamps' \in Seq(Nat) /\ wire \in Seq(Wire) /\ k \in Int
      BY <1>3 DEF WindowInv
    <3> QED
      BY <3>1, FinitelyMany
  <2>5. Covered(k)' <=> Cardinality(Held(k)') + Cardinality(Used(wire, k))
                          <= Cardinality(Standing(stamps', k))
    BY DEF Covered
  <2>6. Covered(k) /\ Cardinality(Standing(stamps, k)) + 1 <= Cardinality(Standing(stamps', k))
    BY <1>3 DEF WindowInv
  <2> QED
    BY <2>2, <2>3, <2>4, <2>5, <2>6 DEF Covered
<1> QED
  BY <1>2, <1>3, <1>5, <1>6 DEF WindowInv

\* A request that goes out takes the slot of its call with it.
LEMMA SlotUsed ==
  ASSUME WindowInv, NEW c \in Calls, call[c].pc = "granted", call[c].slot \in Nat,
         call'[c].pc # "granted", \A d \in Calls \ {c} : call'[d] = call[d],
         stamps' = stamps,
         wire' = Append(wire, [by |-> c, age |-> 0, slot |-> call[c].slot])
  PROVE  WindowInv'
<1> DEFINE new == [by |-> c, age |-> 0, slot |-> call[c].slot]
           len == Len(wire)
<1>1. /\ Granted' = Granted \ {c} /\ IsFiniteSet(Granted')
      /\ \A d \in Granted \ {c} : call'[d] = call[d]
      /\ \A k : Held(k)' = Held(k) \ {c}
  <2>1. IsFiniteSet(Granted) /\ \A d \in Calls \ {c} : SlotStays(d)
    BY DEF WindowInv, SlotStays
  <2> QED
    BY <2>1, SlotGoes
<1>2. new \in Wire /\ new.by = c /\ new.age = 0 /\ new.slot = call[c].slot
  BY DEF Wire
<1> HIDE DEF new
<1>3. /\ wire \in Seq(Wire) /\ wire' = Append(wire, new) /\ len \in Nat
      /\ wire' \in Seq(Wire) /\ Len(wire') = len + 1
      /\ \A i \in 1 .. len : wire'[i] = wire[i]
      /\ wire'[len + 1] = new
  BY <1>2 DEF WindowInv, new
<1>4. \A i \in 1 .. len : wire[i].age \in Nat
  <2>1. \A i \in 1 .. len : wire[i] \in Wire
    BY <1>3
  <2> QED
    BY <2>1 DEF Wire
<1> HIDE DEF len
<1>5. c \in Granted
  BY DEF Granted
<1>6. InTurn'
  <2>1. Len(wire') > 0 => wire'[1].age < windowTicks
    <3>1. CASE len = 0
      BY <1>2, <1>3, <3>1, HttpAssumption
    <3>2. CASE len > 0
      BY <1>3, <3>2 DEF WindowInv, InTurn, len
    <3> QED
      BY <1>3, <3>1, <3>2
  <2>2. ASSUME NEW i \in 1 .. len + 1, NEW j \in 1 .. len + 1, i < j
        PROVE  /\ wire'[j].age <= wire'[i].age
               /\ wire'[i].by = wire'[j].by => wire'[j].slot <= wire'[i].age
    <3>1. i \in 1 .. len /\ wire'[i] = wire[i]
      BY <1>3, <2>2
    <3>2. CASE j = len + 1
      <4>1. wire'[j] = new /\ wire[i].age \in Nat
        BY <1>3, <1>4, <3>1, <3>2
      <4>2. wire[i].by = c => call[c].slot <= wire[i].age
        BY <1>5, <3>1 DEF WindowInv, InTurn, len
      <4>3. /\ wire'[j].age = 0 /\ wire'[j].by = c /\ wire'[j].slot = call[c].slot
            /\ wire'[i].age = wire[i].age /\ wire'[i].by = wire[i].by
        BY <1>2, <3>1, <4>1
      <4>4. 0 <= wire[i].age
        BY <4>1
      <4> HIDE DEF new
      <4> QED
        BY <4>2, <4>3, <4>4, Zenon
    <3>3. CASE j \in 1 .. len
      BY <1>3, <2>2, <3>1, <3>3 DEF WindowInv, InTurn, len
    <3> QED
      BY <1>3, <3>2, <3>3
  <2>3. ASSUME NEW d \in Granted \ {c}, NEW i \in 1 .. len + 1, wire'[i].by = d
        PROVE  call'[d].slot <= wire'[i].age
    <3>1. i \in 1 .. len /\ wire'[i] = wire[i]
      BY <1>2, <1>3, <2>3
    <3> QED
      BY <1>1, <2>3, <3>1 DEF WindowInv, InTurn, len
  <2> QED
    BY <1>1, <1>3, <2>1, <2>2, <2>3 DEF InTurn
<1>7. ASSUME NEW k \in 0 .. windowTicks - 1 PROVE Covered(k)'
  <2>1. /\ IsFiniteSet(Held(k)) /\ Cardinality(Held(k)) \in Nat
        /\ IsFiniteSet(Used(wire, k)) /\ Cardinality(Used(wire, k)) \in Nat
        /\ Cardinality(Standing(stamps, k)) \in Nat
    <3>1. /\ stamps \in Seq(Nat) /\ wire \in Seq(Wire) /\ k \in Int
          /\ IsFiniteSet(Granted)
      BY DEF WindowInv
    <3> QED
      BY <3>1, HeldFinite, FinitelyMany
  <2>2. Covered(k)' <=> Cardinality(Held(k) \ {c}) + Cardinality(Used(wire', k))
                          <= Cardinality(Standing(stamps, k))
    BY <1>1 DEF Covered
  <2>3. Covered(k)
    BY DEF WindowInv
  <2>4. CASE call[c].slot <= k
    <3>1. c \in Held(k)
      BY <1>5, <2>4 DEF Held
    <3>2. Cardinality(Held(k) \ {c}) = Cardinality(Held(k)) - 1
      BY <2>1, <3>1, FS_RemoveElement
    <3>3. len + 1 \notin Used(wire, k)
      BY <1>3 DEF Used, len
    <3>4. Used(wire', k) = Used(wire, k) \cup {len + 1}
      <4>1. \A i : i \in 1 .. len + 1 <=> i \in 1 .. len \/ i = len + 1
        BY <1>3
      <4>2. ASSUME NEW i PROVE i \in Used(wire', k) <=> i \in Used(wire, k) \cup {len + 1}
        BY <1>2, <1>3, <2>4, <4>1 DEF Used, len
      <4> QED
        BY <4>2
    <3>5. Cardinality(Used(wire', k)) = Cardinality(Used(wire, k)) + 1
      BY <2>1, <3>3, <3>4, FS_AddElement
    <3> QED
      BY <2>1, <2>2, <2>3, <3>2, <3>5 DEF Covered
  <2>5. CASE ~(call[c].slot <= k)
    <3>1. Held(k) \ {c} = Held(k)
      BY <2>5 DEF Held
    <3>2. Used(wire', k) = Used(wire, k)
      <4>1. \A i : i \in 1 .. len + 1 <=> i \in 1 .. len \/ i = len + 1
        BY <1>3
      <4>2. ASSUME NEW i PROVE i \in Used(wire', k) <=> i \in Used(wire, k)
        BY <1>2, <1>3, <2>5, <4>1 DEF Used, len
      <4> QED
        BY <4>2
    <3> QED
      BY <2>2, <2>3, <3>1, <3>2 DEF Covered
  <2> QED
    BY <2>4, <2>5
<1> QED
  BY <1>1, <1>3, <1>6, <1>7 DEF WindowInv

\* Time ages the slots of calls and requests with their stamps.
LEMMA TimePasses ==
  ASSUME HttpInv, WindowInv, Tick
  PROVE  WindowInv'
<1>1. /\ stamps' = Older(stamps) /\ wire' = OlderWire
      /\ stamps \in Seq(Nat) /\ wire \in Seq(Wire) /\ Len(stamps) <= maxRequests
      /\ IsFiniteSet(Granted) /\ InTurn
      /\ call \in [Calls -> CallState]
      /\ windowTicks \in Nat
  BY HttpAssumption DEF Tick, WindowInv, HttpInv, Shape
<1>2. ASSUME NEW d \in Granted
      PROVE  /\ d \in Calls /\ call[d].slot \in Nat
             /\ call'[d].slot = Aged(call[d].slot)
  <2>1. d \in Calls /\ call[d] \in CallState /\ call[d].pc = "granted"
    BY <1>1, <1>2 DEF Granted
  <2>2. call'[d] = [call[d] EXCEPT !.wait = IF call[d].wait > 0 THEN call[d].wait - 1 ELSE 0,
                                   !.slot = Aged(call[d].slot)]
    BY <1>1, <2>1 DEF Tick, CallState
  <2> QED
    BY <2>1, <2>2 DEF CallState
<1>3. Granted' = Granted
  BY TimeKeeps DEF Granted
<1>4. /\ stamps' \in Seq(Nat) /\ Len(stamps') = Len(stamps)
      /\ \A k \in 1 .. windowTicks - 1 : Standing(stamps', k) = Standing(stamps, k - 1)
  BY <1>1, StampsAge
<1>5. PICK n \in 0 .. Len(wire) :
        /\ wire' \in Seq(Wire) /\ Len(wire') = Len(wire) - n
        /\ \A i \in 1 .. Len(wire) - n :
             /\ wire'[i].by = wire[i + n].by
             /\ wire'[i].age = Aged(wire[i + n].age)
             /\ wire'[i].slot = Aged(wire[i + n].slot)
        /\ Len(wire') > 0 => wire'[1].age < windowTicks
  BY <1>1, WireAges
<1>6. ASSUME NEW i \in 1 .. Len(wire')
      PROVE  /\ i + n \in 1 .. Len(wire)
             /\ wire'[i].by = wire[i + n].by
             /\ wire'[i].age = Aged(wire[i + n].age)
             /\ wire'[i].slot = Aged(wire[i + n].slot)
             /\ wire[i + n].age \in Nat /\ wire[i + n].slot \in Nat
  <2>1. i \in 1 .. Len(wire) - n /\ i + n \in 1 .. Len(wire)
    BY <1>1, <1>5
  <2>2. wire[i + n] \in Wire
    BY <1>1, <2>1
  <2> QED
    BY <1>5, <2>1, <2>2 DEF Wire
<1>7. InTurn'
  <2>1. ASSUME NEW i \in 1 .. Len(wire'), NEW j \in 1 .. Len(wire'), i < j
        PROVE  /\ wire'[j].age <= wire'[i].age
               /\ wire'[i].by = wire'[j].by => wire'[j].slot <= wire'[i].age
    <3>1. i + n \in 1 .. Len(wire) /\ j + n \in 1 .. Len(wire) /\ i + n < j + n
      <4>1. n \in Int
        BY <1>1
      <4> QED
        BY <1>6, <2>1, <4>1
    <3>2. /\ wire[j + n].age <= wire[i + n].age
          /\ wire[i + n].by = wire[j + n].by => wire[j + n].slot <= wire[i + n].age
      BY <1>1, <3>1 DEF InTurn
    <3>3. Aged(wire[j + n].age) <= Aged(wire[i + n].age)
      BY <1>6, <3>2, AgedIs
    <3>4. wire[j + n].slot <= wire[i + n].age
            => Aged(wire[j + n].slot) <= Aged(wire[i + n].age)
      BY <1>6, AgedIs
    <3> QED
      BY <1>6, <3>2, <3>3, <3>4
  <2>2. ASSUME NEW d \in Granted, NEW i \in 1 .. Len(wire'), wire'[i].by = d
        PROVE  call'[d].slot <= wire'[i].age
    <3>1. call[d].slot <= wire[i + n].age
      BY <1>1, <1>6, <2>2 DEF InTurn
    <3>2. Aged(call[d].slot) <= Aged(wire[i + n].age)
      BY <1>2, <1>6, <3>1, AgedIs
    <3> QED
      BY <1>2, <1>6, <3>2
  <2> QED
    BY <1>3, <1>5, <2>1, <2>2 DEF InTurn
<1>8. ASSUME NEW k \in 0 .. windowTicks - 1 PROVE Covered(k)'
  <2> SUFFICES Cardinality(Held(k)') + Cardinality(Used(wire', k))
                 <= Cardinality(Standing(stamps', k))
    BY DEF Covered
  <2>1. k \in Int /\ Cardinality(Standing(stamps', k)) \in Nat
    BY <1>4, <1>5, FinitelyMany
  <2>2. CASE k = 0
    <3>1. Held(k)' = {}
      <4> SUFFICES ASSUME NEW d \in Granted, call'[d].slot <= 0 PROVE FALSE
        BY <1>3, <2>2 DEF Held
      <4>1. Aged(call[d].slot) \in Nat /\ Aged(call[d].slot) >= 1
        BY <1>2, AgedIs
      <4> QED
        BY <1>2, <4>1
    <3>2. Used(wire', k) = {}
      BY <1>1, <2>2, UsedAge
    <3>3. Cardinality({}) = 0
      BY FS_EmptySet
    <3> QED
      BY <2>1, <3>1, <3>2, <3>3
  <2>3. CASE k > 0
    <3>1. k \in 1 .. windowTicks - 1 /\ k - 1 \in 0 .. windowTicks - 1 /\ k - 1 \in Int
      BY <1>1, <2>3
    <3>2. Held(k)' = Held(k - 1)
      <4>1. \A d \in Granted : call'[d].slot <= k <=> call[d].slot <= k - 1
        BY <1>2, <3>1, AgedIs
      <4> QED
        BY <1>3, <4>1 DEF Held
    <3>3. Cardinality(Used(wire', k)) <= Cardinality(Used(wire, k - 1))
      BY <1>1, <2>3, UsedAge
    <3>4. Standing(stamps', k) = Standing(stamps, k - 1)
      BY <1>4, <3>1
    <3>5. Cardinality(Held(k - 1)) + Cardinality(Used(wire, k - 1))
            <= Cardinality(Standing(stamps, k - 1))
      BY <3>1 DEF WindowInv, Covered
    <3>6. /\ Cardinality(Used(wire', k)) \in Nat /\ Cardinality(Used(wire, k - 1)) \in Nat
          /\ Cardinality(Standing(stamps, k - 1)) \in Nat
      BY <1>1, <1>5, <2>1, <3>1, FinitelyMany
    <3>7. Cardinality(Held(k - 1)) \in Nat
      BY <1>1, HeldFinite
    <3> QED
      BY <3>2, <3>3, <3>4, <3>5, <3>6, <3>7
  <2> QED
    BY <2>2, <2>3
<1> QED
  BY <1>1, <1>3, <1>4, <1>5, <1>7, <1>8 DEF WindowInv

\* Every step keeps the window invariant.
LEMMA WindowNext ==
  ASSUME HttpInv, WindowInv, [Next]_vars
  PROVE  WindowInv'
<1>1. /\ call \in [Calls -> CallState] /\ queue \in Seq(Calls)
      /\ \A d \in Calls : call[d].slot \in Nat
  BY DEF HttpInv, Shape, CallState
<1>2. ASSUME NEW c \in Calls, NEW e, Enqueue(c, e), e.pc = "queued",
             call[c].pc # "granted", UNCHANGED <<stamps, wire>>
      PROVE  WindowInv'
  <2>1. \A d \in Calls : SlotStays(d)
    BY <1>1, <1>2 DEF Enqueue, SlotStays
  <2> QED
    BY <1>2, <2>1, NoSlotMoves
<1>3. ASSUME NEW c \in Calls, NEW kind \in Kinds \ {"list"}, Request(c, kind)
      PROVE  WindowInv'
  <2>1. [NotMade EXCEPT !.pc = "queued", !.kind = kind].pc = "queued"
    BY DEF NotMade
  <2> QED
    BY <1>2, <1>3, <2>1 DEF Request
<1>4. ASSUME NEW c \in Calls, Cached(c) PROVE WindowInv'
  <2>1. call[c].pc = "idle" /\ UNCHANGED <<stamps, wire>>
    BY <1>4 DEF Cached
  <2>2. \A d \in Calls \ {c} : call'[d] = call[d]
    BY <1>4, JoinKeeps, LoadKeeps
  <2>3. call'[c].pc # "granted"
    <3>1. CASE cache = NoCall
      <4>1. [NotMade EXCEPT !.pc = "queued", !.kind = "list", !.had = items].pc = "queued"
        BY DEF NotMade
      <4> QED
        BY <1>1, <1>4, <3>1, <4>1 DEF Cached, Enqueue
    <3>2. CASE cache # NoCall
      <4> DEFINE pc == IF call[cache].pc \in Ended THEN call[cache].pc ELSE "joined"
                 got == IF call[cache].pc = "done" THEN call[cache].got ELSE << >>
                 e == [NotMade EXCEPT !.kind = "list", !.had = call[cache].had,
                                      !.pc = pc, !.got = got]
      <4>1. call' = [call EXCEPT ![c] = e]
        BY <1>4, <3>2 DEF Cached
      <4>2. e.pc = pc /\ pc # "granted"
        BY DEF NotMade, Ended
      <4> HIDE DEF e, pc
      <4> QED
        BY <1>1, <4>1, <4>2
    <3> QED
      BY <3>1, <3>2
  <2>4. \A d \in Calls : SlotStays(d)
    BY <2>1, <2>2, <2>3 DEF SlotStays
  <2> QED
    BY <2>1, <2>4, NoSlotMoves
<1>5. ASSUME NEW c \in Calls, Step(c) PROVE WindowInv'
  <2>1. CASE WaitForSlot(c)
    <3>1. call[c].pc = "queued"
      <4>1. 1 \in DOMAIN queue /\ queue[1] = c
        BY <1>1, <2>1 DEF WaitForSlot
      <4> QED
        BY <4>1 DEF HttpInv, QueueOK
    <3>2. /\ call' = [call EXCEPT ![c] = [call[c] EXCEPT !.pc = "granted", !.slot = 0]]
          /\ Len(Fresh(stamps)) < maxRequests
          /\ stamps' = Append(Fresh(stamps), 0) /\ wire' = wire
      BY <1>1, <2>1 DEF WaitForSlot, CallState
    <3>3. /\ call'[c].pc = "granted" /\ call'[c].slot = 0
          /\ \A d \in Calls \ {c} : call'[d] = call[d]
      BY <1>1, <3>2 DEF CallState
    <3> QED
      BY <3>1, <3>2, <3>3, SlotComes
  <2>2. CASE Send(c)
    <3>1. /\ call[c].pc = "granted" /\ stamps' = stamps
          /\ wire' = Append(wire, [by |-> c, age |-> 0, slot |-> call[c].slot])
          /\ call' = [call EXCEPT ![c] = call'[c]] /\ call'[c].pc = "sent"
      BY <1>1, <2>2 DEF Send, CallState
    <3>2. call'[c].pc # "granted" /\ \A d \in Calls \ {c} : call'[d] = call[d]
      BY <1>1, <3>1
    <3> QED
      BY <1>1, <3>1, <3>2, SlotUsed
  <2>3. ASSUME Fail(c), UNCHANGED <<stamps, wire>>, call[c].pc = "granted"
        PROVE  WindowInv'
    <3>1. ASSUME NEW d \in Calls
          PROVE  \/ call'[d] = Over(call[d], "failed", << >>)
                 \/ call'[d] = call[d] /\ d # c
      BY <2>3 DEF Fail
    <3>2. \A d \in Calls : Over(call[d], "failed", << >>).pc # "granted"
      BY <1>1 DEF Over, CallState
    <3>3. \A d \in Calls \ {c} : SlotStays(d)
      <4> SUFFICES ASSUME NEW d \in Calls \ {c}, call'[d] # call[d]
                   PROVE  call[d].pc # "granted" /\ call'[d].pc # "granted"
        BY DEF SlotStays
      <4>1. call[d].pc # "granted"
        BY <2>3 DEF Fail, Joined
      <4> QED
        BY <3>1, <3>2, <4>1
    <3>4. call'[c].pc # "granted"
      BY <3>1, <3>2
    <3> QED
      BY <2>3, <3>3, <3>4, SlotGivenUp
  <2>4. ASSUME NEW pc \in Ended, NEW got, NEW who \in SUBSET Calls,
               \A d \in who : call[d].pc # "granted", UNCHANGED <<stamps, wire>>,
               call' = [d \in Calls |-> IF d \in who THEN Over(call[d], pc, got) ELSE call[d]]
        PROVE  WindowInv'
    <3>1. \A d \in Calls : Over(call[d], pc, got).pc = pc
      BY <1>1 DEF Over, CallState
    <3>2. \A d \in Calls : SlotStays(d)
      BY <2>4, <3>1 DEF Ended, SlotStays
    <3> QED
      BY <2>4, <3>2, NoSlotMoves
  <2>5. ASSUME Fail(c), UNCHANGED <<stamps, wire>>, call[c].pc = "sent"
        PROVE  WindowInv'
    <3> DEFINE who == {d \in Calls : d = c \/ (call[c].kind = "list" /\ d \in Joined)}
    <3>1. call' = [d \in Calls |-> IF d \in who THEN Over(call[d], "failed", << >>)
                                                ELSE call[d]]
      BY <2>5 DEF Fail
    <3>2. who \in SUBSET Calls /\ \A d \in who : call[d].pc # "granted"
      BY <2>5 DEF Joined
    <3> HIDE DEF who
    <3> QED
      BY <2>4, <2>5, <3>1, <3>2 DEF Ended
  <2>6. CASE CallFails(c)
    BY <2>3, <2>5, <2>6 DEF CallFails
  <2>7. CASE AnswerTransient(c)
    <3>1. call[c].pc = "sent" /\ UNCHANGED <<stamps, wire>>
      BY <2>7 DEF AnswerTransient
    <3>2. CASE call[c].attempt < Retries(c)
      <4>1. call'[c].pc = "backoff" /\ \A d \in Calls \ {c} : call'[d] = call[d]
        BY <1>1, <2>7, <3>2 DEF AnswerTransient, CallState
      <4>2. \A d \in Calls : SlotStays(d)
        BY <3>1, <4>1 DEF SlotStays
      <4> QED
        BY <3>1, <4>2, NoSlotMoves
    <3>3. CASE ~(call[c].attempt < Retries(c))
      BY <2>5, <2>7, <3>1, <3>3 DEF AnswerTransient
    <3> QED
      BY <3>2, <3>3
  <2>8. CASE Answer(c)
    <3>1. call[c].pc = "sent" /\ UNCHANGED <<stamps, wire>>
      BY <2>8 DEF Answer
    <3>2. CASE call[c].kind = "list" /\ MorePages(call[c].page)
      <4> DEFINE got == call[c].got \o Page(call[c].page)
                 e == [call[c] EXCEPT !.pc = "queued", !.page = @ + 1,
                                      !.attempt = 0, !.got = got]
      <4>1. Enqueue(c, e)
        BY <2>8, <3>2 DEF Answer
      <4>2. e.pc = "queued"
        BY <1>1 DEF CallState
      <4> HIDE DEF e
      <4> QED
        BY <1>2, <3>1, <4>1, <4>2
    <3>3. CASE ~(call[c].kind = "list" /\ MorePages(call[c].page))
      <4> DEFINE got == call[c].got \o Page(call[c].page)
                 what == IF call[c].kind = "list" THEN got ELSE << >>
                 who == IF call[c].kind = "list" THEN Joined \cup {c} ELSE {c}
      <4>1. Done(c, what)
        BY <2>8, <3>3 DEF Answer
      <4> HIDE DEF what
      <4>2. call' = [d \in Calls |-> IF d \in who THEN Over(call[d], "done", what)
                                                  ELSE call[d]]
        BY <4>1 DEF Done
      <4>3. who \in SUBSET Calls /\ \A d \in who : call[d].pc # "granted"
        BY <3>1 DEF Joined
      <4> HIDE DEF who
      <4> QED
        BY <2>4, <3>1, <4>2, <4>3 DEF Ended
    <3> QED
      BY <3>2, <3>3
  <2>9. CASE Resume(c)
    <3>1. [call[c] EXCEPT !.pc = "queued"].pc = "queued"
      BY <1>1 DEF CallState
    <3> QED
      BY <1>2, <2>9, <3>1 DEF Resume
  <2> QED
    BY <1>5, <2>1, <2>2, <2>6, <2>7, <2>8, <2>9 DEF Step
<1>6. CASE Tick
  BY <1>6, TimePasses
<1>7. CASE AddItem \/ UNCHANGED vars
  <2>1. UNCHANGED <<stamps, wire, call>>
    BY <1>7 DEF AddItem, vars
  <2>2. \A d \in Calls : SlotStays(d)
    BY <2>1 DEF SlotStays
  <2> QED
    BY <2>1, <2>2, NoSlotMoves
<1> QED
  BY <1>3, <1>4, <1>5, <1>6, <1>7 DEF Next

-----------------------------------------------------------------------------
(* The theorems *)

\* A create is on the wire once at most, whatever is answered and whoever else
\* is under way.
THEOREM CreatesGoOutOnce == Spec => []CreateSentOnce
<1>1. HttpInv => CreateSentOnce
  BY DEF HttpInv, CreateOK, CreateSentOnce
<1> QED
  BY <1>1, HttpInit, HttpNext, PTL DEF Spec

\* All who read the cached list of an adapter read the same, and the whole of
\* it, however its pages were retried and its loads failed before.
THEOREM ReadersReadTheSame == Spec => []ReadersAgree
<1>1. HttpInv => ReadersAgree
  <2> SUFFICES ASSUME HttpInv PROVE ReadersAgree
    OBVIOUS
  <2>1. \A c \in Calls : call[c].kind = "list" /\ call[c].pc = "done" =>
          /\ call[c].got = call[cache].got /\ call[c].got \in Seq(Nat) /\ call[c].had \in Nat
          /\ call[c].had <= Len(call[c].got)
          /\ \A n \in DOMAIN call[c].got : call[c].got[n] = n
    BY DEF HttpInv, LoadOK, Shape, CallState
  <2> QED
    BY <2>1 DEF ReadersAgree
<1> QED
  BY <1>1, HttpInit, HttpNext, PTL DEF Spec

\* No read that starts after a load has failed fails by it.
THEOREM FailuresAreForgotten == Spec => FailureNotCached
<1> DEFINE Sound == \A c \in Calls : call[c].pc = "idle" => call'[c].pc # "failed"
<1>1. HttpInv /\ [Next]_vars => [Sound]_vars
  <2> SUFFICES ASSUME HttpInv, Next PROVE Sound
    OBVIOUS
  <2>1. call \in [Calls -> CallState]
    BY DEF HttpInv, Shape
  <2>2. ASSUME NEW c \in Calls, NEW kind \in Kinds, Request(c, kind) PROVE Sound
    <3>1. \A k \in Kinds : [NotMade EXCEPT !.pc = "queued", !.kind = k].pc = "queued"
      BY DEF NotMade
    <3> QED
      BY <2>1, <2>2, <3>1 DEF Request, Enqueue
  <2>3. ASSUME NEW c \in Calls, Cached(c) PROVE Sound
    BY <2>3, JoinKeeps, LoadKeeps
  <2>4. ASSUME NEW c \in Calls, Step(c) PROVE Sound
    <3> SUFFICES ASSUME NEW d \in Calls, call[d].pc = "idle" PROVE call'[d] = call[d]
      OBVIOUS
    <3>1. c # d
      <4>1. CASE WaitForSlot(c)
        <5>1. queue \in Seq(Calls) /\ queue # << >> /\ Head(queue) = c
          BY <4>1 DEF HttpInv, Shape, WaitForSlot
        <5>2. 1 \in DOMAIN queue /\ queue[1] = c
          BY <5>1
        <5> QED
          BY <5>2 DEF HttpInv, QueueOK
      <4> QED
        BY <2>4, <4>1 DEF Step, Send, Answer, AnswerTransient, Resume, CallFails
    <3>2. d \notin Joined
      BY DEF Joined
    <3> QED
      BY <2>1, <2>4, <3>1, <3>2 DEF Step, WaitForSlot, Send, Answer, AnswerTransient,
         Resume, CallFails, Enqueue, Done, Fail
  <2>5. CASE Tick
    BY <2>5, TimeKeeps
  <2>6. CASE AddItem
    BY <2>6 DEF AddItem
  <2> QED
    BY <2>2, <2>3, <2>4, <2>5, <2>6 DEF Next
<1> QED
  BY <1>1, HttpInit, HttpNext, PTL DEF Spec, FailureNotCached

\* However long tokens take, the requests of a window are no more than those
\* whose slot is of the window, at most maxRequests, and one for each call that
\* came late: a call takes its next slot after its last request.
THEOREM WindowIsKept == Spec => []WindowKept
<1>1. WindowInv => WindowKept
  <2> SUFFICES ASSUME WindowInv PROVE WindowKept
    OBVIOUS
  <2> DEFINE late == {m \in 1 .. Len(wire) : wire[m].slot >= windowTicks}
             k == windowTicks - 1
             by == [m \in late |-> wire[m].by]
  <2>1. /\ windowTicks \in Nat \ {0} /\ maxRequests \in Nat
        /\ stamps \in Seq(Nat) /\ Len(stamps) <= maxRequests /\ Len(stamps) \in Nat
        /\ wire \in Seq(Wire) /\ Len(wire) \in Nat /\ DOMAIN wire = 1 .. Len(wire)
        /\ IsFiniteSet(Granted) /\ InTurn
        /\ k \in Int /\ Covered(k)
    BY HttpAssumption DEF WindowInv
  <2>2. \A m \in 1 .. Len(wire) : wire[m].slot \in Nat /\ wire[m].age \in Nat
    <3>1. \A m \in 1 .. Len(wire) : wire[m] \in Wire
      BY <2>1
    <3> QED
      BY <3>1 DEF Wire
  <2>3. Cardinality(Used(wire, k)) \in Nat /\ Cardinality(Used(wire, k)) <= maxRequests
    <3>1. /\ Cardinality(Used(wire, k)) \in Nat /\ Cardinality(Held(k)) \in Nat
          /\ Cardinality(Standing(stamps, k)) \in Nat
          /\ Cardinality(Standing(stamps, k)) <= Len(stamps)
      BY <2>1, FinitelyMany, HeldFinite
    <3>2. Cardinality(Held(k)) + Cardinality(Used(wire, k)) <= Cardinality(Standing(stamps, k))
      BY <2>1 DEF Covered
    <3> HIDE DEF k
    <3> QED
      BY <2>1, <3>1, <3>2
  <2>4. IsFiniteSet(1 .. Len(wire)) /\ Cardinality(1 .. Len(wire)) = Len(wire)
    <3>1. 1 \in Int /\ Len(wire) \in Int
      BY <2>1
    <3>2. /\ IsFiniteSet(1 .. Len(wire))
          /\ Cardinality(1 .. Len(wire)) = IF 1 > Len(wire) THEN 0 ELSE Len(wire) - 1 + 1
      BY <3>1, FS_Interval
    <3> QED
      BY <2>1, <3>2
  <2>5. IsFiniteSet(late) /\ IsFiniteSet(Used(wire, k))
    <3>1. late \in SUBSET (1 .. Len(wire)) /\ Used(wire, k) \in SUBSET (1 .. Len(wire))
      BY DEF Used
    <3> QED
      BY <2>4, <3>1, FS_Subset
  <2>6. Used(wire, k) \cup late = 1 .. Len(wire) /\ Used(wire, k) \cap late = {}
    <3>1. \A m \in 1 .. Len(wire) : ~(wire[m].slot <= k) <=> wire[m].slot >= windowTicks
      BY <2>1, <2>2
    <3> QED
      BY <3>1 DEF Used
  <2>7. Len(wire) = Cardinality(Used(wire, k)) + Cardinality(late)
    <3>1. Cardinality({}) = 0
      BY FS_EmptySet
    <3>2. /\ Cardinality(Used(wire, k) \cup late) = Cardinality(Used(wire, k))
             + Cardinality(late) - Cardinality(Used(wire, k) \cap late)
          /\ Cardinality(late) \in Nat
      BY <2>5, FS_Union, FS_CardinalityType
    <3> HIDE DEF late, k
    <3>3. /\ Cardinality(Used(wire, k) \cup late) = Len(wire)
          /\ Cardinality(Used(wire, k) \cap late) = 0
      BY <2>4, <2>6, <3>1
    <3> QED
      BY <2>1, <2>3, <3>2, <3>3
  <2>8. \A i, j \in late : wire[i].by = wire[j].by => i = j
    <3>1. ASSUME NEW i \in 1 .. Len(wire), NEW j \in late, i < j, wire[i].by = wire[j].by
          PROVE  FALSE
      <4>1. 1 \in 1 .. Len(wire) /\ wire[1].age < windowTicks /\ i \in Nat
        BY <2>1, <3>1 DEF InTurn
      <4>2. wire[i].age <= wire[1].age
        <5>1. CASE i = 1
          BY <2>2, <4>1, <5>1
        <5>2. CASE i # 1
          BY <2>1, <3>1, <4>1, <5>2 DEF InTurn
        <5> QED
          BY <5>1, <5>2
      <4>3. wire[j].slot <= wire[i].age /\ wire[j].slot >= windowTicks
        BY <2>1, <3>1 DEF InTurn
      <4> QED
        BY <2>1, <2>2, <3>1, <4>1, <4>2, <4>3
    <3> SUFFICES ASSUME NEW i \in late, NEW j \in late, wire[i].by = wire[j].by PROVE i = j
      OBVIOUS
    <3>2. ~(i < j) /\ ~(j < i)
      BY <3>1
    <3> QED
      BY <3>2
  <2>9. Cardinality(late) <= Cardinality(Late) /\ Cardinality(late) \in Nat
        /\ Cardinality(Late) \in Nat
    <3>1. Late = {wire[m].by : m \in late}
      BY <2>1 DEF Late
    <3> HIDE DEF late
    <3>2. by \in [late -> Late] /\ \A b \in Late : \E m \in late : by[m] = b
      BY <3>1
    <3>3. \A i, j \in late : by[i] = by[j] => i = j
      BY <2>8
    <3>4. by \in Surjection(late, Late) /\ by \in Injection(late, Late)
      BY <3>2, <3>3 DEF Surjection, Injection, IsInjective
    <3> HIDE DEF by
    <3>5. IsFiniteSet(Late) /\ Cardinality(Late) = Cardinality(late)
      BY <2>5, <3>4, FS_Surjection
    <3>6. Cardinality(late) \in Nat
      BY <2>5, FS_CardinalityType
    <3> QED
      BY <3>5, <3>6
  <2> HIDE DEF late, k
  <2> QED
    BY <2>1, <2>3, <2>7, <2>9 DEF WindowKept
<1>2. Init => HttpInv /\ WindowInv
  BY HttpInit, NothingSent
<1>3. HttpInv /\ WindowInv /\ [Next]_vars => HttpInv' /\ WindowInv'
  BY HttpNext, WindowNext
<1> QED
  BY <1>1, <1>2, <1>3, PTL DEF Spec
=============================================================================
