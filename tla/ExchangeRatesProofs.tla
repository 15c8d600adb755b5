------------------------- MODULE ExchangeRatesProofs -------------------------
(***************************************************************************)
(* The safety properties of the exchange rates, for any sets of requests,  *)
(* tasks and pairs and any number of moves and retries.                    *)
(***************************************************************************)
EXTENDS ExchangeRates, TLAPS

USE DEF outside

\* Storing is the part that requests and tasks share.
Storing == {"put_cache", "find_row", "flush", "commit"}
OnPair  == {"find_row", "flush", "commit"}

\* A step of actor a.
StepOf(a) ==
  \/ a \in Requests /\ (Submit(a) \/ GetRate(a))
  \/ a \in Tasks /\ (Enqueue(a) \/ FetchAll(a))
  \/ Persist(a) \/ Crash(a)

Outside == (\E p \in Pairs : Expire(p)) \/ Move \/ Settle

LEMMA Split ==
  ASSUME [Next]_vars
  PROVE  (\E a \in Actors : StepOf(a)) \/ Outside \/ UNCHANGED vars
BY DEF Next, StepOf, Outside, Actors

-----------------------------------------------------------------------------
\* Types, and what an actor must have done to be where it is.

ControlAt(a, next, j, code) ==
  /\ a \in Requests => next # "queued" /\ ~ j.broken /\ j.todo \subseteq {j.pair}
  /\ a \in Tasks => next \in {"idle", "queued"} \cup Storing
  /\ a \in Requests /\ next # "idle" => j.pair \in Pairs
  /\ next \in OnPair => j.pair \in Pairs
  /\ next \in Storing \cup {"fill_cache"} => j.rate # 0
  /\ next # "done" /\ (next # "idle" \/ a \in Requests) => code = "none"

ControlOf(a) == ControlAt(a, pc[a], job[a], answer[a])

Typed == TypeOK /\ \A a \in Actors : ControlOf(a)

LEMMA Facts ==
  /\ \A r \in Requests : r \in Actors /\ r \notin Tasks
  /\ \A t \in Tasks : t \in Actors /\ t \notin Requests
  /\ None \notin Actors /\ None \notin Pairs
  /\ Refreshed \subseteq Pairs
  /\ NewJob \in Job
  /\ Rate \subseteq Maybe /\ 0 \notin Rate /\ 0 \in Maybe
BY ActorAssumption, PairAssumption, BoundAssumption DEF Actors, NewJob, Job, Maybe, Rate

\* A step that leaves actor a there, with these local variables and this answer.
At(a, next, j, code) ==
  /\ pc' = [pc EXCEPT ![a] = next]
  /\ job' = [job EXCEPT ![a] = j]
  /\ answer' = [answer EXCEPT ![a] = code]

LEMMA AtFrame ==
  ASSUME TypeOK, NEW a \in Actors, NEW next, NEW j, NEW code, At(a, next, j, code)
  PROVE  /\ pc'[a] = next /\ job'[a] = j /\ answer'[a] = code
         /\ \A b \in Actors \ {a} : pc'[b] = pc[b] /\ job'[b] = job[b] /\ answer'[b] = answer[b]
BY DEF TypeOK, At

\* What is kept of an actor's local variables when it ends.
Kept(j) == [NewJob EXCEPT
  !.pair = j.pair, !.transfer = j.transfer, !.saved = j.saved, !.known = j.known, !.faulted = j.faulted]

LEMMA KeptFacts ==
  ASSUME NEW j \in Job
  PROVE  /\ Kept(j) \in Job
         /\ Kept(j).pair = j.pair /\ Kept(j).saved = j.saved /\ Kept(j).transfer = j.transfer
         /\ Kept(j).known = j.known /\ Kept(j).faulted = j.faulted
         /\ Kept(j).todo = {} /\ Kept(j).broken = FALSE
BY Facts DEF Kept, NewJob, Job

LEMMA FinishAt ==
  ASSUME NEW a, NEW code, NEW j, Finish(a, code, j)
  PROVE  At(a, IF a \in Tasks THEN "idle" ELSE "done", Kept(j), code)
BY DEF Finish, At, Kept, Goto

\* The two ends of a pair.
Cleared(j) == [j EXCEPT !.pair = None, !.existing = 0]

LEMMA ClearedFacts ==
  ASSUME NEW j \in Job
  PROVE  /\ Cleared(j) \in Job
         /\ Cleared(j).rate = j.rate /\ Cleared(j).todo = j.todo
         /\ Cleared(j).broken = j.broken /\ Cleared(j).saved = j.saved
         /\ Cleared(j).known = j.known /\ Cleared(j).faulted = j.faulted
BY Facts DEF Cleared, Job

LEMMA NextPairAt ==
  ASSUME TypeOK, NEW t \in Tasks, NEW j \in Job, NextPair(t, j)
  PROVE  \/ j.todo = {} /\ At(t, "idle", Kept(Cleared(j)), "refreshed")
         \/ j.todo # {} /\ At(t, "put_cache", Cleared(j), answer[t])
BY FinishAt, Facts DEF NextPair, Cleared, At, Go, Goto, TypeOK

LEMMA StoreFailsAt ==
  ASSUME TypeOK, NEW a \in Actors, NEW j \in Job, StoreFails(a, j)
  PROVE  \/ a \in Requests /\ At(a, "done", Kept(j), "unavailable")
         \/ a \in Tasks /\ NextPair(a, j)
BY FinishAt, Facts DEF StoreFails, Actors

\* A step that leaves a place from which the control is right keeps everything typed.
LEMMA TypedAt ==
  ASSUME Typed, NEW a \in Actors, NEW next \in PC, NEW j \in Job, NEW code \in Answers,
         At(a, next, j, code), ControlAt(a, next, j, code),
         UNCHANGED outside,
         cache' \in [Pairs -> Maybe], table' \in [Pairs -> Maybe],
         row_lock' \in [Pairs -> Actors \cup {None}]
  PROVE  Typed'
<1>1. TypeOK'
  BY DEF Typed, TypeOK, At
<1>2. ASSUME NEW b \in Actors PROVE ControlOf(b)'
  BY AtFrame DEF Typed, ControlOf, ControlAt
<1>. QED
  BY <1>1, <1>2 DEF Typed

LEMMA TypedNextPair ==
  ASSUME Typed, NEW t \in Tasks, NEW j \in Job, NextPair(t, j),
         pc[t] \in Storing, j.rate # 0,
         UNCHANGED outside,
         cache' \in [Pairs -> Maybe], table' \in [Pairs -> Maybe],
         row_lock' \in [Pairs -> Actors \cup {None}]
  PROVE  Typed'
<1>1. answer[t] = "none" /\ t \in Actors /\ t \notin Requests
  BY Facts DEF Typed, ControlOf, ControlAt, Storing
<1>2. Cleared(j) \in Job /\ Kept(Cleared(j)) \in Job /\ Cleared(j).rate # 0
  BY ClearedFacts, KeptFacts
<1>3. CASE At(t, "idle", Kept(Cleared(j)), "refreshed")
  <2>1. ControlAt(t, "idle", Kept(Cleared(j)), "refreshed")
    BY <1>1 DEF ControlAt, Storing, OnPair
  <2>2. "idle" \in PC /\ "refreshed" \in Answers
    BY DEF PC, Answers
  <2>. QED
    BY <1>1, <1>2, <1>3, <2>1, <2>2, TypedAt
<1>4. CASE At(t, "put_cache", Cleared(j), answer[t])
  <2>1. ControlAt(t, "put_cache", Cleared(j), "none")
    BY <1>1, <1>2 DEF ControlAt, Storing, OnPair
  <2>2. "put_cache" \in PC /\ "none" \in Answers
    BY DEF PC, Answers
  <2>. QED
    BY <1>1, <1>2, <1>4, <2>1, <2>2, TypedAt
<1>. QED
  BY <1>3, <1>4, NextPairAt DEF Typed

-----------------------------------------------------------------------------
\* Where each step leaves its actor.

Asking == {"direct", "inverse", "cross"}

\* What a step of requests and tasks outside of storing leaves alone.
Reads == UNCHANGED outside /\ table' = table /\ row_lock' = row_lock

LEMMA SubmitAt ==
  ASSUME TypeOK, NEW r \in Requests, Submit(r)
  PROVE  /\ Reads /\ cache' = cache /\ pc[r] = "idle"
         /\ \E p \in Pairs, b \in BOOLEAN : At(r, "check_cache",
              [NewJob EXCEPT !.pair = p, !.transfer = b, !.todo = {p}, !.known = table[p] # 0], answer[r])
BY Facts, PairAssumption DEF Submit, Reads, store, At, Go, Goto, TypeOK

LEMMA GetRateAt ==
  ASSUME Typed, NEW r \in Requests, GetRate(r)
  PROVE  LET j == job[r]
         IN /\ Reads /\ cache' \in [Pairs -> Maybe]
            /\ \/ /\ pc[r] \in {"check_cache", "fill_cache"}
                  /\ At(r, "done", Kept(j), "ok")
               \/ /\ pc[r] \in {"check_cache", "read_table", "fill_cache"}
                  /\ At(r, "done", Kept([j EXCEPT !.faulted = TRUE]),
                        IF j.transfer THEN "unavailable" ELSE "error")
               \/ /\ pc[r] = "check_cache"
                  /\ At(r, "read_table", j, answer[r])
               \/ /\ pc[r] = "read_table" /\ table[j.pair] # 0
                  /\ At(r, "fill_cache", [j EXCEPT !.rate = table[j.pair]], answer[r])
               \/ /\ pc[r] = "read_table" /\ table[j.pair] = 0
                  /\ At(r, "direct", [j EXCEPT !.rate = table[j.pair]], answer[r])
               \/ /\ pc[r] \in Asking
                  /\ \/ At(r, "put_cache", [j EXCEPT !.rate = market], answer[r])
                     \/ \E next \in {"inverse", "cross"} : At(r, next, j, answer[r])
                     \/ At(r, "done", Kept([j EXCEPT !.faulted = TRUE]), "unavailable")
<1> DEFINE j == job[r]
<1>0. r \in Actors /\ r \notin Tasks /\ j \in Job
  BY Facts DEF Typed, TypeOK
<1> USE DEF Typed, TypeOK, At, Go, Goto, Reads, store
<1>1. CASE CheckCache(r)
  BY <1>0, <1>1, FinishAt DEF CheckCache, LookupFails
<1>2. CASE ReadTable(r)
  <2>1. CASE LookupFails(r)
    <3>1. At(r, "done", Kept([j EXCEPT !.faulted = TRUE]),
             IF j.transfer THEN "unavailable" ELSE "error")
      BY <1>0, <2>1, FinishAt DEF LookupFails
    <3>. QED
      BY <1>0, <1>2, <3>1 DEF ReadTable
  <2>2. CASE /\ job' = [job EXCEPT ![r].rate = table[j.pair]]
             /\ Go(r, IF table[j.pair] # 0 THEN "fill_cache" ELSE "direct")
    BY <1>0, <1>2, <2>2 DEF ReadTable
  <2>. QED
    BY <1>2, <2>1, <2>2 DEF ReadTable
<1>3. CASE FillCache(r)
  <2>1. j.rate \in Maybe
    BY <1>0 DEF Job
  <2>2. cache' \in [Pairs -> Maybe]
    BY <1>3, <2>1 DEF FillCache
  <2>. QED
    BY <1>0, <1>3, <2>2, FinishAt DEF FillCache, LookupFails
<1>4. CASE Direct(r) \/ Inverse(r) \/ Cross(r)
  <2>1. NoRate(r) => At(r, "done", Kept([j EXCEPT !.faulted = TRUE]), "unavailable")
    BY <1>0, FinishAt DEF NoRate
  <2> HIDE DEF At
  <2>2. Go(r, "inverse") /\ UNCHANGED job => At(r, "inverse", j, answer[r])
    BY <1>0 DEF At
  <2>3. Go(r, "cross") /\ UNCHANGED job => At(r, "cross", j, answer[r])
    BY <1>0 DEF At
  <2>4. job' = [job EXCEPT ![r].rate = market] /\ Go(r, "put_cache")
          => At(r, "put_cache", [j EXCEPT !.rate = market], answer[r])
    BY <1>0 DEF At
  <2>. QED
    BY <1>4, <2>1, <2>2, <2>3, <2>4 DEF Direct, Inverse, Cross, Ask, Asking
<1>. QED
  BY <1>1, <1>2, <1>3, <1>4 DEF GetRate

LEMMA TaskAt ==
  ASSUME Typed, NEW t \in Tasks, Enqueue(t) \/ FetchAll(t)
  PROVE  LET j == job[t]
         IN /\ Reads /\ cache' = cache
            /\ \/ At(t, "queued", NewJob, "none")
               \/ /\ pc[t] = "queued"
                  /\ \/ At(t, "put_cache", [NewJob EXCEPT !.rate = market, !.todo = Refreshed,
                          !.attempts = j.attempts, !.known = \A p \in Refreshed : table[p] # 0],
                          answer[t])
                     \/ j.attempts < MaxRetries /\ At(t, "queued", [j EXCEPT !.attempts = @ + 1], answer[t])
                     \/ At(t, "idle", Kept(j), "failed")
BY Facts, FinishAt DEF Enqueue, FetchAll, MayRetry, Typed, TypeOK, At, Go, Goto, Reads, store

\* The pair that an actor takes from its list.
Taken(j, p) == [j EXCEPT !.pair = p, !.todo = @ \ {p}]

LEMMA PutCacheAt ==
  ASSUME Typed, NEW a \in Actors, PutCache(a)
  PROVE  /\ Reads /\ cache' \in [Pairs -> Maybe] /\ pc[a] = "put_cache"
         /\ \E p \in job[a].todo :
              \/ At(a, "find_row", Taken(job[a], p), answer[a])
              \/ StoreFails(a, [Taken(job[a], p) EXCEPT !.faulted = TRUE])
<1>1. PICK p \in job[a].todo :
        LET j == [job[a] EXCEPT !.pair = p, !.todo = @ \ {p}]
        IN /\ pc[a] = "put_cache"
           /\ \/ /\ cache' = [cache EXCEPT ![p] = j.rate]
                 /\ job' = [job EXCEPT ![a] = j]
                 /\ Go(a, "find_row")
              \/ /\ ~ calm
                 /\ StoreFails(a, [j EXCEPT !.faulted = TRUE])
                 /\ UNCHANGED cache
           /\ UNCHANGED <<outside, table, row_lock>>
  BY DEF PutCache
<1>2. job[a] \in Job
  BY DEF Typed, TypeOK
<1>3. Taken(job[a], p).rate \in Maybe
  BY <1>2 DEF Job, Taken
<1>4. cache' \in [Pairs -> Maybe]
  BY <1>1, <1>3 DEF Taken, Typed, TypeOK
<1>. QED
  BY <1>1, <1>4 DEF Taken, At, Go, Goto, Reads, Typed, TypeOK

LEMMA FindRowAt ==
  ASSUME Typed, NEW a \in Actors, FindRow(a)
  PROVE  LET j == job[a]
         IN /\ Reads /\ cache' = cache /\ pc[a] = "find_row"
            /\ \/ j.broken /\ StoreFails(a, j)
               \/ ~ j.broken /\ At(a, "flush", [j EXCEPT !.existing = table[j.pair]], answer[a])
BY DEF FindRow, Reads, store, At, Go, Goto, Typed, TypeOK

LEMMA FlushAt ==
  ASSUME Typed, NEW a \in Actors, Flush(a)
  PROVE  LET j == job[a]
         IN /\ UNCHANGED outside /\ table' = table /\ cache' = cache
            /\ pc[a] = "flush"
            /\ \/ /\ At(a, "commit", j, answer[a])
                  /\ \/ row_lock' = row_lock
                     \/ row_lock[j.pair] = None /\ row_lock' = [row_lock EXCEPT ![j.pair] = a]
               \/ /\ j.existing = 0 /\ table[j.pair] # 0 /\ row_lock' = row_lock
                  /\ StoreFails(a, [j EXCEPT !.broken = TRUE])
BY DEF Flush, At, Go, Goto, Typed, TypeOK

LEMMA CommitAt ==
  ASSUME Typed, NEW a \in Actors, Commit(a)
  PROVE  LET j == job[a]
         IN /\ UNCHANGED outside /\ cache' = cache /\ Released(a)
            /\ table' = [p \in Pairs |-> IF row_lock[p] = a THEN j.rate ELSE table[p]]
            /\ pc[a] = "commit"
            /\ \/ a \in Tasks /\ NextPair(a, [j EXCEPT !.saved = @ \cup {j.pair}])
               \/ a \in Requests /\ At(a, "done", Kept(j), "ok")
BY FinishAt, Facts DEF Commit, Typed, TypeOK, Actors

LEMMA CrashAt ==
  ASSUME Typed, NEW a \in Actors, Crash(a)
  PROVE  /\ UNCHANGED outside /\ cache' = cache /\ table' = table
         /\ Released(a) /\ pc[a] \notin {"idle", "queued", "done"}
         /\ \/ /\ a \in Tasks
               /\ At(a, "queued", [NewJob EXCEPT !.attempts = job[a].attempts], answer[a])
            \/ a \in Requests /\ At(a, "done", Kept(job[a]), "lost")
BY FinishAt, Facts DEF Crash, At, Go, Goto, Typed, TypeOK, Actors

-----------------------------------------------------------------------------
\* The types are kept.

LEMMA TypedInit == Init => Typed
<1> SUFFICES ASSUME Init PROVE Typed
  OBVIOUS
<1>1. NewJob \in Job /\ NewJob.broken = FALSE /\ NewJob.todo = {}
  BY Facts DEF NewJob
<1>2. 1 \in Rate /\ 0 \in Maybe /\ "idle" \in PC /\ "none" \in Answers
  BY BoundAssumption DEF Rate, Maybe, PC, Answers
<1>3. TypeOK
  BY <1>1, <1>2 DEF Init, TypeOK
<1>4. ASSUME NEW a \in Actors PROVE ControlOf(a)
  BY <1>1 DEF Init, ControlOf, ControlAt, Storing, OnPair
<1>. QED
  BY <1>3, <1>4 DEF Typed

LEMMA TypedRequest ==
  ASSUME Typed, NEW r \in Requests, Submit(r) \/ GetRate(r)
  PROVE  Typed'
<1> DEFINE j == job[r]
<1>0. /\ r \in Actors /\ r \notin Tasks /\ j \in Job /\ ControlOf(r)
      /\ market \in Maybe \ {0} /\ table \in [Pairs -> Maybe]
  BY Facts DEF Typed, TypeOK
<1>1. CASE Submit(r)
  <2>1. PICK p \in Pairs, b \in BOOLEAN : At(r, "check_cache",
              [NewJob EXCEPT !.pair = p, !.transfer = b, !.todo = {p}, !.known = table[p] # 0], answer[r])
    BY <1>1, SubmitAt DEF Typed
  <2> DEFINE k == [NewJob EXCEPT !.pair = p, !.transfer = b, !.todo = {p}, !.known = table[p] # 0]
  <2>2. (table[p] # 0) \in BOOLEAN
    OBVIOUS
  <2>3. k \in Job /\ k.pair = p /\ k.todo = {p} /\ k.broken = FALSE
    BY <2>2, Facts DEF NewJob, Job
  <2>4. pc[r] = "idle" /\ Reads /\ cache' = cache
    BY <1>1, SubmitAt DEF Typed
  <2> HIDE DEF k
  <2>5. ControlAt(r, "check_cache", k, answer[r]) /\ answer[r] \in Answers /\ "check_cache" \in PC
    BY <1>0, <2>3, <2>4 DEF ControlOf, ControlAt, Storing, OnPair, Typed, TypeOK, PC
  <2>6. At(r, "check_cache", k, answer[r])
    BY <2>1 DEF k
  <2>. QED
    BY <1>0, <2>3, <2>4, <2>5, <2>6, TypedAt DEF Reads, Typed, TypeOK
<1>2. CASE GetRate(r)
  <2>0. Reads /\ cache' \in [Pairs -> Maybe]
    BY <1>2, GetRateAt
  <2>1. ASSUME NEW next \in PC, NEW k \in Job, NEW code \in Answers,
               At(r, next, k, code), ControlAt(r, next, k, code)
        PROVE  Typed'
    BY <1>0, <2>0, <2>1, TypedAt DEF Reads, Typed, TypeOK
  <2>2. j.pair \in Pairs /\ ~ j.broken /\ j.todo \subseteq {j.pair} /\ answer[r] \in Answers
        /\ (pc[r] \in {"check_cache", "read_table", "fill_cache"} \cup Asking => answer[r] = "none")
    BY <1>0, <1>2, GetRateAt DEF ControlOf, ControlAt, Typed, TypeOK, Asking
  <2>3. ASSUME NEW k \in Job, NEW code \in {"ok", "error", "unavailable"},
               At(r, "done", Kept(k), code), k.pair = j.pair
        PROVE  Typed'
    <3>1. ControlAt(r, "done", Kept(k), code)
      BY <1>0, <2>2, <2>3, KeptFacts DEF ControlAt, Storing, OnPair
    <3>. QED
      BY <2>1, <2>3, <3>1, KeptFacts DEF PC, Answers
  <2>4. ASSUME NEW next \in {"read_table", "direct", "inverse", "cross", "fill_cache", "put_cache"},
               NEW rate \in Maybe,
               At(r, next, [j EXCEPT !.rate = rate], "none"),
               next \in {"fill_cache", "put_cache"} => rate # 0
        PROVE  Typed'
    <3> DEFINE k == [j EXCEPT !.rate = rate]
    <3>1. k \in Job /\ k.rate = rate /\ k.pair = j.pair /\ k.todo = j.todo /\ k.broken = j.broken
      BY <1>0 DEF Job
    <3> HIDE DEF k
    <3>2. ControlAt(r, next, k, "none")
      BY <1>0, <2>2, <2>4, <3>1 DEF ControlAt, Storing, OnPair
    <3>3. At(r, next, k, "none") /\ next \in PC /\ "none" \in Answers
      BY <2>4 DEF k, PC, Answers
    <3>. QED
      BY <2>1, <3>1, <3>2, <3>3
  <2>5. j.rate \in Maybe /\ j = [j EXCEPT !.rate = j.rate]
    BY <1>0 DEF Job
  <2>6. [j EXCEPT !.faulted = TRUE] \in Job /\ [j EXCEPT !.faulted = TRUE].pair = j.pair
    BY <1>0 DEF Job
  <2>7. table[j.pair] \in Maybe
    BY <1>0, <2>2
  <2> HIDE DEF j
  <2>8. CASE \/ At(r, "done", Kept(j), "ok")
             \/ At(r, "done", Kept([j EXCEPT !.faulted = TRUE]),
                   IF j.transfer THEN "unavailable" ELSE "error")
    BY <1>0, <2>3, <2>6, <2>8
  <2>9. CASE pc[r] = "check_cache" /\ At(r, "read_table", j, answer[r])
    BY <2>2, <2>4, <2>5, <2>9
  <2>10. CASE /\ pc[r] = "read_table" /\ table[j.pair] # 0
              /\ At(r, "fill_cache", [j EXCEPT !.rate = table[j.pair]], answer[r])
    BY <2>2, <2>4, <2>7, <2>10
  <2>11. CASE /\ pc[r] = "read_table" /\ table[j.pair] = 0
              /\ At(r, "direct", [j EXCEPT !.rate = table[j.pair]], answer[r])
    BY <2>2, <2>4, <2>7, <2>11
  <2>12. CASE pc[r] \in Asking /\ At(r, "put_cache", [j EXCEPT !.rate = market], answer[r])
    BY <1>0, <2>2, <2>4, <2>12
  <2>13. CASE pc[r] \in Asking /\ \E next \in {"inverse", "cross"} : At(r, next, j, answer[r])
    BY <2>2, <2>4, <2>5, <2>13
  <2>14. CASE At(r, "done", Kept([j EXCEPT !.faulted = TRUE]), "unavailable")
    BY <2>3, <2>6, <2>14
  <2>. QED
    BY <1>2, GetRateAt, <2>8, <2>9, <2>10, <2>11, <2>12, <2>13, <2>14 DEF j
<1>. QED
  BY <1>1, <1>2

LEMMA TypedTask ==
  ASSUME Typed, NEW t \in Tasks, Enqueue(t) \/ FetchAll(t)
  PROVE  Typed'
<1> DEFINE j == job[t]
           k == [NewJob EXCEPT !.rate = market, !.todo = Refreshed,
                   !.attempts = j.attempts, !.known = \A p \in Refreshed : table[p] # 0]
           l == [j EXCEPT !.attempts = @ + 1]
<1>0. t \in Actors /\ t \notin Requests /\ j \in Job /\ ControlOf(t) /\ market \in Maybe \ {0}
  BY Facts DEF Typed, TypeOK
<1>1. ASSUME NEW next \in PC, NEW i \in Job, NEW code \in Answers,
             At(t, next, i, code), ControlAt(t, next, i, code)
      PROVE  Typed'
  BY <1>0, <1>1, TaskAt, TypedAt DEF Reads, Typed, TypeOK
<1>2. (\A p \in Refreshed : table[p] # 0) \in BOOLEAN
  OBVIOUS
<1>3. k \in Job /\ k.rate = market
  BY <1>0, <1>2, Facts DEF NewJob, Job
<1>4. j.attempts < MaxRetries => l \in Job
  BY <1>0, BoundAssumption DEF Job
<1>5. Kept(j) \in Job /\ NewJob \in Job
  BY <1>0, KeptFacts, Facts
<1>6. pc[t] = "queued" => answer[t] = "none"
  BY <1>0 DEF ControlOf, ControlAt
<1>7. /\ \A i \in Job : ControlAt(t, "queued", i, "none") /\ ControlAt(t, "idle", i, "failed")
      /\ ControlAt(t, "put_cache", k, "none")
  BY <1>0, <1>3 DEF ControlAt, Storing, OnPair
<1>8. {"queued", "idle", "put_cache"} \subseteq PC /\ {"none", "failed"} \subseteq Answers
  BY DEF PC, Answers
<1>9. \/ At(t, "queued", NewJob, "none")
      \/ /\ pc[t] = "queued"
         /\ \/ At(t, "put_cache", k, answer[t])
            \/ j.attempts < MaxRetries /\ At(t, "queued", l, answer[t])
            \/ At(t, "idle", Kept(j), "failed")
  BY TaskAt
<1> HIDE DEF j, k, l
<1>. QED
  BY <1>1, <1>3, <1>4, <1>5, <1>6, <1>7, <1>8, <1>9

LEMMA TypedStoreFails ==
  ASSUME Typed, NEW a \in Actors, NEW j \in Job, StoreFails(a, j),
         pc[a] \in Storing, j.rate # 0, a \in Requests => j.pair \in Pairs,
         UNCHANGED outside, table' = table, row_lock' = row_lock,
         cache' \in [Pairs -> Maybe]
  PROVE  Typed'
<1>0. table \in [Pairs -> Maybe] /\ row_lock \in [Pairs -> Actors \cup {None}]
  BY DEF Typed, TypeOK
<1>1. CASE a \in Requests /\ At(a, "done", Kept(j), "unavailable")
  <2>1. Kept(j) \in Job /\ ControlAt(a, "done", Kept(j), "unavailable")
    BY <1>1, KeptFacts, Facts DEF ControlAt, Storing, OnPair
  <2>. QED
    BY <1>0, <1>1, <2>1, TypedAt DEF PC, Answers
<1>2. CASE a \in Tasks /\ NextPair(a, j)
  BY <1>0, <1>2, TypedNextPair
<1>. QED
  BY <1>1, <1>2, StoreFailsAt DEF Typed

\* What is known of an actor that is storing a rate.
LEMMA StoringFacts ==
  ASSUME Typed, NEW a \in Actors, pc[a] \in Storing
  PROVE  /\ job[a] \in Job /\ job[a].rate \in Rate /\ job[a].todo \subseteq Pairs
         /\ answer[a] = "none" /\ ControlOf(a)
         /\ pc[a] \in OnPair \/ a \in Requests => job[a].pair \in Pairs
BY Facts DEF Typed, TypeOK, ControlOf, ControlAt, Storing, OnPair, Job, Rate, Maybe

LEMMA ReleasedTyped ==
  ASSUME TypeOK, NEW a, Released(a)
  PROVE  row_lock' \in [Pairs -> Actors \cup {None}]
BY DEF Released, TypeOK

LEMMA TypedPersist ==
  ASSUME Typed, NEW a \in Actors, Persist(a)
  PROVE  Typed'
<1> DEFINE j == job[a]
<1>0. /\ pc[a] \in Storing /\ cache \in [Pairs -> Maybe] /\ table \in [Pairs -> Maybe]
      /\ row_lock \in [Pairs -> Actors \cup {None}]
      /\ Storing \subseteq PC /\ {"none", "ok", "done"} \subseteq Answers \cup PC
      /\ {"none", "ok"} \subseteq Answers /\ "done" \in PC
  BY PutCacheAt, FindRowAt, FlushAt, CommitAt DEF Persist, Storing, Typed, TypeOK, PC, Answers
<1>i. /\ j \in Job /\ j.rate \in Rate /\ j.todo \subseteq Pairs /\ answer[a] = "none"
      /\ (pc[a] \in OnPair \/ a \in Requests => j.pair \in Pairs)
      /\ (a \in Requests => ~ j.broken /\ j.todo \subseteq {j.pair})
      /\ Rate \subseteq Maybe /\ 0 \notin Rate
  BY <1>0, StoringFacts, Facts DEF ControlOf, ControlAt
<1>1. CASE PutCache(a)
  <2>1. PICK p \in j.todo : \/ At(a, "find_row", Taken(j, p), answer[a])
                            \/ StoreFails(a, [Taken(j, p) EXCEPT !.faulted = TRUE])
    BY <1>1, PutCacheAt
  <2>2. Reads /\ cache' \in [Pairs -> Maybe]
    BY <1>1, PutCacheAt
  <2> DEFINE k == Taken(j, p)
             l == [k EXCEPT !.faulted = TRUE]
  <2>3. /\ k \in Job /\ k.pair = p /\ k.rate = j.rate /\ k.todo = j.todo \ {p} /\ k.broken = j.broken
        /\ l \in Job /\ l.pair = p /\ l.rate = j.rate
    BY <1>i DEF Taken, Job
  <2> HIDE DEF k, l, j
  <2>4. CASE At(a, "find_row", k, answer[a])
    <3>1. ControlAt(a, "find_row", k, "none")
      BY <1>i, <2>3, Facts DEF ControlAt, Storing, OnPair
    <3>. QED
      BY <1>0, <1>i, <2>2, <2>3, <2>4, <3>1, TypedAt DEF Reads, Storing
  <2>5. CASE StoreFails(a, l)
    BY <1>0, <1>i, <2>2, <2>3, <2>5, TypedStoreFails DEF Reads
  <2>. QED
    BY <2>1, <2>4, <2>5 DEF k, l
<1>2. CASE FindRow(a)
  <2> DEFINE k == [j EXCEPT !.existing = table[j.pair]]
  <2>1. /\ Reads /\ cache' = cache /\ pc[a] = "find_row"
        /\ StoreFails(a, j) \/ At(a, "flush", k, answer[a])
    BY <1>2, FindRowAt
  <2>2. table[j.pair] \in Maybe
    BY <1>0, <1>i, <2>1 DEF OnPair
  <2>3. k \in Job /\ k.pair = j.pair /\ k.rate = j.rate /\ k.todo = j.todo /\ k.broken = j.broken
    BY <1>i, <2>2 DEF Job
  <2> HIDE DEF k, j
  <2>4. ControlAt(a, "flush", k, "none")
    BY <1>i, <2>1, <2>3, Facts DEF ControlAt, Storing, OnPair
  <2>. QED
    BY <1>0, <1>i, <2>1, <2>3, <2>4, TypedAt, TypedStoreFails DEF Reads, Storing
<1>3. CASE Flush(a)
  <2> DEFINE k == [j EXCEPT !.broken = TRUE]
  <2>1. /\ UNCHANGED outside /\ table' = table /\ cache' = cache /\ pc[a] = "flush"
        /\ \/ At(a, "commit", j, answer[a])
           \/ row_lock' = row_lock /\ StoreFails(a, k)
        /\ row_lock' = row_lock \/ row_lock' = [row_lock EXCEPT ![j.pair] = a]
    BY <1>3, FlushAt
  <2>2. row_lock' \in [Pairs -> Actors \cup {None}]
    BY <1>0, <2>1
  <2>3. k \in Job /\ k.pair = j.pair /\ k.rate = j.rate
    BY <1>i DEF Job
  <2> HIDE DEF k, j
  <2>4. ControlAt(a, "commit", j, "none")
    BY <1>i, <2>1, Facts DEF ControlAt, Storing, OnPair
  <2>. QED
    BY <1>0, <1>i, <2>1, <2>2, <2>3, <2>4, TypedAt, TypedStoreFails DEF Storing
<1>4. CASE Commit(a)
  <2> DEFINE k == [j EXCEPT !.saved = @ \cup {j.pair}]
  <2>1. /\ UNCHANGED outside /\ cache' = cache /\ pc[a] = "commit" /\ Released(a)
        /\ table' = [p \in Pairs |-> IF row_lock[p] = a THEN j.rate ELSE table[p]]
        /\ \/ a \in Tasks /\ NextPair(a, k)
           \/ a \in Requests /\ At(a, "done", Kept(j), "ok")
    BY <1>4, CommitAt
  <2>2. table' \in [Pairs -> Maybe] /\ row_lock' \in [Pairs -> Actors \cup {None}]
    BY <1>0, <1>i, <2>1, ReleasedTyped DEF Typed
  <2>3. k \in Job /\ k.rate = j.rate
    BY <1>i, <2>1 DEF Job, OnPair
  <2>4. Kept(j) \in Job /\ (a \in Requests => ControlAt(a, "done", Kept(j), "ok"))
    BY <1>i, KeptFacts, Facts DEF ControlAt, Storing, OnPair
  <2> HIDE DEF k, j
  <2>. QED
    BY <1>0, <1>i, <2>1, <2>2, <2>3, <2>4, TypedAt, TypedNextPair
<1>. QED
  BY <1>1, <1>2, <1>3, <1>4 DEF Persist

LEMMA TypedCrash ==
  ASSUME Typed, NEW a \in Actors, Crash(a)
  PROVE  Typed'
<1> DEFINE j == job[a]
           k == [NewJob EXCEPT !.attempts = j.attempts]
<1>0. /\ cache \in [Pairs -> Maybe] /\ table \in [Pairs -> Maybe] /\ j \in Job /\ ControlOf(a)
      /\ answer[a] \in Answers
  BY DEF Typed, TypeOK
<1>1. /\ UNCHANGED outside /\ cache' = cache /\ table' = table
      /\ Released(a) /\ pc[a] \notin {"idle", "queued", "done"}
      /\ \/ a \in Tasks /\ At(a, "queued", k, answer[a])
         \/ a \in Requests /\ At(a, "done", Kept(j), "lost")
  BY CrashAt
<1>2. row_lock' \in [Pairs -> Actors \cup {None}]
  BY <1>1, ReleasedTyped DEF Typed
<1>3. k \in Job /\ Kept(j) \in Job /\ Kept(j).pair = j.pair /\ Kept(j).todo = {} /\ Kept(j).broken = FALSE
  BY <1>0, KeptFacts, Facts DEF NewJob, Job
<1>4. "queued" \in PC /\ "done" \in PC /\ "lost" \in Answers
  BY DEF PC, Answers
<1> HIDE DEF k, j
<1>5. a \in Tasks => ControlAt(a, "queued", k, answer[a])
  BY <1>0, <1>1, Facts DEF ControlOf, ControlAt, Storing, OnPair
<1>6. a \in Requests => ControlAt(a, "done", Kept(j), "lost")
  BY <1>0, <1>1, <1>3, Facts DEF ControlOf, ControlAt, Storing, OnPair, j
<1>. QED
  BY <1>0, <1>1, <1>2, <1>3, <1>4, <1>5, <1>6, TypedAt

LEMMA TypedNext == Typed /\ [Next]_vars => Typed'
<1> SUFFICES ASSUME Typed, [Next]_vars PROVE Typed'
  OBVIOUS
<1>1. ASSUME NEW a \in Actors, StepOf(a) PROVE Typed'
  BY <1>1, TypedRequest, TypedTask, TypedPersist, TypedCrash DEF StepOf
<1>2. CASE Outside
  <2>1. UNCHANGED <<pc, job, answer, table, row_lock>>
        /\ market' \in Rate /\ calm' \in BOOLEAN /\ stranded' \in BOOLEAN /\ cache' \in [Pairs -> Maybe]
    <3>1. ASSUME NEW p \in Pairs, Expire(p)
          PROVE  UNCHANGED <<pc, job, answer, table, row_lock, outside>>
                 /\ cache' \in [Pairs -> Maybe]
      BY <3>1, Facts DEF Expire, Typed, TypeOK
    <3>2. CASE Move
      BY <3>2, BoundAssumption DEF Move, store, Typed, TypeOK, Rate
    <3>3. CASE Settle
      BY <3>3 DEF Settle, store, Typed, TypeOK
    <3>. QED
      BY <1>2, <3>1, <3>2, <3>3 DEF Outside, Typed, TypeOK
  <2>. QED
    BY <2>1 DEF Typed, TypeOK, ControlOf
<1>3. CASE UNCHANGED vars
  BY <1>3 DEF vars, store, Typed, TypeOK, ControlOf
<1>. QED
  BY <1>1, <1>2, <1>3, Split

\* Every variable keeps its type, and no actor stores a rate that it does not have.
THEOREM TypeCorrect == Spec => []TypeOK
<1>1. Typed => TypeOK
  BY DEF Typed
<1>. QED
  BY <1>1, TypedInit, TypedNext, PTL DEF Spec

-----------------------------------------------------------------------------
\* What a step of one actor may do to the others and to the rows.

LEMMA EndsAt ==
  ASSUME TypeOK, NEW a \in Actors, NEW j \in Job, StoreFails(a, j) \/ (a \in Tasks /\ NextPair(a, j))
  PROVE  \E next, i, code : At(a, next, i, code)
BY NextPairAt, StoreFailsAt

LEMMA StepFrame ==
  ASSUME Typed, NEW a \in Actors, StepOf(a)
  PROVE  \A b \in Actors \ {a} : pc'[b] = pc[b] /\ job'[b] = job[b] /\ answer'[b] = answer[b]
<1>0. job[a] \in Job
  BY DEF Typed, TypeOK
<1>1. SUFFICES \E next, j, code : At(a, next, j, code)
  BY AtFrame DEF Typed
<1>2. CASE a \in Requests /\ Submit(a)
  BY <1>2, SubmitAt DEF Typed
<1>3. CASE a \in Requests /\ GetRate(a)
  BY <1>3, GetRateAt
<1>4. CASE a \in Tasks /\ (Enqueue(a) \/ FetchAll(a))
  BY <1>4, TaskAt
<1>5. CASE PutCache(a)
  <2>1. PICK p \in job[a].todo : \/ At(a, "find_row", Taken(job[a], p), answer[a])
                                 \/ StoreFails(a, [Taken(job[a], p) EXCEPT !.faulted = TRUE])
    BY <1>5, PutCacheAt
  <2>2. [Taken(job[a], p) EXCEPT !.faulted = TRUE] \in Job
    BY <1>0 DEF Taken, Job
  <2>. QED
    BY <2>1, <2>2, EndsAt DEF Typed
<1>6. CASE FindRow(a)
  BY <1>0, <1>6, FindRowAt, EndsAt DEF Typed
<1>7. CASE Flush(a)
  <2>1. [job[a] EXCEPT !.broken = TRUE] \in Job
    BY <1>0 DEF Job
  <2>. QED
    BY <1>7, <2>1, FlushAt, EndsAt DEF Typed
<1>8. CASE Commit(a)
  <2>1. job[a].pair \in Pairs
    BY <1>8, CommitAt, StoringFacts DEF Storing, OnPair
  <2>2. [job[a] EXCEPT !.saved = @ \cup {job[a].pair}] \in Job
    BY <1>0, <2>1 DEF Job
  <2>. QED
    BY <1>8, <2>2, CommitAt, EndsAt DEF Typed
<1>9. CASE Crash(a)
  BY <1>9, CrashAt
<1>. QED
  BY <1>2, <1>3, <1>4, <1>5, <1>6, <1>7, <1>8, <1>9 DEF StepOf, Persist

LEMMA RowMoves ==
  ASSUME Typed, NEW a \in Actors, StepOf(a)
  PROVE  \/ row_lock' = row_lock /\ pc[a] # "commit"
         \/ /\ At(a, "commit", job[a], answer[a]) /\ pc[a] = "flush"
            /\ row_lock' = [row_lock EXCEPT ![job[a].pair] = a]
         \/ Released(a)
<1>1. CASE a \in Requests /\ Submit(a)
  BY <1>1, SubmitAt DEF Typed, Reads
<1>2. CASE a \in Requests /\ GetRate(a)
  BY <1>2, GetRateAt DEF Reads, Asking
<1>3. CASE a \in Tasks /\ (Enqueue(a) \/ FetchAll(a))
  BY <1>3 DEF Enqueue, FetchAll, store
<1>4. CASE PutCache(a) \/ FindRow(a)
  BY <1>4, PutCacheAt, FindRowAt DEF Reads
<1>5. CASE Flush(a)
  BY <1>5, FlushAt
<1>6. CASE Commit(a) \/ Crash(a)
  BY <1>6, CommitAt, CrashAt
<1>. QED
  BY <1>1, <1>2, <1>3, <1>4, <1>5, <1>6 DEF StepOf, Persist

LEMMA RowsStep == Typed /\ WritersHoldRows /\ [Next]_vars => WritersHoldRows'
<1> SUFFICES ASSUME Typed, WritersHoldRows, [Next]_vars PROVE WritersHoldRows'
  OBVIOUS
<1>0. row_lock \in [Pairs -> Actors \cup {None}]
  BY DEF Typed, TypeOK
<1>1. ASSUME NEW a \in Actors, StepOf(a) PROVE WritersHoldRows'
  <2>1. SUFFICES ASSUME NEW p \in Pairs, row_lock'[p] # None
                 PROVE  pc'[row_lock'[p]] = "commit" /\ job'[row_lock'[p]].pair = p
    BY DEF WritersHoldRows
  <2>2. \A q \in Pairs : row_lock[q] # None => pc[row_lock[q]] = "commit" /\ job[row_lock[q]].pair = q
    BY DEF WritersHoldRows
  <2>3. CASE row_lock' = row_lock /\ pc[a] # "commit"
    BY <1>0, <1>1, <2>1, <2>2, <2>3, StepFrame
  <2>4. CASE /\ At(a, "commit", job[a], answer[a]) /\ pc[a] = "flush"
             /\ row_lock' = [row_lock EXCEPT ![job[a].pair] = a]
    BY <1>0, <2>1, <2>2, <2>4, AtFrame DEF Typed
  <2>5. CASE Released(a)
    BY <1>0, <1>1, <2>1, <2>2, <2>5, StepFrame DEF Released
  <2>. QED
    BY <1>1, <2>3, <2>4, <2>5, RowMoves
<1>2. CASE Outside \/ UNCHANGED vars
  BY <1>2 DEF Outside, Expire, Move, Settle, store, vars, WritersHoldRows
<1>. QED
  BY <1>1, <1>2, Split

\* No failure or crash leaves a pair's row locked: whoever has written it is at
\* its commit.
THEOREM RowsAreReleased == Spec => []WritersHoldRows
<1>1. Init => WritersHoldRows
  BY DEF Init, WritersHoldRows
<1>. QED
  BY <1>1, TypedInit, TypedNext, RowsStep, PTL DEF Spec

-----------------------------------------------------------------------------
\* Why a request is refused.

\* A pair that has a row keeps one.
LEMMA TableGrows ==
  ASSUME Typed, [Next]_vars, NEW p \in Pairs, table[p] # 0
  PROVE  table'[p] # 0
<1>1. ASSUME NEW a \in Actors, Commit(a) PROVE table'[p] # 0
  <2>1. pc[a] \in Storing
    BY <1>1, CommitAt DEF Storing
  <2>2. job[a].rate # 0
    BY <2>1, StoringFacts, Facts
  <2>. QED
    BY <1>1, <2>2, CommitAt
<1>2. ASSUME NEW a \in Actors, StepOf(a), ~ Commit(a) PROVE table' = table
  <2>1. CASE a \in Requests /\ (Submit(a) \/ GetRate(a))
    BY <2>1, SubmitAt, GetRateAt DEF Typed, Reads
  <2>2. CASE a \in Tasks /\ (Enqueue(a) \/ FetchAll(a))
    BY <2>2 DEF Enqueue, FetchAll, store
  <2>3. CASE PutCache(a) \/ FindRow(a) \/ Flush(a) \/ Crash(a)
    BY <2>3, PutCacheAt, FindRowAt, FlushAt, CrashAt DEF Reads
  <2>. QED
    BY <1>2, <2>1, <2>2, <2>3 DEF StepOf, Persist
<1>3. CASE Outside \/ UNCHANGED vars
  BY <1>3 DEF Outside, Expire, Move, Settle, store, vars
<1>. QED
  BY <1>1, <1>2, <1>3, Split

\* Whoever asks the provider, or stores what it said, has found no row.
CauseOf(r) ==
  pc[r] # "idle" =>
    /\ job[r].known => table[job[r].pair] # 0
    /\ pc[r] \in Asking \cup Storing => ~ job[r].known
    /\ answer[r] = "unavailable" =>
         /\ job[r].known => job[r].transfer /\ job[r].faulted
         /\ job[r].faulted \/ table[job[r].pair] # 0

Caused == \A r \in Requests : CauseOf(r)

\* A request that has been submitted keeps its pair, and asks the provider only
\* if there was no row.
LEMMA RequestMoves ==
  ASSUME Typed, NEW r \in Requests, GetRate(r) \/ Persist(r) \/ Crash(r)
  PROVE  /\ pc[r] # "idle"
         /\ job'[r].pair = job[r].pair /\ job'[r].known = job[r].known
         /\ job'[r].transfer = job[r].transfer
         /\ pc'[r] \in Asking \cup Storing =>
              \/ pc[r] \in Asking \cup Storing
              \/ pc[r] = "read_table" /\ table[job[r].pair] = 0
         /\ answer'[r] = "unavailable" =>
              /\ pc[r] \in Asking \cup Storing \/ (job[r].transfer /\ job'[r].faulted)
              /\ job'[r].faulted \/ table[job[r].pair] # 0
<1> DEFINE j == job[r]
<1>0. /\ r \in Actors /\ r \notin Tasks /\ j \in Job /\ j.todo \subseteq {j.pair} /\ ~ j.broken
      /\ pc[r] \notin {"idle", "done"} => answer[r] = "none"
  BY Facts DEF Typed, TypeOK, ControlOf, ControlAt
<1>1. \A k \in Job : /\ Kept(k).pair = k.pair /\ Kept(k).known = k.known
                     /\ Kept(k).faulted = k.faulted /\ Kept(k).transfer = k.transfer
  BY KeptFacts
<1>2. CASE GetRate(r)
  <2> DEFINE Rated(rate) == [j EXCEPT !.rate = rate]
             k == [j EXCEPT !.faulted = TRUE]
  <2>1. \A rate : /\ Rated(rate).pair = j.pair /\ Rated(rate).known = j.known
                  /\ Rated(rate).transfer = j.transfer
    BY <1>0 DEF Job
  <2>2. /\ k \in Job /\ k.pair = j.pair /\ k.known = j.known /\ k.faulted = TRUE
        /\ k.transfer = j.transfer
    BY <1>0 DEF Job
  <2> HIDE DEF j, k, Rated
  <2>3. answer[r] = "none"
    BY <1>0, <1>2, GetRateAt DEF Asking
  <2>4. \A next, i, code : At(r, next, i, code) =>
          pc'[r] = next /\ job'[r] = i /\ answer'[r] = code
    BY <1>0, AtFrame DEF Typed
  <2> DEFINE Goal == /\ pc[r] # "idle"
                     /\ job'[r].pair = j.pair /\ job'[r].known = j.known
                     /\ job'[r].transfer = j.transfer
                     /\ pc'[r] \in Asking \cup Storing =>
                          \/ pc[r] \in Asking \cup Storing
                          \/ pc[r] = "read_table" /\ table[j.pair] = 0
                     /\ answer'[r] = "unavailable" =>
                          /\ pc[r] \in Asking \cup Storing \/ (j.transfer /\ job'[r].faulted)
                          /\ job'[r].faulted \/ table[j.pair] # 0
  <2>g. SUFFICES Goal
    BY DEF j
  <2>5. CASE \/ /\ pc[r] \in {"check_cache", "fill_cache"}
                /\ At(r, "done", Kept(j), "ok")
             \/ /\ pc[r] \in {"check_cache", "read_table", "fill_cache"}
                /\ At(r, "done", Kept(k), IF j.transfer THEN "unavailable" ELSE "error")
    BY <1>0, <1>1, <2>2, <2>4, <2>5 DEF Asking, Storing
  <2>6. CASE pc[r] = "check_cache" /\ At(r, "read_table", j, answer[r])
    BY <2>3, <2>4, <2>6 DEF Asking, Storing
  <2>7. CASE /\ pc[r] = "read_table" /\ table[j.pair] # 0
             /\ At(r, "fill_cache", Rated(table[j.pair]), answer[r])
    BY <2>1, <2>3, <2>4, <2>7 DEF Asking, Storing
  <2>8. CASE /\ pc[r] = "read_table" /\ table[j.pair] = 0
             /\ At(r, "direct", Rated(table[j.pair]), answer[r])
    BY <2>1, <2>3, <2>4, <2>8
  <2>9. CASE pc[r] \in Asking /\ At(r, "put_cache", Rated(market), answer[r])
    BY <2>1, <2>3, <2>4, <2>9 DEF Asking
  <2>10. CASE pc[r] \in Asking /\ \E next \in {"inverse", "cross"} : At(r, next, j, answer[r])
    BY <2>3, <2>4, <2>10 DEF Asking
  <2>11. CASE /\ pc[r] \in Asking
              /\ At(r, "done", Kept(k), "unavailable")
    BY <1>1, <2>2, <2>4, <2>11 DEF Asking
  <2>. QED
    BY <1>2, GetRateAt, <2>5, <2>6, <2>7, <2>8, <2>9, <2>10, <2>11 DEF j, k, Rated
<1>3. CASE PutCache(r)
  <2>1. PICK p \in j.todo : \/ At(r, "find_row", Taken(j, p), answer[r])
                            \/ StoreFails(r, [Taken(j, p) EXCEPT !.faulted = TRUE])
    BY <1>0, <1>3, PutCacheAt
  <2> DEFINE k == Taken(j, p)
             l == [k EXCEPT !.faulted = TRUE]
  <2>2. /\ k.pair = j.pair /\ k.known = j.known
        /\ k.transfer = j.transfer /\ l.transfer = j.transfer
        /\ l \in Job /\ l.pair = j.pair /\ l.known = j.known /\ l.faulted = TRUE
    BY <1>0 DEF Taken, Job
  <2> HIDE DEF k, l
  <2>3. pc[r] = "put_cache"
    BY <1>0, <1>3, PutCacheAt
  <2>4. At(r, "find_row", k, answer[r]) \/ At(r, "done", Kept(l), "unavailable")
    BY <1>0, <2>1, <2>2, StoreFailsAt DEF Typed, k, l
  <2>. QED
    BY <1>0, <1>1, <2>2, <2>3, <2>4, AtFrame DEF Storing, Typed
<1>4. CASE FindRow(r)
  <2>1. pc[r] = "find_row" /\ At(r, "flush", [j EXCEPT !.existing = table[j.pair]], answer[r])
    BY <1>0, <1>4, FindRowAt
  <2> DEFINE k == [j EXCEPT !.existing = table[j.pair]]
  <2>2. k.pair = j.pair /\ k.known = j.known /\ k.transfer = j.transfer
    BY <1>0 DEF Job
  <2> HIDE DEF k, j
  <2>3. At(r, "flush", k, answer[r])
    BY <2>1 DEF k
  <2>4. pc'[r] = "flush" /\ job'[r] = k /\ answer'[r] = "none"
    BY <1>0, <2>1, <2>3, AtFrame DEF Typed
  <2>. QED
    BY <1>0, <2>1, <2>2, <2>4 DEF Storing, j
<1>5. CASE Flush(r)
  <2> DEFINE k == [j EXCEPT !.broken = TRUE]
  <2>1. k \in Job /\ k.pair = j.pair /\ k.known = j.known /\ k.transfer = j.transfer
    BY <1>0 DEF Job
  <2> HIDE DEF k
  <2>2. /\ pc[r] = "flush"
        /\ \/ At(r, "commit", j, answer[r])
           \/ table[j.pair] # 0 /\ At(r, "done", Kept(k), "unavailable")
    BY <1>0, <1>5, <2>1, FlushAt, StoreFailsAt DEF Typed, k
  <2>. QED
    BY <1>0, <1>1, <2>1, <2>2, AtFrame DEF Storing, Typed
<1>6. CASE Commit(r) \/ Crash(r)
  <2>1. pc[r] # "idle" /\ \E code \in {"ok", "lost"} : At(r, "done", Kept(j), code)
    BY <1>0, <1>6, CommitAt, CrashAt
  <2>2. pc'[r] = "done" /\ job'[r] = Kept(j) /\ answer'[r] \in {"ok", "lost"}
    BY <1>0, <2>1, AtFrame DEF Typed
  <2>. QED
    BY <1>0, <1>1, <2>1, <2>2 DEF Storing, Asking
<1>. QED
  BY <1>2, <1>3, <1>4, <1>5, <1>6 DEF Persist

LEMMA CausedStep == Typed /\ Caused /\ [Next]_vars => Caused'
<1> SUFFICES ASSUME Typed, Caused, [Next]_vars, NEW r \in Requests PROVE CauseOf(r)'
  BY DEF Caused
<1>0. /\ r \in Actors /\ r \notin Tasks /\ CauseOf(r)
      /\ pc[r] # "idle" => job[r].pair \in Pairs
      /\ \A p \in Pairs : table[p] # 0 => table'[p] # 0
  BY TableGrows, Facts DEF Caused, Typed, ControlOf, ControlAt
<1>1. CASE pc'[r] = pc[r] /\ job'[r] = job[r] /\ answer'[r] = answer[r]
  BY <1>0, <1>1 DEF CauseOf
<1>2. CASE GetRate(r) \/ Persist(r) \/ Crash(r)
  <2>1. /\ pc[r] # "idle"
        /\ job'[r].pair = job[r].pair /\ job'[r].known = job[r].known
        /\ job'[r].transfer = job[r].transfer
        /\ pc'[r] \in Asking \cup Storing =>
             \/ pc[r] \in Asking \cup Storing
             \/ pc[r] = "read_table" /\ table[job[r].pair] = 0
        /\ answer'[r] = "unavailable" =>
             /\ pc[r] \in Asking \cup Storing \/ (job[r].transfer /\ job'[r].faulted)
             /\ job'[r].faulted \/ table[job[r].pair] # 0
    BY <1>2, RequestMoves
  <2>2. pc[r] \in Asking \cup Storing => ~ job[r].known
    BY <1>0, <2>1 DEF CauseOf
  <2>. QED
    BY <1>0, <2>1, <2>2 DEF CauseOf
<1>3. CASE Submit(r)
  <2>1. PICK p \in Pairs, b \in BOOLEAN : At(r, "check_cache",
              [NewJob EXCEPT !.pair = p, !.transfer = b, !.todo = {p}, !.known = table[p] # 0], answer[r])
    BY <1>3, SubmitAt DEF Typed
  <2> DEFINE k == [NewJob EXCEPT !.pair = p, !.transfer = b, !.todo = {p}, !.known = table[p] # 0]
  <2>2. k.pair = p /\ k.known = (table[p] # 0)
    BY DEF NewJob
  <2> HIDE DEF k
  <2>3. pc'[r] = "check_cache" /\ job'[r] = k /\ answer'[r] = answer[r]
    BY <1>0, <2>1, AtFrame DEF k, Typed
  <2>4. answer[r] = "none"
    BY <1>0, <1>3, SubmitAt DEF Typed, ControlOf, ControlAt
  <2>. QED
    BY <1>0, <2>2, <2>3, <2>4 DEF CauseOf, Asking, Storing
<1>4. ASSUME NEW a \in Actors, StepOf(a) PROVE CauseOf(r)'
  <2>1. CASE a = r
    BY <1>0, <1>2, <1>3, <1>4, <2>1 DEF StepOf
  <2>2. CASE a # r
    BY <1>0, <1>1, <1>4, <2>2, StepFrame
  <2>. QED
    BY <2>1, <2>2
<1>5. CASE Outside \/ UNCHANGED vars
  BY <1>1, <1>5 DEF Outside, Expire, Move, Settle, vars
<1>. QED
  BY <1>4, <1>5, Split

\* A pair that was in the table is refused only to a transfer whose look-up failed, and
\* a request that was refused although nothing outside failed would be served if it
\* came again.
THEOREM RefusalsHaveACause == Spec => []RefusedOnlyForCause
<1>1. Init => Caused
  BY DEF Init, Caused, CauseOf, Actors
<1>2. Typed /\ Caused => RefusedOnlyForCause
  <2> SUFFICES ASSUME Typed, Caused, NEW r \in Requests, answer[r] = "unavailable"
               PROVE  /\ job[r].known => job[r].transfer /\ job[r].faulted
                      /\ job[r].faulted \/ table[job[r].pair] # 0
    BY DEF RefusedOnlyForCause
  <2>1. pc[r] # "idle"
    BY Facts DEF Typed, ControlOf, ControlAt
  <2>. QED
    BY <2>1 DEF Caused, CauseOf
<1>. QED
  BY <1>1, <1>2, TypedInit, TypedNext, CausedStep, PTL DEF Spec

-----------------------------------------------------------------------------
\* What a successful refresh has stored.

\* Every pair has been stored, is being stored or is yet to be stored, and the
\* session is whole.
Accounted(next, j) ==
  /\ ~ j.broken /\ j.todo \subseteq Refreshed
  /\ next \in OnPair => j.pair \in Refreshed
  /\ next = "flush" => j.existing # 0
  /\ Refreshed = j.saved \cup j.todo \cup (IF next \in OnPair THEN {j.pair} ELSE {})

CompleteAt(next, j, code) ==
  j.known =>
    /\ \A p \in Refreshed : table[p] # 0
    /\ next \in Storing /\ ~ j.faulted => Accounted(next, j)
    /\ code = "refreshed" /\ ~ j.faulted => j.saved = Refreshed

CompleteOf(t) == CompleteAt(pc[t], job[t], answer[t])

Complete == \A t \in Tasks : CompleteOf(t)

LEMMA CompleteNextPair ==
  ASSUME Typed, NEW t \in Tasks, NEW j \in Job, NextPair(t, j), answer[t] = "none",
         j.known => \A p \in Refreshed : table'[p] # 0,
         j.known /\ ~ j.faulted =>
           ~ j.broken /\ j.todo \subseteq Refreshed /\ Refreshed = j.saved \cup j.todo
  PROVE  CompleteOf(t)'
<1> DEFINE k == Cleared(j)
           l == Kept(k)
<1>0. t \in Actors
  BY Facts
<1>1. /\ k \in Job /\ k.todo = j.todo /\ k.broken = j.broken /\ k.saved = j.saved
      /\ k.known = j.known /\ k.faulted = j.faulted
  BY ClearedFacts
<1> HIDE DEF k
<1>2. l.saved = k.saved /\ l.known = k.known /\ l.faulted = k.faulted
  BY <1>1, KeptFacts
<1> HIDE DEF l
<1>3. \/ j.todo = {} /\ At(t, "idle", l, "refreshed")
      \/ At(t, "put_cache", k, answer[t])
  BY NextPairAt DEF k, l, Typed
<1>4. CASE j.todo = {} /\ At(t, "idle", l, "refreshed")
  <2>1. pc'[t] = "idle" /\ job'[t] = l /\ answer'[t] = "refreshed"
    BY <1>0, <1>4, AtFrame DEF Typed
  <2>. QED
    BY <1>1, <1>2, <1>4, <2>1 DEF CompleteOf, CompleteAt, Storing
<1>5. CASE At(t, "put_cache", k, answer[t])
  <2>1. pc'[t] = "put_cache" /\ job'[t] = k /\ answer'[t] = "none"
    BY <1>0, <1>5, AtFrame DEF Typed
  <2>. QED
    BY <1>1, <2>1 DEF CompleteOf, CompleteAt, Accounted, Storing, OnPair
<1>. QED
  BY <1>3, <1>4, <1>5

\* A step of a task itself.
LEMMA CompleteOwnStep ==
  ASSUME Typed, NEW t \in Tasks, CompleteOf(t), StepOf(t),
         \A p \in Pairs : table[p] # 0 => table'[p] # 0
  PROVE  CompleteOf(t)'
<1> DEFINE j == job[t]
<1>0. /\ t \in Actors /\ t \notin Requests /\ j \in Job /\ Refreshed \subseteq Pairs
      /\ NewJob.known = FALSE
  BY Facts DEF Typed, TypeOK, NewJob
<1>1. \A next, i, code : At(t, next, i, code) =>
        pc'[t] = next /\ job'[t] = i /\ answer'[t] = code
  BY <1>0, AtFrame DEF Typed
<1>2. j.known => \A p \in Refreshed : table'[p] # 0
  BY <1>0 DEF CompleteOf, CompleteAt
<1>3. ASSUME pc[t] \in Storing
      PROVE  answer[t] = "none" /\ (j.known /\ ~ j.faulted => Accounted(pc[t], j))
  BY <1>0, <1>3, StoringFacts DEF CompleteOf, CompleteAt
<1>4. CASE Enqueue(t) \/ FetchAll(t)
  <2> DEFINE k == [NewJob EXCEPT !.rate = market, !.todo = Refreshed,
                     !.attempts = j.attempts, !.known = \A p \in Refreshed : table[p] # 0]
             l == [j EXCEPT !.attempts = @ + 1]
  <2>1. /\ k.todo = Refreshed /\ k.saved = {} /\ k.broken = FALSE
        /\ k.known = (\A p \in Refreshed : table[p] # 0)
    BY DEF NewJob
  <2>2. l.known = j.known /\ l.saved = j.saved /\ l.faulted = j.faulted
    BY <1>0 DEF Job
  <2>3. Kept(j).known = j.known
    BY <1>0, KeptFacts
  <2>4. \/ At(t, "queued", NewJob, "none")
        \/ /\ pc[t] = "queued"
           /\ \/ At(t, "put_cache", k, answer[t])
              \/ At(t, "queued", l, answer[t])
              \/ At(t, "idle", Kept(j), "failed")
    BY <1>4, TaskAt
  <2>5. pc[t] = "queued" => answer[t] = "none"
    BY <1>0 DEF Typed, ControlOf, ControlAt
  <2> HIDE DEF j, k, l
  <2>6. CASE At(t, "queued", NewJob, "none")
    BY <1>0, <1>1, <2>6 DEF CompleteOf, CompleteAt
  <2>7. CASE pc[t] = "queued" /\ At(t, "put_cache", k, answer[t])
    <3>1. pc'[t] = "put_cache" /\ job'[t] = k /\ answer'[t] = "none"
      BY <1>1, <2>5, <2>7
    <3>2. k.known => \A p \in Refreshed : table'[p] # 0
      BY <1>0, <2>1
    <3>3. Accounted("put_cache", k)
      BY <2>1 DEF Accounted, OnPair
    <3>. QED
      BY <3>1, <3>2, <3>3 DEF CompleteOf, CompleteAt
  <2>8. CASE pc[t] = "queued" /\ At(t, "queued", l, answer[t])
    BY <1>1, <1>2, <2>2, <2>5, <2>8 DEF CompleteOf, CompleteAt, Storing
  <2>9. CASE At(t, "idle", Kept(j), "failed")
    BY <1>1, <1>2, <2>3, <2>9 DEF CompleteOf, CompleteAt, Storing
  <2>. QED
    BY <2>4, <2>6, <2>7, <2>8, <2>9
<1>5. CASE PutCache(t)
  <2>1. PICK p \in j.todo : \/ At(t, "find_row", Taken(j, p), answer[t])
                            \/ StoreFails(t, [Taken(j, p) EXCEPT !.faulted = TRUE])
    BY <1>0, <1>5, PutCacheAt
  <2> DEFINE k == Taken(j, p)
             l == [k EXCEPT !.faulted = TRUE]
  <2>2. /\ k.pair = p /\ k.todo = j.todo \ {p} /\ k.broken = j.broken /\ k.saved = j.saved
        /\ k.known = j.known /\ k.faulted = j.faulted
        /\ l \in Job /\ l.known = j.known /\ l.faulted = TRUE
    BY <1>0 DEF Taken, Job
  <2>3. pc[t] = "put_cache"
    BY <1>0, <1>5, PutCacheAt
  <2> HIDE DEF k, l, j
  <2>4. CASE At(t, "find_row", k, answer[t])
    BY <1>1, <1>2, <1>3, <2>2, <2>3, <2>4 DEF CompleteOf, CompleteAt, Accounted, Storing, OnPair
  <2>5. CASE StoreFails(t, l)
    BY <1>0, <1>2, <1>3, <2>2, <2>3, <2>5, CompleteNextPair DEF StoreFails, Storing
  <2>. QED
    BY <2>1, <2>4, <2>5 DEF k, l
<1>6. CASE FindRow(t)
  <2> DEFINE k == [j EXCEPT !.existing = table[j.pair]]
  <2>1. /\ pc[t] = "find_row"
        /\ (j.broken /\ StoreFails(t, j)) \/ At(t, "flush", k, answer[t])
    BY <1>0, <1>6, FindRowAt
  <2>2. /\ k.pair = j.pair /\ k.todo = j.todo /\ k.broken = j.broken /\ k.saved = j.saved
        /\ k.known = j.known /\ k.faulted = j.faulted /\ k.existing = table[j.pair]
    BY <1>0 DEF Job
  <2>3. j.known => \A p \in Refreshed : table[p] # 0
    BY DEF CompleteOf, CompleteAt
  <2> HIDE DEF k, j
  <2>4. CASE j.broken /\ StoreFails(t, j)
    BY <1>0, <1>2, <1>3, <2>1, <2>4, CompleteNextPair DEF StoreFails, Accounted, Storing
  <2>5. CASE At(t, "flush", k, answer[t])
    BY <1>1, <1>2, <1>3, <2>1, <2>2, <2>3, <2>5 DEF CompleteOf, CompleteAt, Accounted, Storing, OnPair
  <2>. QED
    BY <2>1, <2>4, <2>5
<1>7. CASE Flush(t)
  <2> DEFINE k == [j EXCEPT !.broken = TRUE]
  <2>1. /\ pc[t] = "flush"
        /\ At(t, "commit", j, answer[t]) \/ (j.existing = 0 /\ StoreFails(t, k))
    BY <1>0, <1>7, FlushAt
  <2>2. k \in Job /\ k.known = j.known /\ k.faulted = j.faulted
    BY <1>0 DEF Job
  <2> HIDE DEF k, j
  <2>3. CASE At(t, "commit", j, answer[t])
    BY <1>1, <1>2, <1>3, <2>1, <2>3 DEF CompleteOf, CompleteAt, Accounted, Storing, OnPair
  <2>4. CASE j.existing = 0 /\ StoreFails(t, k)
    BY <1>0, <1>2, <1>3, <2>1, <2>2, <2>4, CompleteNextPair DEF StoreFails, Accounted, Storing
  <2>. QED
    BY <2>1, <2>3, <2>4
<1>8. CASE Commit(t)
  <2> DEFINE k == [j EXCEPT !.saved = @ \cup {j.pair}]
  <2>1. pc[t] = "commit" /\ NextPair(t, k)
    BY <1>0, <1>8, CommitAt
  <2>2. j.pair \in Pairs
    BY <1>0, <2>1, StoringFacts DEF Storing, OnPair
  <2>3. /\ k \in Job /\ k.todo = j.todo /\ k.broken = j.broken /\ k.saved = j.saved \cup {j.pair}
        /\ k.known = j.known /\ k.faulted = j.faulted
    BY <1>0, <2>2 DEF Job
  <2> HIDE DEF k, j
  <2>. QED
    BY <1>0, <1>2, <1>3, <2>1, <2>3, CompleteNextPair DEF Accounted, Storing, OnPair
<1>9. CASE Crash(t)
  <2> DEFINE k == [NewJob EXCEPT !.attempts = j.attempts]
  <2>1. At(t, "queued", k, answer[t])
    BY <1>0, <1>9, CrashAt
  <2>2. k.known = FALSE
    BY DEF NewJob
  <2> HIDE DEF k
  <2>. QED
    BY <1>1, <2>1, <2>2 DEF CompleteOf, CompleteAt
<1>. QED
  BY <1>0, <1>4, <1>5, <1>6, <1>7, <1>8, <1>9 DEF StepOf, Persist

LEMMA CompleteStep == Typed /\ Complete /\ [Next]_vars => Complete'
<1> SUFFICES ASSUME Typed, Complete, [Next]_vars, NEW t \in Tasks PROVE CompleteOf(t)'
  BY DEF Complete
<1>0. /\ t \in Actors /\ CompleteOf(t) /\ Refreshed \subseteq Pairs
      /\ \A p \in Pairs : table[p] # 0 => table'[p] # 0
  BY TableGrows, Facts DEF Complete
<1>1. CASE pc'[t] = pc[t] /\ job'[t] = job[t] /\ answer'[t] = answer[t]
  BY <1>0, <1>1 DEF CompleteOf, CompleteAt, Accounted
<1>2. ASSUME NEW a \in Actors, StepOf(a) PROVE CompleteOf(t)'
  BY <1>0, <1>1, <1>2, CompleteOwnStep, StepFrame
<1>3. CASE Outside \/ UNCHANGED vars
  BY <1>1, <1>3 DEF Outside, Expire, Move, Settle, vars
<1>. QED
  BY <1>2, <1>3, Split

\* A refresh that reports success has stored all its pairs, if all were in the
\* table before and no call failed.
THEOREM SuccessIsComplete == Spec => []RefreshIsComplete
<1>1. Init => Complete
  <2>1. NewJob.known = FALSE
    BY DEF NewJob
  <2>. QED
    BY <2>1 DEF Init, Complete, CompleteOf, CompleteAt, Actors
<1>2. Complete => RefreshIsComplete
  BY DEF Complete, CompleteOf, CompleteAt, RefreshIsComplete
<1>. QED
  BY <1>1, <1>2, TypedInit, TypedNext, CompleteStep, PTL DEF Spec
=============================================================================
