--------------------------- MODULE HttpApiProofs ---------------------------
(***************************************************************************)
(* The safety properties of the requests that move no money, for any sets  *)
(* of requests, users, profiles and calls, and any limits.                 *)
(***************************************************************************)
EXTENDS HttpApi, TLAPS

-----------------------------------------------------------------------------
\* Types, and what a handler must have done to be where it is.

ControlOf(r) ==
  /\ pc[r] # "idle" => call[r] # None
  /\ pc[r] = "exists" => call[r].op \in {"register", "wallet"}
  /\ pc[r] = "load" => call[r].op # "register"
  /\ pc[r] \in {"cache_get", "cache_put"} => call[r].op = "get_profile" /\ loaded[r] # None
  /\ pc[r] \in {"write", "refresh", "invalidate"} =>
       call[r].op = "update_profile" /\ loaded[r] # None
  /\ pc[r] \in {"insert", "commit"} => key[r] # None
  /\ key[r] # None => pc[r] \in {"insert", "commit", "done"}
  /\ answer[r] # "none" => pc[r] = "done"

Typed == TypeOK /\ \A r \in Requests : ControlOf(r)

\* What the assumptions say of a call that has been made.
LEMMA CallFacts ==
  ASSUME TypeOK, NEW r \in Requests, call[r] # None
  PROVE  /\ call[r] \in Calls /\ call[r].op \in Ops
         /\ User(r) \in Users /\ call[r].name \in Names \cup {None}
         /\ PathOf(r) \in Paths
         /\ <<"user", User(r)>> \in UniqueKey /\ <<"wallet", User(r)>> \in UniqueKey
         /\ <<"token", User(r), now>> \in UniqueKey
<1>1. call[r] \in Calls
  BY DEF TypeOK
<1>2. call[r] \in Call
  BY <1>1, CallsAssumption
<1>3. call[r].op \in Ops /\ call[r].user \in Users /\ call[r].name \in Names \cup {None}
  BY <1>2 DEF Call
<1>4. PathOf(r) \in Paths
  BY <1>3 DEF PathOf, Paths
<1>. QED
  BY <1>1, <1>3, <1>4 DEF User, UniqueKey, TypeOK

LEMMA TypedInit == Init => Typed
<1> SUFFICES ASSUME Init PROVE Typed
  OBVIOUS
<1>1. \A u \in Registered : <<"user", u>> \in UniqueKey
  BY CallsAssumption DEF UniqueKey
<1>2. \E name \in Names : profile = [u \in Users |-> name]
  BY DEF Init
<1>3. now \in Second
  BY SecondsAssumption DEF Init, Second
<1>. QED
  BY <1>1, <1>2, <1>3 DEF Init, Typed, TypeOK, ControlOf, PC, Answers

LEMMA TypedLimiter ==
  ASSUME Typed, NEW r \in Requests, Submit(r) \/ Incr(r) \/ Expire(r)
  PROVE  Typed'
<1> USE DEF Typed, TypeOK, ControlOf, PC, Answers, redis, db, local, history, Goto, Answer
<1>1. CASE Submit(r)
  BY <1>1, NoneAssumption DEF Submit
<1>2. CASE Incr(r) \/ Expire(r)
  <2> DEFINE p == PathOf(r)
  <2>1. p \in Paths /\ call[r].op \in Ops
    BY <1>2, CallFacts DEF Incr, Expire
  <2>2. Entry(r) \in {"exists", "load"}
        /\ (Entry(r) = "exists" => call[r].op = "register")
        /\ (Entry(r) = "load" => call[r].op # "register")
    BY DEF Entry
  <2>3. CASE Incr(r)
    <3>1. count' \in [Paths -> Nat] /\ admitted' \in [Paths -> Nat]
      BY <2>1, <2>3 DEF Incr, Decide
    <3>2. pc' \in [Requests -> PC] /\ answer' \in [Requests -> Answers]
      BY <2>2, <2>3 DEF Incr, Decide
    <3>3. TypeOK'
      BY <2>3, <3>1, <3>2 DEF Incr
    <3>. QED
      BY <2>2, <2>3, <3>3 DEF Incr, Decide
  <2>4. CASE Expire(r)
    <3>a. expires' \in [Paths -> BOOLEAN]
      <4>1. expires' \in {expires, [expires EXCEPT ![p] = count[p] > 0]}
        BY <2>4 DEF Expire
      <4>2. (count[p] > 0) \in BOOLEAN
        OBVIOUS
      <4>. QED
        BY <4>1, <4>2, <2>1
    <3>b. cut' \in [Paths -> BOOLEAN]
      BY <2>1, <2>4 DEF Expire
    <3>1. expires' \in [Paths -> BOOLEAN] /\ admitted' \in [Paths -> Nat] /\ cut' \in [Paths -> BOOLEAN]
      BY <2>1, <2>4, <3>a, <3>b DEF Expire, Decide
    <3>2. pc' \in [Requests -> PC] /\ answer' \in [Requests -> Answers]
      BY <2>2, <2>4 DEF Expire, Decide
    <3>3. TypeOK'
      BY <2>4, <3>1, <3>2 DEF Expire
    <3>. QED
      BY <2>2, <2>4, <3>3 DEF Expire, Decide
  <2>. QED
    BY <1>2, <2>3, <2>4
<1>. QED
  BY <1>1, <1>2

LEMMA TypedRows ==
  ASSUME Typed, NEW r \in Requests, Exists(r) \/ Load(r) \/ Insert(r) \/ Commit(r)
  PROVE  Typed'
<1> USE DEF Typed, TypeOK, ControlOf, PC, Answers, redis, db, local, history, Goto, Answer
<1>0. /\ call[r].op \in Ops /\ User(r) \in Users
      /\ <<"user", User(r)>> \in UniqueKey /\ <<"wallet", User(r)>> \in UniqueKey
      /\ <<"token", User(r), now>> \in UniqueKey
  BY CallFacts DEF Exists, Load, Insert, Commit
<1>1. CASE Exists(r)
  <2> DEFINE k == <<IF call[r].op = "register" THEN "user" ELSE "wallet", User(r)>>
  <2>1. k \in UniqueKey
    BY <1>0
  <2> HIDE DEF k
  <2>2. k # None
    BY <2>1, NoneAssumption
  <2>3. /\ IF k \in rows THEN Answer(r, "conflict") /\ UNCHANGED key
           ELSE Goto(r, "insert") /\ key' = [key EXCEPT ![r] = k]
        /\ UNCHANGED <<redis, db, call, loaded, now, history>> /\ pc[r] = "exists"
    BY <1>1 DEF Exists, Wanted, k
  <2>. QED
    BY <2>1, <2>2, <2>3
<1>2. CASE Load(r)
  <2> DEFINE k == <<"token", User(r), now>>
  <2>1. k \in UniqueKey /\ k # None
    BY <1>0, NoneAssumption
  <2>2. profile[User(r)] \in Names /\ profile[User(r)] # None
    BY <1>0, NoneAssumption
  <2> HIDE DEF k
  <2>3. CASE <<"user", User(r)>> \notin rows
    BY <1>2, <2>3 DEF Load
  <2>4. CASE <<"user", User(r)>> \in rows
    <3>1. /\ loaded' = [loaded EXCEPT ![r] = IF PathOf(r) = "me" THEN profile[User(r)] ELSE None]
          /\ key' = IF call[r].op = "login" THEN [key EXCEPT ![r] = k] ELSE key
          /\ pc' = [pc EXCEPT ![r] = CASE call[r].op = "login" -> "insert"
                       [] call[r].op = "wallet" -> "exists"
                       [] call[r].op = "get_profile" -> "cache_get"
                       [] call[r].op = "update_profile" -> "write"]
          /\ UNCHANGED <<redis, db, call, now, history, answer>> /\ pc[r] = "load"
      BY <1>2, <2>4 DEF Load, k
    <3>2. call[r].op \in {"login", "wallet", "get_profile", "update_profile"}
      BY <3>1, <1>0 DEF Ops
    <3>3. CASE call[r].op = "login"
      BY <3>1, <3>3, <2>1 DEF PathOf, Path
    <3>4. CASE call[r].op = "wallet"
      BY <3>1, <3>4 DEF PathOf, Path
    <3>5. CASE call[r].op = "get_profile"
      BY <3>1, <3>5, <2>2 DEF PathOf, Path
    <3>6. CASE call[r].op = "update_profile"
      BY <3>1, <3>6, <2>2 DEF PathOf, Path
    <3>. QED
      BY <3>2, <3>3, <3>4, <3>5, <3>6
  <2>. QED
    BY <2>3, <2>4
<1>3. CASE Insert(r)
  BY <1>3 DEF Insert
<1>4. CASE Commit(r)
  BY <1>4 DEF Commit, Released
<1>. QED
  BY <1>1, <1>2, <1>3, <1>4

LEMMA TypedProfile ==
  ASSUME Typed, NEW r \in Requests,
         CacheGet(r) \/ CachePut(r) \/ Write(r) \/ Refresh(r) \/ Invalidate(r)
  PROVE  Typed'
<1> USE NoneAssumption
        DEF Typed, TypeOK, ControlOf, PC, Answers, redis, db, local, history, Goto, Answer, Outdate
<1>0. User(r) \in Users /\ call[r].name \in Names \cup {None} /\ profile[User(r)] \in Names
  BY CallFacts DEF CacheGet, CachePut, Write, Refresh, Invalidate
<1>1. CASE CacheGet(r)
  BY <1>1 DEF CacheGet
<1>2. CASE CachePut(r)
  BY <1>0, <1>2 DEF CachePut
<1>3. CASE Write(r)
  <2>1. profile' \in [Users -> Names]
    BY <1>0, <1>3 DEF Write
  <2>2. outdated' \in [Users -> BOOLEAN]
    BY <1>0, <1>3 DEF Write
  <2>3. overtaken' \subseteq Requests
    BY <1>3 DEF Write, Overtake
  <2>. QED
    BY <1>3, <2>1, <2>2, <2>3 DEF Write
<1>4. CASE Refresh(r)
  <2>1. outdated' \in [Users -> BOOLEAN]
    BY <1>0, <1>4 DEF Refresh
  <2>. QED
    BY <1>0, <1>4, <2>1 DEF Refresh
<1>5. CASE Invalidate(r)
  <2>1. cached' \in [Users -> Names \cup {None}]
    BY <1>0, <1>5 DEF Invalidate
  <2>2. outdated' \in [Users -> BOOLEAN]
    BY <1>0, <1>5 DEF Invalidate
  <2>. QED
    BY <1>5, <2>1, <2>2 DEF Invalidate
<1>. QED
  BY <1>1, <1>2, <1>3, <1>4, <1>5

LEMMA TypedRest ==
  ASSUME Typed,
         \/ \E r \in Requests : Crash(r)
         \/ \E p \in Paths : WindowEnds(p)
         \/ \E u \in Users : Evict(u)
         \/ Tick
  PROVE  Typed'
<1> USE DEF Typed, TypeOK, ControlOf, PC, Answers, redis, db, local, history, Goto, Answer, Outdate
<1>1. ASSUME NEW r \in Requests, Crash(r) PROVE Typed'
  <2>1. User(r) \in Users
    BY <1>1, CallFacts DEF Crash
  <2>2. cut' \in [Paths -> BOOLEAN] /\ outdated' \in [Users -> BOOLEAN]
    BY <1>1, <2>1 DEF Crash
  <2>. QED
    BY <1>1, <2>2 DEF Crash, Released
<1>2. ASSUME NEW p \in Paths, WindowEnds(p) PROVE Typed'
  BY <1>2 DEF WindowEnds
<1>3. ASSUME NEW u \in Users, Evict(u) PROVE Typed'
  BY <1>3 DEF Evict
<1>4. CASE Tick
  <2>1. now' \in Second
    BY <1>4, SecondsAssumption DEF Tick, Second
  <2>. QED
    BY <1>4, <2>1 DEF Tick
<1>. QED
  BY <1>1, <1>2, <1>3, <1>4

LEMMA TypedNext == Typed /\ [Next]_vars => Typed'
<1> SUFFICES ASSUME Typed, [Next]_vars PROVE Typed'
  OBVIOUS
<1>1. ASSUME NEW r \in Requests, Submit(r) \/ Step(r) PROVE Typed'
  BY <1>1, TypedLimiter, TypedRows, TypedProfile DEF Step
<1>2. CASE UNCHANGED vars
  BY <1>2 DEF Typed, TypeOK, ControlOf, vars, redis, db, local, history
<1>. QED
  BY <1>1, <1>2, TypedRest DEF Next

\* Every variable keeps its type, and no handler reaches a step without what the
\* steps before it should have left: a key to insert, a profile to cache.
THEOREM TypeCorrect == Spec => []TypeOK
<1>1. Typed => TypeOK
  BY DEF Typed
<1>. QED
  BY <1>1, TypedInit, TypedNext, PTL DEF Spec

-----------------------------------------------------------------------------
\* The limiter.

\* Some request of path p has still to give the counter its expiry.
Pending(r, p) == pc[r] = "expire" /\ PathOf(r) = p

\* Every other step leaves the counters and the requests at "expire" alone.
LEMMA LimiterFrame ==
  ASSUME Typed, [Next]_vars,
         \A r \in Requests : ~ (Incr(r) \/ Expire(r) \/ Crash(r)),
         \A p \in Paths : ~ WindowEnds(p)
  PROVE  /\ UNCHANGED <<count, expires, admitted, cut>>
         /\ \A r \in Requests, p \in Paths : Pending(r, p)' <=> Pending(r, p)
<1> USE DEF Typed, TypeOK, Pending, PathOf, redis, db, local, history, Goto, Answer
<1>1. ASSUME NEW s \in Requests, Submit(s)
      PROVE  /\ UNCHANGED <<count, expires, admitted, cut>>
             /\ \A r \in Requests, p \in Paths : Pending(r, p)' <=> Pending(r, p)
  BY <1>1 DEF Submit
<1>2. ASSUME NEW s \in Requests, Exists(s) \/ Load(s) \/ Insert(s) \/ Commit(s)
      PROVE  /\ UNCHANGED <<count, expires, admitted, cut, call>>
             /\ \A r \in Requests : pc'[r] = "expire" <=> pc[r] = "expire"
  <2>1. CASE Exists(s)
    BY <2>1 DEF Exists
  <2>2. CASE Load(s)
    BY <2>2, CallFacts DEF Load, Ops, ControlOf
  <2>3. CASE Insert(s) \/ Commit(s)
    BY <2>3 DEF Insert, Commit
  <2>. QED
    BY <1>2, <2>1, <2>2, <2>3
<1>3. ASSUME NEW s \in Requests,
             CacheGet(s) \/ CachePut(s) \/ Write(s) \/ Refresh(s) \/ Invalidate(s)
      PROVE  /\ UNCHANGED <<count, expires, admitted, cut, call>>
             /\ \A r \in Requests : pc'[r] = "expire" <=> pc[r] = "expire"
  BY <1>3 DEF CacheGet, CachePut, Write, Refresh, Invalidate
<1>4. CASE (\E u \in Users : Evict(u)) \/ Tick \/ UNCHANGED vars
  BY <1>4 DEF Evict, Tick, vars
<1>5. CASE \E s \in Requests : Step(s)
  BY <1>2, <1>3, <1>5 DEF Step
<1>. QED
  BY <1>1, <1>4, <1>5 DEF Next

\* A counter that has begun has an expiry, or a request about to set it, unless the
\* request that should have set it died or lost Redis first.
StuckOnlyWhenCut ==
  \A p \in Paths : count[p] > 0 =>
    expires[p] \/ cut[p] \/ \E r \in Requests : Pending(r, p)

LEMMA CountersStep == Typed /\ StuckOnlyWhenCut /\ [Next]_vars => StuckOnlyWhenCut'
<1> SUFFICES ASSUME Typed, StuckOnlyWhenCut, [Next]_vars,
                    NEW p \in Paths, count'[p] > 0
             PROVE  expires'[p] \/ cut'[p] \/ \E r \in Requests : Pending(r, p)'
  BY DEF StuckOnlyWhenCut, Pending, PathOf
<1>0. count[p] > 0 => expires[p] \/ cut[p] \/ \E r \in Requests : Pending(r, p)
  BY DEF StuckOnlyWhenCut, Pending
<1> USE DEF Typed, TypeOK, Pending, PathOf, redis, db, local, history, Goto, Answer
<1>1. ASSUME NEW s \in Requests, Incr(s)
      PROVE  expires'[p] \/ cut'[p] \/ \E r \in Requests : Pending(r, p)'
  <2>1. call' = call /\ expires' = expires /\ cut' = cut /\ pc[s] = "incr"
    BY <1>1 DEF Incr
  <2>2. \A r \in Requests \ {s} : pc'[r] = pc[r]
    BY <1>1 DEF Incr, Decide
  <2>3. CASE count[p] > 0
    BY <1>0, <2>1, <2>2, <2>3
  <2>4. CASE ~ (count[p] > 0)
    <3>1. count[p] = 0 /\ PathOf(s) = p
      BY <1>1, <2>4 DEF Incr
    <3>2. pc'[s] = "expire"
      BY <1>1, <3>1 DEF Incr
    <3>. QED
      BY <2>1, <3>1, <3>2
  <2>. QED
    BY <2>3, <2>4
<1>2. ASSUME NEW s \in Requests, Expire(s)
      PROVE  expires'[p] \/ cut'[p] \/ \E r \in Requests : Pending(r, p)'
  <2>1. call' = call /\ count' = count /\ pc[s] = "expire"
    BY <1>2 DEF Expire
  <2>2. \A r \in Requests \ {s} : pc'[r] = pc[r]
    BY <1>2 DEF Expire, Decide
  <2>3. CASE PathOf(s) = p
    <3>1. (expires' = [expires EXCEPT ![p] = count[p] > 0]) \/ (cut' = [cut EXCEPT ![p] = TRUE])
      BY <1>2, <2>3 DEF Expire
    <3>2. expires'[p] = (count[p] > 0) \/ cut'[p] = TRUE
      BY <3>1
    <3>. QED
      BY <2>1, <3>2
  <2>4. CASE PathOf(s) # p
    <3>1. expires'[p] = expires[p] /\ cut'[p] = cut[p]
      BY <1>2, <2>4 DEF Expire
    <3>. QED
      BY <1>0, <2>1, <2>2, <2>4, <3>1
  <2>. QED
    BY <2>3, <2>4
<1>3. ASSUME NEW s \in Requests, Crash(s)
      PROVE  expires'[p] \/ cut'[p] \/ \E r \in Requests : Pending(r, p)'
  <2>1. /\ call' = call /\ count' = count /\ expires' = expires
        /\ cut'[p] = (cut[p] \/ (pc[s] = "expire" /\ p = PathOf(s)))
        /\ \A r \in Requests \ {s} : pc'[r] = pc[r]
    BY <1>3 DEF Crash
  <2>. QED
    BY <1>0, <2>1
<1>4. ASSUME NEW q \in Paths, WindowEnds(q)
      PROVE  expires'[p] \/ cut'[p] \/ \E r \in Requests : Pending(r, p)'
  <2>1. q # p
    BY <1>4 DEF WindowEnds
  <2>2. count'[p] = count[p] /\ expires'[p] = expires[p] /\ cut' = cut /\ call' = call /\ pc' = pc
    BY <1>4, <2>1 DEF WindowEnds
  <2>. QED
    BY <1>0, <2>2
<1>. QED
  BY <1>0, <1>1, <1>2, <1>3, <1>4, LimiterFrame

\* A counter that has begun is going to end: it has an expiry, or somebody is about
\* to set it, unless a death or a failure of Redis came between INCR and EXPIRE,
\* which are two commands although rate_limit.py:8 calls them atomic.
THEOREM CountersDoEnd == Spec => []StuckOnlyWhenCut
<1>1. Init => StuckOnlyWhenCut
  BY DEF Init, StuckOnlyWhenCut
<1>. QED
  BY <1>1, TypedInit, TypedNext, CountersStep, PTL DEF Spec

\* The strengthening of AdmittedWithinLimit.  The first request of a window has been
\* counted and not admitted yet while it sets the expiry: a place is kept for it.
\* There is one such request at most, because a window ends only with an expiry.
WindowOf(p) ==
  /\ admitted[p] <= count[p] /\ admitted[p] <= Limit[p]
  /\ expires[p] => count[p] > 0
  /\ \A r \in Requests : Pending(r, p) =>
       /\ ~ expires[p]
       /\ admitted[p] + 1 <= count[p] /\ admitted[p] + 1 <= Limit[p]
  /\ \A r, s \in Requests : Pending(r, p) /\ Pending(s, p) => r = s

LEMMA WindowStep ==
  ASSUME Typed, NEW p \in Paths, WindowOf(p), [Next]_vars
  PROVE  WindowOf(p)'
<1>0. count[p] \in Nat /\ admitted[p] \in Nat /\ Limit[p] \in Nat \ {0}
      /\ count \in [Paths -> Nat] /\ admitted \in [Paths -> Nat]
  BY LimitAssumption DEF Typed, TypeOK
<1> USE DEF Goto, Answer
<1>1. ASSUME NEW s \in Requests, Incr(s) PROVE WindowOf(p)'
  <2>1. call' = call /\ expires' = expires /\ pc[s] = "incr"
    BY <1>1 DEF Incr, db, local
  <2>2. pc \in [Requests -> PC]
    BY DEF Typed, TypeOK
  <2>3. \A r \in Requests \ {s} : Pending(r, p)' <=> Pending(r, p)
    BY <1>1, <2>1, <2>2 DEF Incr, Decide, Pending, PathOf
  <2>4. ~ Pending(s, p)
    BY <2>1 DEF Pending
  <2>5. Entry(s) # "expire"
    BY DEF Entry
  <2>6. CASE PathOf(s) # p \/ count' = count
    <3>1. count'[p] = count[p]
      BY <1>0, <1>1, <2>6 DEF Incr
    <3>2. admitted'[p] = admitted[p]
      BY <1>0, <1>1, <2>6 DEF Incr, Decide
    <3>3. ~ Pending(s, p)'
      BY <1>0, <1>1, <2>1, <2>2, <2>5, <2>6 DEF Incr, Pending, PathOf
    <3>. QED
      BY <2>1, <2>3, <2>4, <3>1, <3>2, <3>3 DEF WindowOf
  <2>7. CASE PathOf(s) = p /\ count' # count
    <3>1. count'[p] = count[p] + 1
      BY <1>0, <1>1, <2>7 DEF Incr
    <3>2. CASE count[p] = 0
      <4>1. admitted' = admitted /\ Pending(s, p)'
        BY <1>0, <1>1, <2>1, <2>2, <2>7, <3>2 DEF Incr, Pending, PathOf
      <4>2. \A r \in Requests : ~ Pending(r, p)
        BY <1>0, <3>2 DEF WindowOf
      <4>. QED
        BY <1>0, <2>1, <2>3, <3>1, <3>2, <4>1, <4>2 DEF WindowOf
    <3>3. CASE count[p] # 0
      <4>1. Decide(s, count[p] + 1)
        BY <1>0, <1>1, <2>7, <3>3 DEF Incr
      <4>2. ~ Pending(s, p)'
        BY <2>1, <2>2, <2>5, <4>1 DEF Decide, Pending, PathOf
      <4>3. admitted'[p] = admitted[p] \/ (admitted'[p] = admitted[p] + 1 /\ count[p] + 1 <= Limit[p])
        BY <1>0, <2>7, <4>1 DEF Decide, Exceeded
      <4>. QED
        BY <1>0, <2>1, <2>3, <2>4, <3>1, <4>2, <4>3 DEF WindowOf
    <3>. QED
      BY <3>2, <3>3
  <2>. QED
    BY <2>6, <2>7
<1>2. ASSUME NEW s \in Requests, Expire(s) PROVE WindowOf(p)'
  <2>1. call' = call /\ count' = count /\ pc[s] = "expire" /\ pc \in [Requests -> PC]
    BY <1>2 DEF Expire, db, local, Typed, TypeOK
  <2>2. Entry(s) # "expire"
    BY DEF Entry
  <2>3. \A r \in Requests : Pending(r, p)' <=> r # s /\ Pending(r, p)
    BY <1>2, <2>1, <2>2 DEF Expire, Decide, Pending, PathOf
  <2>4. CASE PathOf(s) # p
    <3>1. expires'[p] = expires[p]
      BY <1>2, <2>4 DEF Expire, Typed, TypeOK
    <3>2. admitted'[p] = admitted[p]
      BY <1>0, <1>2, <2>4 DEF Expire, Decide
    <3>. QED
      BY <2>1, <2>3, <3>1, <3>2 DEF WindowOf
  <2>5. CASE PathOf(s) = p
    <3>1. Pending(s, p)
      BY <2>1, <2>5 DEF Pending
    <3>2. \A r \in Requests : ~ Pending(r, p)'
      BY <2>3, <3>1 DEF WindowOf
    <3>3. admitted'[p] \in {admitted[p], admitted[p] + 1}
      BY <1>0, <1>2, <2>5 DEF Expire, Decide
    <3>4. expires'[p] => count[p] > 0
      <4>1. (expires' = [expires EXCEPT ![p] = count[p] > 0]) \/ expires' = expires
        BY <1>2, <2>5 DEF Expire
      <4>. QED
        BY <4>1 DEF WindowOf, Typed, TypeOK
    <3>. QED
      BY <1>0, <2>1, <3>1, <3>2, <3>3, <3>4 DEF WindowOf
  <2>. QED
    BY <2>4, <2>5
<1>3. ASSUME NEW s \in Requests, Crash(s) PROVE WindowOf(p)'
  <2>1. UNCHANGED <<call, count, expires, admitted>>
    BY <1>3 DEF Crash, redis, local
  <2>2. \A r \in Requests : Pending(r, p)' => Pending(r, p)
    BY <1>3, <2>1 DEF Crash, Pending, PathOf, Typed, TypeOK
  <2>. QED
    BY <2>1, <2>2 DEF WindowOf
<1>4. ASSUME NEW q \in Paths, WindowEnds(q) PROVE WindowOf(p)'
  <2>1. UNCHANGED <<pc, call>>
    BY <1>4 DEF WindowEnds, local
  <2>2. \A r \in Requests : Pending(r, p)' <=> Pending(r, p)
    BY <2>1 DEF Pending, PathOf
  <2>3. CASE q = p
    <3>1. count'[p] = 0 /\ admitted'[p] = 0 /\ expires'[p] = FALSE /\ expires[p]
      BY <1>4, <2>3 DEF WindowEnds, Typed, TypeOK
    <3>. QED
      BY <1>0, <2>2, <3>1 DEF WindowOf
  <2>4. CASE q # p
    <3>1. count'[p] = count[p] /\ admitted'[p] = admitted[p] /\ expires'[p] = expires[p]
      BY <1>4, <2>4 DEF WindowEnds, Typed, TypeOK
    <3>. QED
      BY <2>2, <3>1 DEF WindowOf
  <2>. QED
    BY <2>3, <2>4
<1>5. CASE /\ \A r \in Requests : ~ (Incr(r) \/ Expire(r) \/ Crash(r))
           /\ \A q \in Paths : ~ WindowEnds(q)
  BY <1>5, LimiterFrame DEF WindowOf
<1>. QED
  BY <1>1, <1>2, <1>3, <1>4, <1>5

\* However counting requests interleave with each other and with the ends of
\* windows, no window admits more of them than the limit.
THEOREM LimitKept == Spec => []AdmittedWithinLimit
<1> DEFINE Windows == \A p \in Paths : WindowOf(p)
<1>1. Init => Windows
  BY LimitAssumption DEF Init, WindowOf, Pending
<1>2. Typed /\ Windows /\ [Next]_vars => Windows'
  BY WindowStep
<1>3. Windows => AdmittedWithinLimit
  BY DEF WindowOf, AdmittedWithinLimit
<1>. QED
  BY <1>1, <1>2, <1>3, TypedInit, TypedNext, PTL DEF Spec

-----------------------------------------------------------------------------
\* The unique rows.

Made(k) == \E s \in Requests : key[s] = k /\ answer[s] \in {"ok", "error", "lost"}

\* Who is about to commit a row holds its key, and nobody inserts a row that was
\* there from the start.
RowOf(r) ==
  /\ pc[r] \in {"insert", "commit"} => key[r] \notin Initial
  /\ pc[r] = "commit" => key_lock[key[r]] = r /\ key[r] \notin rows
  /\ answer[r] \in {"ok", "error"} /\ key[r] # None => key[r] \in rows
  /\ answer[r] = "duplicate" => key[r] \in rows \ Initial

Rows ==
  /\ Initial \subseteq rows
  /\ \A k \in rows : k \in Initial \/ Made(k)
  /\ \A r \in Requests : RowOf(r)
  /\ \A r, s \in Requests :
       /\ answer[r] \in {"ok", "error"} /\ answer[s] \in {"ok", "error"}
       /\ key[r] # None /\ key[r] = key[s]
       => r = s

\* What a handler inserted, and what it answered, stay once it is done.
LEMMA DoneStays ==
  ASSUME Typed, [Next]_vars
  PROVE  /\ \A r \in Requests : pc[r] = "done" => answer'[r] = answer[r] /\ key'[r] = key[r]
         /\ \A k : Made(k) => Made(k)'
<1>1. \A r \in Requests : pc[r] = "done" => answer'[r] = answer[r] /\ key'[r] = key[r]
  <2> USE DEF Typed, TypeOK, redis, db, local, history, Goto, Answer
  <2>1. ASSUME NEW s \in Requests, Submit(s) \/ Incr(s) \/ Expire(s)
        PROVE  /\ key' = key /\ pc[s] # "done"
               /\ \A r \in Requests \ {s} : answer'[r] = answer[r]
    BY <2>1 DEF Submit, Incr, Expire, Decide
  <2>2. ASSUME NEW s \in Requests, Exists(s) \/ Load(s) \/ Insert(s) \/ Commit(s)
        PROVE  /\ pc[s] # "done"
               /\ \A r \in Requests \ {s} : key'[r] = key[r] /\ answer'[r] = answer[r]
    BY <2>2 DEF Exists, Load, Insert, Commit
  <2>3. ASSUME NEW s \in Requests,
               CacheGet(s) \/ CachePut(s) \/ Write(s) \/ Refresh(s) \/ Invalidate(s)
        PROVE  /\ key' = key /\ pc[s] # "done"
               /\ \A r \in Requests \ {s} : answer'[r] = answer[r]
    BY <2>3 DEF CacheGet, CachePut, Write, Refresh, Invalidate
  <2>4. ASSUME NEW s \in Requests, Crash(s)
        PROVE  /\ key' = key /\ pc[s] # "done"
               /\ \A r \in Requests \ {s} : answer'[r] = answer[r]
    BY <2>4 DEF Crash
  <2>5. CASE \/ \E p \in Paths : WindowEnds(p)
             \/ \E u \in Users : Evict(u)
             \/ Tick \/ UNCHANGED vars
    BY <2>5 DEF WindowEnds, Evict, Tick, vars
  <2>6. CASE \E s \in Requests : Submit(s) \/ Step(s) \/ Crash(s)
    BY <2>1, <2>2, <2>3, <2>4, <2>6 DEF Step
  <2>. QED
    BY <2>5, <2>6 DEF Next
<1>. QED
  BY <1>1 DEF Made, Typed, ControlOf

\* The steps that have nothing to do with rows.
LEMMA RowsFrame ==
  ASSUME Typed, [Next]_vars,
         \A r \in Requests : ~ (Exists(r) \/ Load(r) \/ Insert(r) \/ Commit(r) \/ Crash(r))
  PROVE  /\ UNCHANGED <<rows, key_lock, key>>
         /\ \A r \in Requests : /\ pc'[r] \in {"insert", "commit"} => pc'[r] = pc[r]
                                /\ key[r] # None => answer'[r] = answer[r]
                                /\ answer'[r] = "duplicate" => answer[r] = "duplicate"
<1> DEFINE Frame == /\ UNCHANGED <<rows, key_lock, key>>
                    /\ \A r \in Requests :
                         /\ pc'[r] \in {"insert", "commit"} => pc'[r] = pc[r]
                         /\ key[r] # None => answer'[r] = answer[r]
                         /\ answer'[r] = "duplicate" => answer[r] = "duplicate"
<1> USE DEF Typed, TypeOK, ControlOf, redis, db, local, history, Goto, Answer
<1>1. ASSUME NEW s \in Requests, Submit(s) \/ Incr(s) \/ Expire(s) PROVE Frame
  <2>1. UNCHANGED <<rows, key_lock, key>> /\ key[s] = None
    BY <1>1 DEF Submit, Incr, Expire
  <2>2. Entry(s) \in {"exists", "load"}
    BY DEF Entry
  <2>3. \/ Submit(s) /\ pc' = [pc EXCEPT ![s] = "incr"] /\ answer' = answer
        \/ (Incr(s) \/ Expire(s)) /\ pc' = [pc EXCEPT ![s] = "done"]
             /\ answer' = [answer EXCEPT ![s] = "limited"]
        \/ (Incr(s) \/ Expire(s)) /\ answer' = answer
             /\ pc' \in {[pc EXCEPT ![s] = "expire"], [pc EXCEPT ![s] = Entry(s)]}
    BY <1>1 DEF Submit, Incr, Expire, Decide
  <2>. QED
    BY <2>1, <2>2, <2>3
<1>2. ASSUME NEW s \in Requests,
             CacheGet(s) \/ CachePut(s) \/ Write(s) \/ Refresh(s) \/ Invalidate(s)
      PROVE  Frame
  BY <1>2 DEF CacheGet, CachePut, Write, Refresh, Invalidate
<1>3. CASE \/ \E p \in Paths : WindowEnds(p)
           \/ \E u \in Users : Evict(u)
           \/ Tick \/ UNCHANGED vars
  BY <1>3 DEF WindowEnds, Evict, Tick, vars
<1>. QED
  BY <1>1, <1>2, <1>3 DEF Next, Step

LEMMA RowsStep == Typed /\ Rows /\ [Next]_vars => Rows'
<1> SUFFICES ASSUME Typed, Rows, [Next]_vars PROVE Rows'
  OBVIOUS
<1>0. /\ \A r \in Requests : pc[r] = "done" => answer'[r] = answer[r] /\ key'[r] = key[r]
      /\ \A k : Made(k) => Made(k)'
  BY DoneStays
<1> USE DEF Typed, TypeOK, ControlOf, redis, db, local, history, Goto, Answer
<1>1. ASSUME NEW s \in Requests, Exists(s) PROVE Rows'
  <2> DEFINE k == <<IF call[s].op = "register" THEN "user" ELSE "wallet", User(s)>>
  <2>1. key[s] = None /\ UNCHANGED <<rows, key_lock>>
    BY <1>1 DEF Exists, Wanted
  <2>2. CASE k \in rows
    BY <1>0, <1>1, <2>1, <2>2 DEF Exists, Wanted, Rows, RowOf
  <2>3. CASE k \notin rows
    <3>1. key' = [key EXCEPT ![s] = k] /\ pc' = [pc EXCEPT ![s] = "insert"] /\ answer' = answer
      BY <1>1, <2>3 DEF Exists, Wanted
    <3>2. answer[s] = "none" /\ k \notin Initial
      BY <1>1, <2>3 DEF Exists, Wanted, Rows
    <3>. QED
      BY <1>0, <2>1, <3>1, <3>2 DEF Rows, RowOf
  <2>. QED
    BY <2>2, <2>3
<1>2. ASSUME NEW s \in Requests, Load(s) PROVE Rows'
  <2> DEFINE k == <<"token", User(s), now>>
  <2>1. key[s] = None /\ answer[s] = "none" /\ UNCHANGED <<rows, key_lock>>
    BY <1>2 DEF Load
  <2>2. k \notin Initial
    BY DEF Initial
  <2>3. CASE <<"user", User(s)>> \notin rows
    BY <1>0, <1>2, <2>1, <2>3 DEF Load, Rows, RowOf
  <2>4. CASE <<"user", User(s)>> \in rows /\ call[s].op = "login"
    <3>1. key' = [key EXCEPT ![s] = k] /\ pc' = [pc EXCEPT ![s] = "insert"] /\ answer' = answer
      BY <1>2, <2>4 DEF Load
    <3>. QED
      BY <1>0, <2>1, <2>2, <3>1 DEF Rows, RowOf
  <2>5. CASE <<"user", User(s)>> \in rows /\ call[s].op # "login"
    <3>1. call[s].op \in {"wallet", "get_profile", "update_profile"}
      BY <1>2, <2>5, CallFacts DEF Load, Ops
    <3>2. /\ key' = key /\ answer' = answer
          /\ \E next \in {"exists", "cache_get", "write"} : pc' = [pc EXCEPT ![s] = next]
      BY <1>2, <2>5, <3>1 DEF Load
    <3>. QED
      BY <1>0, <2>1, <3>2 DEF Rows, RowOf
  <2>. QED
    BY <2>3, <2>4, <2>5
<1>3. ASSUME NEW s \in Requests, Insert(s) PROVE Rows'
  <2>1. /\ pc[s] = "insert" /\ key[s] # None /\ answer[s] = "none" /\ key_lock[key[s]] = None
        /\ UNCHANGED <<rows, key>>
    BY <1>3 DEF Insert
  <2>2. CASE key[s] \in rows
    <3>1. Made(key[s])
      BY <2>1, <2>2 DEF Rows, RowOf
    <3>2. Made(key[s])'
      BY <1>0, <2>1, <3>1
    <3>. QED
      BY <1>0, <1>3, <2>1, <2>2, <3>2 DEF Insert, Rows, RowOf
  <2>3. CASE key[s] \notin rows
    <3>1. /\ pc' = [pc EXCEPT ![s] = "commit"] /\ answer' = answer
          /\ key_lock' = [key_lock EXCEPT ![key[s]] = s]
      BY <1>3, <2>3 DEF Insert
    <3>2. \A r \in Requests \ {s} : pc[r] = "commit" => key[r] # key[s]
      BY <2>1, NoneAssumption DEF Rows, RowOf
    <3>. QED
      BY <1>0, <2>1, <2>3, <3>1, <3>2 DEF Rows, RowOf
  <2>. QED
    BY <2>2, <2>3
<1>4. ASSUME NEW s \in Requests, Commit(s) PROVE Rows'
  <2>1. /\ pc[s] = "commit" /\ key[s] # None /\ answer[s] = "none"
        /\ key_lock[key[s]] = s /\ key[s] \notin rows
        /\ rows' = rows \cup {key[s]} /\ key' = key /\ pc' = [pc EXCEPT ![s] = "done"]
        /\ key_lock' = [k \in UniqueKey |-> IF key_lock[k] = s THEN None ELSE key_lock[k]]
        /\ \E code \in {"ok", "error", "lost"} : answer' = [answer EXCEPT ![s] = code]
    BY <1>4 DEF Commit, Released, Rows, RowOf
  <2>2. Made(key[s])'
    BY <2>1 DEF Made
  <2>3. \A r \in Requests : RowOf(r)'
    <3> TAKE r \in Requests
    <3>1. CASE r = s
      BY <2>1, <3>1 DEF RowOf
    <3>2. CASE r # s
      BY <1>0, <2>1, <3>2 DEF Rows, RowOf
    <3>. QED
      BY <3>1, <3>2
  <2>4. \A r \in Requests : answer[r] \in {"ok", "error"} /\ key[r] # None => key[r] # key[s]
    BY <2>1 DEF Rows, RowOf
  <2>5. Initial \subseteq rows' /\ \A k \in rows' : k \in Initial \/ Made(k)'
    BY <1>0, <2>1, <2>2 DEF Rows
  <2>6. \A r \in Requests \ {s} : answer'[r] = answer[r]
    BY <2>1
  <2>7. \A r, t \in Requests :
          /\ answer'[r] \in {"ok", "error"} /\ answer'[t] \in {"ok", "error"}
          /\ key[r] # None /\ key[r] = key[t]
          => r = t
    BY <2>4, <2>6 DEF Rows
  <2>. QED
    BY <2>1, <2>3, <2>5, <2>7 DEF Rows
<1>5. ASSUME NEW s \in Requests, Crash(s) PROVE Rows'
  <2>1. /\ pc[s] # "done" /\ answer[s] = "none" /\ UNCHANGED <<rows, key>>
        /\ pc' = [pc EXCEPT ![s] = "done"] /\ answer' = [answer EXCEPT ![s] = "lost"]
        /\ key_lock' = [k \in UniqueKey |-> IF key_lock[k] = s THEN None ELSE key_lock[k]]
    BY <1>5 DEF Crash, Released
  <2>2. \A r \in Requests : RowOf(r)'
    BY <1>0, <2>1 DEF Rows, RowOf
  <2>. QED
    BY <1>0, <2>1, <2>2 DEF Rows
<1>6. CASE \A r \in Requests : ~ (Exists(r) \/ Load(r) \/ Insert(r) \/ Commit(r) \/ Crash(r))
  <2>1. /\ UNCHANGED <<rows, key_lock, key>>
        /\ \A r \in Requests : /\ pc'[r] \in {"insert", "commit"} => pc'[r] = pc[r]
                               /\ key[r] # None => answer'[r] = answer[r]
                               /\ answer'[r] = "duplicate" => answer[r] = "duplicate"
    BY <1>6, RowsFrame
  <2>2. \A r \in Requests : RowOf(r)'
    BY <1>0, <2>1 DEF Rows, RowOf
  <2>. QED
    BY <1>0, <2>1, <2>2 DEF Rows
<1>. QED
  BY <1>1, <1>2, <1>3, <1>4, <1>5, <1>6

\* A handler changes its own place and variables only.
LEMMA OthersStay ==
  ASSUME Typed, NEW s \in Requests, Submit(s) \/ Step(s) \/ Crash(s), NEW r \in Requests \ {s}
  PROVE  /\ pc'[r] = pc[r] /\ answer'[r] = answer[r] /\ call'[r] = call[r]
         /\ key'[r] = key[r] /\ loaded'[r] = loaded[r]
<1> USE DEF Typed, TypeOK, local, Goto, Answer
<1>1. CASE Submit(s) \/ Incr(s) \/ Expire(s)
  BY <1>1 DEF Submit, Incr, Expire, Decide
<1>2. CASE Exists(s) \/ Load(s) \/ Insert(s) \/ Commit(s) \/ Crash(s)
  BY <1>2 DEF Exists, Load, Insert, Commit, Crash
<1>3. CASE CacheGet(s) \/ CachePut(s) \/ Write(s) \/ Refresh(s) \/ Invalidate(s)
  BY <1>3 DEF CacheGet, CachePut, Write, Refresh, Invalidate
<1>. QED
  BY <1>1, <1>2, <1>3 DEF Step

\* Who has been refused politely was told the truth, and rows stay.
Conflicts == \A r \in Requests : answer[r] = "conflict" => Wanted(r) \in rows

LEMMA ConflictsStep == Typed /\ Conflicts /\ [Next]_vars => Conflicts'
<1> SUFFICES ASSUME Typed, Conflicts, [Next]_vars PROVE Conflicts'
  OBVIOUS
<1> USE DEF Typed, TypeOK, ControlOf, redis, db, local, history, Goto, Answer
<1>1. ASSUME NEW s \in Requests, Submit(s) \/ Step(s) \/ Crash(s) PROVE Conflicts'
  <2>1. /\ \A r \in Requests \ {s} : answer'[r] = answer[r] /\ call'[r] = call[r]
        /\ answer[s] = "none"
    <3>1. pc[s] # "done"
      BY <1>1 DEF Step, Submit, Incr, Expire, Exists, Load, Insert, Commit, CacheGet,
                  CachePut, Write, Refresh, Invalidate, Crash
    <3>. QED
      BY <1>1, <3>1, OthersStay
  <2>2. rows \subseteq rows'
    BY <1>1 DEF Step, Submit, Incr, Expire, Exists, Load, Insert, Commit, CacheGet,
                CachePut, Write, Refresh, Invalidate, Crash
  <2>3. answer'[s] = "conflict" => Exists(s) /\ Wanted(s) \in rows /\ call' = call
    <3>1. ~ Exists(s) => answer'[s] # "conflict"
      BY <1>1, <2>1 DEF Step, Submit, Incr, Expire, Decide, Load, Insert, Commit, CacheGet,
                        CachePut, Write, Refresh, Invalidate, Crash
    <3>2. Exists(s) => call' = call /\ (answer'[s] = "conflict" => Wanted(s) \in rows)
      BY <2>1 DEF Exists
    <3>. QED
      BY <3>1, <3>2
  <2>. QED
    BY <2>1, <2>2, <2>3 DEF Conflicts, Wanted, User
<1>2. CASE \/ \E p \in Paths : WindowEnds(p)
           \/ \E u \in Users : Evict(u)
           \/ Tick \/ UNCHANGED vars
  <2>1. UNCHANGED <<answer, call, rows>>
    BY <1>2 DEF WindowEnds, Evict, Tick, vars
  <2>. QED
    BY <2>1 DEF Conflicts, Wanted, User
<1>. QED
  BY <1>1, <1>2 DEF Next

\* However registrations, logins and wallet creations race for one row, at most one
\* of them is told that it made it or fails after it did, and the row is there then;
\* those that are told it exists are told the truth; and every row that was not there
\* at first was inserted by a request of that key.
THEOREM RowsCreatedOnce == Spec => []CreatedOnce
<1>1. Init => Rows /\ Conflicts
  BY DEF Init, Rows, RowOf, Initial, Conflicts
<1>2. Rows /\ Conflicts => CreatedOnce
  BY DEF Rows, RowOf, Made, Conflicts, CreatedOnce
<1>. QED
  BY <1>1, <1>2, TypedInit, TypedNext, RowsStep, ConflictsStep, PTL DEF Spec

-----------------------------------------------------------------------------
\* The profile cache.

Reading(r) == pc[r] \in {"cache_get", "cache_put"}
Changing(r) == pc[r] \in {"refresh", "invalidate"}

\* What a reader is going to cache is the committed profile, or a change met it.
Fresh ==
  /\ StaleOnlyForACause
  /\ \A r \in Requests : Reading(r) => loaded[r] = profile[User(r)] \/ outdated[User(r)]

\* The steps that are not about profiles.
LEMMA FreshFrame ==
  ASSUME Typed, [Next]_vars,
         \A r \in Requests :
           ~ (\/ Load(r) \/ CachePut(r) \/ Write(r) \/ Refresh(r) \/ Invalidate(r) \/ Crash(r)),
         \A u \in Users : ~ Evict(u)
  PROVE  /\ UNCHANGED <<cached, profile, outdated, loaded>>
         /\ \A r \in Requests : /\ Reading(r)' => Reading(r)
                                /\ Changing(r)' <=> Changing(r)
                                /\ pc[r] # "idle" => call'[r] = call[r]
<1> DEFINE Frame == /\ UNCHANGED <<cached, profile, outdated, loaded>>
                    /\ \A r \in Requests : /\ Reading(r)' => Reading(r)
                                           /\ Changing(r)' <=> Changing(r)
                                           /\ pc[r] # "idle" => call'[r] = call[r]
<1> USE DEF Typed, TypeOK, redis, db, local, history, Goto, Answer, Reading, Changing
<1>1. ASSUME NEW s \in Requests, Submit(s) \/ Incr(s) \/ Expire(s) PROVE Frame
  <2>1. /\ UNCHANGED <<cached, profile, outdated, loaded>>
        /\ pc[s] \in {"idle", "incr", "expire"}
    BY <1>1 DEF Submit, Incr, Expire
  <2>2. Entry(s) \in {"exists", "load"}
    BY DEF Entry
  <2>3. \E next \in {"incr", "expire", "exists", "load", "done"} : pc' = [pc EXCEPT ![s] = next]
    BY <1>1, <2>2 DEF Submit, Incr, Expire, Decide
  <2>4. \A r \in Requests : pc[r] # "idle" => call'[r] = call[r]
    BY <1>1 DEF Submit, Incr, Expire
  <2>. QED
    BY <2>1, <2>3, <2>4
<1>2. ASSUME NEW s \in Requests, Exists(s) \/ Insert(s) \/ Commit(s) PROVE Frame
  BY <1>2 DEF Exists, Insert, Commit
<1>3. ASSUME NEW s \in Requests, CacheGet(s) PROVE Frame
  BY <1>3 DEF CacheGet
<1>4. CASE (\E p \in Paths : WindowEnds(p)) \/ Tick \/ UNCHANGED vars
  BY <1>4 DEF WindowEnds, Tick, vars
<1>. QED
  BY <1>1, <1>2, <1>3, <1>4 DEF Next, Step

LEMMA FreshStep == Typed /\ Fresh /\ [Next]_vars => Fresh'
<1> SUFFICES ASSUME Typed, Fresh, [Next]_vars PROVE Fresh'
  OBVIOUS
<1>0. \A r \in Requests : pc[r] # "idle" => User(r) \in Users /\ call[r].op \in Ops
  BY CallFacts DEF Typed, ControlOf
<1> USE DEF Typed, TypeOK, redis, db, local, history, Goto, Answer, Reading, Changing, User
<1>1. ASSUME NEW s \in Requests, Load(s) PROVE Fresh'
  <2>1. UNCHANGED <<cached, profile, outdated, call>> /\ pc[s] = "load"
    BY <1>1 DEF Load
  <2>2. \A r \in Requests \ {s} : pc'[r] = pc[r] /\ loaded'[r] = loaded[r]
    BY <1>1 DEF Load
  <2>3. ~ Changing(s)' /\ (Reading(s)' => loaded'[s] = profile[User(s)])
    <3>1. CASE <<"user", User(s)>> \notin rows
      BY <1>1, <3>1 DEF Load
    <3>2. CASE <<"user", User(s)>> \in rows
      <4>1. call[s].op \in {"login", "wallet", "get_profile", "update_profile"}
        BY <1>0, <2>1 DEF Ops, ControlOf
      <4>2. pc'[s] = CASE call[s].op = "login" -> "insert"
                       [] call[s].op = "wallet" -> "exists"
                       [] call[s].op = "get_profile" -> "cache_get"
                       [] call[s].op = "update_profile" -> "write"
        BY <1>1, <3>2 DEF Load
      <4>3. call[s].op = "get_profile" => loaded'[s] = profile[User(s)]
        BY <1>1, <3>2 DEF Load, PathOf, Path
      <4>. QED
        BY <4>1, <4>2, <4>3
    <3>. QED
      BY <3>1, <3>2
  <2>. QED
    BY <2>1, <2>2, <2>3 DEF Fresh, StaleOnlyForACause
<1>2. ASSUME NEW s \in Requests, CachePut(s) PROVE Fresh'
  <2>1. UNCHANGED <<profile, outdated, call, loaded>> /\ pc' = [pc EXCEPT ![s] = "done"]
        /\ pc[s] = "cache_put"
    BY <1>2 DEF CachePut
  <2>2. cached' \in {cached, [cached EXCEPT ![User(s)] = loaded[s]]}
    BY <1>2 DEF CachePut
  <2>3. loaded[s] = profile[User(s)] \/ outdated[User(s)]
    BY <2>1 DEF Fresh
  <2>. QED
    BY <1>0, <2>1, <2>2, <2>3 DEF Fresh, StaleOnlyForACause
<1>3. ASSUME NEW s \in Requests, Write(s) PROVE Fresh'
  <2> DEFINE u == User(s)
             changes == call[s].name \notin {None, loaded[s]}
  <2>1. /\ UNCHANGED <<cached, call, loaded>> /\ pc' = [pc EXCEPT ![s] = "refresh"]
        /\ pc[s] = "write" /\ u \in Users
    BY <1>0, <1>3 DEF Write
  <2>2. \A v \in Users : outdated[v] => outdated'[v]
    BY <1>3 DEF Write, Outdate
  <2>3. \A v \in Users \ {u} : profile'[v] = profile[v]
    BY <1>3 DEF Write
  <2>4. \A r \in Requests : Reading(r) /\ User(r) = u =>
           profile'[u] = profile[u] \/ outdated'[u]
    <3>1. CASE changes
      <4>1. \A r \in Requests : Reading(r) /\ User(r) = u => r \in Readers(u)
        BY DEF Readers, ControlOf
      <4>2. Readers(u) # {} => outdated' = [outdated EXCEPT ![u] = TRUE]
        BY <1>3, <3>1 DEF Write, Outdate
      <4>. QED
        BY <2>1, <4>1, <4>2
    <3>2. CASE ~ changes
      BY <1>3, <2>1, <3>2 DEF Write
    <3>. QED
      BY <3>1, <3>2
  <2>5. \A r \in Requests : Reading(r)' => loaded'[r] = profile'[User(r)'] \/ outdated'[User(r)']
    BY <1>0, <2>1, <2>2, <2>3, <2>4 DEF Fresh
  <2>6. StaleOnlyForACause'
    BY <2>1, <2>2, <2>3 DEF Fresh, StaleOnlyForACause
  <2>. QED
    BY <2>5, <2>6 DEF Fresh
<1>4. ASSUME NEW s \in Requests, Refresh(s) PROVE Fresh'
  <2>1. /\ UNCHANGED <<cached, profile, call>> /\ pc[s] = "refresh" /\ User(s) \in Users
        /\ \A r \in Requests \ {s} : loaded'[r] = loaded[r]
    BY <1>0, <1>4 DEF Refresh
  <2>2. CASE pc' = [pc EXCEPT ![s] = "invalidate"] /\ outdated' = outdated
    BY <2>1, <2>2 DEF Fresh, StaleOnlyForACause
  <2>3. CASE /\ pc' = [pc EXCEPT ![s] = "done"]
             /\ outdated' = [outdated EXCEPT ![User(s)] = TRUE]
    BY <2>1, <2>3 DEF Fresh, StaleOnlyForACause
  <2>. QED
    BY <1>4, <2>2, <2>3 DEF Refresh, Outdate
<1>5. ASSUME NEW s \in Requests, Invalidate(s) PROVE Fresh'
  <2>1. /\ UNCHANGED <<profile, call, loaded>> /\ pc' = [pc EXCEPT ![s] = "done"]
        /\ pc[s] = "invalidate" /\ User(s) \in Users
        /\ \/ cached' = [cached EXCEPT ![User(s)] = None] /\ outdated' = outdated
           \/ cached' = cached /\ outdated' = [outdated EXCEPT ![User(s)] = TRUE]
    BY <1>0, <1>5 DEF Invalidate, Outdate
  <2>. QED
    BY <1>0, <2>1 DEF Fresh, StaleOnlyForACause
<1>6. ASSUME NEW s \in Requests, Crash(s) PROVE Fresh'
  <2>1. /\ UNCHANGED <<cached, profile, call, loaded>> /\ pc' = [pc EXCEPT ![s] = "done"]
        /\ User(s) \in Users
        /\ IF Changing(s) THEN outdated' = [outdated EXCEPT ![User(s)] = TRUE]
                          ELSE outdated' = outdated
    BY <1>0, <1>6 DEF Crash, Outdate
  <2>. QED
    BY <1>0, <2>1 DEF Fresh, StaleOnlyForACause
<1>7. ASSUME NEW u \in Users, Evict(u) PROVE Fresh'
  BY <1>7 DEF Evict, Fresh, StaleOnlyForACause
<1>8. CASE /\ \A r \in Requests :
                ~ (\/ Load(r) \/ CachePut(r) \/ Write(r) \/ Refresh(r) \/ Invalidate(r) \/ Crash(r))
           /\ \A u \in Users : ~ Evict(u)
  <2>1. /\ UNCHANGED <<cached, profile, outdated, loaded>>
        /\ \A r \in Requests : /\ Reading(r)' => Reading(r)
                               /\ Changing(r)' <=> Changing(r)
                               /\ pc[r] # "idle" => call'[r] = call[r]
    BY <1>8, FreshFrame
  <2>. QED
    BY <2>1 DEF Fresh, StaleOnlyForACause
<1>. QED
  BY <1>1, <1>2, <1>3, <1>4, <1>5, <1>6, <1>7, <1>8

\* A cached profile that outlives a change of the committed one has a cause: the
\* change is on its way, met a reader, could not reach Redis, or its worker died.
THEOREM CacheStaleForACause == Spec => []StaleOnlyForACause
<1>1. Init => Fresh
  BY DEF Init, Fresh, StaleOnlyForACause, Reading
<1>2. Fresh => StaleOnlyForACause
  BY DEF Fresh
<1>. QED
  BY <1>1, <1>2, TypedInit, TypedNext, FreshStep, PTL DEF Spec

-----------------------------------------------------------------------------
\* Updates of one profile.

\* An update about to be written has loaded the committed profile, or another was
\* committed since.
LandingOf(r) ==
  /\ pc[r] = "write" => loaded[r] = profile[User(r)] \/ r \in overtaken
  /\ pc[r] \in {"refresh", "invalidate"} =>
       call[r].name \in {None, profile[User(r)]} \/ r \in overtaken

Landing == \A r \in Requests : LandingOf(r)

LEMMA LandingFrame ==
  ASSUME NEW r \in Requests, LandingOf(r), pc'[r] = pc[r], call'[r] = call[r],
         loaded'[r] = loaded[r], UNCHANGED <<profile, overtaken>>
  PROVE  LandingOf(r)'
  BY DEF LandingOf, User

\* A change marks the other updates of that profile that are on their way.
LEMMA LandingWrite ==
  ASSUME Typed, Landing, NEW s \in Requests, Write(s)
  PROVE  Landing'
<1> DEFINE u == User(s)
           changes == call[s].name \notin {None, loaded[s]}
<1>1. /\ UNCHANGED <<call, loaded>> /\ pc[s] = "write" /\ pc' = [pc EXCEPT ![s] = "refresh"]
      /\ profile' = [profile EXCEPT ![u] = IF changes THEN call[s].name ELSE @]
      /\ pc \in [Requests -> PC] /\ profile \in [Users -> Names]
  BY DEF Write, Goto, local, Typed, TypeOK
<1>2. u \in Users
  BY <1>1, CallFacts DEF Typed, ControlOf
<1>3. CASE changes
  <2>1. /\ profile'[u] = call[s].name /\ \A v \in Users \ {u} : profile'[v] = profile[v]
    BY <1>1, <1>2, <1>3
  <2>2. overtaken' = overtaken \cup
          {r \in Requests \ {s} : pc[r] \in {"write", "refresh", "invalidate"} /\ User(r) = u}
    BY <1>3 DEF Write, Overtake
  <2>3. LandingOf(s)'
    BY <1>1, <2>1 DEF LandingOf, User
  <2>4. ASSUME NEW r \in Requests \ {s} PROVE LandingOf(r)'
    <3>1. CASE pc[r] \notin {"write", "refresh", "invalidate"}
      BY <1>1, <3>1 DEF LandingOf
    <3>2. CASE pc[r] \in {"write", "refresh", "invalidate"} /\ User(r) = u
      BY <1>1, <2>2, <3>2 DEF LandingOf
    <3>3. CASE pc[r] \in {"write", "refresh", "invalidate"} /\ User(r) # u
      <4>1. User(r) \in Users
        BY <3>3, CallFacts DEF Typed, ControlOf
      <4>2. profile'[User(r)] = profile[User(r)]
        BY <2>1, <3>3, <4>1
      <4>. QED
        BY <1>1, <2>2, <4>2 DEF Landing, LandingOf, User
    <3>. QED
      BY <3>1, <3>2, <3>3
  <2>. QED
    BY <2>3, <2>4 DEF Landing
<1>4. CASE ~ changes
  <2>1. profile' = profile /\ overtaken' = overtaken
    BY <1>1, <1>2, <1>4 DEF Write
  <2>2. LandingOf(s)'
    BY <1>1, <1>4, <2>1 DEF Landing, LandingOf, User
  <2>3. ASSUME NEW r \in Requests \ {s} PROVE LandingOf(r)'
    BY <1>1, <2>1, LandingFrame DEF Landing
  <2>. QED
    BY <2>2, <2>3 DEF Landing
<1>. QED
  BY <1>3, <1>4

LEMMA LandingStep == Typed /\ Landing /\ [Next]_vars => Landing'
<1> SUFFICES ASSUME Typed, Landing, [Next]_vars PROVE Landing'
  OBVIOUS
<1> USE DEF Typed, TypeOK, redis, db, local, history, Goto, Answer
<1>1. ASSUME NEW s \in Requests, Submit(s) \/ Step(s) \/ Crash(s), ~ Write(s) PROVE Landing'
  <2>1. UNCHANGED <<profile, overtaken>>
    BY <1>1 DEF Step, Submit, Incr, Expire, Exists, Load, Insert, Commit, CacheGet, CachePut,
                Refresh, Invalidate, Crash
  <2>2. \A r \in Requests \ {s} : LandingOf(r)'
    BY <1>1, <2>1, OthersStay, LandingFrame DEF Landing
  <2>3. LandingOf(s)'
    <3>1. CASE Load(s)
      <4>1. <<"user", User(s)>> \in rows /\ call[s].op = "update_profile" =>
              loaded'[s] = profile[User(s)]
        BY <3>1 DEF Load, PathOf, Path
      <4>2. pc'[s] = "write" => <<"user", User(s)>> \in rows /\ call[s].op = "update_profile"
        BY <3>1, CallFacts DEF Load, ControlOf, Ops
      <4>3. pc'[s] \notin {"refresh", "invalidate"} /\ call' = call
        BY <3>1, CallFacts DEF Load, ControlOf, Ops
      <4>. QED
        BY <2>1, <4>1, <4>2, <4>3 DEF LandingOf, User
    <3>2. CASE Refresh(s)
      <4>1. pc[s] = "refresh" /\ pc'[s] \in {"invalidate", "done"} /\ call' = call
        BY <3>2 DEF Refresh
      <4>. QED
        BY <2>1, <4>1 DEF Landing, LandingOf, User
    <3>3. CASE ~ Load(s) /\ ~ Refresh(s)
      <4>1. Entry(s) \in {"exists", "load"}
        BY DEF Entry
      <4>2. pc'[s] \notin {"write", "refresh", "invalidate"}
        BY <1>1, <3>3, <4>1
           DEF Step, Submit, Incr, Expire, Decide, Exists, Insert, Commit, CacheGet, CachePut,
               Invalidate, Crash
      <4>. QED
        BY <4>2 DEF LandingOf
    <3>. QED
      BY <3>1, <3>2, <3>3
  <2>. QED
    BY <2>2, <2>3 DEF Landing
<1>2. CASE \/ \E p \in Paths : WindowEnds(p)
           \/ \E u \in Users : Evict(u)
           \/ Tick \/ UNCHANGED vars
  <2>1. UNCHANGED <<pc, call, loaded, profile, overtaken>>
    BY <1>2 DEF WindowEnds, Evict, Tick, vars
  <2>. QED
    BY <2>1, LandingFrame DEF Landing
<1>. QED
  BY <1>1, <1>2, LandingWrite DEF Next, Step

\* An update that is answered has taken effect, or met another one: its value is the
\* committed one unless another update was committed since it was authenticated.
THEOREM UpdatesLand == Spec => []UpdatesLandOrAreOvertaken
<1>1. Init => Landing
  BY DEF Init, Landing, LandingOf
<1>2. Landing => UpdatesLandOrAreOvertaken
  BY DEF Landing, LandingOf, UpdatesLandOrAreOvertaken, Saved
<1>. QED
  BY <1>1, <1>2, TypedInit, TypedNext, LandingStep, PTL DEF Spec

-----------------------------------------------------------------------------
\* HttpApi implements Accounts.

\* A handler beyond authentication serves a user that has a row, and inserts a row
\* of its own call.
HasRow(r) == <<"user", User(r)>> \in rows

AuthOf(r) ==
  /\ pc[r] = "idle" => call[r] = None
  /\ pc[r] = "exists" /\ call[r].op = "wallet" => HasRow(r)
  /\ pc[r] \in {"insert", "commit"} =>
       key[r] \in A!Makes(call[r]) /\ (call[r].op = "register" \/ HasRow(r))
  /\ pc[r] \in {"cache_get", "cache_put", "write", "refresh", "invalidate"} => HasRow(r)

Auth == \A r \in Requests : AuthOf(r)

LEMMA AuthFrame ==
  ASSUME NEW r \in Requests, AuthOf(r), pc'[r] = pc[r], call'[r] = call[r], key'[r] = key[r],
         rows \subseteq rows'
  PROVE  AuthOf(r)'
<1>1. A!Makes(call[r])' = A!Makes(call'[r])
  BY DEF A!Makes
<1>. QED
  BY <1>1 DEF AuthOf, HasRow, User, A!Makes

LEMMA MakesFacts ==
  ASSUME NEW c \in Call
  PROVE  /\ c.op = "register" => A!Makes(c) = {<<"user", c.user>>}
         /\ c.op = "wallet" => A!Makes(c) = {<<"wallet", c.user>>}
         /\ c.op = "login" => A!Makes(c) = {<<"token", c.user, s>> : s \in Second}
         /\ c.op \in {"get_profile", "update_profile"} => A!Makes(c) = {}
  BY DEF A!Makes, Call, Ops

LEMMA AuthHandler ==
  ASSUME Typed, Auth, NEW s \in Requests, Submit(s) \/ Step(s) \/ Crash(s)
  PROVE  AuthOf(s)' /\ rows \subseteq rows'
<1> USE DEF Typed, TypeOK, ControlOf, redis, db, local, history, Goto, Answer
<1>0. AuthOf(s) /\ (call[s] # None => call[s] \in Call)
  BY CallsAssumption DEF Auth
<1>1. CASE Exists(s)
  <2> DEFINE k == <<IF call[s].op = "register" THEN "user" ELSE "wallet", User(s)>>
  <2>1. rows' = rows /\ call' = call /\ pc[s] = "exists" /\ call[s] \in Call
    BY <1>0, <1>1 DEF Exists, Wanted
  <2>2. CASE k \in rows
    BY <1>1, <2>1, <2>2 DEF Exists, Wanted, AuthOf
  <2>3. CASE k \notin rows
    <3>1. key'[s] = k /\ pc'[s] = "insert"
      BY <1>1, <2>3 DEF Exists, Wanted
    <3>2. k \in A!Makes(call[s])
      BY <2>1, MakesFacts DEF User
    <3>3. call[s].op = "register" \/ HasRow(s)
      BY <1>0, <2>1 DEF AuthOf
    <3> HIDE DEF k
    <3>. QED
      BY <2>1, <3>1, <3>2, <3>3 DEF AuthOf, HasRow, User, A!Makes
  <2>. QED
    BY <2>2, <2>3, <2>1
<1>2. CASE Load(s)
  <2>1. rows' = rows /\ call' = call /\ pc[s] = "load" /\ call[s] \in Call /\ call[s].op # "register"
    BY <1>0, <1>2 DEF Load
  <2>2. CASE ~ HasRow(s)
    BY <1>2, <2>1, <2>2 DEF Load, AuthOf, HasRow
  <2>3. CASE HasRow(s) /\ call[s].op = "login"
    <3> DEFINE k == <<"token", User(s), now>>
    <3>1. key'[s] = k /\ pc'[s] = "insert"
      BY <1>2, <2>3 DEF Load, HasRow
    <3>2. k \in A!Makes(call[s])
      BY <2>1, <2>3, MakesFacts DEF User
    <3> HIDE DEF k
    <3>. QED
      BY <2>1, <2>3, <3>1, <3>2 DEF AuthOf, HasRow, User, A!Makes
  <2>4. CASE HasRow(s) /\ call[s].op # "login"
    <3>1. call[s].op \in {"wallet", "get_profile", "update_profile"}
      BY <2>1, <2>4 DEF Call, Ops
    <3>2. pc'[s] \in {"exists", "cache_get", "write"}
      BY <1>2, <2>4, <3>1 DEF Load, HasRow
    <3>. QED
      BY <2>1, <2>4, <3>2 DEF AuthOf, HasRow, User
  <2>. QED
    BY <2>1, <2>2, <2>3, <2>4
<1>3. CASE Submit(s) \/ Incr(s) \/ Expire(s)
  <2>1. rows' = rows
    BY <1>3 DEF Submit, Incr, Expire
  <2>2. Entry(s) = IF call[s].op = "register" THEN "exists" ELSE "load"
    BY DEF Entry
  <2>3. /\ pc'[s] \in {"incr", "expire", "exists", "load", "done"}
        /\ pc'[s] = "exists" => call'[s].op = "register"
    BY <1>3, <2>2 DEF Submit, Incr, Expire, Decide
  <2>. QED
    BY <2>1, <2>3 DEF AuthOf
<1>4. CASE Insert(s)
  <2>1. /\ UNCHANGED <<rows, call, key>> /\ pc[s] = "insert" /\ pc'[s] \in {"commit", "done"}
    BY <1>4 DEF Insert
  <2>. QED
    BY <1>0, <2>1 DEF AuthOf, HasRow, User, A!Makes
<1>5. CASE Commit(s) \/ Crash(s)
  <2>1. pc'[s] = "done" /\ rows \subseteq rows'
    BY <1>5 DEF Commit, Crash
  <2>. QED
    BY <2>1 DEF AuthOf
<1>6. CASE CacheGet(s) \/ CachePut(s) \/ Write(s) \/ Refresh(s) \/ Invalidate(s)
  <2>1. /\ UNCHANGED <<rows, call>>
        /\ pc[s] \in {"cache_get", "cache_put", "write", "refresh", "invalidate"}
        /\ pc'[s] \in {"cache_put", "refresh", "invalidate", "done"}
    BY <1>6 DEF CacheGet, CachePut, Write, Refresh, Invalidate
  <2>. QED
    BY <1>0, <2>1 DEF AuthOf, HasRow, User
<1>. QED
  BY <1>1, <1>2, <1>3, <1>4, <1>5, <1>6 DEF Step

LEMMA AuthStep == Typed /\ Auth /\ [Next]_vars => Auth'
<1> SUFFICES ASSUME Typed, Auth, [Next]_vars PROVE Auth'
  OBVIOUS
<1>1. ASSUME NEW s \in Requests, Submit(s) \/ Step(s) \/ Crash(s) PROVE Auth'
  BY <1>1, OthersStay, AuthHandler, AuthFrame DEF Auth
<1>2. CASE \/ \E p \in Paths : WindowEnds(p)
           \/ \E u \in Users : Evict(u)
           \/ Tick \/ UNCHANGED vars
  <2>1. UNCHANGED <<pc, call, key, rows>>
    BY <1>2 DEF WindowEnds, Evict, Tick, vars, db, local
  <2>. QED
    BY <2>1, AuthFrame DEF Auth
<1>. QED
  BY <1>1, <1>2 DEF Next

\* How a step of a handler moves it in and out of Saved.
LEMMA SavedMoves ==
  ASSUME Typed, NEW s \in Requests, Submit(s) \/ Step(s) \/ Crash(s)
  PROVE  Saved' = IF pc'[s] \in {"refresh", "invalidate"} THEN Saved \cup {s} ELSE Saved \ {s}
  BY OthersStay DEF Saved

\* Told a truth, a client has its answer, and nothing else is changed.
LEMMA TellStep ==
  ASSUME Typed, NEW s \in Requests, call[s] # None, answer[s] = "none",
         NEW code \in Answers \ {"none"}, A!Truthful(s, code),
         answer' = [answer EXCEPT ![s] = code], Saved' = Saved \ {s},
         UNCHANGED <<call, rows, profile>>
  PROVE  A!AccountsNext
<1>1. code \in {"limited", "unauthorized", "conflict", "duplicate", "ok", "error", "lost"}
  BY DEF Answers
<1>. QED
  BY <1>1 DEF A!AccountsNext, A!Tell, A!Open

\* The limiter and the hand-over of a request.
LEMMA SimulatesLimiter ==
  ASSUME Typed, Auth, NEW s \in Requests, Submit(s) \/ Incr(s) \/ Expire(s)
  PROVE  A!AccountsNext \/ UNCHANGED A!accounts
<1> USE DEF Typed, TypeOK, ControlOf, redis, db, local, history, Goto, Answer
<1>0. Entry(s) \in {"exists", "load"}
  BY DEF Entry
<1>1. UNCHANGED <<rows, profile>> /\ pc'[s] \notin {"refresh", "invalidate"}
      /\ pc[s] \notin {"refresh", "invalidate", "done"}
  BY <1>0 DEF Submit, Incr, Expire, Decide
<1>2. Saved' = Saved /\ s \notin Saved /\ Saved \ {s} = Saved
  BY <1>1, SavedMoves DEF Step, Saved
<1>3. CASE Submit(s)
  <2>1. call[s] = None /\ answer' = answer /\ \E c \in Calls : call' = [call EXCEPT ![s] = c]
    BY <1>3 DEF Submit, Auth, AuthOf
  <2>2. A!Ask(s)
    BY <1>1, <1>2, <2>1 DEF A!Ask
  <2>. QED
    BY <2>2 DEF A!AccountsNext
<1>4. CASE Incr(s) \/ Expire(s)
  <2>1. call' = call /\ call[s] # None /\ answer[s] = "none"
        /\ answer' \in {answer, [answer EXCEPT ![s] = "limited"]}
    BY <1>4 DEF Incr, Expire, Decide
  <2>2. CASE answer' = answer
    BY <1>1, <1>2, <2>1, <2>2 DEF A!accounts
  <2>3. CASE answer' = [answer EXCEPT ![s] = "limited"]
    <3>1. A!Truthful(s, "limited")
      BY <1>2 DEF A!Truthful
    <3>. QED
      BY <1>1, <1>2, <2>1, <2>3, <3>1, TellStep DEF Answers
  <2>. QED
    BY <2>1, <2>2, <2>3
<1>. QED
  BY <1>3, <1>4

\* What is read of the rows, and the row that is made.
LEMMA SimulatesRows ==
  ASSUME Typed, Auth, Rows, NEW s \in Requests, Exists(s) \/ Load(s) \/ Insert(s) \/ Commit(s)
  PROVE  A!AccountsNext \/ UNCHANGED A!accounts
<1> DEFINE c == call[s]
<1> USE DEF Typed, TypeOK, ControlOf, redis, db, local, history, Goto, Answer
<1>1. /\ UNCHANGED <<call, profile>> /\ c # None /\ c \in Call /\ answer[s] = "none"
      /\ pc[s] \in {"exists", "load", "insert", "commit"} /\ AuthOf(s)
      /\ pc'[s] \notin {"refresh", "invalidate"}
  <2>1. c # None
    BY DEF Exists, Load, Insert, Commit
  <2>2. c \in Call
    BY <2>1, CallsAssumption
  <2>3. pc'[s] \notin {"refresh", "invalidate"}
    BY <2>2 DEF Exists, Load, Insert, Commit, Call, Ops
  <2>. QED
    BY <2>1, <2>2, <2>3 DEF Exists, Load, Insert, Commit, Auth
<1>2. Saved' = Saved /\ s \notin Saved /\ Saved \ {s} = Saved
  BY <1>1, SavedMoves DEF Step, Saved
<1>3. CASE answer' = answer /\ rows' = rows
  BY <1>1, <1>2, <1>3 DEF A!accounts
<1>4. ASSUME NEW code \in {"conflict", "unauthorized", "duplicate"}, rows' = rows,
             answer' = [answer EXCEPT ![s] = code], A!Truthful(s, code)
      PROVE  A!AccountsNext
  BY <1>1, <1>2, <1>4, TellStep DEF Answers
<1>5. CASE Exists(s)
  <2> DEFINE k == <<IF c.op = "register" THEN "user" ELSE "wallet", User(s)>>
  <2>1. CASE k \in rows
    <3>1. c.op \in {"register", "wallet"} /\ k \in A!Makes(c)
      BY <1>1, <1>5, MakesFacts DEF Exists, Wanted, User
    <3>2. A!Truthful(s, "conflict")
      BY <2>1, <3>1 DEF A!Truthful
    <3>. QED
      BY <1>4, <1>5, <2>1, <3>2 DEF Exists, Wanted
  <2>2. CASE k \notin rows
    BY <1>3, <1>5, <2>2 DEF Exists, Wanted
  <2>. QED
    BY <2>1, <2>2
<1>6. CASE Load(s)
  <2>1. CASE <<"user", User(s)>> \notin rows
    <3>1. A!Truthful(s, "unauthorized")
      BY <1>6, <2>1 DEF Load, User, A!Truthful, A!Known
    <3>. QED
      BY <1>4, <1>6, <2>1, <3>1 DEF Load
  <2>2. CASE <<"user", User(s)>> \in rows
    BY <1>3, <1>6, <2>2 DEF Load
  <2>. QED
    BY <2>1, <2>2
<1>7. CASE Insert(s)
  <2>1. CASE key[s] \in rows
    <3>1. key[s] \in A!Makes(c)
      BY <1>1, <1>7 DEF Insert, AuthOf
    <3>2. A!Truthful(s, "duplicate")
      BY <2>1, <3>1 DEF A!Truthful
    <3>. QED
      BY <1>4, <1>7, <2>1, <3>2 DEF Insert
  <2>2. CASE key[s] \notin rows
    BY <1>3, <1>7, <2>2 DEF Insert
  <2>. QED
    BY <2>1, <2>2
<1>8. CASE Commit(s)
  <2>1. /\ key[s] \in A!Makes(c) /\ key[s] \notin rows /\ rows' = rows \cup {key[s]}
        /\ c.op = "register" \/ A!Known(c)
    BY <1>1, <1>8 DEF Commit, AuthOf, Rows, RowOf, HasRow, User, A!Known
  <2>2. \E code \in {"ok", "error", "lost"} : answer' = [answer EXCEPT ![s] = code]
    BY <1>8 DEF Commit
  <2>3. A!Create(s)
    BY <1>1, <1>2, <2>1, <2>2 DEF A!Create, A!Open
  <2>. QED
    BY <2>3 DEF A!AccountsNext
<1>. QED
  BY <1>5, <1>6, <1>7, <1>8

\* What is read and saved of the profiles, and the end of a handler that dies.
LEMMA SimulatesProfiles ==
  ASSUME Typed, Auth, NEW s \in Requests,
         \/ CacheGet(s) \/ CachePut(s) \/ Write(s) \/ Refresh(s) \/ Invalidate(s) \/ Crash(s)
  PROVE  A!AccountsNext \/ UNCHANGED A!accounts
<1> DEFINE c == call[s]
<1> USE DEF Typed, TypeOK, ControlOf, redis, db, local, history, Goto, Answer
<1>1. /\ UNCHANGED <<call, rows>> /\ c # None /\ answer[s] = "none" /\ AuthOf(s)
  BY DEF CacheGet, CachePut, Write, Refresh, Invalidate, Crash, Auth
<1>2. ASSUME NEW code \in {"ok", "error", "lost"}, profile' = profile,
             answer' = [answer EXCEPT ![s] = code], pc' = [pc EXCEPT ![s] = "done"],
             A!Truthful(s, code)
      PROVE  A!AccountsNext
  <2>1. Saved' = Saved \ {s}
    BY <1>2 DEF Saved
  <2>. QED
    BY <1>1, <1>2, <2>1, TellStep DEF Answers
<1>3. CASE CacheGet(s) \/ CachePut(s) \/ Invalidate(s)
  <2>1. /\ profile' = profile /\ HasRow(s)
        /\ c.op = "get_profile" \/ s \in Saved
    BY <1>1, <1>3 DEF CacheGet, CachePut, Invalidate, AuthOf, Saved
  <2>2. A!Truthful(s, "ok") /\ A!Truthful(s, "error")
    BY <2>1 DEF A!Truthful, A!Known, HasRow, User
  <2>3. \/ \E code \in {"ok", "error"} :
             answer' = [answer EXCEPT ![s] = code] /\ pc' = [pc EXCEPT ![s] = "done"]
        \/ /\ CacheGet(s) /\ answer' = answer /\ pc' = [pc EXCEPT ![s] = "cache_put"]
           /\ pc[s] = "cache_get"
    BY <1>3 DEF CacheGet, CachePut, Invalidate
  <2>4. CASE \E code \in {"ok", "error"} :
               answer' = [answer EXCEPT ![s] = code] /\ pc' = [pc EXCEPT ![s] = "done"]
    BY <1>2, <2>1, <2>2, <2>4
  <2>5. CASE answer' = answer /\ pc' = [pc EXCEPT ![s] = "cache_put"] /\ pc[s] = "cache_get"
    <3>1. Saved' = Saved
      BY <2>5 DEF Saved
    <3>. QED
      BY <1>1, <2>1, <2>5, <3>1 DEF A!accounts
  <2>. QED
    BY <2>3, <2>4, <2>5
<1>4. CASE Write(s)
  <2>1. /\ pc[s] = "write" /\ pc' = [pc EXCEPT ![s] = "refresh"] /\ answer' = answer
        /\ c.op = "update_profile" /\ HasRow(s)
    BY <1>1, <1>4 DEF Write, AuthOf
  <2>2. Saved' = Saved \cup {s} /\ s \notin Saved
    BY <2>1 DEF Saved
  <2>3. profile' = profile \/ (c.name # None /\ profile' = [profile EXCEPT ![c.user] = c.name])
    BY <1>4 DEF Write, User
  <2>4. A!Save(s)
    BY <1>1, <2>1, <2>2, <2>3 DEF A!Save, A!Open, A!Known, HasRow, User
  <2>. QED
    BY <2>4 DEF A!AccountsNext
<1>5. CASE Refresh(s)
  <2>1. profile' = profile /\ pc[s] = "refresh" /\ s \in Saved /\ HasRow(s)
    BY <1>1, <1>5 DEF Refresh, AuthOf, Saved
  <2>2. CASE answer' = answer /\ pc' = [pc EXCEPT ![s] = "invalidate"]
    <3>1. Saved' = Saved
      BY <2>1, <2>2 DEF Saved
    <3>. QED
      BY <1>1, <2>1, <2>2, <3>1 DEF A!accounts
  <2>3. CASE answer' = [answer EXCEPT ![s] = "error"] /\ pc' = [pc EXCEPT ![s] = "done"]
    <3>1. A!Truthful(s, "error")
      BY <2>1 DEF A!Truthful, A!Known, HasRow, User
    <3>. QED
      BY <1>2, <2>1, <2>3, <3>1
  <2>. QED
    BY <1>5, <2>2, <2>3 DEF Refresh
<1>6. CASE Crash(s)
  <2>1. A!Truthful(s, "lost")
    BY DEF A!Truthful
  <2>. QED
    BY <1>2, <1>6, <2>1 DEF Crash
<1>. QED
  BY <1>3, <1>4, <1>5, <1>6

LEMMA AccountsStep == Typed /\ Auth /\ Rows /\ [Next]_vars => [A!AccountsNext]_(A!accounts)
<1> SUFFICES ASSUME Typed, Auth, Rows, [Next]_vars
             PROVE  A!AccountsNext \/ UNCHANGED A!accounts
  OBVIOUS
<1>1. CASE \/ \E p \in Paths : WindowEnds(p)
           \/ \E u \in Users : Evict(u)
           \/ Tick \/ UNCHANGED vars
  <2>1. UNCHANGED <<pc, call, answer, rows, profile>>
    BY <1>1 DEF WindowEnds, Evict, Tick, vars, db, local
  <2>. QED
    BY <2>1 DEF A!accounts, Saved
<1>. QED
  BY <1>1, SimulatesLimiter, SimulatesRows, SimulatesProfiles DEF Next, Step

LEMMA AccountsInitial == Init => A!AccountsInit
<1>1. Init => Saved = {}
  BY DEF Init, Saved
<1>. QED
  BY <1>1 DEF Init, A!AccountsInit

\* Every interleaving of the handlers, with its locks, races, deaths and failures of
\* Redis, is one of requests that each take effect in one step and are answered with
\* what was true then.
THEOREM AccountsImplemented == Spec => ImplementsAccounts
<1>1. Init => Auth
  BY DEF Init, Auth, AuthOf
<1>2. Init => Rows
  BY DEF Init, Rows, RowOf, Initial
<1>. QED
  BY <1>1, <1>2, TypedInit, TypedNext, AuthStep, RowsStep, AccountsStep, AccountsInitial, PTL
     DEF Spec, ImplementsAccounts, A!AccountsSpec
=============================================================================
