------------------------------ MODULE HttpApi ------------------------------
(***************************************************************************)
(* The requests that do not move money: each passes the rate limiter, is   *)
(* authenticated (or logs in), and then registers a user, stores a refresh *)
(* token, creates a wallet, or reads or changes the profile of a user.     *)
(* All come from one address.  Handlers interleave at every await.         *)
(*                                                                         *)
(* The rows that register, login and create_wallet insert are named by     *)
(* their unique key: <<"user", u>>, <<"token", u, second>> - two refresh   *)
(* tokens of a user signed in one second are equal - and <<"wallet", u>>.  *)
(***************************************************************************)
EXTENDS Integers, FiniteSets

CONSTANTS Requests, Users,
          Registered,   \* the users that have a row already
          Names,        \* values of a profile's fields
          Calls,        \* what a request may ask for
          Limit,        \* requests of each path in one window
          MaxSeconds,   \* bound: how often the clock's second changes
          None          \* not known, not cached, no holder

Ops == {"register", "login", "wallet", "get_profile", "update_profile"}
Call == [op : Ops, user : Users, name : Names \cup {None}]
Path(op) == IF op \in {"get_profile", "update_profile"} THEN "me" ELSE op
Paths == {Path(op) : op \in Ops}

Second == 0 .. MaxSeconds
UniqueKey == {<<kind, u>> : kind \in {"user", "wallet"}, u \in Users}
               \cup {<<"token", u, s>> : u \in Users, s \in Second}

PC == {"idle", "incr", "expire", "exists", "load", "insert", "commit", "cache_get",
       "cache_put", "write", "refresh", "invalidate", "done"}
Answers == {"none", "ok", "limited", "unauthorized", "conflict", "duplicate", "error", "lost"}

ASSUME CallsAssumption == Calls \subseteq Call /\ Registered \subseteq Users
ASSUME LimitAssumption == Limit \in [Paths -> Nat \ {0}]
ASSUME NoneAssumption  == None \notin Requests \cup Names /\ None \notin UniqueKey /\ None \notin Calls
ASSUME SecondsAssumption == MaxSeconds \in Nat

VARIABLES
  count, expires,    \* Redis: the counter of each path, and whether it will expire
  cached,            \* Redis: each user's cached profile
  rows, key_lock,    \* committed rows, and who has inserted one and not committed
  profile,           \* the committed profile of each user
  pc, call, answer,  \* the handlers
  key,               \* the row a handler inserts
  loaded,            \* the profile its session holds, in the two profile handlers
  now,               \* the clock, in seconds
  admitted, cut, outdated, overtaken   \* history: see Decide, Expire, Outdate, Overtake

redis == <<count, expires, cached>>
db == <<rows, key_lock, profile>>
local == <<call, key, loaded>>
history == <<admitted, cut, outdated, overtaken>>
vars == <<redis, db, pc, answer, local, now, history>>

Init ==
  /\ count = [p \in Paths |-> 0] /\ expires = [p \in Paths |-> FALSE]
  /\ cached = [u \in Users |-> None]
  /\ rows = {<<"user", u>> : u \in Registered} /\ key_lock = [k \in UniqueKey |-> None]
  /\ \E name \in Names : profile = [u \in Users |-> name]
  /\ pc = [r \in Requests |-> "idle"] /\ answer = [r \in Requests |-> "none"]
  /\ call = [r \in Requests |-> None]
  /\ key = [r \in Requests |-> None] /\ loaded = [r \in Requests |-> None]
  /\ now = 0
  /\ admitted = [p \in Paths |-> 0] /\ cut = [p \in Paths |-> FALSE]
  /\ outdated = [u \in Users |-> FALSE] /\ overtaken = {}

-----------------------------------------------------------------------------
PathOf(r) == Path(call[r].op)
User(r) == call[r].user

Goto(r, next) == pc' = [pc EXCEPT ![r] = next] /\ UNCHANGED answer
Answer(r, code) ==
  /\ pc' = [pc EXCEPT ![r] = "done"]
  /\ answer' = [answer EXCEPT ![r] = code]

\* A row cached for u, or about to be, may differ from the committed one, for the
\* usual reasons: see StaleOnlyForACause.
Outdate(u) == outdated' = [outdated EXCEPT ![u] = TRUE]

Released(r) == key_lock' = [k \in UniqueKey |-> IF key_lock[k] = r THEN None ELSE key_lock[k]]

-----------------------------------------------------------------------------
\* RateLimitMiddleware.

Submit(r) ==
  /\ pc[r] = "idle"
  /\ \E c \in Calls : call' = [call EXCEPT ![r] = c]
  /\ Goto(r, "incr")
  /\ UNCHANGED <<redis, db, key, loaded, now, history>>

\* Where the request goes once the limiter lets it through.
Entry(r) == IF call[r].op = "register" THEN "exists" ELSE "load"

\* Defective variant of Exceeded: off by one.
ExceededByOne(current, p) == current > Limit[p] + 1
Exceeded(current, p) == current > Limit[p]

\* Decide on the counter the INCR returned.  History: the requests of this window.
Decide(r, current) ==
  IF Exceeded(current, PathOf(r)) THEN Answer(r, "limited") /\ UNCHANGED admitted
  ELSE /\ Goto(r, Entry(r))
       /\ admitted' = [admitted EXCEPT ![PathOf(r)] = @ + 1]

\* INCR.  The first request of a window goes on to set the expiry; Redis may be
\* unavailable, and then the request passes uncounted.
Incr(r) ==
  LET p == PathOf(r)
      current == count[p] + 1
  IN /\ pc[r] = "incr"
     /\ \/ /\ count' = [count EXCEPT ![p] = current]
           /\ IF current = 1 THEN Goto(r, "expire") /\ UNCHANGED admitted
                             ELSE Decide(r, current)
        \/ Goto(r, Entry(r)) /\ UNCHANGED <<count, admitted>>
     /\ UNCHANGED <<expires, cached, db, local, now, cut, outdated, overtaken>>

\* EXPIRE, which Redis may refuse to answer.  History: it has been cut short.
Expire(r) ==
  LET p == PathOf(r)
  IN /\ pc[r] = "expire"
     /\ \/ /\ expires' = [expires EXCEPT ![p] = count[p] > 0]
           /\ Decide(r, 1) /\ UNCHANGED cut
        \/ /\ cut' = [cut EXCEPT ![p] = TRUE]
           /\ Goto(r, Entry(r)) /\ UNCHANGED <<expires, admitted>>
     /\ UNCHANGED <<count, cached, db, local, now, outdated, overtaken>>

WindowEnds(p) ==
  /\ expires[p]
  /\ count' = [count EXCEPT ![p] = 0] /\ expires' = [expires EXCEPT ![p] = FALSE]
  /\ admitted' = [admitted EXCEPT ![p] = 0]
  /\ UNCHANGED <<cached, db, pc, answer, local, now, cut, outdated, overtaken>>

-----------------------------------------------------------------------------
\* register, login, create_wallet.

\* The row that register or create_wallet wants to make.
Wanted(r) == <<IF call[r].op = "register" THEN "user" ELSE "wallet", User(r)>>

\* Defective variant of Exists: the row is named by the path, not by its table.
ExistsByPath(r) ==
  LET k == <<call[r].op, User(r)>>
  IN /\ pc[r] = "exists"
     /\ Goto(r, "insert") /\ key' = [key EXCEPT ![r] = k]
     /\ UNCHANGED <<redis, db, call, loaded, now, history>>

\* The look-up of register, and the second one of create_wallet.
Exists(r) ==
  /\ pc[r] = "exists"
  /\ IF Wanted(r) \in rows THEN Answer(r, "conflict") /\ UNCHANGED key
     ELSE Goto(r, "insert") /\ key' = [key EXCEPT ![r] = Wanted(r)]
  /\ UNCHANGED <<redis, db, call, loaded, now, history>>

\* login looks the user up and signs the tokens; get_current_user looks the user
\* of the access token up, in the session that the handler then works with.
Load(r) ==
  /\ pc[r] = "load"
  /\ IF <<"user", User(r)>> \notin rows
     THEN Answer(r, "unauthorized") /\ UNCHANGED <<key, loaded>>
     ELSE /\ loaded' = [loaded EXCEPT ![r] =
               IF PathOf(r) = "me" THEN profile[User(r)] ELSE None]
          /\ IF call[r].op = "login"
             THEN key' = [key EXCEPT ![r] = <<"token", User(r), now>>] ELSE UNCHANGED key
          /\ Goto(r, CASE call[r].op = "login" -> "insert"
                       [] call[r].op = "wallet" -> "exists"
                       [] call[r].op = "get_profile" -> "cache_get"
                       [] call[r].op = "update_profile" -> "write")
  /\ UNCHANGED <<redis, db, call, now, history>>

\* Defective variant of Insert: the column is not unique.
InsertNotUnique(r) ==
  /\ pc[r] = "insert"
  /\ Goto(r, "commit")
  /\ UNCHANGED <<redis, db, local, now, history>>

\* The INSERT waits for another of the same key, and is refused (IntegrityError, a
\* 500) when that one has been committed.
Insert(r) ==
  LET k == key[r]
  IN /\ pc[r] = "insert" /\ key_lock[k] = None
     /\ IF k \in rows THEN Answer(r, "duplicate") /\ UNCHANGED key_lock
        ELSE Goto(r, "commit") /\ key_lock' = [key_lock EXCEPT ![k] = r]
     /\ UNCHANGED <<redis, rows, profile, local, now, history>>

\* The row is there.  The worker may still die before it has answered, or answer
\* 500: the reply to its COMMIT is lost, or create_wallet cannot read the row back.
Commit(r) ==
  /\ pc[r] = "commit"
  /\ rows' = rows \cup {key[r]}
  /\ Released(r)
  /\ \E code \in {"ok", "error", "lost"} : Answer(r, code)
  /\ UNCHANGED <<redis, profile, local, now, history>>

-----------------------------------------------------------------------------
\* get_profile and update_profile.

\* The cache answers, or the profile that was loaded at authentication is used.
\* Here, unlike in the limiter, a request fails with Redis.
CacheGet(r) ==
  /\ pc[r] = "cache_get"
  /\ \/ IF cached[User(r)] # None THEN Answer(r, "ok") ELSE Goto(r, "cache_put")
     \/ Answer(r, "error")
  /\ UNCHANGED <<redis, db, local, now, history>>

CachePut(r) ==
  /\ pc[r] = "cache_put"
  /\ \/ cached' = [cached EXCEPT ![User(r)] = loaded[r]] /\ Answer(r, "ok")
     \/ Answer(r, "error") /\ UNCHANGED cached
  /\ UNCHANGED <<count, expires, db, local, now, history>>

\* The readers of u's profile that will cache what they loaded before.
Readers(u) ==
  {r \in Requests : /\ pc[r] \in {"cache_get", "cache_put"} /\ User(r) = u
                    /\ loaded[r] # None}

\* The other updates of the same profile on their way since authentication.
Overtake(r) ==
  overtaken' = overtaken \cup
    {s \in Requests \ {r} : pc[s] \in {"write", "refresh", "invalidate"} /\ User(s) = User(r)}

\* Defective variant of Write: a value equal to the cached one is no change.
WriteComparesCached(r) ==
  LET u == User(r)
      changes == call[r].name \notin {None, cached[u]}
  IN /\ pc[r] = "write"
     /\ profile' = [profile EXCEPT ![u] = IF changes THEN call[r].name ELSE @]
     /\ Goto(r, "refresh")
     /\ IF changes THEN Overtake(r) ELSE UNCHANGED overtaken
     /\ UNCHANGED <<redis, rows, key_lock, local, now, admitted, cut, outdated>>

\* The fields that are given are set and committed.  A value equal to the loaded
\* one is no change and is not written, whatever has been committed meanwhile.
Write(r) ==
  LET u == User(r)
      changes == call[r].name \notin {None, loaded[r]}
  IN /\ pc[r] = "write"
     /\ profile' = [profile EXCEPT ![u] = IF changes THEN call[r].name ELSE @]
     /\ Goto(r, "refresh")
     /\ IF changes /\ Readers(u) # {} THEN Outdate(u) ELSE UNCHANGED outdated
     /\ IF changes THEN Overtake(r) ELSE UNCHANGED overtaken
     /\ UNCHANGED <<redis, rows, key_lock, local, now, admitted, cut>>

\* The row is read back.  If that fails the request does, with its change committed
\* and the cache as it was.
Refresh(r) ==
  /\ pc[r] = "refresh"
  /\ \/ /\ loaded' = [loaded EXCEPT ![r] = profile[User(r)]]
        /\ Goto(r, "invalidate") /\ UNCHANGED outdated
     \/ Answer(r, "error") /\ Outdate(User(r)) /\ UNCHANGED loaded
  /\ UNCHANGED <<redis, db, call, key, now, admitted, cut, overtaken>>

\* Defective variant of Invalidate: the cache is left to its time to live.
InvalidateNot(r) ==
  /\ pc[r] = "invalidate"
  /\ Answer(r, "ok")
  /\ UNCHANGED <<redis, db, local, now, history>>

\* The cached profile is deleted.  If Redis does not answer, the request fails
\* although the change has been committed.
Invalidate(r) ==
  /\ pc[r] = "invalidate"
  /\ \/ /\ cached' = [cached EXCEPT ![User(r)] = None]
        /\ Answer(r, "ok") /\ UNCHANGED outdated
     \/ Answer(r, "error") /\ Outdate(User(r)) /\ UNCHANGED cached
  /\ UNCHANGED <<count, expires, db, local, now, admitted, cut, overtaken>>

\* USER_CACHE_TTL is over.
Evict(u) ==
  /\ cached[u] # None
  /\ cached' = [cached EXCEPT ![u] = None]
  /\ UNCHANGED <<count, expires, db, pc, answer, local, now, history>>

-----------------------------------------------------------------------------
\* A worker dies, or a statement of its transaction fails: the transaction is rolled
\* back, what it did in Redis stays, and its client learns nothing of use.
Crash(r) ==
  /\ pc[r] \notin {"idle", "done"}
  /\ Released(r)
  /\ Answer(r, "lost")
  /\ cut' = [p \in Paths |-> cut[p] \/ (pc[r] = "expire" /\ p = PathOf(r))]
  /\ IF pc[r] \in {"refresh", "invalidate"} THEN Outdate(User(r)) ELSE UNCHANGED outdated
  /\ UNCHANGED <<redis, rows, profile, local, now, admitted, overtaken>>

Tick ==
  /\ now < MaxSeconds
  /\ now' = now + 1
  /\ UNCHANGED <<redis, db, pc, answer, local, history>>

Step(r) ==
  \/ Incr(r) \/ Expire(r) \/ Exists(r) \/ Load(r) \/ Insert(r) \/ Commit(r)
  \/ CacheGet(r) \/ CachePut(r) \/ Write(r) \/ Refresh(r) \/ Invalidate(r)

Next ==
  \/ \E r \in Requests : Submit(r) \/ Step(r) \/ Crash(r)
  \/ \E p \in Paths : WindowEnds(p)
  \/ \E u \in Users : Evict(u)
  \/ Tick

Spec == Init /\ [][Next]_vars

-----------------------------------------------------------------------------
\* Properties.

\* Every variable keeps its type.
TypeOK ==
  /\ count \in [Paths -> Nat] /\ expires \in [Paths -> BOOLEAN]
  /\ cached \in [Users -> Names \cup {None}]
  /\ rows \subseteq UniqueKey /\ key_lock \in [UniqueKey -> Requests \cup {None}]
  /\ profile \in [Users -> Names]
  /\ pc \in [Requests -> PC] /\ answer \in [Requests -> Answers]
  /\ call \in [Requests -> Calls \cup {None}]
  /\ key \in [Requests -> UniqueKey \cup {None}]
  /\ loaded \in [Requests -> Names \cup {None}]
  /\ now \in Second
  /\ admitted \in [Paths -> Nat] /\ cut \in [Paths -> BOOLEAN]
  /\ outdated \in [Users -> BOOLEAN] /\ overtaken \subseteq Requests

Initial == {<<"user", u>> : u \in Registered}

\* However requests race for one unique key, crash or get a 500: at most one of them
\* is told that the row is its own, or fails after it made it, and the row is there;
\* those that are told the row exists, politely or by a 500, are told the truth; and
\* no row appears without a request that inserted it.
CreatedOnce ==
  /\ \A r, s \in Requests :
       /\ answer[r] \in {"ok", "error"} /\ answer[s] \in {"ok", "error"}
       /\ key[r] # None /\ key[r] = key[s]
       => r = s /\ key[r] \in rows
  /\ \A r \in Requests : answer[r] = "duplicate" => key[r] \in rows \ Initial
  /\ \A r \in Requests : answer[r] = "conflict" => Wanted(r) \in rows
  /\ \A k \in rows \ Initial :
       \E r \in Requests : key[r] = k /\ answer[r] \in {"ok", "error", "lost"}

\* Within one window no path admits more counted requests than its limit, however
\* the counting requests interleave.
AdmittedWithinLimit == \A p \in Paths : admitted[p] <= Limit[p]

\* The cached profile differs from the committed one only while a change of it is
\* on its way to the cache, or after a change that met a reader who had loaded the
\* old row, that could not reach Redis, or whose worker died.
StaleOnlyForACause ==
  \A u \in Users : cached[u] \notin {None, profile[u]} =>
    \/ outdated[u]
    \/ \E r \in Requests : pc[r] \in {"refresh", "invalidate"} /\ User(r) = u

\* The updates that have been committed and not answered yet.
Saved == {r \in Requests : pc[r] \in {"refresh", "invalidate"}}

\* From its commit to its answer the value an update asked for is the committed one,
\* unless another update of that profile was committed since this one was
\* authenticated: only then may it be dropped as no change, or be overwritten.
UpdatesLandOrAreOvertaken ==
  \A r \in Saved : call[r].name \in {None, profile[User(r)]} \/ r \in overtaken

\* The requests as their clients and an observer of the committed tables see them.
A == INSTANCE Accounts WITH asks <- call, told <- answer, saved <- Saved

\* The handlers with their races, crashes and failures of Redis implement the
\* abstract accounts: a row is made in one step by one request, of a user that
\* exists, a profile is saved once by each request that may, and every answer is
\* given once and is true of the tables at that moment.
ImplementsAccounts == A!AccountsSpec
=============================================================================
