-------------------------- MODULE ApiClientProofs --------------------------
(***************************************************************************)
(* Type correctness of the API client and its four safety properties, for  *)
(* any set of requests and any number of expiries, logins and faults.      *)
(***************************************************************************)
EXTENDS ApiClient, TLAPS

-----------------------------------------------------------------------------
\* Type correctness.

LEMMA TypeStep ==
  ASSUME TypeOK, NEW q \in Requests, Send(q) \/ Step(q)
  PROVE  TypeOK'
<1> USE BoundsAssumption DEF TypeOK, PC, storage, server, counters, Settle, Clear, Store
<1>1. CASE Send(q)
  BY <1>1 DEF Send
<1>2. CASE Serve(q)
  BY <1>2 DEF Serve, Answer
<1>3. CASE ReceiveFinal(q)
  BY <1>3 DEF ReceiveFinal
<1>4. CASE Enqueue(q)
  BY <1>4 DEF Enqueue
<1>5. CASE StartRefresh(q)
  BY <1>5 DEF StartRefresh
<1>6. CASE GiveUp(q)
  BY <1>6 DEF GiveUp
<1>7. CASE RefreshOk(q)
  <2>1. issued' = issued + 1
    BY <1>7 DEF RefreshOk
  <2>2. sent_token' \in [Requests -> 0 .. issued']
    BY <1>7, <2>1 DEF RefreshOk
  <2>3. pc' \in [Requests -> PC]
    BY <1>7 DEF RefreshOk
  <2>4. access_token' = issued' /\ UNCHANGED <<refresh_token, leaving, status, retry, rt, active>>
        /\ UNCHANGED <<valid_from, revoked, expiries, logins, logouts, faults>>
    BY <1>7 DEF RefreshOk
  <2>5. access_token' \in 0 .. issued' /\ issued' \in Nat \ {0} /\ valid_from' \in 1 .. issued' + 1
    BY <2>1, <2>4
  <2>6. isRefreshing' \in BOOLEAN /\ bearer' \in 0 .. logins + 1 /\ crossed' \in BOOLEAN
    BY <1>7 DEF RefreshOk
  <2>. QED
    BY <2>2, <2>3, <2>4, <2>5, <2>6
<1>8. CASE RefreshFails(q)
  <2>1. pc' \in [Requests -> PC]
    BY <1>8 DEF RefreshFails
  <2>2. faults' \in 0 .. MaxFaults
    BY <1>8 DEF RefreshFails
  <2>3. /\ access_token' = 0 /\ refresh_token' = 0 /\ bearer' = 0 /\ crossed' = FALSE
        /\ leaving' = TRUE /\ isRefreshing' = FALSE
        /\ UNCHANGED <<sent_token, status, retry, rt, issued, valid_from, revoked, active>>
        /\ UNCHANGED <<expiries, logins, logouts>>
    BY <1>8 DEF RefreshFails
  <2>4. access_token' \in 0 .. issued' /\ {refresh_token', bearer'} \subseteq 0 .. logins' + 1
    BY <2>3
  <2>. QED
    BY <2>1, <2>2, <2>3, <2>4
<1>. QED
  BY <1>1, <1>2, <1>3, <1>4, <1>5, <1>6, <1>7, <1>8 DEF Step, Receive

LEMMA TypeEnvironment ==
  ASSUME TypeOK, Reload \/ Logout \/ Login \/ Expire \/ Revoke \/ Deactivate
  PROVE  TypeOK'
<1> USE BoundsAssumption DEF TypeOK, PC, storage, requests, counters, Clear, Store
<1>1. CASE Reload
  BY <1>1 DEF Reload, server
<1>2. CASE Logout
  BY <1>2 DEF Logout, server
<1>3. CASE Login
  <2>1. logins' \in 0 .. MaxLogins /\ issued' = issued + 1 /\ logins' = logins + 1
    BY <1>3 DEF Login
  <2>2. sent_token' \in [Requests -> 0 .. issued'] /\ rt' \in [Requests -> 0 .. logins' + 1]
    BY <1>3, <2>1 DEF Login
  <2>3. crossed' \in BOOLEAN /\ {refresh_token', bearer'} \subseteq 0 .. logins' + 1
    BY <1>3, <2>1 DEF Login
  <2>. QED
    BY <1>3, <2>1, <2>2, <2>3 DEF Login
<1>4. CASE Expire
  BY <1>4 DEF Expire
<1>5. CASE Revoke
  BY <1>5 DEF Revoke
<1>6. CASE Deactivate
  BY <1>6 DEF Deactivate
<1>. QED
  BY <1>1, <1>2, <1>3, <1>4, <1>5, <1>6

\* The stores, the client's module state and the server keep their ranges.
THEOREM TypeCorrect == Spec => []TypeOK
<1>1. Init => TypeOK
  <2> SUFFICES ASSUME Init PROVE TypeOK
    OBVIOUS
  <2>1. /\ access_token \in 0 .. issued /\ {refresh_token, bearer} \subseteq 0 .. logins + 1
        /\ issued \in Nat \ {0} /\ valid_from \in 1 .. issued + 1
    BY DEF Init
  <2>2. /\ expiries \in 0 .. MaxExpiries /\ logins \in 0 .. MaxLogins
        /\ logouts \in Nat /\ faults \in 0 .. MaxFaults
    BY BoundsAssumption DEF Init
  <2>3. sent_token \in [Requests -> 0 .. issued] /\ rt \in [Requests -> 0 .. logins + 1]
    BY DEF Init
  <2>4. /\ pc \in [Requests -> PC] /\ status \in [Requests -> {0, 200, 401, 403, 500}]
        /\ retry \in [Requests -> BOOLEAN]
    BY DEF Init, PC
  <2>5. /\ isRefreshing \in BOOLEAN /\ leaving \in BOOLEAN /\ active \in BOOLEAN
        /\ crossed \in BOOLEAN /\ revoked \subseteq 1 .. logins + 1
    BY DEF Init
  <2>. QED
    BY <2>1, <2>2, <2>3, <2>4, <2>5 DEF TypeOK
<1>2. TypeOK /\ [Next]_vars => TypeOK'
  <2> SUFFICES ASSUME TypeOK, [Next]_vars PROVE TypeOK'
    OBVIOUS
  <2>1. CASE UNCHANGED vars
    BY <2>1 DEF TypeOK, vars, storage, requests, server, counters
  <2>. QED
    BY <2>1, TypeStep, TypeEnvironment DEF Next, Terminated
<1>. QED
  BY <1>1, <1>2, PTL DEF Spec

-----------------------------------------------------------------------------
\* One refresh at a time, and nobody waits for none.

\* A callback of q that neither starts nor ends a refresh, and does not queue q.
LEMMA OtherCallback ==
  ASSUME TypeOK, WaitersHaveRefresher, NEW q \in Requests, pc[q] # "refreshing",
         NEW next, next \notin {"queued", "refreshing"},
         pc' = [pc EXCEPT ![q] = next], isRefreshing' = isRefreshing
  PROVE  WaitersHaveRefresher'
<1>1. \A p \in Requests : pc'[p] = "refreshing" <=> pc[p] = "refreshing"
  BY DEF TypeOK
<1>2. Waiting' \subseteq Waiting
  BY DEF TypeOK, Waiting
<1>. QED
  BY <1>1, <1>2 DEF WaitersHaveRefresher

LEMMA RefresherStep ==
  ASSUME TypeOK, WaitersHaveRefresher, NEW q \in Requests, Send(q) \/ Step(q)
  PROVE  WaitersHaveRefresher'
<1>1. CASE Send(q)
  BY <1>1, OtherCallback DEF Send
<1>2. CASE Serve(q)
  BY <1>2, OtherCallback DEF Serve
<1>3. CASE ReceiveFinal(q)
  <2>1. PICK end \in {"resolved", "rejected"} : pc' = [pc EXCEPT ![q] = end]
    BY <1>3 DEF ReceiveFinal, Settle
  <2>. QED
    BY <1>3, <2>1, OtherCallback DEF ReceiveFinal
<1>4. CASE GiveUp(q)
  BY <1>4, OtherCallback DEF GiveUp, Retriable, Settle
<1>5. CASE Enqueue(q)
  <2>1. isRefreshing /\ isRefreshing' /\ pc[q] = "answered" /\ pc' = [pc EXCEPT ![q] = "queued"]
    BY <1>5 DEF Enqueue, Retriable, Settle
  <2>2. \A p \in Requests : pc'[p] = "refreshing" <=> pc[p] = "refreshing"
    BY <2>1 DEF TypeOK
  <2>. QED
    BY <2>1, <2>2 DEF WaitersHaveRefresher
<1>6. CASE StartRefresh(q)
  <2>1. ~isRefreshing /\ isRefreshing' /\ pc' = [pc EXCEPT ![q] = "refreshing"]
    BY <1>6 DEF StartRefresh, Settle
  <2>2. \A p \in Requests : pc'[p] = "refreshing" <=> p = q
    BY <2>1 DEF TypeOK, WaitersHaveRefresher
  <2>. QED
    BY <2>1, <2>2 DEF WaitersHaveRefresher
<1>7. CASE RefreshOk(q) \/ RefreshFails(q)
  <2>1. /\ pc[q] = "refreshing" /\ ~isRefreshing'
        /\ \A p \in Requests : pc'[p] \in {"sent", "rejected"}
                            \/ (pc'[p] = pc[p] /\ p # q /\ p \notin Waiting)
    BY <1>7 DEF RefreshOk, RefreshFails, TypeOK
  <2>2. \A p \in Requests : pc'[p] # "refreshing"
    BY <2>1 DEF WaitersHaveRefresher
  <2>3. Waiting' = {}
    BY <2>1 DEF Waiting
  <2>. QED
    BY <2>1, <2>2, <2>3 DEF WaitersHaveRefresher
<1>. QED
  BY <1>1, <1>2, <1>3, <1>4, <1>5, <1>6, <1>7 DEF Step, Receive

\* There is at most one refresh, and a request that waits waits for a running one.
THEOREM OneRefresher == Spec => []WaitersHaveRefresher
<1>1. Init => WaitersHaveRefresher
  BY DEF Init, WaitersHaveRefresher, Waiting
<1>2. TypeOK /\ WaitersHaveRefresher /\ [Next]_vars => WaitersHaveRefresher'
  <2> SUFFICES ASSUME TypeOK, WaitersHaveRefresher, [Next]_vars PROVE WaitersHaveRefresher'
    OBVIOUS
  <2>1. CASE Reload
    <3>1. ~isRefreshing' /\ \A q \in Requests : pc'[q] \in Settled \cup {"idle", "dropped"}
      BY <2>1 DEF Reload, TypeOK
    <3>2. Waiting' = {} /\ \A q \in Requests : pc'[q] # "refreshing"
      BY <3>1 DEF Waiting, Settled
    <3>. QED
      BY <3>1, <3>2 DEF WaitersHaveRefresher
  <2>2. CASE UNCHANGED <<pc, isRefreshing>>
    BY <2>2 DEF WaitersHaveRefresher, Waiting
  <2>. QED
    BY <2>1, <2>2, RefresherStep
       DEF Next, Terminated, Logout, Login, Expire, Revoke, Deactivate, vars, requests
<1>. QED
  BY <1>1, <1>2, TypeCorrect, PTL DEF Spec

-----------------------------------------------------------------------------
\* A good session survives.

Ended == revoked # {} \/ logouts > 0 \/ faults > 0

\* The tokens leave localStorage only when the session has ended in some way.
Kept == leaving \/ refresh_token = 0 => Ended

\* No session whose tokens are good, that nobody ended and whose refreshes get
\* through leads to the login page.
THEOREM GoodSessionSurvives == Spec => []SessionSurvives
<1>1. Init => Kept
  BY DEF Init, Kept
<1>2. TypeOK /\ Kept /\ [Next]_vars => Kept'
  <2> SUFFICES ASSUME TypeOK, Kept, [Next]_vars PROVE Kept'
    OBVIOUS
  <2> USE DEF TypeOK, Kept, Ended
  <2>1. ASSUME NEW q \in Requests, Send(q) \/ Step(q) PROVE Kept'
    <3>1. CASE RefreshFails(q)
      BY <3>1 DEF RefreshFails, server
    <3>2. CASE RefreshOk(q)
      BY <3>2 DEF RefreshOk, counters
    <3>3. CASE GiveUp(q)
      BY <3>3 DEF GiveUp, server, counters
    <3>4. CASE Send(q) \/ Serve(q) \/ ReceiveFinal(q) \/ Enqueue(q) \/ StartRefresh(q)
      BY <3>4 DEF Send, Serve, ReceiveFinal, Enqueue, StartRefresh, storage, server, counters
    <3>. QED
      BY <2>1, <3>1, <3>2, <3>3, <3>4 DEF Step, Receive
  <2>2. CASE Reload \/ Expire \/ Revoke \/ Deactivate
    BY <2>2 DEF Reload, Expire, Revoke, Deactivate, storage, server, counters
  <2>3. CASE Login \/ Logout
    BY <2>3 DEF Login, Logout, server
  <2>4. CASE UNCHANGED vars
    BY <2>4 DEF vars, storage, server, counters
  <2>. QED
    BY <2>1, <2>2, <2>3, <2>4 DEF Next, Terminated
<1>3. Kept => SessionSurvives
  BY DEF Kept, Ended, SessionSurvives
<1>. QED
  BY <1>1, <1>2, <1>3, TypeCorrect, PTL DEF Spec
-----------------------------------------------------------------------------
\* One expiry is hidden.

\* The session is live, its account active, and at most one expiry has come.
Good == expiries <= 1 /\ revoked = {} /\ active /\ logouts = 0 /\ faults = 0

\* How far a request of such a session may get: only the expiry leads to a 401,
\* and a request that has been marked carries a token issued since.
Course(q) ==
  /\ pc[q] = "idle" => ~retry[q]
  /\ pc[q] = "sent" => sent_token[q] # 0
  /\ pc[q] = "sent" /\ retry[q] => sent_token[q] >= valid_from
  /\ pc[q] = "answered" /\ status[q] = 401 => expiries = 1 /\ ~retry[q]
  /\ pc[q] = "rejected" => status[q] # 401
  /\ pc[q] \in {"queued", "refreshing"} \/ retry[q] => expiries = 1

\* The page holds tokens, and before the expiry every token is accepted.
Supplied ==
  /\ access_token # 0 /\ refresh_token # 0
  /\ expiries = 0 => valid_from = 1

OnCourse == Good => Supplied /\ \A q \in Requests : Course(q)

LEMMA CourseStep ==
  ASSUME TypeOK, OnCourse, NEW q \in Requests, Send(q) \/ Step(q)
  PROVE  OnCourse'
<1> SUFFICES ASSUME Good' PROVE Supplied' /\ \A p \in Requests : Course(p)'
  BY DEF OnCourse
<1>1. Good /\ Supplied /\ \A p \in Requests : Course(p)
  <2>1. Good
    <3>1. CASE RefreshFails(q)
      BY <3>1 DEF RefreshFails, Good, TypeOK, server
    <3>2. CASE RefreshOk(q)
      BY <3>2 DEF RefreshOk, Good, counters
    <3>3. CASE Send(q) \/ Serve(q) \/ Receive(q)
      BY <3>3 DEF Send, Serve, Receive, ReceiveFinal, Enqueue, StartRefresh, GiveUp, Good,
                  server, counters
    <3>. QED
      BY <3>1, <3>2, <3>3 DEF Step
  <2>. QED
    BY <2>1 DEF OnCourse
<1> USE DEF TypeOK, Course
<1>2. CASE Send(q)
  <2>1. Supplied'
    BY <1>1, <1>2 DEF Send, Supplied, storage, server, counters
  <2>2. Course(q)'
    BY <1>1, <1>2 DEF Send, Supplied, server, counters
  <2>3. ASSUME NEW p \in Requests, p # q PROVE Course(p)'
    BY <1>1, <1>2, <2>3 DEF Send, server, counters
  <2>. QED
    BY <2>1, <2>2, <2>3
<1>3. CASE Serve(q)
  <2>1. Supplied'
    BY <1>1, <1>3 DEF Serve, Supplied, storage, server, counters
  <2>2. status'[q] = 401 => pc[q] = "sent" /\ ~(sent_token[q] >= valid_from)
    BY <1>1, <1>3 DEF Serve, Answer, Good
  <2>3. status'[q] = 401 => expiries = 1 /\ ~retry[q]
    BY <1>1, <2>2 DEF Good, Supplied
  <2>4. expiries' = expiries /\ retry' = retry /\ valid_from' = valid_from
    BY <1>3 DEF Serve, server, counters
  <2>5. Course(q)'
    BY <1>1, <1>3, <2>3, <2>4 DEF Serve
  <2>6. ASSUME NEW p \in Requests, p # q PROVE Course(p)'
    BY <1>1, <1>3, <2>4, <2>6 DEF Serve
  <2>. QED
    BY <2>1, <2>5, <2>6
<1>4. CASE ReceiveFinal(q)
  <2>1. Supplied'
    BY <1>1, <1>4 DEF ReceiveFinal, Supplied, storage, server, counters
  <2>. QED
    BY <1>1, <1>4, <2>1 DEF ReceiveFinal, Settle, server, counters
<1>5. CASE Enqueue(q)
  <2>1. Supplied'
    BY <1>1, <1>5 DEF Enqueue, Supplied, storage, server, counters
  <2>. QED
    BY <1>1, <1>5, <2>1 DEF Enqueue, Retriable, Settle, server, counters
<1>6. CASE StartRefresh(q)
  <2>1. Supplied'
    BY <1>1, <1>6 DEF StartRefresh, Supplied, storage, server, counters
  <2>. QED
    BY <1>1, <1>6, <2>1 DEF StartRefresh, Retriable, Settle, server, counters
<1>7. CASE GiveUp(q)
  BY <1>1, <1>7 DEF GiveUp, Supplied
<1>8. CASE RefreshFails(q)
  BY <1>1, <1>8 DEF RefreshFails, Good, server
<1>9. CASE RefreshOk(q)
  <2>1. /\ access_token' = issued + 1 /\ issued' = issued + 1
        /\ UNCHANGED <<refresh_token, expiries, valid_from, retry, status>>
    BY <1>9 DEF RefreshOk, counters
  <2>2. Supplied'
    BY <1>1, <2>1 DEF Supplied
  <2>3. ASSUME NEW p \in Requests, p = q \/ p \in Waiting PROVE Course(p)'
    <3>1. pc'[p] = "sent" /\ sent_token'[p] = issued + 1
      BY <1>9, <2>1, <2>3 DEF RefreshOk
    <3>2. expiries = 1
      BY <1>1, <1>9, <2>3 DEF RefreshOk, Waiting
    <3>. QED
      BY <2>1, <3>1, <3>2
  <2>4. ASSUME NEW p \in Requests, p # q, p \notin Waiting PROVE Course(p)'
    <3>1. pc'[p] = pc[p] /\ sent_token'[p] = sent_token[p]
      BY <1>9, <2>4 DEF RefreshOk
    <3>. QED
      BY <1>1, <2>1, <3>1
  <2>. QED
    BY <2>2, <2>3, <2>4
<1>. QED
  BY <1>2, <1>3, <1>4, <1>5, <1>6, <1>7, <1>8, <1>9 DEF Step, Receive

LEMMA CourseEnvironment ==
  ASSUME TypeOK, OnCourse, Reload \/ Logout \/ Login \/ Expire \/ Revoke \/ Deactivate
  PROVE  OnCourse'
<1> SUFFICES ASSUME Good' PROVE Supplied' /\ \A p \in Requests : Course(p)'
  BY DEF OnCourse
<1> USE DEF TypeOK, OnCourse, Supplied, Course
<1>1. CASE Reload
  <2>1. Good /\ UNCHANGED <<storage, sent_token, status, retry, server, counters>>
    BY <1>1 DEF Reload, Good, server, counters
  <2>2. \A p \in Requests : pc'[p] = pc[p] \/ pc'[p] = "dropped"
    BY <1>1 DEF Reload
  <2>. QED
    BY <2>1, <2>2 DEF storage, server, counters
<1>2. CASE Login
  BY <1>2 DEF Login, Good
<1>3. CASE Expire
  <2>1. /\ Good /\ expiries = 0 /\ expiries' = 1
        /\ UNCHANGED <<storage, pc, sent_token, status, retry>>
    BY <1>3 DEF Expire, Good, requests
  <2>. QED
    BY <2>1 DEF storage
<1>4. CASE Logout
  BY <1>4 DEF Logout, Good
<1>5. CASE Revoke
  <2>1. revoked' # {}
    BY <1>5 DEF Revoke
  <2>. QED
    BY <2>1 DEF Good
<1>6. CASE Deactivate
  BY <1>6 DEF Deactivate, Good
<1>. QED
  BY <1>1, <1>2, <1>3, <1>4, <1>5, <1>6

\* No request of a live session of an active account is rejected because the
\* access token has expired once, for any number of requests at once.
THEOREM ExpiryHidden == Spec => []OneExpiryIsHidden
<1>1. Init => OnCourse
  BY DEF Init, OnCourse, Supplied, Course
<1>2. TypeOK /\ OnCourse /\ [Next]_vars => OnCourse'
  <2> SUFFICES ASSUME TypeOK, OnCourse, [Next]_vars PROVE OnCourse'
    OBVIOUS
  <2>1. CASE UNCHANGED vars
    BY <2>1 DEF OnCourse, Good, Supplied, Course, vars, storage, requests, server, counters
  <2>. QED
    BY <2>1, CourseStep, CourseEnvironment DEF Next, Terminated
<1>3. OnCourse => OneExpiryIsHidden
  BY DEF OnCourse, Good, Course, OneExpiryIsHidden
<1>. QED
  BY <1>1, <1>2, <1>3, TypeCorrect, PTL DEF Spec

-----------------------------------------------------------------------------
\* The tokens in the store belong to one session.

LEMMA SessionStep ==
  ASSUME TypeOK, WaitersHaveRefresher, TokensOfOneSession,
         NEW q \in Requests, Send(q) \/ Step(q)
  PROVE  TokensOfOneSession'
<1> USE DEF TokensOfOneSession, TypeOK
<1>1. CASE Send(q) \/ Serve(q) \/ ReceiveFinal(q) \/ Enqueue(q)
  <2>1. UNCHANGED <<storage, rt>> /\ pc[q] # "refreshing"
    BY <1>1 DEF Send, Serve, ReceiveFinal, Enqueue, Retriable
  <2>2. \A p \in Requests : pc'[p] = "refreshing" => pc[p] = "refreshing"
    BY <1>1 DEF Send, Serve, ReceiveFinal, Enqueue, Settle
  <2>. QED
    BY <2>1, <2>2 DEF storage
<1>2. CASE StartRefresh(q)
  <2>1. rt' = [rt EXCEPT ![q] = refresh_token] /\ UNCHANGED storage
    BY <1>2 DEF StartRefresh
  <2>2. \A p \in Requests : pc'[p] = "refreshing" => p = q
    BY <1>2 DEF StartRefresh, Settle, WaitersHaveRefresher
  <2>. QED
    BY <2>1, <2>2 DEF storage
<1>3. CASE GiveUp(q)
  <2>1. access_token' = 0 /\ pc' = [pc EXCEPT ![q] = "rejected"] /\ ~ isRefreshing
    BY <1>3 DEF GiveUp, Clear, Store, Settle
  <2>2. \A p \in Requests : pc'[p] # "refreshing"
    BY <2>1 DEF WaitersHaveRefresher
  <2>. QED
    BY <2>1, <2>2
<1>4. CASE RefreshOk(q) \/ RefreshFails(q)
  <2>1. \A p \in Requests : pc'[p] # "refreshing"
    BY <1>4 DEF RefreshOk, RefreshFails, WaitersHaveRefresher
  <2>2. CASE RefreshFails(q)
    BY <2>1, <2>2 DEF RefreshFails, Clear, Store
  <2>3. CASE RefreshOk(q)
    <3>1. pc[q] = "refreshing" /\ bearer' = rt[q] /\ UNCHANGED <<refresh_token, crossed>>
      BY <2>3 DEF RefreshOk
    <3>. QED
      BY <2>1, <3>1
  <2>. QED
    BY <1>4, <2>2, <2>3
<1>. QED
  BY <1>1, <1>2, <1>3, <1>4 DEF Step, Receive

\* The page never holds an access token of one session next to the refresh token
\* of another, or of none, unless a login or logout came in the middle of a refresh:
\* for any number of requests, logins, expiries and failures.
THEOREM OneSessionStored == Spec => []TokensOfOneSession
<1>1. Init => TokensOfOneSession
  BY DEF Init, TokensOfOneSession
<1>2. TypeOK /\ WaitersHaveRefresher /\ TokensOfOneSession /\ [Next]_vars => TokensOfOneSession'
  <2> SUFFICES ASSUME TypeOK, WaitersHaveRefresher, TokensOfOneSession, [Next]_vars
               PROVE  TokensOfOneSession'
    OBVIOUS
  <2>1. CASE Reload
    <3>1. UNCHANGED <<storage, rt>> /\ \A q \in Requests : pc'[q] # "refreshing"
      BY <2>1 DEF Reload, Settled
    <3>. QED
      BY <3>1 DEF TokensOfOneSession, storage
  <2>2. CASE Login \/ Logout
    <3>1. /\ UNCHANGED <<pc, isRefreshing>> /\ crossed' = isRefreshing'
          /\ bearer' = refresh_token'
      BY <2>2 DEF Login, Logout, Clear, Store, requests
    <3>2. ~ isRefreshing => \A q \in Requests : pc[q] # "refreshing"
      BY DEF WaitersHaveRefresher
    <3>. QED
      BY <3>1, <3>2 DEF TokensOfOneSession
  <2>3. CASE UNCHANGED <<storage, pc, rt>>
    BY <2>3 DEF TokensOfOneSession, storage
  <2>. QED
    BY <2>1, <2>2, <2>3, SessionStep
       DEF Next, Terminated, Expire, Revoke, Deactivate, vars, requests
<1>. QED
  BY <1>1, <1>2, TypeCorrect, OneRefresher, PTL DEF Spec
=============================================================================
