----------------------------- MODULE ApiClient -----------------------------
(***************************************************************************)
(* The axios client of the browser page: it puts the access token on every *)
(* request, and answers a 401 by refreshing the token once, while other    *)
(* requests that get a 401 wait in a queue for the outcome.                *)
(*                                                                         *)
(* JavaScript runs one callback at a time, so a step is one callback: the  *)
(* interceptor on a response, or what follows the answer to the refresh.   *)
(* An access token is a number, in the order of issue; a refresh token is  *)
(* the number of the login that issued it.                                *)
(***************************************************************************)
EXTENDS Integers, FiniteSets

CONSTANTS Requests,    \* requests of the page, each sent once by its code
          MaxExpiries, \* bound: how often all access tokens issued so far expire
          MaxLogins,   \* bound: how often the user logs in again
          MaxFaults    \* bound: refreshes that fail for another reason than a refusal

ASSUME BoundsAssumption == MaxExpiries \in Nat /\ MaxLogins \in Nat /\ MaxFaults \in Nat

VARIABLES
  \* localStorage; 0 is no token
  access_token, refresh_token,
  \* the session that access token was issued in, which the token itself says, and
  \* history: the store was last written as a whole during a refresh
  bearer, crossed,
  \* the client's module state, and whether it has set window.location
  isRefreshing, leaving,
  \* each request: where it is, the token it carries, the answer on its way, _retry,
  \* and the refresh token it has read for its refresh
  pc, sent_token, status, retry, rt,
  \* the server: access tokens issued, the first one still accepted, refresh tokens
  \* it refuses, whether the account is active
  issued, valid_from, revoked, active,
  \* how often each of the bounded things has happened
  expiries, logins, logouts, faults

storage == <<access_token, refresh_token, bearer, crossed>>
requests == <<pc, sent_token, status, retry, rt>>
server == <<issued, valid_from, revoked, active>>
counters == <<expiries, logins, logouts, faults>>
vars == <<storage, isRefreshing, leaving, requests, server, counters>>

\* "queued" is being in failedQueue; the last three are ends.
PC == {"idle", "sent", "answered", "queued", "refreshing", "resolved", "rejected", "dropped"}
Settled == {"resolved", "rejected", "dropped"}

\* The page is open and its user has just logged in.
Init ==
  /\ access_token = 1 /\ refresh_token = 1 /\ bearer = 1 /\ crossed = FALSE
  /\ isRefreshing = FALSE /\ leaving = FALSE
  /\ pc = [q \in Requests |-> "idle"]
  /\ sent_token = [q \in Requests |-> 0]
  /\ status = [q \in Requests |-> 0]
  /\ retry = [q \in Requests |-> FALSE]
  /\ rt = [q \in Requests |-> 0]
  /\ issued = 1 /\ valid_from = 1 /\ revoked = {} /\ active = TRUE
  /\ expiries = 0 /\ logins = 0 /\ logouts = 0 /\ faults = 0

\* What the server makes of a token: without one the answer is a 403, not a 401.
Answer(token) ==
  CASE token = 0 -> 403
    [] token # 0 /\ token >= valid_from /\ active -> 200
    [] OTHER -> 401

Waiting == {q \in Requests : pc[q] = "queued"}

-----------------------------------------------------------------------------
\* The request interceptor reads the token, and the request goes out.
Send(q) ==
  /\ pc[q] = "idle" /\ ~leaving
  /\ pc' = [pc EXCEPT ![q] = "sent"]
  /\ sent_token' = [sent_token EXCEPT ![q] = access_token]
  /\ UNCHANGED <<storage, isRefreshing, leaving, status, retry, rt, server, counters>>

\* The server checks the token.  The answer takes its time to arrive.
Serve(q) ==
  /\ pc[q] = "sent"
  /\ pc' = [pc EXCEPT ![q] = "answered"]
  /\ \/ status' = [status EXCEPT ![q] = Answer(sent_token[q])]
     \/ status' = [status EXCEPT ![q] = 500]   \* any other error, or no answer in time
  /\ UNCHANGED <<storage, isRefreshing, leaving, sent_token, retry, rt, server, counters>>

Settle(q, end) == pc' = [pc EXCEPT ![q] = end]

\* The response interceptor on anything but a 401 that may be retried.
ReceiveFinal(q) ==
  /\ pc[q] = "answered"
  /\ status[q] # 401 \/ retry[q]
  /\ Settle(q, IF status[q] = 200 THEN "resolved" ELSE "rejected")
  /\ UNCHANGED <<storage, isRefreshing, leaving, sent_token, status, retry, rt, server, counters>>

Retriable(q) == pc[q] = "answered" /\ status[q] = 401 /\ ~retry[q]

\* A refresh is on its way: wait for it.
Enqueue(q) ==
  /\ Retriable(q) /\ isRefreshing
  /\ Settle(q, "queued")
  /\ UNCHANGED <<storage, isRefreshing, leaving, sent_token, status, retry, rt, server, counters>>

\* Defective variant of StartRefresh: nobody looks whether a refresh is running.
StartAnother(q) ==
  /\ Retriable(q) /\ refresh_token # 0
  /\ rt' = [rt EXCEPT ![q] = refresh_token]
  /\ retry' = [retry EXCEPT ![q] = TRUE]
  /\ isRefreshing' = TRUE
  /\ Settle(q, "refreshing")
  /\ UNCHANGED <<storage, leaving, sent_token, status, server, counters>>

\* Otherwise this request refreshes the token.
StartRefresh(q) ==
  /\ Retriable(q) /\ ~isRefreshing /\ refresh_token # 0
  /\ rt' = [rt EXCEPT ![q] = refresh_token]
  /\ retry' = [retry EXCEPT ![q] = TRUE]
  /\ isRefreshing' = TRUE
  /\ Settle(q, "refreshing")
  /\ UNCHANGED <<storage, leaving, sent_token, status, server, counters>>

\* localStorage is given a new content, which a refresh under way knows nothing of.
Store(access, refresh) ==
  /\ access_token' = access /\ refresh_token' = refresh
  /\ bearer' = refresh
  /\ crossed' = isRefreshing'

Clear == Store(0, 0)

\* There is nothing to refresh with: to the login page.
GiveUp(q) ==
  /\ Retriable(q) /\ ~isRefreshing /\ refresh_token = 0
  /\ retry' = [retry EXCEPT ![q] = TRUE]
  /\ Settle(q, "rejected")
  /\ leaving' = TRUE
  /\ UNCHANGED <<isRefreshing, sent_token, status, rt, server, counters>>
  /\ Clear

\* Defective variants of RefreshOk: the refresh token is overwritten with nothing,
\* the queue is forgotten, or it is resent with the tokens its requests had.
RefreshDropsToken(q) ==
  /\ pc[q] = "refreshing" /\ rt[q] \notin revoked
  /\ issued' = issued + 1 /\ access_token' = issued' /\ refresh_token' = 0
  /\ bearer' = rt[q] /\ UNCHANGED crossed
  /\ pc' = [p \in Requests |-> IF p = q \/ p \in Waiting THEN "sent" ELSE pc[p]]
  /\ sent_token' = [p \in Requests |-> IF p = q \/ p \in Waiting THEN issued' ELSE sent_token[p]]
  /\ isRefreshing' = FALSE
  /\ UNCHANGED <<leaving, status, retry, rt, valid_from, revoked, active, counters>>

RefreshForgetsQueue(q) ==
  /\ pc[q] = "refreshing" /\ rt[q] \notin revoked
  /\ issued' = issued + 1 /\ access_token' = issued'
  /\ bearer' = rt[q] /\ UNCHANGED crossed
  /\ pc' = [pc EXCEPT ![q] = "sent"]
  /\ sent_token' = [sent_token EXCEPT ![q] = issued']
  /\ isRefreshing' = FALSE
  /\ UNCHANGED <<refresh_token, leaving, status, retry, rt, valid_from, revoked, active, counters>>

RefreshResendsOld(q) ==
  /\ pc[q] = "refreshing" /\ rt[q] \notin revoked
  /\ issued' = issued + 1 /\ access_token' = issued'
  /\ bearer' = rt[q] /\ UNCHANGED crossed
  /\ pc' = [p \in Requests |-> IF p = q \/ p \in Waiting THEN "sent" ELSE pc[p]]
  /\ sent_token' = [sent_token EXCEPT ![q] = issued']
  /\ retry' = [p \in Requests |-> retry[p] \/ p \in Waiting]
  /\ isRefreshing' = FALSE
  /\ UNCHANGED <<refresh_token, leaving, status, rt, valid_from, revoked, active, counters>>

\* The refresh succeeds, whether or not the account is active: the token is
\* stored, the queue is resent with it, without a mark, and so is this request.
RefreshOk(q) ==
  /\ pc[q] = "refreshing" /\ rt[q] \notin revoked
  /\ issued' = issued + 1 /\ access_token' = issued'
  /\ bearer' = rt[q] /\ UNCHANGED crossed
  /\ pc' = [p \in Requests |-> IF p = q \/ p \in Waiting THEN "sent" ELSE pc[p]]
  /\ sent_token' = [p \in Requests |-> IF p = q \/ p \in Waiting THEN issued' ELSE sent_token[p]]
  /\ isRefreshing' = FALSE
  /\ UNCHANGED <<refresh_token, leaving, status, retry, rt, valid_from, revoked, active, counters>>

\* The refresh is refused, or fails on its way: the queue and this request are
\* rejected, and the page goes to the login page.
RefreshFails(q) ==
  /\ pc[q] = "refreshing"
  /\ \/ rt[q] \in revoked /\ UNCHANGED faults
     \/ faults < MaxFaults /\ faults' = faults + 1
  /\ pc' = [p \in Requests |-> IF p = q \/ p \in Waiting THEN "rejected" ELSE pc[p]]
  /\ isRefreshing' = FALSE /\ leaving' = TRUE /\ Clear
  /\ UNCHANGED <<sent_token, status, retry, rt, server, expiries, logins, logouts>>

\* The browser follows window.location: the page starts afresh.
Reload ==
  /\ leaving
  /\ leaving' = FALSE /\ isRefreshing' = FALSE
  /\ pc' = [q \in Requests |-> IF pc[q] \in Settled \cup {"idle"} THEN pc[q] ELSE "dropped"]
  /\ UNCHANGED <<storage, sent_token, status, retry, rt, server, counters>>

\* The user logs out: the tokens leave localStorage, the server is not told.
Logout ==
  /\ refresh_token # 0 /\ ~leaving
  /\ logouts' = logouts + 1
  /\ UNCHANGED <<isRefreshing, leaving, requests, server, expiries, logins, faults>>
  /\ Clear

\* The user logs in again, on the same page.
Login ==
  /\ refresh_token = 0 /\ ~leaving /\ active
  /\ logins < MaxLogins /\ logins' = logins + 1
  /\ issued' = issued + 1
  /\ UNCHANGED <<isRefreshing, leaving, requests, valid_from, revoked, active, expiries, logouts,
                 faults>>
  /\ Store(issued', logins' + 1)

\* Defective variant of Expire: a token issued later is refused as well.
ExpireBeyond ==
  /\ expiries < MaxExpiries /\ expiries' = expiries + 1
  /\ valid_from' = issued + 2
  /\ UNCHANGED <<storage, isRefreshing, leaving, requests, issued, revoked, active,
                 logins, logouts, faults>>

\* What happens on the server: access tokens expire, a refresh token is
\* revoked or expires, the account is deactivated.
Expire ==
  /\ expiries < MaxExpiries /\ expiries' = expiries + 1
  /\ valid_from' = issued + 1
  /\ UNCHANGED <<storage, isRefreshing, leaving, requests, issued, revoked, active,
                 logins, logouts, faults>>

Revoke ==
  /\ \E session \in (1 .. logins + 1) \ revoked : revoked' = revoked \cup {session}
  /\ UNCHANGED <<storage, isRefreshing, leaving, requests, issued, valid_from, active, counters>>

Deactivate ==
  /\ active /\ active' = FALSE
  /\ UNCHANGED <<storage, isRefreshing, leaving, requests, issued, valid_from, revoked,
                 counters>>

\* All requests are settled and nobody does anything any more.
Terminated == (\A q \in Requests : pc[q] \in Settled) /\ ~leaving /\ UNCHANGED vars

Receive(q) == ReceiveFinal(q) \/ Enqueue(q) \/ StartRefresh(q) \/ GiveUp(q)

Step(q) == Serve(q) \/ Receive(q) \/ RefreshOk(q) \/ RefreshFails(q)

Next ==
  \/ \E q \in Requests : Send(q) \/ Step(q)
  \/ Reload \/ Logout \/ Login \/ Expire \/ Revoke \/ Deactivate \/ Terminated

Spec == Init /\ [][Next]_vars

\* A request that is out is answered: the client's timeout sees to it for all but
\* the refresh itself, whose connection the browser ends at last.
FairSpec == Spec /\ \A q \in Requests : WF_vars(Step(q))

-----------------------------------------------------------------------------
\* Properties.

\* The stores, the client's state and the server keep their ranges.
TypeOK ==
  /\ access_token \in 0 .. issued /\ refresh_token \in 0 .. logins + 1
  /\ bearer \in 0 .. logins + 1 /\ crossed \in BOOLEAN
  /\ isRefreshing \in BOOLEAN /\ leaving \in BOOLEAN
  /\ pc \in [Requests -> PC]
  /\ sent_token \in [Requests -> 0 .. issued]
  /\ status \in [Requests -> {0, 200, 401, 403, 500}]
  /\ retry \in [Requests -> BOOLEAN]
  /\ rt \in [Requests -> 0 .. logins + 1]
  /\ issued \in Nat \ {0} /\ valid_from \in 1 .. issued + 1
  /\ revoked \subseteq 1 .. logins + 1 /\ active \in BOOLEAN
  /\ expiries \in 0 .. MaxExpiries /\ logins \in 0 .. MaxLogins
  /\ logouts \in Nat /\ faults \in 0 .. MaxFaults

\* There is never more than one refresh, isRefreshing says whether there is one,
\* and nobody waits in the queue for a refresh that is not running.
WaitersHaveRefresher ==
  /\ isRefreshing <=> \E q \in Requests : pc[q] = "refreshing"
  /\ \A p, q \in Requests : pc[p] = "refreshing" /\ pc[q] = "refreshing" => p = q
  /\ Waiting # {} => isRefreshing

\* A user whose refresh tokens are good, who has not logged out and whose refreshes
\* get through is never sent to the login page, however many tokens expire.
SessionSurvives ==
  leaving => revoked # {} \/ logouts > 0 \/ faults > 0

\* One expiry of the access token is invisible: no request of a live session of
\* an active account is rejected for it.
OneExpiryIsHidden ==
  expiries <= 1 /\ revoked = {} /\ active /\ logouts = 0 /\ faults = 0 =>
    \A q \in Requests : ~(pc[q] = "rejected" /\ status[q] = 401)

\* The two tokens in the store belong to one session, and a refresh under way is a
\* refresh of that session: its answer adds no token of another one and its failure
\* clears none.  The one exception is a logout or login in the middle of a refresh.
TokensOfOneSession ==
  \/ crossed
  \/ /\ access_token # 0 => bearer = refresh_token
     /\ \A q \in Requests : pc[q] = "refreshing" => rt[q] = refresh_token

\* Every request the page has sent is settled, even when the server keeps
\* answering 401 to every new token.
EveryRequestSettles == \A q \in Requests : pc[q] = "sent" ~> pc[q] \in Settled
=============================================================================
