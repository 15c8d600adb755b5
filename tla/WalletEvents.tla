---------------------------- MODULE WalletEvents ----------------------------
(***************************************************************************)
(* Live balances: the events that money operations publish through Redis,  *)
(* the server's event streams, and the dashboard that shows one wallet.    *)
(*                                                                         *)
(* A stream holds a connection of the Redis pool for as long as it lives,  *)
(* and every publish needs one too.  The dashboard reads the list of       *)
(* wallets once, when it is mounted; after that it only learns balances    *)
(* from events and from the answer to its own credits.                     *)
(*                                                                         *)
(* Only this page's streams are in conn.  Other pages and the commands of  *)
(* other requests use the same pool, and the rate limiter stands before    *)
(* the stream: to this page, a refusal or a lost publish needs no reason.  *)
(*                                                                         *)
(* A balance is the number of the wallet's commits so far, plus one.       *)
(***************************************************************************)
EXTENDS Integers, Sequences, FiniteSets

CONSTANTS Ops,          \* operations on the wallet, from this page or elsewhere
          Transfers,    \* those that publish the balance they computed
          OwnCredits,   \* those whose answer this page puts into its store
          Connections,  \* the connections of the Redis pool (max_connections)
          MaxFaults     \* bound: broken streams, losses of Redis, restarts

ASSUME OpsAssumption == Transfers \subseteq Ops /\ OwnCredits \subseteq Ops \ Transfers
ASSUME PoolAssumption == Connections \cap {"off", "connecting", "waiting"} = {}
ASSUME FaultsAssumption == MaxFaults \in Nat

Balances == 1 .. Cardinality(Ops) + 1

VARIABLES
  balance,     \* the committed balance
  op, told,    \* where each operation is, and the balance it will tell
  conn,        \* each connection: "free", "greeting", "loop" or "leaked"
  inbox,       \* what the stream on each connection has yet to send
  es,          \* the page's EventSource: its connection, "connecting", "waiting"
               \* for the timer, or "off"
  token,       \* the access token in the browser's storage
  mounted,     \* the dashboard is on the screen
  shown,       \* the balance in the page's store, 0 if it has no wallet
  list,        \* the list request: "none", "sent" or "answered"
  listed,      \* and the balance in its answer
  newest, overtaken, missed,   \* history, see below
  faults

page == <<mounted, shown, list, listed>>
history == <<newest, overtaken, missed>>
vars == <<balance, op, told, conn, inbox, es, token, page, history, faults>>

Init ==
  /\ balance = 1
  /\ op = [o \in Ops |-> "idle"] /\ told = [o \in Ops |-> 0]
  /\ conn = [c \in Connections |-> "free"]
  /\ inbox = [c \in Connections |-> << >>]
  /\ es = "off" /\ token = "none" /\ mounted = FALSE
  /\ shown = 0 /\ list = "none" /\ listed = 0
  /\ newest = 0 /\ overtaken = FALSE /\ missed = FALSE
  /\ faults = 0

Free == {c \in Connections : conn[c] = "free"}
Streaming == es \in Connections   \* the page holds a stream that has subscribed

\* The page learns v.  History: the newest balance it was ever told, and whether
\* it was told an older one after a newer one.
Learn(v) ==
  /\ newest' = IF v > newest THEN v ELSE newest
  /\ overtaken' = (overtaken \/ v < newest)
  /\ UNCHANGED missed

\* The page lets its stream go, and with it what the stream has not sent.
Abandon ==
  /\ missed' = (missed \/ (Streaming /\ inbox[es] # << >>))
  /\ UNCHANGED <<newest, overtaken>>

\* A reducer that updates the wallet if the page has it.
Update(v) == shown' = IF shown = 0 THEN 0 ELSE v

-----------------------------------------------------------------------------
\* Money operations, from the commit on (WalletService has what comes before).

Commit(o) ==
  /\ op[o] = "idle"
  /\ balance' = balance + 1
  /\ told' = [told EXCEPT ![o] = balance + 1]
  /\ op' = [op EXCEPT ![o] = IF o \in Transfers THEN "publish" ELSE "refresh"]
  /\ UNCHANGED <<conn, inbox, es, token, page, history, faults>>

Done(o) ==
  /\ op' = [op EXCEPT ![o] = "done"]
  /\ told' = [told EXCEPT ![o] = 0]

\* Defective variant of Refresh: the balance of before the commit.
RefreshBefore(o) ==
  /\ op[o] = "refresh"
  /\ told' = [told EXCEPT ![o] = @ - 1]
  /\ op' = [op EXCEPT ![o] = "publish"]
  /\ UNCHANGED <<balance, conn, inbox, es, token, page, history, faults>>

\* A credit or debit reads the row back, which others may have changed since.
Refresh(o) ==
  /\ op[o] = "refresh"
  /\ told' = [told EXCEPT ![o] = balance]
  /\ op' = [op EXCEPT ![o] = "publish"]
  /\ UNCHANGED <<balance, conn, inbox, es, token, page, history, faults>>

\* publish_wallet_event and publish_transfer_event: Redis hands the event to the
\* streams that have subscribed.  A publish that fails, for want of a connection
\* or of Redis, is logged and forgotten.
Publish(o) ==
  /\ op[o] = "publish"
  /\ \E heard \in BOOLEAN :
       /\ heard => Free # {} /\ Streaming
       /\ inbox' = [c \in Connections |->
            IF heard /\ c = es THEN Append(inbox[c], told[o]) ELSE inbox[c]]
       /\ missed' = (missed \/ ~ heard)
  /\ IF o \in OwnCredits
     THEN op' = [op EXCEPT ![o] = "answer"] /\ UNCHANGED told
     ELSE Done(o)
  /\ UNCHANGED <<balance, conn, es, token, page, newest, overtaken, faults>>

\* creditWallet.fulfilled: the wallet in the answer replaces the page's.
Answered(o) ==
  /\ op[o] = "answer"
  /\ Update(told[o]) /\ Learn(told[o])
  /\ Done(o)
  /\ UNCHANGED <<balance, conn, inbox, es, token, mounted, list, listed, faults>>

-----------------------------------------------------------------------------
\* The server's streams.

\* sse_stream: the token is checked once, then the generator subscribes on a
\* connection of its own.
Accept(c) ==
  /\ es = "connecting" /\ token = "valid" /\ conn[c] = "free"
  /\ conn' = [conn EXCEPT ![c] = "greeting"]
  /\ es' = c
  /\ UNCHANGED <<balance, op, told, inbox, token, page, history, faults>>

\* The limiter answers 429, the token is refused, or the pool has no connection
\* left: the EventSource has an error, closes, and will try again in four seconds.
Refuse ==
  /\ es = "connecting"
  /\ es' = "waiting"
  /\ UNCHANGED <<balance, op, told, conn, inbox, token, page, history, faults>>

\* The greeting has been sent and the generator enters its try statement.
Greet(c) ==
  /\ conn[c] = "greeting"
  /\ conn' = [conn EXCEPT ![c] = "loop"]
  /\ UNCHANGED <<balance, op, told, inbox, es, token, page, history, faults>>

\* One message is taken from Redis and sent; the page updates the wallet with it.
Send(c) ==
  /\ conn[c] = "loop" /\ es = c /\ inbox[c] # << >>
  /\ inbox' = [inbox EXCEPT ![c] = Tail(@)]
  /\ Update(Head(inbox[c])) /\ Learn(Head(inbox[c]))
  /\ UNCHANGED <<balance, op, told, conn, es, token, mounted, list, listed, faults>>

\* Defective variant of Leave: there is no finally clause.
LeaveOpen(c) ==
  /\ es # c /\ conn[c] \in {"greeting", "loop"}
  /\ conn' = [conn EXCEPT ![c] = "leaked"]
  /\ inbox' = [inbox EXCEPT ![c] = << >>]
  /\ UNCHANGED <<balance, op, told, es, token, page, history, faults>>

\* Defective variant of Leave: the inbox is kept for the next stream.
LeaveInbox(c) ==
  /\ es # c /\ conn[c] \in {"greeting", "loop"}
  /\ conn' = [conn EXCEPT ![c] = IF conn[c] = "loop" THEN "free" ELSE "leaked"]
  /\ UNCHANGED <<balance, op, told, inbox, es, token, page, history, faults>>

\* The generator learns that its browser has gone.  Inside the try statement it
\* unsubscribes and gives the connection back (see LoseRedis for when it cannot).
\* The greeting is yielded before that statement: a generator closed there keeps
\* its connection.
Leave(c) ==
  /\ es # c /\ conn[c] \in {"greeting", "loop"}
  /\ conn' = [conn EXCEPT ![c] = IF conn[c] = "loop" THEN "free" ELSE "leaked"]
  /\ inbox' = [inbox EXCEPT ![c] = << >>]
  /\ UNCHANGED <<balance, op, told, es, token, page, history, faults>>

-----------------------------------------------------------------------------
\* The dashboard.

\* Both effects run: the list is requested and the stream opened.  (Bound: a list
\* request of an earlier visit has ended.)
Mount ==
  /\ ~ mounted /\ list = "none"
  /\ mounted' = TRUE /\ token' = "valid"
  /\ list' = "sent" /\ es' = "connecting"
  /\ UNCHANGED <<balance, op, told, conn, inbox, shown, listed, history, faults>>

\* The page is left or the user logs out: the timer is cleared, the EventSource
\* closed.  The store keeps its wallets.
Unmount ==
  /\ mounted
  /\ mounted' = FALSE /\ es' = "off" /\ token' = "none"
  /\ Abandon
  /\ UNCHANGED <<balance, op, told, conn, inbox, shown, list, listed, faults>>

\* list_wallets reads the committed row: whatever was missed before is made good.
ListRead ==
  /\ list = "sent"
  /\ list' = "answered" /\ listed' = balance
  /\ missed' = FALSE
  /\ UNCHANGED <<balance, op, told, conn, inbox, es, token, mounted, shown, newest, overtaken, faults>>

\* fetchWallets.fulfilled: the list replaces what the page has.
ListShown ==
  /\ list = "answered"
  /\ shown' = listed /\ Learn(listed)
  /\ list' = "none" /\ listed' = 0
  /\ UNCHANGED <<balance, op, told, conn, inbox, es, token, mounted, faults>>

\* fetchWallets.rejected: nothing is fetched again.
ListFails ==
  /\ list # "none"
  /\ list' = "none" /\ listed' = 0
  /\ missed' = TRUE
  /\ UNCHANGED <<balance, op, told, conn, inbox, es, token, mounted, shown, newest, overtaken, faults>>

\* Defective variant of Timer: one retry is all.
TimerGivesUp ==
  /\ es = "waiting"
  /\ es' = "off"
  /\ UNCHANGED <<balance, op, told, conn, inbox, token, page, history, faults>>

\* The timer fires and connect runs again, with the token that is stored now.
Timer ==
  /\ es = "waiting"
  /\ es' = IF token = "none" THEN "off" ELSE "connecting"
  /\ UNCHANGED <<balance, op, told, conn, inbox, token, page, history, faults>>

\* The access token runs out; a request of the API client renews it.
TokenChanges ==
  /\ token # "none"
  /\ token' = IF token = "valid" THEN "expired" ELSE "valid"
  /\ UNCHANGED <<balance, op, told, conn, inbox, es, page, history, faults>>

-----------------------------------------------------------------------------
\* Faults.

\* The network breaks the stream: onerror.
Break ==
  /\ Streaming /\ faults < MaxFaults
  /\ faults' = faults + 1
  /\ es' = "waiting" /\ Abandon
  /\ UNCHANGED <<balance, op, told, conn, inbox, token, page>>

\* Redis is out of reach: the loop of a stream ends, with its browser there or not,
\* and if it cannot be unsubscribed either, the connection is not given back.
LoseRedis(c) ==
  /\ conn[c] = "loop" /\ faults < MaxFaults
  /\ faults' = faults + 1
  /\ \E left \in {"free", "leaked"} : conn' = [conn EXCEPT ![c] = left]
  /\ inbox' = [inbox EXCEPT ![c] = << >>]
  /\ IF es = c THEN es' = "waiting" /\ Abandon ELSE UNCHANGED <<es, history>>
  /\ UNCHANGED <<balance, op, told, token, page>>

\* The server restarts: its streams and the operations that have not published
\* are gone, and with them every connection, the leaked ones too.
Restart ==
  /\ faults < MaxFaults
  /\ faults' = faults + 1
  /\ conn' = [c \in Connections |-> "free"]
  /\ inbox' = [c \in Connections |-> << >>]
  /\ es' = IF Streaming \/ es = "connecting" THEN "waiting" ELSE es
  /\ op' = [o \in Ops |-> IF op[o] = "idle" THEN "idle" ELSE "done"]
  /\ told' = [o \in Ops |-> 0]
  /\ missed' = TRUE
  /\ UNCHANGED <<balance, token, page, newest, overtaken>>

Operate(o) == Refresh(o) \/ Publish(o) \/ Answered(o)
Stream(c) == Greet(c) \/ Send(c) \/ Leave(c)

Next ==
  \/ \E o \in Ops : Commit(o) \/ Operate(o)
  \/ \E c \in Connections : Accept(c) \/ Stream(c) \/ LoseRedis(c)
  \/ Refuse \/ Mount \/ Unmount \/ ListRead \/ ListShown \/ ListFails
  \/ Timer \/ TokenChanges \/ Break \/ Restart

\* Handlers, generators and the browser's timer run; nobody has to come, leave,
\* lose a connection or renew a token.
Fairness ==
  /\ \A o \in Ops : WF_vars(Operate(o))
  /\ \A c \in Connections : WF_vars(Stream(c))
  /\ WF_vars(Refuse \/ \E c \in Connections : Accept(c))
  /\ WF_vars(Timer) /\ WF_vars(ListRead) /\ WF_vars(ListShown)

Spec == Init /\ [][Next]_vars /\ Fairness

-----------------------------------------------------------------------------
\* Properties.

\* Every variable keeps its type, and a stream has events only while it is open.
TypeOK ==
  /\ balance \in Balances
  /\ op \in [Ops -> {"idle", "refresh", "publish", "answer", "done"}]
  /\ told \in [Ops -> 0 .. balance]
  /\ conn \in [Connections -> {"free", "greeting", "loop", "leaked"}]
  /\ inbox \in [Connections -> Seq(Balances)]
  /\ \A c \in Connections : conn[c] = "free" => inbox[c] = << >>
  /\ es \in Connections \cup {"off", "connecting", "waiting"}
  /\ token \in {"valid", "expired", "none"}
  /\ mounted \in BOOLEAN
  /\ shown \in 0 .. balance
  /\ list \in {"none", "sent", "answered"} /\ listed \in 0 .. balance
  /\ newest \in 0 .. balance /\ overtaken \in BOOLEAN /\ missed \in BOOLEAN
  /\ faults \in 0 .. MaxFaults

\* Nothing is on its way to the page.
Quiet ==
  /\ \A o \in Ops : op[o] \in {"idle", "done"}
  /\ \A c \in Connections : inbox[c] = << >>
  /\ list = "none"

\* The page shows a wrong balance for two reasons only: an event that no stream of
\* it heard, since it last read the list, or an older balance that came after a
\* newer one.  Otherwise, once everything has arrived, it shows the committed one.
WrongOnlyForACause ==
  Quiet /\ shown # 0 /\ ~ missed /\ ~ overtaken => shown = balance

\* A loop whose browser has gone ends, and with it the use of its connection: only
\* a fault makes a loop keep it.
ClosedStreamsEnd ==
  /\ \A c \in Connections : conn[c] = "loop" /\ es # c ~> conn[c] # "loop"
  /\ [][\A c \in Connections :
          conn[c] = "loop" /\ conn'[c] = "leaked" => faults' > faults]_vars

\* A page that stays, with a token that stays valid, never gives up, whatever was
\* broken or leaked before: in the end it has a stream for good, or else it is
\* refused again and again and asks again after each refusal.
PageReconnects ==
  <>[](mounted /\ token = "valid")
    => \/ <>[](Streaming /\ conn[es] = "loop")
       \/ []<>(es = "waiting") /\ []<>(es = "connecting")
=============================================================================
