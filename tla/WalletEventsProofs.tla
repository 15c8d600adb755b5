------------------------- MODULE WalletEventsProofs -------------------------
(***************************************************************************)
(* The safety properties of the live balances, for any finite set of       *)
(* operations, any pool of connections and any number of faults.           *)
(***************************************************************************)
EXTENDS WalletEvents, FiniteSetTheorems, TLAPS

-----------------------------------------------------------------------------
\* Types.

Started == {o \in Ops : op[o] # "idle"}

\* The types, without the bound on the balance: that each operation commits once
\* is a fact of its own.
Shapes ==
  /\ balance \in Nat \ {0}
  /\ op \in [Ops -> {"idle", "refresh", "publish", "answer", "done"}]
  /\ told \in [Ops -> 0 .. balance]
  /\ conn \in [Connections -> {"free", "greeting", "loop", "leaked"}]
  /\ inbox \in [Connections -> Seq(1 .. balance)]
  /\ \A o \in Ops : op[o] \in {"publish", "answer"} => told[o] # 0
  /\ \A c \in Connections : conn[c] = "free" => inbox[c] = << >>
  /\ es \in Connections \cup {"off", "connecting", "waiting"}
  /\ es \in Connections => conn[es] \in {"greeting", "loop"}
  /\ token \in {"valid", "expired", "none"}
  /\ mounted \in BOOLEAN
  /\ shown \in 0 .. balance
  /\ list \in {"none", "sent", "answered"} /\ listed \in 0 .. balance
  /\ newest \in 0 .. balance /\ overtaken \in BOOLEAN /\ missed \in BOOLEAN
  /\ faults \in 0 .. MaxFaults

\* Who is at work on an operation, on a stream, on the page, and who breaks things.
Operation(o) == Commit(o) \/ Refresh(o) \/ Publish(o) \/ Answered(o)
Streams(c)   == Accept(c) \/ Greet(c) \/ Send(c) \/ Leave(c)
Page         == \/ Refuse \/ Mount \/ Unmount \/ ListRead \/ ListShown \/ ListFails
                \/ Timer \/ TokenChanges
Faulty       == Break \/ Restart \/ \E c \in Connections : LoseRedis(c)

LEMMA Split ==
  ASSUME [Next]_vars
  PROVE  \/ \E o \in Ops : Operation(o)
         \/ \E c \in Connections : Streams(c)
         \/ Page \/ Faulty \/ UNCHANGED vars
BY DEF Next, Operate, Stream, Operation, Streams, Page, Faulty

LEMMA SeqGrows ==
  ASSUME NEW n \in Nat, NEW s \in Seq(1 .. n)
  PROVE  /\ \A m \in Nat : n <= m => s \in Seq(1 .. m)
         /\ s # << >> => Head(s) \in 1 .. n /\ Tail(s) \in Seq(1 .. n)
         /\ \A v \in 1 .. n : Append(s, v) \in Seq(1 .. n)
OBVIOUS

LEMMA ShapesInit == Init => Shapes
<1> SUFFICES ASSUME Init PROVE Shapes
  OBVIOUS
<1>1. inbox \in [Connections -> Seq(1 .. balance)]
  <2>1. << >> \in Seq(1 .. balance)
    OBVIOUS
  <2>. QED
    BY <2>1 DEF Init
<1>2. /\ op \in [Ops -> {"idle", "refresh", "publish", "answer", "done"}]
      /\ told \in [Ops -> 0 .. balance]
      /\ \A o \in Ops : op[o] \notin {"publish", "answer"}
  BY DEF Init
<1>3. /\ conn \in [Connections -> {"free", "greeting", "loop", "leaked"}]
      /\ \A c \in Connections : conn[c] = "free" => inbox[c] = << >>
      /\ es = "off" /\ es \notin Connections
  BY PoolAssumption DEF Init
<1>4. faults \in 0 .. MaxFaults
  BY FaultsAssumption DEF Init
<1>5. /\ balance = 1 /\ token = "none" /\ mounted = FALSE /\ list = "none" /\ listed = 0
      /\ shown = 0 /\ newest = 0 /\ overtaken = FALSE /\ missed = FALSE
  BY DEF Init
<1>6. balance \in Nat \ {0} /\ shown \in 0 .. balance /\ listed \in 0 .. balance
      /\ newest \in 0 .. balance
  BY <1>5
<1>. QED
  BY <1>1, <1>2, <1>3, <1>4, <1>5, <1>6 DEF Shapes

LEMMA ShapesOperation ==
  ASSUME Shapes, NEW o \in Ops, Operation(o)
  PROVE  Shapes'
<1> USE DEF Shapes, page, history, Done, Learn, Update
<1>1. CASE Commit(o)
  <2>1. balance' \in Nat \ {0} /\ balance' = balance + 1
    BY <1>1 DEF Commit
  <2>2. inbox' \in [Connections -> Seq(1 .. balance')]
    <3>1. \A c \in Connections : inbox[c] \in Seq(1 .. balance + 1)
      BY SeqGrows
    <3>. QED
      BY <1>1, <2>1, <3>1 DEF Commit
  <2>3. 0 .. balance \subseteq 0 .. balance' /\ balance' \in 0 .. balance'
    BY <2>1
  <2>. QED
    BY <1>1, <2>1, <2>2, <2>3 DEF Commit
<1>2. CASE Refresh(o)
  BY <1>2 DEF Refresh
<1>3. CASE Publish(o)
  <2>1. told[o] \in 1 .. balance
    BY <1>3 DEF Publish
  <2>2. inbox' \in [Connections -> Seq(1 .. balance)]
    <3>1. \A c \in Connections : Append(inbox[c], told[o]) \in Seq(1 .. balance)
      BY <2>1, SeqGrows
    <3>2. PICK heard \in BOOLEAN :
            inbox' = [c \in Connections |->
              IF heard /\ c = es THEN Append(inbox[c], told[o]) ELSE inbox[c]]
      BY <1>3 DEF Publish
    <3>. QED
      BY <3>1, <3>2
  <2>3. \A c \in Connections : conn[c] = "free" => inbox'[c] = << >>
    BY <1>3 DEF Publish, Streaming
  <2>4. missed' \in BOOLEAN
    BY <1>3 DEF Publish
  <2>5. /\ op' \in [Ops -> {"idle", "refresh", "publish", "answer", "done"}]
        /\ told' \in [Ops -> 0 .. balance]
        /\ \A q \in Ops : op'[q] \in {"publish", "answer"} => told'[q] # 0
    <3>1. CASE o \in OwnCredits
      BY <1>3, <2>1, <3>1 DEF Publish
    <3>2. CASE o \notin OwnCredits
      <4>1. op' = [op EXCEPT ![o] = "done"] /\ told' = [told EXCEPT ![o] = 0]
        BY <1>3, <3>2 DEF Publish
      <4>. QED
        BY <4>1
    <3>. QED
      BY <3>1, <3>2
  <2>. QED
    BY <1>3, <2>2, <2>3, <2>4, <2>5 DEF Publish
<1>4. CASE Answered(o)
  <2>1. overtaken' \in BOOLEAN /\ newest' \in 0 .. balance /\ shown' \in 0 .. balance
    BY <1>4 DEF Answered
  <2>. QED
    BY <1>4, <2>1 DEF Answered
<1>. QED
  BY <1>1, <1>2, <1>3, <1>4 DEF Operation

LEMMA ShapesStreams ==
  ASSUME Shapes, NEW c \in Connections, Streams(c)
  PROVE  Shapes'
<1> USE PoolAssumption DEF Shapes, page, history
<1>1. CASE Accept(c) \/ Greet(c)
  BY <1>1 DEF Accept, Greet
<1>2. CASE Send(c)
  <2>1. Head(inbox[c]) \in 1 .. balance /\ Tail(inbox[c]) \in Seq(1 .. balance)
    BY <1>2, SeqGrows DEF Send
  <2>2. inbox' \in [Connections -> Seq(1 .. balance)]
    BY <1>2, <2>1 DEF Send
  <2>3. \A d \in Connections : conn[d] = "free" => inbox'[d] = << >>
    BY <1>2 DEF Send
  <2>4. overtaken' \in BOOLEAN /\ newest' \in 0 .. balance /\ shown' \in 0 .. balance
    BY <1>2, <2>1 DEF Send, Learn, Update
  <2>. QED
    BY <1>2, <2>2, <2>3, <2>4 DEF Send, Learn
<1>3. CASE Leave(c)
  <2>1. inbox' \in [Connections -> Seq(1 .. balance)]
    BY <1>3 DEF Leave
  <2>. QED
    BY <1>3, <2>1 DEF Leave
<1>. QED
  BY <1>1, <1>2, <1>3 DEF Streams

LEMMA ShapesRest ==
  ASSUME Shapes, Page \/ Faulty
  PROVE  Shapes'
<1> USE PoolAssumption DEF Shapes, page, history
<1>1. CASE Refuse \/ Mount \/ Timer \/ TokenChanges
  BY <1>1 DEF Refuse, Mount, Timer, TokenChanges
<1>2. CASE Unmount \/ Break
  <2>1. missed' \in BOOLEAN
    BY <1>2 DEF Unmount, Break, Abandon
  <2>2. Break => faults' \in 0 .. MaxFaults
    BY FaultsAssumption DEF Break
  <2>. QED
    BY <1>2, <2>1, <2>2 DEF Unmount, Break, Abandon
<1>3. CASE ListRead \/ ListFails
  <2>1. /\ UNCHANGED <<balance, op, told, conn, inbox, es, token, mounted, shown, newest,
                        overtaken, faults>>
        /\ list' \in {"none", "answered"} /\ listed' \in {0, balance} /\ missed' \in BOOLEAN
    BY <1>3 DEF ListRead, ListFails
  <2>. QED
    BY <2>1
<1>4. CASE ListShown
  <2>1. overtaken' \in BOOLEAN /\ newest' \in 0 .. balance
    BY <1>4 DEF ListShown, Learn
  <2>. QED
    BY <1>4, <2>1 DEF ListShown, Learn
<1>5. CASE Restart
  <2>1. inbox' \in [Connections -> Seq(1 .. balance)] /\ told' \in [Ops -> 0 .. balance]
    BY <1>5 DEF Restart
  <2>2. faults' \in 0 .. MaxFaults
    BY <1>5, FaultsAssumption DEF Restart
  <2>3. es' \in {"off", "connecting", "waiting"}
    BY <1>5 DEF Restart, Streaming
  <2>. QED
    BY <1>5, <2>1, <2>2, <2>3 DEF Restart
<1>6. ASSUME NEW c \in Connections, LoseRedis(c) PROVE Shapes'
  <2>1. inbox' \in [Connections -> Seq(1 .. balance)]
    BY <1>6 DEF LoseRedis
  <2>2. faults' \in 0 .. MaxFaults
    BY <1>6, FaultsAssumption DEF LoseRedis
  <2>3. /\ conn' \in [Connections -> {"free", "greeting", "loop", "leaked"}]
        /\ \A d \in Connections : conn'[d] = "free" => inbox'[d] = << >>
        /\ \A d \in Connections \ {c} : conn'[d] = conn[d]
    BY <1>6 DEF LoseRedis
  <2>4. CASE es = c
    <3>1. missed' \in BOOLEAN
      BY <1>6, <2>4 DEF LoseRedis, Abandon
    <3>. QED
      BY <1>6, <2>1, <2>2, <2>3, <2>4, <3>1 DEF LoseRedis, Abandon
  <2>5. CASE es # c
    BY <1>6, <2>1, <2>2, <2>3, <2>5 DEF LoseRedis
  <2>. QED
    BY <2>4, <2>5
<1>. QED
  BY <1>1, <1>2, <1>3, <1>4, <1>5, <1>6 DEF Page, Faulty

LEMMA ShapesNext == Shapes /\ [Next]_vars => Shapes'
<1>1. ASSUME Shapes, UNCHANGED vars PROVE Shapes'
  BY <1>1 DEF Shapes, vars, page, history
<1>. QED
  BY <1>1, Split, ShapesOperation, ShapesStreams, ShapesRest

\* The balance is the number of operations that have committed, plus one.
Counted == balance = Cardinality(Started) + 1

LEMMA CountedStep ==
  ASSUME IsFiniteSet(Ops), Shapes, Counted, [Next]_vars
  PROVE  Counted'
<1>0. IsFiniteSet(Started) /\ Started \subseteq Ops
  BY FS_Subset DEF Started
<1>1. ASSUME NEW o \in Ops, Commit(o) PROVE Counted'
  <2>1. Started' = Started \cup {o} /\ o \notin Started
    BY <1>1 DEF Started, Commit, Shapes
  <2>2. Cardinality(Started') = Cardinality(Started) + 1
    BY <1>0, <2>1, FS_AddElement
  <2>. QED
    BY <1>1, <2>2 DEF Counted, Commit, Shapes
<1>2. ASSUME NEW o \in Ops, Refresh(o) \/ Publish(o) \/ Answered(o) PROVE Counted'
  <2>1. Started' = Started /\ balance' = balance
    BY <1>2 DEF Started, Refresh, Publish, Answered, Done, Shapes
  <2>. QED
    BY <2>1 DEF Counted
<1>3. ASSUME \/ \E c \in Connections : Streams(c)
             \/ \E c \in Connections : LoseRedis(c)
             \/ Page \/ Break \/ UNCHANGED vars
      PROVE  Counted'
  <2>1. op' = op /\ balance' = balance
    BY <1>3 DEF Streams, Accept, Greet, Send, Leave, Page, Refuse, Mount, Unmount, ListRead,
                ListShown, ListFails, Timer, TokenChanges, Break, LoseRedis, vars
  <2>. QED
    BY <2>1 DEF Counted, Started
<1>4. CASE Restart
  <2>1. Started' = Started /\ balance' = balance
    BY <1>4 DEF Started, Restart, Shapes
  <2>. QED
    BY <2>1 DEF Counted
<1>. QED
  BY <1>1, <1>2, <1>3, <1>4, Split DEF Operation, Faulty

\* Every variable keeps its type: no stream is sent to a page that has left, and no
\* operation commits twice.
THEOREM TypeCorrect == IsFiniteSet(Ops) => (Spec => []TypeOK)
<1> SUFFICES ASSUME IsFiniteSet(Ops) PROVE Spec => []TypeOK
  OBVIOUS
<1>1. Init => Counted
  <2>1. Init => Started = {}
    BY DEF Init, Started
  <2>2. Cardinality({}) = 0
    BY FS_EmptySet
  <2>3. Init => Cardinality(Started) = 0
    BY <2>1, <2>2, Zenon
  <2>. QED
    BY <2>3 DEF Init, Counted
<1>2. Shapes /\ Counted => TypeOK
  <2> SUFFICES ASSUME Shapes, Counted PROVE TypeOK
    OBVIOUS
  <2>1. Cardinality(Started) \in Nat /\ Cardinality(Ops) \in Nat
        /\ Cardinality(Started) <= Cardinality(Ops)
    BY FS_Subset, FS_CardinalityType DEF Started
  <2>2. balance \in Balances /\ 1 .. balance \subseteq Balances
    BY <2>1 DEF Counted, Balances
  <2>3. inbox \in [Connections -> Seq(Balances)]
    <3>1. balance \in Nat /\ balance <= Cardinality(Ops) + 1 /\ Cardinality(Ops) + 1 \in Nat
      BY <2>1 DEF Counted
    <3>2. \A c \in Connections : inbox[c] \in Seq(1 .. balance)
      BY DEF Shapes
    <3>3. \A c \in Connections : inbox[c] \in Seq(Balances)
      BY <3>1, <3>2, SeqGrows DEF Balances
    <3>. QED
      BY <3>3 DEF Shapes
  <2>. QED
    BY <2>2, <2>3 DEF Shapes, TypeOK
<1>3. Shapes /\ Counted /\ [Next]_vars => Counted'
  BY CountedStep
<1>. QED
  BY <1>1, <1>2, <1>3, ShapesInit, ShapesNext, PTL DEF Spec

-----------------------------------------------------------------------------
\* What the page shows.

\* The committed balance is on its way to the page.
InStream == es \in Connections /\ \E i \in 1 .. Len(inbox[es]) : inbox[es][i] = balance

OnItsWay ==
  \/ \E o \in Ops : op[o] = "refresh" \/ (op[o] = "publish" /\ told[o] = balance)
  \/ InStream
  \/ list = "sent" \/ (list = "answered" /\ listed = balance)

\* The page has been told the committed balance, or will be, or has not been
\* opened yet; and it shows what it was told last.
Informed ==
  /\ ~ missed => newest = balance \/ OnItsWay \/ (shown = 0 /\ list = "none")
  /\ shown # 0 /\ ~ overtaken => shown = newest

LEMMA Learned ==
  ASSUME Shapes, NEW v \in 0 .. balance, Learn(v)
  PROVE  /\ newest' \in 0 .. balance
         /\ newest = balance \/ v = balance => newest' = balance
         /\ ~ overtaken' => newest' = v /\ ~ overtaken
<1>1. newest' = (IF v > newest THEN v ELSE newest) /\ newest \in 0 .. balance /\ balance \in Nat
  BY DEF Learn, Shapes
<1>2. ~ overtaken' => ~ (v < newest) /\ ~ overtaken
  <2> DEFINE B == v < newest
  <2>1. overtaken' = (overtaken \/ B)
    BY DEF Learn
  <2> HIDE DEF B
  <2>2. ~ overtaken' => ~ B /\ ~ overtaken
    BY <2>1, Zenon
  <2>. QED
    BY <2>2 DEF B
<1>. QED
  BY <1>1, <1>2

LEMMA InformedOperation ==
  ASSUME Shapes, Informed, NEW o \in Ops, Operation(o)
  PROVE  Informed'
<1>1. CASE Commit(o)
  <2>1. op'[o] = "refresh" \/ (op'[o] = "publish" /\ told'[o] = balance')
    BY <1>1 DEF Commit, Shapes
  <2>. QED
    BY <1>1, <2>1 DEF Commit, Informed, OnItsWay, page, history
<1>2. CASE Refresh(o)
  <2>1. op'[o] = "publish" /\ told'[o] = balance'
    BY <1>2 DEF Refresh, Shapes
  <2>. QED
    BY <1>2, <2>1 DEF Refresh, Informed, OnItsWay, page, history
<1>3. CASE Publish(o)
  <2> USE DEF Publish, Done, Shapes
  <2>1. UNCHANGED <<balance, es, page, newest, overtaken>> /\ (missed => missed')
    BY <1>3
  <2>2. InStream => InStream'
    <3> SUFFICES ASSUME es \in Connections, NEW i \in 1 .. Len(inbox[es]), inbox[es][i] = balance
                 PROVE  InStream'
      BY DEF InStream
    <3>1. inbox'[es] \in {inbox[es], Append(inbox[es], told[o])}
      BY <1>3
    <3>2. i \in 1 .. Len(inbox'[es]) /\ inbox'[es][i] = balance
      BY <3>1
    <3>. QED
      BY <2>1, <3>2 DEF InStream
  <2>3. told[o] = balance /\ ~ missed' => InStream'
    <3> SUFFICES ASSUME told[o] = balance, ~ missed' PROVE InStream'
      OBVIOUS
    <3>1. es \in Connections /\ inbox'[es] = Append(inbox[es], balance)
      BY <1>3 DEF Streaming
    <3>2. Len(inbox'[es]) = Len(inbox[es]) + 1 /\ inbox'[es][Len(inbox[es]) + 1] = balance
      BY <3>1
    <3>. QED
      BY <2>1, <3>1, <3>2 DEF InStream
  <2>4. \A q \in Ops \ {o} : op'[q] = op[q] /\ told'[q] = told[q]
    BY <1>3
  <2>5. op[o] # "refresh"
    BY <1>3
  <2>6. ~ missed' /\ OnItsWay => OnItsWay'
    BY <2>1, <2>2, <2>3, <2>4, <2>5 DEF OnItsWay, page
  <2>. QED
    BY <2>1, <2>6 DEF Informed, page
<1>4. CASE Answered(o)
  <2> USE DEF Answered, Done, Learn, Update, Shapes
  <2>1. \A q \in Ops \ {o} : op'[q] = op[q] /\ told'[q] = told[q]
    BY <1>4
  <2>2. OnItsWay => OnItsWay'
    BY <1>4, <2>1 DEF OnItsWay, InStream
  <2>3. newest = balance => newest' = balance'
    BY <1>4
  <2>4. told[o] \in 1 .. balance
    BY <1>4
  <2>5. shown' # 0 /\ ~ overtaken' => shown' = newest'
    <3>1. shown' = 0 \/ shown' = told[o]
      BY <1>4
    <3>. QED
      BY <1>4, <2>4, <3>1, Learned DEF Answered
  <2>6. shown = 0 /\ list = "none" => shown' = 0 /\ list' = "none"
    BY <1>4
  <2>7. missed' = missed
    BY <1>4
  <2>. QED
    BY <2>2, <2>3, <2>5, <2>6, <2>7 DEF Informed
<1>. QED
  BY <1>1, <1>2, <1>3, <1>4 DEF Operation

LEMMA InformedStreams ==
  ASSUME Shapes, Informed, NEW c \in Connections, Streams(c)
  PROVE  Informed'
<1>1. CASE Accept(c) \/ Greet(c)
  BY <1>1, PoolAssumption DEF Accept, Greet, Informed, OnItsWay, InStream, page, history, Shapes
<1>2. CASE Send(c)
  <2> USE DEF Send, Learn, Update, Shapes
  <2> DEFINE s == inbox[c]
  <2>1. s \in Seq(1 .. balance) /\ s # << >> /\ inbox'[c] = Tail(s) /\ es = c /\ es' = c
        /\ balance' = balance
    BY <1>2
  <2>2. InStream => Head(s) = balance \/ InStream'
    <3> SUFFICES ASSUME NEW i \in 1 .. Len(s), s[i] = balance
                 PROVE  Head(s) = balance \/ InStream'
      BY <2>1 DEF InStream
    <3>1. CASE i = 1
      BY <2>1, <3>1
    <3>2. CASE i # 1
      <4>1. i - 1 \in 1 .. Len(Tail(s)) /\ Tail(s)[i - 1] = balance
        BY <2>1, <3>2
      <4>. QED
        BY <2>1, <4>1 DEF InStream
    <3>. QED
      BY <3>1, <3>2
  <2>3. newest = balance \/ Head(s) = balance => newest' = balance'
    BY <1>2, <2>1
  <2>4. OnItsWay => newest' = balance' \/ OnItsWay'
    BY <1>2, <2>1, <2>2, <2>3 DEF OnItsWay
  <2>5. Head(s) \in 1 .. balance
    BY <2>1
  <2>6. shown' # 0 /\ ~ overtaken' => shown' = newest'
    <3>1. (shown' = 0 \/ shown' = Head(s)) /\ Learn(Head(s))
      BY <1>2
    <3> HIDE DEF s, Learn
    <3>2. Head(s) \in 0 .. balance
      BY <2>5
    <3>3. ~ overtaken' => newest' = Head(s)
      BY <3>1, <3>2, Learned
    <3>. QED
      BY <3>1, <3>3
  <2>7. missed' = missed /\ (shown = 0 /\ list = "none" => shown' = 0 /\ list' = "none")
    BY <1>2
  <2>. QED
    BY <2>3, <2>4, <2>6, <2>7 DEF Informed
<1>3. CASE Leave(c)
  <2>1. InStream => InStream'
    BY <1>3 DEF Leave, InStream, Shapes
  <2>. QED
    BY <1>3, <2>1 DEF Leave, Informed, OnItsWay, page, history
<1>. QED
  BY <1>1, <1>2, <1>3 DEF Streams

LEMMA InformedRest ==
  ASSUME Shapes, Informed, Page \/ Faulty
  PROVE  Informed'
<1> USE DEF Informed, OnItsWay, page, history
<1>1. CASE Refuse \/ Timer \/ TokenChanges
  BY <1>1, PoolAssumption DEF Refuse, Timer, TokenChanges, InStream
<1>2. CASE Mount
  BY <1>2 DEF Mount
<1>3. CASE Unmount \/ Break
  <2>1. ~ missed' => ~ InStream
    <3>1. ~ missed' => (es \in Connections => inbox[es] = << >>)
      BY <1>3 DEF Unmount, Break, Abandon, Streaming
    <3>. QED
      BY <3>1 DEF InStream
  <2>2. UNCHANGED <<balance, op, told, list, listed, shown, newest, overtaken>> /\ (missed => missed')
    BY <1>3 DEF Unmount, Break, Abandon
  <2> HIDE DEF page, history
  <2>. QED
    BY <2>1, <2>2
<1>4. CASE ListRead
  BY <1>4 DEF ListRead
<1>5. CASE ListShown
  <2>1. newest' = IF listed > newest THEN listed ELSE newest
    BY <1>5 DEF ListShown, Learn
  <2>2. listed = balance \/ newest = balance => newest' = balance
    BY <2>1 DEF Shapes
  <2>3. UNCHANGED <<balance, op, told, inbox, es, missed>> /\ list = "answered" /\ shown' = listed
        /\ overtaken' = (overtaken \/ listed < newest)
    BY <1>5 DEF ListShown, Learn
  <2>4. ~ missed => newest = balance \/ OnItsWay
    BY <2>3
  <2>5. ~ missed' => newest' = balance' \/ OnItsWay'
    BY <2>2, <2>3, <2>4 DEF InStream
  <2>6. ~ overtaken' => shown' = newest'
    <3>1. listed \in 0 .. balance /\ Learn(listed)
      BY <1>5 DEF Shapes, ListShown
    <3>. QED
      BY <2>3, <3>1, Learned
  <2>. QED
    BY <2>5, <2>6
<1>6. CASE ListFails
  BY <1>6 DEF ListFails
<1>7. CASE Restart
  BY <1>7 DEF Restart
<1>8. ASSUME NEW c \in Connections, LoseRedis(c) PROVE Informed'
  <2>1. UNCHANGED <<balance, op, told, page, newest, overtaken>> /\ (missed => missed')
    BY <1>8 DEF LoseRedis, Abandon
  <2>2. ~ missed' /\ InStream => InStream'
    <3>1. CASE es = c
      <4>1. ~ missed' => inbox[c] = << >>
        BY <1>8, <3>1 DEF LoseRedis, Abandon, Streaming
      <4>. QED
        BY <3>1, <4>1 DEF InStream
    <3>2. CASE es # c
      BY <1>8, <3>2 DEF LoseRedis, InStream, Shapes
    <3>. QED
      BY <3>1, <3>2
  <2>. QED
    BY <2>1, <2>2
<1>. QED
  BY <1>1, <1>2, <1>3, <1>4, <1>5, <1>6, <1>7, <1>8 DEF Page, Faulty

LEMMA InformedNext == Shapes /\ Informed /\ [Next]_vars => Informed'
<1>1. ASSUME Informed, UNCHANGED vars PROVE Informed'
  BY <1>1 DEF Informed, OnItsWay, InStream, vars, page, history
<1>. QED
  BY <1>1, Split, InformedOperation, InformedStreams, InformedRest

\* Once everything has arrived, the page shows the committed balance, unless it has
\* missed an event since it last read the list, or was told an older balance after
\* a newer one.
THEOREM PageIsRight == Spec => []WrongOnlyForACause
<1>1. Init => Informed
  BY DEF Init, Informed
<1>2. Shapes /\ Informed => WrongOnlyForACause
  BY DEF Shapes, Informed, OnItsWay, InStream, WrongOnlyForACause, Quiet
<1>. QED
  BY <1>1, <1>2, ShapesInit, ShapesNext, InformedNext, PTL DEF Spec
=============================================================================
