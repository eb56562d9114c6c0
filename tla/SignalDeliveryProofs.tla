------------------------ MODULE SignalDeliveryProofs ------------------------
(***************************************************************************)
(* The pact between trade_watch, the ledger and follow, for any number of  *)
(* trades, pages, relations, attempts and faults: a signal is queued once  *)
(* and only for what is in the ledger; what is in the ledger is signalled  *)
(* and the cursor passes nothing by, unless a named fault has lost it or   *)
(* its id is out of order within its second.                               *)
(***************************************************************************)
EXTENDS SignalDelivery, FiniteSetTheorems, SequenceTheorems, TLAPS

\* What the workers hold follows from where they are.
WatchOK ==
  /\ watch.hand # None <=> watch.pc \in {"booting", "marking", "storing"}
  /\ watch.todo # {} => watch.pc \in {"paging", "writing", "marking"}
  /\ watch.out # {} => watch.pc \in {"writing", "marking", "posting", "storing"}
  /\ watch.pc = "storing" => watch.hand \in watch.out
  /\ watch.pc = "paging" => watch.page < MaxPages
  /\ watch.pc = "booting" => cursor = None
  /\ watch.pc \in {"paging", "writing", "marking"} =>
       cursor # None /\ watch.from # None /\ (cursor = watch.from \/ Newer(cursor, watch.from))
ReplayOK ==
  /\ \A t \in Trades : outbox[t] # None /\ outbox[t].state = "pending" =>
       outbox[t].attempts < MaxAttempts
  /\ replay.pc # "idle" => /\ replay.hand # None /\ outbox[replay.hand] # None
                           /\ outbox[replay.hand].state = "pending"

\* Everything handled has happened, and only what is in the ledger goes out.
TradesOK ==
  /\ ledger \subseteq Happened /\ watch.todo \subseteq Happened
  /\ watch.out \subseteq ledger /\ lost \subseteq ledger
  /\ watch.hand # None => watch.hand \in ledger
  /\ cursor # None => cursor \in Happened /\ baseline # None

\* Seconds grow with the trades, and ids do not repeat.
FeedOK == \A i, j \in 1 .. Len(feed) :
  feed[i].ts <= now /\ (i < j => feed[i].ts <= feed[j].ts /\ feed[i].id # feed[j].id)

\* A poll deals with x, or it has named what became of it.
Cared(x) == InHand(x) \/ x \in lost \/ (x \in missed /\ x \notin ledger)
Fetched  == watch.todo \cup ({watch.hand} \ {None})
Ahead(x, S) == \A g \in S : Newer(x, g)

\* While paging, the trades on the pages so far, or shifted to them by newer
\* ones since, are fetched, or are newer than all that is fetched.
PagesOK == watch.pc = "paging" => \A i \in 1 .. Len(feed) :
  Len(feed) - i < watch.page * PageSize /\ Newer(feed[i], watch.from) =>
    feed[i] \in watch.todo \/ Ahead(feed[i], watch.todo) \/ OutOfOrder(feed[i])

\* While writing, that holds of all new trades.
FetchOK == watch.pc \in {"writing", "marking"} => \A x \in Happened :
  Newer(x, watch.from) => Cared(x) \/ Ahead(x, Fetched) \/ OutOfOrder(x)

OnceInv  == TypeOK /\ WatchOK /\ ReplayOK /\ TradesOK /\ SignalledOnce
OrderInv == FeedOK /\ PagesOK /\ FetchOK /\ NothingSkipped /\ CoveredIsSignalled

-----------------------------------------------------------------------------
\* Lemmas

LEMMA NewerTrans ==
  ASSUME NEW x \in Trades, NEW y \in Trades, NEW z \in Trades, Newer(x, y), Newer(y, z)
  PROVE  Newer(x, z)
<1>1. \A t \in Trades : t.ts \in Nat /\ t.id \in Nat
  BY SignalsAssumption
<1>2. {x.ts, y.ts, z.ts, x.id, y.id, z.id} \subseteq Nat
  BY <1>1
<1> QED
  BY <1>2 DEF Newer

\* The locals of trade_watch, field by field.
LEMMA WatchIs ==
  ASSUME TypeOK
  PROVE  /\ watch.pc \in {"idle", "booting", "paging", "writing", "marking", "posting", "storing"}
         /\ watch.from \in Trades \cup {None} /\ watch.page \in 0 .. MaxPages
         /\ watch.todo \subseteq Trades /\ watch.hand \in Trades \cup {None}
         /\ watch.out \subseteq Trades
BY DEF TypeOK, WatchTasks

LEMMA FeedIs ==
  ASSUME TypeOK
  PROVE  /\ Len(feed) \in Nat /\ DOMAIN feed = 1 .. Len(feed) /\ Happened \subseteq Trades
         /\ \A i \in 1 .. Len(feed) : feed[i] \in Happened
         /\ \A x \in Happened : \E i \in 1 .. Len(feed) : x = feed[i]
<1>1. feed \in Seq(Trades)
  BY DEF TypeOK
<1>2. Len(feed) \in Nat /\ DOMAIN feed = 1 .. Len(feed) /\ \A i \in 1 .. Len(feed) : feed[i] \in Trades
  BY <1>1, LenProperties, ElementOfSeq
<1> QED
  BY <1>2 DEF Happened

\* The two ways of giving up trades.
LEMMA GiveUpStep ==
  ASSUME TypeOK, NEW S \in SUBSET Trades, GiveUp(S)
  PROVE  /\ missed' \subseteq Trades /\ lost' \subseteq Trades
         /\ missed \subseteq missed' /\ lost \subseteq lost' /\ lost' \subseteq lost \cup ledger
         /\ \A x \in S : x \in lost' \/ (x \in missed' /\ x \notin ledger)
BY DEF TypeOK, GiveUp

\* Queueing a signal adds at most one order per relation, of this trade only.
LEMMA QueueStep ==
  ASSUME TypeOK, NEW t \in Trades, Accepted(t) \/ Refused(t)
  PROVE  /\ orders' \in [Trades -> [Relations -> Nat]]
         /\ \A u \in Trades : u # t => orders'[u] = orders[u]
         /\ \A u \in Trades, r \in Relations :
              /\ orders[u][r] > 0 => orders'[u][r] > 0
              /\ orders[u][r] <= 1 => orders'[u][r] <= 1
         /\ Accepted(t) => \A r \in Relations : orders'[t][r] > 0
<1>1. PICK R \in SUBSET Relations : Queue(t, R) /\ (Accepted(t) => R = Relations \/ Queue(t, Relations))
  BY DEF Accepted, Refused
<1>2. orders \in [Trades -> [Relations -> Nat]]
  BY DEF TypeOK
<1>3. ASSUME NEW S \in SUBSET Relations, Queue(t, S)
      PROVE  /\ orders' \in [Trades -> [Relations -> Nat]]
             /\ \A u \in Trades : u # t => orders'[u] = orders[u]
             /\ \A r \in Relations : orders'[t][r] = IF r \in S THEN 1 ELSE orders[t][r]
  BY <1>2, <1>3 DEF Queue
<1>4. /\ orders' \in [Trades -> [Relations -> Nat]]
      /\ \A u \in Trades : u # t => orders'[u] = orders[u]
      /\ \A r \in Relations : orders'[t][r] = IF r \in R THEN 1 ELSE orders[t][r]
  BY <1>1, <1>3
<1>5. ASSUME NEW u \in Trades, NEW r \in Relations
      PROVE  /\ orders[u][r] > 0 => orders'[u][r] > 0
             /\ orders[u][r] <= 1 => orders'[u][r] <= 1
  <2>1. CASE u = t
    BY <1>2, <1>4, <2>1
  <2>2. CASE u # t
    BY <1>4, <2>2
  <2> QED
    BY <2>1, <2>2
<1>6. ASSUME Accepted(t), NEW r \in Relations PROVE orders'[t][r] > 0
  <2>1. orders'[t][r] = IF r \in Relations THEN 1 ELSE orders[t][r]
    BY <1>1, <1>3, <1>4, <1>6
  <2> QED
    BY <2>1
<1> QED
  BY <1>4, <1>5, <1>6

\* The signal t has been dealt with.
LEMMA EmitStep ==
  ASSUME TypeOK, NEW t \in watch.out, Emitted(t)
  PROVE  /\ watch' \in WatchTasks
         /\ watch'.pc = IF watch.out = {t} THEN "idle" ELSE "posting"
         /\ watch'.todo = {} /\ watch'.hand = None /\ watch'.out = watch.out \ {t}
<1>1. watch.out \ {t} \subseteq Trades /\ 0 \in 0 .. MaxPages
  BY WatchIs, SignalsAssumption
<1>2. CASE watch.out = {t}
  BY <1>1, <1>2 DEF Emitted, WatchIdle, WatchTasks
<1>3. CASE watch.out # {t}
  <2> DEFINE o == watch.out \ {t}
  <2>1. watch' = [WatchIdle EXCEPT !.pc = "posting", !.out = o]
    BY <1>3 DEF Emitted
  <2> HIDE DEF o
  <2>2. /\ watch'.pc = "posting" /\ watch'.todo = {} /\ watch'.hand = None /\ watch'.out = o
        /\ (o \subseteq Trades => watch' \in WatchTasks)
    BY <1>1, <2>1 DEF WatchIdle, WatchTasks
  <2> QED
    BY <1>1, <1>3, <2>2 DEF o
<1> QED
  BY <1>2, <1>3

-----------------------------------------------------------------------------
\* Once: only what is in the ledger goes out, and a relation queues it once

\* Paging: what is fetched has happened.
LEMMA OncePaging ==
  ASSUME OnceInv, WatchBoot \/ WatchBootMark \/ WatchBootErr \/ WatchBegin \/ WatchPage \/ WatchPageErr
  PROVE  OnceInv'
<1> USE DEF OnceInv
<1>0. UNCHANGED <<feed, now, outbox, replay, orders>>
  BY DEF WatchBoot, WatchBootMark, WatchBootErr, WatchBegin, WatchPage, WatchPageErr
<1>1. CASE WatchBoot
  <2>1. /\ UNCHANGED <<cursor, baseline, missed, lost, faults>> /\ cursor = None
        /\ ledger' = ledger \cup {feed[Len(feed)]} /\ feed # <<>> /\ watch.pc = "idle"
        /\ watch' = [watch EXCEPT !.pc = "booting", !.hand = feed[Len(feed)]]
    BY <1>1 DEF WatchBoot
  <2>2. feed[Len(feed)] \in Happened /\ feed[Len(feed)] \in Trades
    <3>1. Len(feed) \in 1 .. Len(feed)
      BY <2>1, EmptySeq, FeedIs DEF TypeOK
    <3> QED
      BY <3>1, FeedIs
  <2>3. /\ watch' \in WatchTasks /\ watch'.pc = "booting" /\ watch'.hand = feed[Len(feed)]
        /\ watch'.todo = watch.todo /\ watch'.out = watch.out
    BY <2>1, <2>2 DEF TypeOK, WatchTasks
  <2> HIDE <2>1
  <2>4. TypeOK'
    BY <1>0, <2>1, <2>2, <2>3 DEF TypeOK
  <2>5. WatchOK' /\ ReplayOK'
    BY <1>0, <2>1, <2>2, <2>3, NoneAssumption DEF WatchOK, ReplayOK
  <2>6. TradesOK' /\ SignalledOnce'
    BY <1>0, <2>1, <2>2, <2>3 DEF TradesOK, Happened, SignalledOnce
  <2> QED
    BY <2>4, <2>5, <2>6
<1>2. CASE WatchBootMark
  <2>1. /\ UNCHANGED <<ledger, missed, lost, faults>> /\ watch.pc = "booting"
        /\ cursor' = watch.hand /\ baseline' = watch.hand /\ watch' = WatchIdle
    BY <1>2 DEF WatchBootMark
  <2>2. watch.hand \in Trades /\ watch.hand \in Happened /\ watch.hand # None
    BY <2>1, FeedIs DEF WatchOK, TradesOK
  <2>3. /\ watch' \in WatchTasks /\ watch'.pc = "idle" /\ watch'.hand = None
        /\ watch'.todo = {} /\ watch'.out = {}
    BY <2>1, SignalsAssumption DEF WatchIdle, WatchTasks
  <2>4. TypeOK'
    BY <1>0, <2>1, <2>2, <2>3 DEF TypeOK
  <2>5. WatchOK' /\ ReplayOK'
    BY <1>0, <2>1, <2>2, <2>3 DEF WatchOK, ReplayOK
  <2>6. TradesOK' /\ SignalledOnce'
    BY <1>0, <2>1, <2>2, <2>3 DEF TradesOK, Happened, SignalledOnce
  <2> QED
    BY <2>4, <2>5, <2>6
<1>3. CASE WatchBootErr
  <2>1. /\ UNCHANGED <<ledger, cursor, baseline, missed, lost>> /\ watch' = WatchIdle
        /\ faults' \in 0 .. MaxFaults
    BY <1>3, SignalsAssumption DEF WatchBootErr, Fault, TypeOK
  <2>3. /\ watch' \in WatchTasks /\ watch'.pc = "idle" /\ watch'.hand = None
        /\ watch'.todo = {} /\ watch'.out = {}
    BY <2>1, SignalsAssumption DEF WatchIdle, WatchTasks
  <2>4. TypeOK'
    BY <1>0, <2>1, <2>3 DEF TypeOK
  <2>5. WatchOK' /\ ReplayOK'
    BY <1>0, <2>1, <2>3 DEF WatchOK, ReplayOK
  <2>6. TradesOK' /\ SignalledOnce'
    BY <1>0, <2>1, <2>3 DEF TradesOK, Happened, SignalledOnce
  <2> QED
    BY <2>4, <2>5, <2>6
<1>4. CASE WatchBegin
  <2>1. /\ UNCHANGED <<ledger, cursor, baseline, missed, lost, faults>> /\ cursor # None
        /\ watch.pc = "idle" /\ watch' = [watch EXCEPT !.pc = "paging", !.from = cursor, !.page = 0]
    BY <1>4 DEF WatchBegin
  <2>0. cursor \in Trades /\ 0 \in 0 .. MaxPages
    BY <2>1, SignalsAssumption DEF TypeOK
  <2>2. /\ watch' \in WatchTasks /\ watch'.pc = "paging" /\ watch'.from = cursor /\ watch'.page = 0
        /\ watch'.hand = watch.hand /\ watch'.todo = watch.todo /\ watch'.out = watch.out
    BY <2>0, <2>1 DEF TypeOK, WatchTasks
  <2>4. TypeOK'
    BY <1>0, <2>1, <2>2 DEF TypeOK
  <2>5. WatchOK' /\ ReplayOK'
    BY <1>0, <2>1, <2>2, SignalsAssumption DEF WatchOK, ReplayOK
  <2>6. TradesOK' /\ SignalledOnce'
    BY <1>0, <2>1, <2>2 DEF TradesOK, Happened, SignalledOnce
  <2> QED
    BY <2>4, <2>5, <2>6
<1>5. CASE WatchPage \/ WatchPageErr
  <2>1. /\ UNCHANGED <<ledger, cursor, baseline>> /\ faults' \in 0 .. MaxFaults
        /\ watch.pc = "paging" /\ \E S : GiveUp(S) /\ S \subseteq Happened
    BY <1>5, SignalsAssumption DEF WatchPage, WatchPageErr, Fault, TypeOK, LeftBehind
  <2>2. /\ missed' \subseteq Trades /\ lost' \subseteq lost \cup ledger
    BY <2>1, FeedIs DEF GiveUp, TypeOK
  <2>3. /\ watch' \in WatchTasks /\ watch'.pc \in {"paging", "writing"} /\ watch'.from = watch.from
        /\ watch'.hand = watch.hand /\ watch'.out = watch.out /\ watch'.todo \subseteq Happened
        /\ watch'.pc = "paging" => watch'.page < MaxPages
    <3>1. CASE WatchPageErr
      <4>1. watch' = [watch EXCEPT !.pc = "writing"]
        BY <3>1 DEF WatchPageErr
      <4> QED
        BY <4>1 DEF TypeOK, WatchTasks, TradesOK
    <3>2. CASE WatchPage
      <4> DEFINE new == {t \in Page(watch.page) : Newer(t, watch.from)}
                 got == watch.todo \cup new
      <4>1. \/ watch' = [watch EXCEPT !.pc = "writing", !.todo = got]
            \/ /\ watch' = [watch EXCEPT !.page = watch.page + 1, !.todo = got]
               /\ watch.page + 1 # MaxPages
        BY <3>2 DEF WatchPage
      <4>2. got \subseteq Happened /\ got \subseteq Trades
        BY FeedIs DEF Page, TradesOK
      <4>3. watch.page \in Nat /\ watch.page < MaxPages /\ MaxPages \in Nat
        BY <2>1, WatchIs, SignalsAssumption DEF WatchOK
      <4> HIDE DEF got
      <4>4. CASE watch' = [watch EXCEPT !.pc = "writing", !.todo = got]
        BY <4>2, <4>4 DEF TypeOK, WatchTasks
      <4>5. CASE /\ watch' = [watch EXCEPT !.page = watch.page + 1, !.todo = got]
                 /\ watch.page + 1 # MaxPages
        <5> DEFINE p == watch.page + 1
        <5>1. p \in 0 .. MaxPages /\ p < MaxPages
          BY <4>3, <4>5
        <5>2. watch' = [watch EXCEPT !.page = p, !.todo = got]
          BY <4>5
        <5> HIDE DEF p
        <5> QED
          BY <2>1, <4>2, <5>1, <5>2 DEF TypeOK, WatchTasks
      <4> QED
        BY <4>1, <4>4, <4>5
    <3> QED
      BY <1>5, <3>1, <3>2
  <2>4. TypeOK'
    BY <1>0, <2>1, <2>2, <2>3 DEF TypeOK
  <2>5. WatchOK' /\ ReplayOK'
    BY <1>0, <2>1, <2>3 DEF WatchOK, ReplayOK
  <2>6. TradesOK' /\ SignalledOnce'
    BY <1>0, <2>1, <2>2, <2>3 DEF TradesOK, Happened, SignalledOnce
  <2> QED
    BY <2>4, <2>5, <2>6
<1> QED
  BY <1>1, <1>2, <1>3, <1>4, <1>5

\* Writing: the ledger first, then the cursor, then out.
LEMMA OnceWriting ==
  ASSUME OnceInv, WatchWrite \/ WatchWriteErr \/ WatchMark \/ WatchMarkErr \/ WatchWritten
  PROVE  OnceInv'
<1> USE DEF OnceInv
<1>0. UNCHANGED <<feed, now, outbox, replay, orders, baseline>> /\ faults' \in 0 .. MaxFaults
  <2>1. UNCHANGED <<feed, now, outbox, replay, orders, baseline>> /\ (UNCHANGED faults \/ Fault)
    BY DEF WatchWrite, WatchWriteErr, WatchMark, WatchMarkErr, WatchWritten
  <2> QED
    BY <2>1, SignalsAssumption DEF Fault, TypeOK
<1>1. CASE WatchWrite \/ WatchWriteErr
  <2>1. /\ UNCHANGED cursor /\ watch.pc = "writing" /\ watch.hand = None
    BY <1>1 DEF WatchWrite, WatchWriteErr, WatchOK
  <2>2. PICK t \in watch.todo :
          \/ /\ ledger' = ledger \cup {t} /\ UNCHANGED <<missed, lost>>
             /\ watch' = [watch EXCEPT !.pc = "marking", !.hand = t, !.todo = @ \ {t}]
          \/ /\ watch' = [watch EXCEPT !.todo = @ \ {t}]
             /\ \/ GiveUp({t}) /\ UNCHANGED ledger
                \/ ledger' = ledger \cup {t} /\ lost' = lost \cup {t} /\ UNCHANGED missed
    BY <1>1 DEF WatchWrite, WatchWriteErr, Oldest
  <2>3. t \in Happened /\ t \in Trades /\ t # None
    BY WatchIs, NoneAssumption DEF TradesOK
  <2>4. /\ watch' \in WatchTasks /\ watch'.todo \subseteq watch.todo /\ watch'.out = watch.out
        /\ watch'.from = watch.from
        /\ \/ watch'.pc = "writing" /\ watch'.hand = None
           \/ watch'.pc = "marking" /\ watch'.hand = t /\ t \in ledger'
    BY ZenonT(60), <2>1, <2>2, <2>3 DEF TypeOK, WatchTasks
  <2>5. /\ ledger \subseteq ledger' /\ ledger' \subseteq ledger \cup {t} /\ missed' \subseteq Trades
        /\ lost' \subseteq ledger' /\ ledger' \subseteq Trades
    <3>1. CASE ledger' = ledger
      BY <2>2, <2>3, <3>1 DEF GiveUp, TypeOK, TradesOK
    <3>2. CASE ledger' = ledger \cup {t}
      BY <2>2, <2>3, <3>2 DEF GiveUp, TypeOK, TradesOK
    <3> QED
      BY <2>2, <3>1, <3>2
  <2>6. TypeOK'
    BY <1>0, <2>1, <2>4, <2>5 DEF TypeOK
  <2>7. WatchOK' /\ ReplayOK'
    BY <1>0, <2>1, <2>3, <2>4 DEF WatchOK, ReplayOK
  <2>8. TradesOK' /\ SignalledOnce'
    BY <1>0, <2>1, <2>3, <2>4, <2>5 DEF TradesOK, Happened, SignalledOnce
  <2> QED
    BY <2>6, <2>7, <2>8
<1>2. CASE WatchMark \/ WatchMarkErr
  <2> DEFINE h == watch.hand
             o == watch.out \cup {h}
  <2>1. /\ UNCHANGED <<ledger, missed, lost>> /\ watch.pc = "marking"
        /\ watch' = [watch EXCEPT !.pc = "writing", !.out = o, !.hand = None]
        /\ cursor' \in {cursor, h} /\ (cursor' = cursor \/ Newer(cursor', cursor))
    BY <1>2, Zenon DEF WatchMark, WatchMarkErr, Advance
  <2>2. h \in ledger /\ h \in Trades /\ h # None
    BY <2>1 DEF WatchOK, TradesOK, TypeOK
  <2>3. o \subseteq Trades
    BY <2>2, WatchIs
  <2> HIDE DEF o, h
  <2>4. /\ watch' \in WatchTasks /\ watch'.pc = "writing" /\ watch'.todo = watch.todo
        /\ watch'.out = o /\ watch'.hand = None /\ watch'.from = watch.from
    BY <2>1, <2>3 DEF TypeOK, WatchTasks
  <2>5. TypeOK'
    BY <1>0, <2>1, <2>2, <2>4 DEF TypeOK
  <2>6. WatchOK'
    <3>1. cursor # None /\ watch.from # None /\ (cursor = watch.from \/ Newer(cursor, watch.from))
          /\ cursor \in Trades /\ watch.from \in Trades /\ cursor' \in Trades
      BY <2>1, <2>2, WatchIs DEF WatchOK, TypeOK
    <3>2. cursor' = watch.from \/ Newer(cursor', watch.from)
      BY <2>1, <3>1, NewerTrans
    <3> QED
      BY <2>4, <3>1, <3>2, NoneAssumption DEF WatchOK
  <2>7. ReplayOK' /\ SignalledOnce'
    BY <1>0, <2>1 DEF ReplayOK, SignalledOnce
  <2>8. TradesOK'
    <3>1. cursor # None /\ h \in Happened /\ o \subseteq ledger
      BY <2>1, <2>2 DEF TradesOK, WatchOK, o
    <3>2. cursor' \in Happened /\ baseline # None /\ Happened' = Happened
      BY <1>0, <2>1, <3>1 DEF TradesOK, Happened
    <3> QED
      BY <1>0, <2>1, <2>4, <3>1, <3>2 DEF TradesOK
  <2> QED
    BY <2>5, <2>6, <2>7, <2>8
<1>3. CASE WatchWritten
  <2>1. /\ UNCHANGED <<ledger, cursor, missed, lost>> /\ watch.pc = "writing" /\ watch.todo = {}
        /\ watch' = IF watch.out = {} THEN WatchIdle
                    ELSE [WatchIdle EXCEPT !.pc = "posting", !.out = watch.out]
    BY <1>3 DEF WatchWritten
  <2>2. /\ watch' \in WatchTasks /\ watch'.todo = {} /\ watch'.hand = None
        /\ watch'.out = watch.out /\ watch'.pc = (IF watch.out = {} THEN "idle" ELSE "posting")
    <3>1. watch.out \subseteq Trades /\ 0 \in 0 .. MaxPages
      BY WatchIs, SignalsAssumption
    <3>2. CASE watch.out = {}
      BY <2>1, <3>1, <3>2 DEF WatchIdle, WatchTasks
    <3>3. CASE watch.out # {}
      <4> DEFINE o == watch.out
      <4>1. watch' = [WatchIdle EXCEPT !.pc = "posting", !.out = o] /\ o \subseteq Trades
        BY <2>1, <3>1, <3>3
      <4> HIDE DEF o
      <4>2. /\ watch' \in WatchTasks /\ watch'.todo = {} /\ watch'.hand = None
            /\ watch'.out = o /\ watch'.pc = "posting"
        BY <3>1, <4>1 DEF WatchIdle, WatchTasks
      <4> QED
        BY <3>3, <4>2 DEF o
    <3> QED
      BY <3>2, <3>3
  <2>3. TypeOK'
    BY <1>0, <2>1, <2>2 DEF TypeOK
  <2>4. WatchOK' /\ ReplayOK'
    BY <1>0, <2>1, <2>2 DEF WatchOK, ReplayOK
  <2>5. TradesOK' /\ SignalledOnce'
    BY <1>0, <2>1, <2>2 DEF TradesOK, Happened, SignalledOnce
  <2> QED
    BY <2>3, <2>4, <2>5
<1> QED
  BY <1>1, <1>2, <1>3

\* Sending: follow, or else the outbox.
LEMMA OnceSending ==
  ASSUME OnceInv, Post \/ Store \/ StoreErr
  PROVE  OnceInv'
<1> USE DEF OnceInv
<1>0. /\ UNCHANGED <<feed, now, ledger, cursor, replay, baseline, missed>>
      /\ faults' \in 0 .. MaxFaults
  <2>1. UNCHANGED <<feed, now, ledger, cursor, replay, baseline, missed>> /\ (UNCHANGED faults \/ Fault)
    BY DEF Post, Store, StoreErr
  <2> QED
    BY <2>1, SignalsAssumption DEF Fault, TypeOK
<1>1. CASE Post
  <2>1. PICK t \in watch.out :
          /\ Accepted(t) \/ Refused(t)
          /\ Emitted(t) \/ watch' = [watch EXCEPT !.pc = "storing", !.hand = t]
    BY <1>1 DEF Post
  <2>2. UNCHANGED <<outbox, lost, faults>> /\ watch.pc = "posting"
    BY <1>1 DEF Post
  <2>3. t \in ledger /\ t \in Trades /\ t # None /\ watch.todo = {}
    BY <2>2, WatchIs, NoneAssumption DEF TradesOK, WatchOK
  <2>4. /\ watch' \in WatchTasks /\ watch'.todo = {} /\ watch'.out \subseteq watch.out
        /\ \/ watch'.hand = None /\ watch'.pc = "posting"
           \/ watch'.hand = None /\ watch'.pc = "idle" /\ watch'.out = {}
           \/ watch'.hand = t /\ watch'.pc = "storing" /\ t \in watch'.out
    <3>1. CASE Emitted(t)
      BY <3>1, EmitStep
    <3>2. CASE watch' = [watch EXCEPT !.pc = "storing", !.hand = t]
      BY <2>3, <3>2 DEF TypeOK, WatchTasks
    <3> QED
      BY <2>1, <3>1, <3>2
  <2>5. /\ orders' \in [Trades -> [Relations -> Nat]]
        /\ \A u \in Trades : u # t => orders'[u] = orders[u]
        /\ \A u \in Trades, r \in Relations : orders[u][r] <= 1 => orders'[u][r] <= 1
    BY <2>1, <2>3, QueueStep
  <2>6. TypeOK'
    BY <1>0, <2>2, <2>4, <2>5 DEF TypeOK
  <2>7. WatchOK' /\ ReplayOK'
    BY <1>0, <2>2, <2>3, <2>4 DEF WatchOK, ReplayOK
  <2>8. TradesOK'
    BY <1>0, <2>2, <2>3, <2>4 DEF TradesOK, Happened
  <2>9. SignalledOnce'
    BY <1>0, <2>2, <2>3, <2>5 DEF SignalledOnce
  <2> QED
    BY <2>6, <2>7, <2>8, <2>9
<1>2. CASE Store \/ StoreErr
  <2> DEFINE h == watch.hand
  <2>1. watch.pc = "storing" /\ Emitted(h) /\ UNCHANGED orders
    BY <1>2 DEF Store, StoreErr
  <2>2. h \in watch.out /\ h \in Trades /\ h \in ledger /\ h # None
    BY <2>1, WatchIs, NoneAssumption DEF WatchOK, TradesOK
  <2>3. /\ watch' \in WatchTasks /\ watch'.todo = {} /\ watch'.hand = None
        /\ watch'.out = watch.out \ {h} /\ watch'.pc = IF watch.out = {h} THEN "idle" ELSE "posting"
    BY <2>1, <2>2, EmitStep
  <2>4. lost' \in {lost, lost \cup {h}}
    BY <1>2 DEF Store, StoreErr
  <2>5. /\ outbox' \in [Trades -> Rows \cup {None}]
        /\ \A u \in Trades : \/ outbox'[u] = outbox[u]
                             \/ /\ u = h /\ outbox[u] = None
                                /\ outbox'[u] = [attempts |-> 0, state |-> "pending"]
    <3>1. CASE StoreErr
      BY <3>1 DEF StoreErr, TypeOK
    <3>2. CASE Store
      <4>1. outbox' = [outbox EXCEPT ![h] =
              IF outbox[h] = None THEN [attempts |-> 0, state |-> "pending"] ELSE outbox[h]]
        BY <3>2 DEF Store
      <4>2. [attempts |-> 0, state |-> "pending"] \in Rows
        BY SignalsAssumption DEF Rows
      <4>3. outbox \in [Trades -> Rows \cup {None}]
        BY DEF TypeOK
      <4> HIDE DEF h
      <4> QED
        BY <2>2, <4>1, <4>2, <4>3
    <3> QED
      BY <1>2, <3>1, <3>2
  <2> HIDE DEF h
  <2>6. TypeOK'
    BY <1>0, <2>1, <2>2, <2>3, <2>4, <2>5 DEF TypeOK
  <2>7. WatchOK'
    BY <1>0, <2>2, <2>3 DEF WatchOK
  <2>8. ReplayOK'
    <3>1. MaxAttempts \in Nat \ {0} /\ [attempts |-> 0, state |-> "pending"].attempts = 0
      BY SignalsAssumption
    <3>2. ASSUME NEW u \in Trades, outbox'[u] # None, outbox'[u].state = "pending"
          PROVE  outbox'[u].attempts < MaxAttempts
      BY <2>5, <3>1, <3>2 DEF ReplayOK
    <3>3. ASSUME replay.pc # "idle"
          PROVE  replay.hand # None /\ outbox'[replay.hand] # None /\ outbox'[replay.hand].state = "pending"
      <4>1. replay.hand # None /\ outbox[replay.hand] # None /\ outbox[replay.hand].state = "pending"
        BY <3>3 DEF ReplayOK
      <4>2. replay.hand \in Trades
        BY <4>1 DEF TypeOK, ReplayTasks
      <4> QED
        BY <2>5, <4>1, <4>2
    <3> QED
      BY <1>0, <3>2, <3>3 DEF ReplayOK
  <2>9. TradesOK'
    BY <1>0, <2>2, <2>3, <2>4 DEF TradesOK, Happened
  <2>10. SignalledOnce'
    BY <1>0, <2>1, <2>2, <2>5 DEF SignalledOnce
  <2> QED
    BY <2>6, <2>7, <2>8, <2>9, <2>10
<1> QED
  BY <1>1, <1>2

\* Replaying: what is in the outbox is in the ledger.
LEMMA OnceReplaying ==
  ASSUME OnceInv, Replay \/ ReplayErr
  PROVE  OnceInv'
<1> USE DEF OnceInv
<1>0. /\ UNCHANGED <<feed, now, ledger, cursor, watch, baseline, missed, lost>>
      /\ faults' \in 0 .. MaxFaults
  <2>1. /\ UNCHANGED <<feed, now, ledger, cursor, watch, baseline, missed, lost>>
        /\ (UNCHANGED faults \/ Fault)
    BY DEF Replay, ReplayPost, ReplayMark, ReplayBump, ReplayErr
  <2> QED
    BY <2>1, SignalsAssumption DEF Fault, TypeOK
<1>1. WatchOK' /\ TradesOK'
  BY <1>0 DEF WatchOK, TradesOK, Happened
<1>2. outbox \in [Trades -> Rows \cup {None}] /\ replay \in ReplayTasks
  BY DEF TypeOK
<1>3. CASE ReplayPost
  <2>1. PICK t \in Pending :
          /\ Accepted(t) \/ Refused(t)
          /\ \/ replay' = [pc |-> "marking", hand |-> t]
             \/ replay' = [pc |-> "bumping", hand |-> t]
    BY <1>3 DEF ReplayPost
  <2>2. UNCHANGED outbox /\ t \in Trades /\ t # None /\ outbox[t] # None /\ outbox[t].state = "pending"
    BY <1>3, NoneAssumption DEF ReplayPost, Pending
  <2>3. t \in ledger
    BY <2>2 DEF SignalledOnce
  <2>4. replay' \in ReplayTasks /\ replay'.hand = t
    BY <2>1, <2>2 DEF ReplayTasks
  <2>5. /\ orders' \in [Trades -> [Relations -> Nat]]
        /\ \A u \in Trades : u # t => orders'[u] = orders[u]
        /\ \A u \in Trades, r \in Relations : orders[u][r] <= 1 => orders'[u][r] <= 1
    BY <2>1, <2>2, QueueStep
  <2>6. TypeOK'
    BY <1>0, <2>2, <2>4, <2>5 DEF TypeOK
  <2>7. ReplayOK' /\ SignalledOnce'
    BY <1>0, <2>2, <2>3, <2>4, <2>5 DEF ReplayOK, SignalledOnce
  <2> QED
    BY <1>1, <2>6, <2>7
<1>4. CASE ReplayMark \/ ReplayBump
  <2> DEFINE h == replay.hand
             n == outbox[h].attempts + 1
  <2>1. /\ replay.pc # "idle" /\ replay' = ReplayIdle /\ UNCHANGED orders
        /\ \/ outbox' = [outbox EXCEPT ![h].state = "delivered"]
           \/ outbox' = [outbox EXCEPT ![h] =
                [attempts |-> n, state |-> IF n >= MaxAttempts THEN "dead" ELSE "pending"]]
    BY <1>4 DEF ReplayMark, ReplayBump
  <2>2. h \in Trades /\ outbox[h] \in Rows /\ outbox[h].state = "pending" /\ outbox[h] # None
    BY <1>2, <2>1 DEF ReplayOK, ReplayTasks
  <2>3. n \in 1 .. MaxAttempts
    <3>1. outbox[h].attempts \in Nat /\ outbox[h].attempts < MaxAttempts /\ MaxAttempts \in Nat
      BY <2>2, SignalsAssumption DEF ReplayOK, Rows
    <3> QED
      BY <3>1
  <2>4. replay' \in ReplayTasks /\ replay'.pc = "idle" /\ replay'.hand = None
    BY <2>1 DEF ReplayIdle, ReplayTasks
  <2> HIDE DEF h, n
  <2>5. /\ outbox' \in [Trades -> Rows \cup {None}] /\ \A u \in Trades \ {h} : outbox'[u] = outbox[u]
        /\ outbox'[h].state = "pending" => outbox'[h].attempts < MaxAttempts
    <3>1. CASE outbox' = [outbox EXCEPT ![h].state = "delivered"]
      <4> DEFINE row == [outbox[h] EXCEPT !.state = "delivered"]
      <4>1. outbox' = [outbox EXCEPT ![h] = row] /\ row \in Rows /\ row.state = "delivered"
        BY <2>2, <3>1 DEF Rows
      <4> HIDE DEF row
      <4> QED
        BY <1>2, <2>2, <4>1
    <3>2. CASE outbox' = [outbox EXCEPT ![h] =
                [attempts |-> n, state |-> IF n >= MaxAttempts THEN "dead" ELSE "pending"]]
      <4> DEFINE row == [attempts |-> n, state |-> IF n >= MaxAttempts THEN "dead" ELSE "pending"]
      <4>1. row \in Rows /\ row.state = "pending" => row.attempts < MaxAttempts
        BY <2>3, SignalsAssumption DEF Rows
      <4>2. row \in Rows
        BY <2>3 DEF Rows
      <4> HIDE DEF row
      <4>3. outbox' = [outbox EXCEPT ![h] = row]
        BY <3>2 DEF row
      <4> QED
        BY <1>2, <2>2, <4>1, <4>2, <4>3
    <3> QED
      BY <2>1, <3>1, <3>2
  <2>6. TypeOK'
    BY <1>0, <2>1, <2>4, <2>5 DEF TypeOK
  <2>7. ReplayOK' /\ SignalledOnce'
    BY <1>0, <2>1, <2>2, <2>4, <2>5 DEF ReplayOK, SignalledOnce
  <2> QED
    BY <1>1, <2>6, <2>7
<1>5. CASE ReplayErr
  <2>1. UNCHANGED <<outbox, orders>> /\ replay' = ReplayIdle
    BY <1>5 DEF ReplayErr
  <2>2. replay' \in ReplayTasks /\ replay'.pc = "idle"
    BY <2>1 DEF ReplayIdle, ReplayTasks
  <2>3. TypeOK'
    BY <1>0, <2>1, <2>2 DEF TypeOK
  <2>4. ReplayOK' /\ SignalledOnce'
    BY <1>0, <2>1, <2>2 DEF ReplayOK, SignalledOnce
  <2> QED
    BY <1>1, <2>3, <2>4
<1> QED
  BY <1>3, <1>4, <1>5 DEF Replay

\* A new trade is appended.
LEMMA TradeStep ==
  ASSUME TypeOK, Trade
  PROVE  /\ feed' \in Seq(Trades) /\ Len(feed') = Len(feed) + 1
         /\ \A i \in 1 .. Len(feed) : feed'[i] = feed[i]
         /\ feed'[Len(feed) + 1] \in Trades \ Happened /\ feed'[Len(feed) + 1].ts = now
         /\ Happened' = Happened \cup {feed'[Len(feed) + 1]}
<1>1. PICK t \in Trades \ Happened : t.ts = now /\ feed' = Append(feed, t)
  BY DEF Trade
<1>2. feed \in Seq(Trades)
  BY DEF TypeOK
<1>3. /\ feed' \in Seq(Trades) /\ Len(feed') = Len(feed) + 1 /\ Len(feed) \in Nat
      /\ \A j \in 1 .. Len(feed) : feed'[j] = feed[j]
      /\ feed'[Len(feed) + 1] = t
  BY <1>1, <1>2, AppendProperties, LenProperties
<1>4. DOMAIN feed = 1 .. Len(feed) /\ DOMAIN feed' = 1 .. Len(feed) + 1
  BY <1>2, <1>3, LenProperties
<1>5. Happened' = Happened \cup {t}
  BY <1>3, <1>4 DEF Happened
<1> QED
  BY <1>1, <1>3, <1>5

\* The trader, the clock and the operating system.
LEMMA OnceElse ==
  ASSUME OnceInv, Trade \/ Tick \/ Crash \/ UNCHANGED vars
  PROVE  OnceInv'
<1> USE DEF OnceInv
<1>1. CASE Trade
  <2>1. UNCHANGED <<now, ledger, cursor, watch, outbox, replay, orders, baseline, missed, lost, faults>>
    BY <1>1 DEF Trade
  <2>2. feed' \in Seq(Trades) /\ Happened \subseteq Happened'
    BY <1>1, TradeStep
  <2>3. TypeOK'
    BY <2>1, <2>2 DEF TypeOK
  <2>4. WatchOK' /\ ReplayOK' /\ TradesOK' /\ SignalledOnce'
    BY <2>1, <2>2 DEF WatchOK, ReplayOK, TradesOK, SignalledOnce
  <2> QED
    BY <2>3, <2>4
<1>2. CASE Tick \/ UNCHANGED vars
  <2>1. /\ UNCHANGED <<feed, ledger, cursor, watch, outbox, replay, orders, baseline, missed, lost, faults>>
        /\ now' \in Times
    BY <1>2 DEF Tick, vars, TypeOK
  <2>2. TypeOK'
    BY <2>1 DEF TypeOK
  <2>3. WatchOK' /\ ReplayOK' /\ TradesOK' /\ SignalledOnce'
    BY <2>1 DEF WatchOK, ReplayOK, TradesOK, SignalledOnce, Happened
  <2> QED
    BY <2>2, <2>3
<1>3. CASE Crash
  <2>1. /\ UNCHANGED <<feed, now, ledger, cursor, outbox, orders, baseline>>
        /\ watch' = WatchIdle /\ replay' = ReplayIdle /\ faults' \in 0 .. MaxFaults
    BY <1>3, SignalsAssumption DEF Crash, Fault, TypeOK
  <2> DEFINE held == watch.todo \cup watch.out \cup ({watch.hand} \ {None})
             S    == IF cursor = None THEN {} ELSE {t \in held : ~Newer(t, cursor)}
  <2>2. S \in SUBSET Trades
    BY WatchIs
  <2>3. GiveUp(S)
    BY <1>3 DEF Crash
  <2> HIDE DEF S
  <2>4. missed' \subseteq Trades /\ lost' \subseteq Trades /\ lost' \subseteq ledger
    BY <2>2, <2>3, GiveUpStep DEF TradesOK
  <2>5. /\ watch' \in WatchTasks /\ watch'.pc = "idle" /\ watch'.hand = None
        /\ watch'.todo = {} /\ watch'.out = {}
    BY <2>1, SignalsAssumption DEF WatchIdle, WatchTasks
  <2>6. replay' \in ReplayTasks /\ replay'.pc = "idle"
    BY <2>1 DEF ReplayIdle, ReplayTasks
  <2>7. TypeOK'
    BY <2>1, <2>4, <2>5, <2>6 DEF TypeOK
  <2>8. WatchOK' /\ ReplayOK' /\ TradesOK' /\ SignalledOnce'
    BY <2>1, <2>4, <2>5, <2>6 DEF WatchOK, ReplayOK, TradesOK, SignalledOnce, Happened
  <2> QED
    BY <2>7, <2>8
<1> QED
  BY <1>1, <1>2, <1>3

LEMMA OnceInit == Init => OnceInv
<1> SUFFICES ASSUME Init PROVE OnceInv
  OBVIOUS
<1>1. /\ feed = <<>> /\ now \in Times /\ ledger = {} /\ cursor = None /\ baseline = None
      /\ watch = WatchIdle /\ replay = ReplayIdle /\ missed = {} /\ lost = {} /\ faults = 0
      /\ outbox = [t \in Trades |-> None] /\ orders = [t \in Trades |-> [r \in Relations |-> 0]]
  BY DEF Init
<1>2. watch \in WatchTasks /\ replay \in ReplayTasks
  BY <1>1, SignalsAssumption DEF WatchIdle, WatchTasks, ReplayIdle, ReplayTasks
<1>3. TypeOK
  BY <1>1, <1>2, SignalsAssumption, EmptySeq DEF TypeOK
<1>4. WatchOK /\ ReplayOK
  BY <1>1 DEF WatchIdle, ReplayIdle, WatchOK, ReplayOK
<1>5. TradesOK /\ SignalledOnce
  BY <1>1 DEF WatchIdle, TradesOK, SignalledOnce
<1> QED
  BY <1>3, <1>4, <1>5 DEF OnceInv

LEMMA OnceStep == OnceInv /\ [Next]_vars => OnceInv'
BY OncePaging, OnceWriting, OnceSending, OnceReplaying, OnceElse DEF Next, Watch

LEMMA OnceAlways == Spec => []OnceInv
BY OnceInit, OnceStep, PTL DEF Spec

\* Every variable keeps its type.
THEOREM SignalTypes == Spec => []TypeOK
<1>1. OnceInv => TypeOK
  BY DEF OnceInv
<1> QED
  BY <1>1, OnceAlways, PTL

\* A relation gets one copy order for a trade, however often its signal is
\* posted, and no order or outbox row is for a trade missing from the ledger.
THEOREM OneOrderPerSignal == Spec => []SignalledOnce
<1>1. OnceInv => SignalledOnce
  BY DEF OnceInv
<1> QED
  BY <1>1, OnceAlways, PTL

-----------------------------------------------------------------------------
\* Nothing is skipped but what the composite cursor cannot tell

LEMMA FeedGrows ==
  ASSUME TypeOK, FeedOK
  PROVE  \A i, j \in 1 .. Len(feed) : j <= i => feed[j].ts <= feed[i].ts
<1>1. Len(feed) \in Nat /\ \A i \in 1 .. Len(feed) : feed[i].ts \in Nat
  BY FeedIs, SignalsAssumption
<1> SUFFICES ASSUME NEW i \in 1 .. Len(feed), NEW j \in 1 .. Len(feed), j <= i
             PROVE  feed[j].ts <= feed[i].ts
  OBVIOUS
<1>2. j = i \/ j < i
  BY <1>1
<1> QED
  BY <1>1, <1>2 DEF FeedOK

\* A trade that is in order is newer than all before it, and those after it
\* are newer.
LEMMA InOrder ==
  ASSUME TypeOK, FeedOK, NEW i \in 1 .. Len(feed), ~OutOfOrder(feed[i])
  PROVE  \A j \in 1 .. Len(feed) : /\ j < i => Newer(feed[i], feed[j])
                                   /\ i < j => Newer(feed[j], feed[i])
<1>1. Len(feed) \in Nat /\ DOMAIN feed = 1 .. Len(feed) /\ \A k \in 1 .. Len(feed) : feed[k] \in Trades
  BY FeedIs
<1>2. \A t \in Trades : t.ts \in Nat /\ t.id \in Nat
  BY SignalsAssumption
<1> SUFFICES ASSUME NEW j \in 1 .. Len(feed)
             PROVE  /\ j < i => Newer(feed[i], feed[j])
                    /\ i < j => Newer(feed[j], feed[i])
  OBVIOUS
<1>3. {feed[i].ts, feed[j].ts, feed[i].id, feed[j].id} \subseteq Nat
  BY <1>1, <1>2
<1>4. CASE j < i
  <2>1. feed[j].ts <= feed[i].ts /\ feed[j].id # feed[i].id
    BY <1>4 DEF FeedOK
  <2>2. feed[j].ts = feed[i].ts => ~(feed[j].id > feed[i].id)
    BY <1>1, <1>4 DEF OutOfOrder
  <2>3. Newer(feed[i], feed[j])
    BY <1>3, <2>1, <2>2 DEF Newer
  <2> QED
    BY <1>1, <1>4, <2>3
<1>5. CASE i < j
  <2>1. feed[i].ts <= feed[j].ts /\ feed[j].id # feed[i].id
    BY <1>5 DEF FeedOK
  <2>2. feed[j].ts = feed[i].ts => ~(feed[i].id > feed[j].id)
    BY <1>1, <1>5 DEF OutOfOrder
  <2>3. Newer(feed[j], feed[i])
    BY <1>3, <2>1, <2>2 DEF Newer
  <2> QED
    BY <1>1, <1>5, <2>3
<1> QED
  BY <1>4, <1>5

\* A page by the numbers: after `skip' newer trades, the next PageSize.
LEMMA PageIs ==
  ASSUME TypeOK, NEW p \in Nat
  PROVE  \E skip \in Nat :
           /\ p * PageSize = skip /\ (p + 1) * PageSize = skip + PageSize
           /\ Page(p) = {feed[i] : i \in {j \in 1 .. Len(feed) :
                           skip <= Len(feed) - j /\ Len(feed) - j < skip + PageSize}}
<1>1. PageSize \in Nat /\ DOMAIN feed = 1 .. Len(feed)
  BY SignalsAssumption, FeedIs
<1> DEFINE skip == p * PageSize
<1>2. skip \in Nat /\ (p + 1) * PageSize = skip + PageSize
  BY <1>1
<1>3. Page(p) = {feed[i] : i \in {j \in DOMAIN feed :
                   skip <= Len(feed) - j /\ Len(feed) - j < (p + 1) * PageSize}}
  BY DEF Page
<1>4. Page(p) = {feed[i] : i \in {j \in 1 .. Len(feed) :
                   skip <= Len(feed) - j /\ Len(feed) - j < skip + PageSize}}
  BY <1>1, <1>2, <1>3
<1>5. p * PageSize = skip
  OBVIOUS
<1> HIDE DEF skip
<1> QED
  BY <1>2, <1>4, <1>5

\* A page that does not reach the oldest trade is full.
LEMMA PageIsFull ==
  ASSUME TypeOK, FeedOK, NEW skip \in Nat, skip + PageSize <= Len(feed)
  PROVE  Cardinality({feed[i] : i \in {j \in 1 .. Len(feed) :
           skip <= Len(feed) - j /\ Len(feed) - j < skip + PageSize}}) = PageSize
<1> DEFINE low  == Len(feed) - skip - PageSize
           page == {feed[i] : i \in {j \in 1 .. Len(feed) :
                      skip <= Len(feed) - j /\ Len(feed) - j < skip + PageSize}}
           f    == [k \in 1 .. PageSize |-> feed[low + k]]
<1>1. Len(feed) \in Nat /\ PageSize \in Nat /\ low \in Nat
  BY FeedIs, SignalsAssumption
<1>2. \A k \in 1 .. PageSize : /\ low + k \in 1 .. Len(feed) /\ skip <= Len(feed) - (low + k)
                               /\ Len(feed) - (low + k) < skip + PageSize
  BY <1>1
<1>3. ASSUME NEW x \in page PROVE \E k \in 1 .. PageSize : x = f[k]
  <2>1. PICK i \in 1 .. Len(feed) : /\ x = feed[i] /\ skip <= Len(feed) - i
                                    /\ Len(feed) - i < skip + PageSize
    BY <1>3
  <2>2. i - low \in 1 .. PageSize /\ low + (i - low) = i
    BY <1>1, <2>1
  <2>3. x = f[i - low]
    BY <2>1, <2>2
  <2> QED
    BY <2>2, <2>3
<1>4. \A k \in 1 .. PageSize : f[k] \in page
  BY <1>2
<1>5. ASSUME NEW k \in 1 .. PageSize, NEW l \in 1 .. PageSize, f[k] = f[l] PROVE k = l
  <2>1. ~(low + k < low + l) /\ ~(low + l < low + k)
    BY <1>2, <1>5 DEF FeedOK
  <2> QED
    BY <1>1, <2>1
<1> HIDE DEF low, page
<1>6. f \in Bijection(1 .. PageSize, page)
  BY <1>3, <1>4, <1>5 DEF Bijection, Injection, Surjection, IsInjective
<1>7. ExistsBijection(1 .. PageSize, page)
  BY <1>6 DEF ExistsBijection
<1> QED
  BY <1>1, <1>7, FS_CountingElements DEF page

\* What a poll leaves behind is given up, the rest is newer than what it has.
LEMMA BehindOrAhead ==
  ASSUME TypeOK, NEW got \in SUBSET Trades, NEW x \in Happened, Newer(x, watch.from)
  PROVE  x \in got \/ x \in LeftBehind(got) \/ Ahead(x, got)
<1>1. \A t \in Trades : t.ts \in Nat
  BY SignalsAssumption
<1>2. x \in Trades
  BY FeedIs
<1>3. CASE \E g \in got : x.ts <= g.ts
  BY <1>3 DEF LeftBehind
<1>4. CASE \A g \in got : ~(x.ts <= g.ts)
  BY <1>1, <1>2, <1>4 DEF Ahead, Newer
<1> QED
  BY <1>3, <1>4

\* One page more: what is on the pages so far is fetched or newer than what
\* is, and when the paging ends by itself so is everything new.
LEMMA PageStep ==
  ASSUME OnceInv, OrderInv, watch.pc = "paging",
         NEW new, new = {t \in Page(watch.page) : Newer(t, watch.from)},
         NEW i \in 1 .. Len(feed), Newer(feed[i], watch.from),
         \/ Len(feed) - i < (watch.page + 1) * PageSize
         \/ new = {}
         \/ Cardinality(Page(watch.page)) < PageSize
         \/ \E t \in Page(watch.page) : t.ts < watch.from.ts
  PROVE  \/ feed[i] \in watch.todo \cup new \/ Ahead(feed[i], watch.todo \cup new)
         \/ OutOfOrder(feed[i])
<1> USE DEF OnceInv, OrderInv
<1> SUFFICES ASSUME ~OutOfOrder(feed[i])
             PROVE  feed[i] \in watch.todo \cup new \/ Ahead(feed[i], watch.todo \cup new)
  OBVIOUS
<1>1. watch.page \in Nat /\ Len(feed) \in Nat /\ PageSize \in Nat \ {0} /\ watch.from \in Trades
  BY WatchIs, FeedIs, SignalsAssumption, NoneAssumption DEF WatchOK
<1>2. PICK skip \in Nat :
        /\ watch.page * PageSize = skip /\ (watch.page + 1) * PageSize = skip + PageSize
        /\ Page(watch.page) = {feed[k] : k \in {j \in 1 .. Len(feed) :
             skip <= Len(feed) - j /\ Len(feed) - j < skip + PageSize}}
  BY <1>1, PageIs
<1>3. CASE Len(feed) - i < skip
  <2>1. feed[i] \in watch.todo \/ Ahead(feed[i], watch.todo)
    BY <1>2, <1>3 DEF PagesOK
  <2>2. ASSUME NEW g \in new PROVE Newer(feed[i], g)
    <3>1. PICK j \in 1 .. Len(feed) : g = feed[j] /\ skip <= Len(feed) - j
      BY <1>2
    <3>2. j < i
      BY <1>1, <1>3, <3>1
    <3> QED
      BY <3>1, <3>2, InOrder
  <2> QED
    BY <2>1, <2>2 DEF Ahead
<1>4. CASE skip <= Len(feed) - i /\ Len(feed) - i < skip + PageSize
  <2>1. feed[i] \in Page(watch.page)
    BY <1>2, <1>4
  <2> QED
    BY <2>1
<1>5. CASE skip + PageSize <= Len(feed) - i
  <2> DEFINE k == Len(feed) - skip
  <2>1. k \in 1 .. Len(feed) /\ i < k /\ Len(feed) - k = skip
    BY <1>1, <1>5
  <2>2. feed[k] \in Page(watch.page)
    <3>1. skip <= Len(feed) - k /\ Len(feed) - k < skip + PageSize
      BY <1>1, <2>1
    <3> HIDE DEF k
    <3> QED
      BY <1>2, <2>1, <3>1
  <2>3. Newer(feed[k], feed[i])
    BY <2>1, InOrder
  <2> HIDE DEF k
  <2>4. feed[k] \in new
    <3>1. Newer(feed[k], watch.from)
      BY <1>1, <2>1, <2>3, FeedIs, NewerTrans
    <3> QED
      BY <2>2, <3>1
  <2>5. Cardinality(Page(watch.page)) = PageSize
    <3>1. skip + PageSize <= Len(feed)
      BY <1>1, <1>5
    <3> QED
      BY <1>2, <3>1, PageIsFull
  <2>6. ASSUME NEW t \in Page(watch.page) PROVE ~(t.ts < watch.from.ts)
    <3>1. PICK j \in 1 .. Len(feed) : t = feed[j] /\ Len(feed) - j < skip + PageSize
      BY <1>2
    <3>2. i <= j
      BY <1>1, <1>5, <3>1
    <3>3. feed[i].ts \in Nat /\ t.ts \in Nat /\ watch.from.ts \in Nat
      BY <1>1, <3>1, FeedIs, SignalsAssumption
    <3>4. feed[i].ts <= t.ts
      BY <3>1, <3>2, FeedGrows
    <3>5. watch.from.ts <= feed[i].ts
      BY <3>3 DEF Newer
    <3> QED
      BY <3>3, <3>4, <3>5
  <2>7. ~(Len(feed) - i < (watch.page + 1) * PageSize)
    BY <1>1, <1>2, <1>5
  <2> QED
    BY <1>1, <2>4, <2>5, <2>6, <2>7
<1> QED
  BY <1>1, <1>3, <1>4, <1>5

\* What a step that moves neither the feed nor the cursor has to show.
LEMMA PactKept ==
  ASSUME OnceInv, OrderInv, UNCHANGED <<feed, cursor, baseline>>,
         missed \subseteq missed', lost \subseteq lost', ledger \subseteq ledger',
         \A x \in Trades : cursor # None /\ InHand(x) /\ ~Newer(x, cursor) =>
           InHand(x)' \/ x \in ledger' \/ x \in missed',
         \A x \in ledger' : cursor # None /\ (x \notin ledger \/ InHand(x)) /\ ~Newer(x, cursor) =>
           InHand(x)' \/ Queued(x)' \/ outbox'[x] # None \/ x \in lost',
         \A x \in Trades : /\ Queued(x) => Queued(x)'
                           /\ outbox[x] # None => outbox'[x] # None
  PROVE  NothingSkipped' /\ CoveredIsSignalled'
<1>1. /\ Happened' = Happened /\ Happened \subseteq Trades /\ ledger \subseteq Trades
      /\ \A x : OutOfOrder(x)' <=> OutOfOrder(x)
  BY FeedIs DEF Happened, OutOfOrder, OnceInv, TypeOK
<1>2. NothingSkipped'
  <2> SUFFICES ASSUME cursor # None, NEW x \in Happened, Newer(x, baseline), ~Newer(x, cursor),
                      ~OutOfOrder(x)
               PROVE  x \in ledger' \/ InHand(x)' \/ x \in missed'
    BY <1>1 DEF NothingSkipped, Newer
  <2>1. x \in ledger \/ InHand(x) \/ x \in missed
    BY DEF OrderInv, NothingSkipped
  <2> QED
    BY <1>1, <2>1
<1>3. CoveredIsSignalled'
  <2> SUFFICES ASSUME NEW x \in ledger', cursor # None, Newer(x, baseline), ~Newer(x, cursor),
                      ~OutOfOrder(x)
               PROVE  InHand(x)' \/ Queued(x)' \/ outbox'[x] # None \/ x \in lost'
    BY <1>1 DEF CoveredIsSignalled, Newer
  <2>1. CASE x \notin ledger \/ InHand(x)
    BY <2>1
  <2>2. CASE x \in ledger /\ ~InHand(x)
    <3>1. Queued(x) \/ outbox[x] # None \/ x \in lost
      BY <2>2 DEF OrderInv, CoveredIsSignalled
    <3> QED
      BY <1>1, <2>2, <3>1
  <2> QED
    BY <2>1, <2>2
<1> QED
  BY <1>2, <1>3

LEMMA OrderPaging ==
  ASSUME OnceInv, OnceInv', OrderInv,
         WatchBoot \/ WatchBootMark \/ WatchBootErr \/ WatchBegin \/ WatchPage \/ WatchPageErr
  PROVE  OrderInv'
<1>0. UNCHANGED <<feed, now, outbox, replay, orders>> /\ FeedOK'
  <2>1. UNCHANGED <<feed, now, outbox, replay, orders>>
    BY DEF WatchBoot, WatchBootMark, WatchBootErr, WatchBegin, WatchPage, WatchPageErr
  <2> QED
    BY <2>1 DEF OrderInv, FeedOK
<1>1. TypeOK /\ TypeOK' /\ watch \in WatchTasks /\ ledger \subseteq Trades
  BY DEF OnceInv, TypeOK
<1>2. CASE WatchBoot \/ WatchBootErr
  <2>1. /\ UNCHANGED <<cursor, baseline, missed, lost>> /\ cursor = None
        /\ watch'.pc \in {"booting", "idle"}
    <3>1. CASE WatchBoot
      BY <1>1, <3>1 DEF WatchBoot, WatchTasks
    <3>2. CASE WatchBootErr
      BY <3>2 DEF WatchBootErr, WatchIdle, OnceInv, WatchOK
    <3> QED
      BY <1>2, <3>1, <3>2
  <2>2. PagesOK' /\ FetchOK'
    BY <2>1 DEF PagesOK, FetchOK
  <2>3. NothingSkipped' /\ CoveredIsSignalled'
    BY <2>1 DEF NothingSkipped, CoveredIsSignalled
  <2> QED
    BY <1>0, <2>2, <2>3 DEF OrderInv
<1>3. CASE WatchBootMark
  <2>1. cursor' = baseline' /\ watch'.pc = "idle"
    BY <1>3 DEF WatchBootMark, WatchIdle
  <2>2. PagesOK' /\ FetchOK'
    BY <2>1 DEF PagesOK, FetchOK
  <2>3. NothingSkipped' /\ CoveredIsSignalled'
    BY <2>1 DEF NothingSkipped, CoveredIsSignalled
  <2> QED
    BY <1>0, <2>2, <2>3 DEF OrderInv
<1>4. CASE WatchBegin
  <2>1. /\ UNCHANGED <<ledger, cursor, baseline, missed, lost>> /\ watch'.pc = "paging"
        /\ watch'.page = 0 /\ watch'.todo = watch.todo /\ watch'.hand = watch.hand
        /\ watch'.out = watch.out
    BY <1>1, <1>4 DEF WatchBegin, WatchTasks
  <2>2. PagesOK'
    <3>1. PageSize \in Nat /\ Len(feed') \in Nat /\ watch'.page * PageSize = 0
      BY <1>0, <1>1, <2>1, SignalsAssumption, FeedIs
    <3>2. \A i \in 1 .. Len(feed') : ~(Len(feed') - i < 0)
      BY <3>1
    <3> QED
      BY <3>1, <3>2 DEF PagesOK
  <2>3. FetchOK'
    BY <2>1 DEF FetchOK
  <2>4. NothingSkipped' /\ CoveredIsSignalled'
    BY <1>0, <2>1, PactKept DEF InHand, Queued
  <2> QED
    BY <1>0, <2>2, <2>3, <2>4 DEF OrderInv
<1>5. CASE WatchPage
  <2> DEFINE page == Page(watch.page)
             new  == {t \in page : Newer(t, watch.from)}
             got  == watch.todo \cup new
             last == \/ new = {} \/ Cardinality(page) < PageSize
                     \/ \E t \in page : t.ts < watch.from.ts
             full == watch.page + 1 = MaxPages
  <2>1. /\ watch.pc = "paging" /\ UNCHANGED <<ledger, cursor, baseline>>
        /\ \/ (last \/ full) /\ watch' = [watch EXCEPT !.pc = "writing", !.todo = got]
           \/ ~last /\ watch' = [watch EXCEPT !.page = watch.page + 1, !.todo = got]
        /\ GiveUp(IF full /\ ~last THEN LeftBehind(got) ELSE {})
    BY <1>5 DEF WatchPage
  <2>2. watch.hand = None
    BY <2>1 DEF OnceInv, WatchOK
  <2>3. got \subseteq Happened /\ got \subseteq Trades /\ watch.todo \subseteq got
    BY <1>1, FeedIs DEF Page, OnceInv, TradesOK
  <2>4. \A i \in 1 .. Len(feed) :
          /\ Newer(feed[i], watch.from)
          /\ Len(feed) - i < (watch.page + 1) * PageSize \/ last
          => feed[i] \in got \/ Ahead(feed[i], got) \/ OutOfOrder(feed[i])
    BY <2>1, PageStep
  <2> DEFINE S == IF full /\ ~last THEN LeftBehind(got) ELSE {}
  <2>5. /\ missed \subseteq missed' /\ lost \subseteq lost'
        /\ \A x \in S : x \in lost' \/ (x \in missed' /\ x \notin ledger)
    <3>1. GiveUp(S) /\ S \in SUBSET Trades
      BY <1>1, <2>1, FeedIs DEF LeftBehind
    <3> QED
      BY <1>1, <3>1, GiveUpStep
  <2>6. \A x \in Happened : Newer(x, watch.from) /\ full /\ ~last =>
          x \in got \/ x \in S \/ Ahead(x, got)
    BY <1>1, <2>3, BehindOrAhead
  <2> HIDE DEF got, last, full, S
  <2>7. /\ watch'.todo = got /\ watch'.hand = None /\ watch'.out = watch.out
        /\ watch'.from = watch.from
        /\ \/ (last \/ full) /\ watch'.pc = "writing"
           \/ ~last /\ watch'.pc = "paging" /\ watch'.page = watch.page + 1
    BY <1>1, <2>1, <2>2, <2>3 DEF WatchTasks
  <2>8. PagesOK'
    BY <1>0, <2>4, <2>7 DEF PagesOK, Ahead, Newer, OutOfOrder
  <2>9. FetchOK'
    <3> SUFFICES ASSUME watch'.pc = "writing", NEW x \in Happened, Newer(x, watch.from)
                 PROVE  \/ x \in got \/ x \in lost' \/ (x \in missed' /\ x \notin ledger)
                        \/ Ahead(x, got) \/ OutOfOrder(x)
      BY <1>0, <2>1, <2>7, NoneAssumption
         DEF FetchOK, Cared, InHand, Fetched, Happened, Ahead, Newer, OutOfOrder
    <3>1. PICK i \in 1 .. Len(feed) : x = feed[i]
      BY <1>1, FeedIs
    <3>2. CASE last
      BY <2>4, <3>1, <3>2
    <3>3. CASE full /\ ~last
      BY <2>5, <2>6, <3>3
    <3> QED
      BY <2>7, <3>2, <3>3
  <2>10. NothingSkipped' /\ CoveredIsSignalled'
    <3>1. \A x \in Trades : InHand(x) => InHand(x)'
      BY <2>2, <2>3, <2>7 DEF InHand
    <3> QED
      BY <1>0, <1>1, <2>1, <2>5, <3>1, PactKept DEF Queued
  <2> QED
    BY <1>0, <2>8, <2>9, <2>10 DEF OrderInv
<1>6. CASE WatchPageErr
  <2>1. /\ watch.pc = "paging" /\ UNCHANGED <<ledger, cursor, baseline>>
        /\ watch' = [watch EXCEPT !.pc = "writing"] /\ GiveUp(LeftBehind(watch.todo))
    BY <1>6 DEF WatchPageErr
  <2>2. watch.hand = None
    BY <2>1 DEF OnceInv, WatchOK
  <2>3. /\ missed \subseteq missed' /\ lost \subseteq lost'
        /\ \A x \in LeftBehind(watch.todo) : x \in lost' \/ (x \in missed' /\ x \notin ledger)
    <3>1. LeftBehind(watch.todo) \in SUBSET Trades
      BY <1>1, FeedIs DEF LeftBehind
    <3> QED
      BY <1>1, <2>1, <3>1, GiveUpStep
  <2>4. /\ watch'.todo = watch.todo /\ watch'.hand = None /\ watch'.out = watch.out
        /\ watch'.from = watch.from /\ watch'.pc = "writing"
    BY <1>1, <2>1, <2>2 DEF WatchTasks
  <2>5. PagesOK'
    BY <2>4 DEF PagesOK
  <2>6. FetchOK'
    <3> SUFFICES ASSUME NEW x \in Happened, Newer(x, watch.from)
                 PROVE  \/ x \in watch.todo \/ x \in lost' \/ (x \in missed' /\ x \notin ledger)
                        \/ Ahead(x, watch.todo)
      BY <1>0, <2>1, <2>4, NoneAssumption
         DEF FetchOK, Cared, InHand, Fetched, Happened, Ahead, Newer, OutOfOrder
    <3>1. watch.todo \in SUBSET Trades
      BY <1>1, WatchIs
    <3> QED
      BY <1>1, <2>3, <3>1, BehindOrAhead
  <2>7. NothingSkipped' /\ CoveredIsSignalled'
    <3>1. \A x \in Trades : InHand(x) => InHand(x)'
      BY <2>2, <2>4 DEF InHand
    <3> QED
      BY <1>0, <1>1, <2>1, <2>3, <3>1, PactKept DEF Queued
  <2> QED
    BY <1>0, <2>5, <2>6, <2>7 DEF OrderInv
<1> QED
  BY <1>2, <1>3, <1>4, <1>5, <1>6

LEMMA OrderWriting ==
  ASSUME OnceInv, OnceInv', OrderInv,
         WatchWrite \/ WatchWriteErr \/ WatchMark \/ WatchMarkErr \/ WatchWritten
  PROVE  OrderInv'
<1>0. UNCHANGED <<feed, now, outbox, replay, orders, baseline>> /\ FeedOK'
  <2>1. UNCHANGED <<feed, now, outbox, replay, orders, baseline>>
    BY DEF WatchWrite, WatchWriteErr, WatchMark, WatchMarkErr, WatchWritten
  <2> QED
    BY <2>1 DEF OrderInv, FeedOK
<1>1. TypeOK /\ TypeOK' /\ watch \in WatchTasks /\ ledger \subseteq Trades
  BY DEF OnceInv, TypeOK
<1>2. CASE WatchWrite \/ WatchWriteErr
  <2>1. UNCHANGED cursor /\ watch.pc = "writing" /\ watch.hand = None
    BY <1>2 DEF WatchWrite, WatchWriteErr, OnceInv, WatchOK
  <2>2. PICK t \in watch.todo :
          \/ /\ ledger' = ledger \cup {t} /\ UNCHANGED <<missed, lost>>
             /\ watch' = [watch EXCEPT !.pc = "marking", !.hand = t, !.todo = @ \ {t}]
          \/ /\ watch' = [watch EXCEPT !.todo = @ \ {t}]
             /\ \/ GiveUp({t}) /\ UNCHANGED ledger
                \/ ledger' = ledger \cup {t} /\ lost' = lost \cup {t} /\ UNCHANGED missed
    BY <1>2 DEF WatchWrite, WatchWriteErr, Oldest
  <2>3. t \in Trades /\ t # None
    BY <1>1, WatchIs, NoneAssumption
  <2>4. /\ watch'.todo = watch.todo \ {t} /\ watch'.out = watch.out /\ watch'.from = watch.from
        /\ watch'.pc \in {"writing", "marking"}
        /\ \/ watch'.hand = None \/ watch'.hand = t
    BY <1>1, <2>1, <2>2 DEF WatchTasks
  <2>5. /\ missed \subseteq missed' /\ lost \subseteq lost'
        /\ ledger \subseteq ledger' /\ ledger' \subseteq ledger \cup {t}
        /\ watch'.hand = t \/ t \in lost' \/ (t \in missed' /\ t \notin ledger' /\ ledger' = ledger)
    <3>1. CASE watch' = [watch EXCEPT !.pc = "marking", !.hand = t, !.todo = @ \ {t}]
               /\ ledger' = ledger \cup {t} /\ UNCHANGED <<missed, lost>>
      BY <1>1, <3>1 DEF WatchTasks
    <3>2. CASE GiveUp({t}) /\ UNCHANGED ledger
      BY <3>2 DEF GiveUp
    <3>3. CASE ledger' = ledger \cup {t} /\ lost' = lost \cup {t} /\ UNCHANGED missed
      BY <3>3
    <3> QED
      BY <2>2, <3>1, <3>2, <3>3
  <2>6. PagesOK'
    BY <2>4 DEF PagesOK
  <2>7. \A x \in Trades : Cared(x) => Cared(x)'
    BY <2>1, <2>2, <2>3, <2>4, <2>5, NoneAssumption DEF Cared, InHand
  <2>8. Fetched' \subseteq Fetched
    BY <2>2, <2>3, <2>4 DEF Fetched
  <2>9. FetchOK'
    <3> SUFFICES ASSUME NEW x \in Happened, Newer(x, watch.from), ~OutOfOrder(x)
                 PROVE  Cared(x)' \/ Ahead(x, Fetched')
      BY <1>0, <2>4 DEF FetchOK, Happened, Newer, Ahead, OutOfOrder
    <3>1. Cared(x) \/ Ahead(x, Fetched)
      BY <2>1 DEF OrderInv, FetchOK
    <3>2. x \in Trades
      BY <1>1, FeedIs
    <3> QED
      BY <2>7, <2>8, <3>1, <3>2 DEF Ahead
  <2>10. NothingSkipped' /\ CoveredIsSignalled'
    <3>1. \A x \in Trades : InHand(x) => InHand(x)' \/ x = t
      BY <2>1, <2>3, <2>4, NoneAssumption DEF InHand
    <3>2. InHand(t)' \/ t \in lost' \/ (t \in missed' /\ t \notin ledger')
      BY <2>4, <2>5 DEF InHand
    <3>3. lost' \subseteq ledger'
      BY DEF OnceInv, TradesOK
    <3>4. \A x \in ledger' : x \in Trades /\ (x \in ledger \/ x = t)
      BY <1>1, <2>3, <2>5
    <3>5. \A x \in Trades : (Queued(x) => Queued(x)') /\ (outbox[x] # None => outbox'[x] # None)
      BY <1>0 DEF Queued
    <3> QED
      BY <1>0, <2>1, <2>5, <3>1, <3>2, <3>3, <3>4, <3>5, PactKept
  <2> QED
    BY <1>0, <2>6, <2>9, <2>10 DEF OrderInv
<1>3. CASE WatchMark \/ WatchMarkErr
  <2> DEFINE h == watch.hand
             o == watch.out \cup {h}
  <2>1. /\ UNCHANGED <<ledger, missed, lost>> /\ watch.pc = "marking"
        /\ watch' = [watch EXCEPT !.pc = "writing", !.out = o, !.hand = None]
        /\ cursor' \in {cursor, h} /\ (cursor' = cursor \/ Newer(cursor', cursor))
    BY <1>3, Zenon DEF WatchMark, WatchMarkErr, Advance
  <2>2. h \in ledger /\ h \in Trades /\ h # None /\ h \in Fetched
    BY <1>1, <2>1, NoneAssumption DEF OnceInv, WatchOK, TradesOK, Fetched
  <2>3. /\ cursor # None /\ watch.from # None /\ (cursor = watch.from \/ Newer(cursor, watch.from))
        /\ cursor \in Trades /\ watch.from \in Trades
    BY <1>1, <2>1, WatchIs DEF OnceInv, WatchOK, TypeOK
  <2> HIDE DEF o
  <2>4. /\ watch'.pc = "writing" /\ watch'.todo = watch.todo
        /\ watch'.out = o /\ watch'.hand = None /\ watch'.from = watch.from
    BY <1>1, <2>1 DEF WatchTasks
  <2>5. \A x \in Trades : (InHand(x) => InHand(x)') /\ (Cared(x) => Cared(x)')
    BY <2>1, <2>4 DEF InHand, Cared, o
  <2>6. PagesOK'
    BY <2>4 DEF PagesOK
  <2>7. FetchOK'
    <3>1. Fetched' \subseteq Fetched
      BY <2>4 DEF Fetched
    <3> SUFFICES ASSUME NEW x \in Happened, Newer(x, watch.from), ~OutOfOrder(x)
                 PROVE  Cared(x)' \/ Ahead(x, Fetched')
      BY <1>0, <2>4 DEF FetchOK, Happened, Newer, Ahead, OutOfOrder
    <3>2. Cared(x) \/ Ahead(x, Fetched)
      BY <2>1 DEF OrderInv, FetchOK
    <3>3. x \in Trades
      BY <1>1, FeedIs
    <3> QED
      BY <2>5, <3>1, <3>2, <3>3 DEF Ahead
  <2>8. ASSUME NEW x \in Happened, Newer(x, cursor), ~Newer(x, cursor'), ~OutOfOrder(x)
        PROVE  Cared(x)
    <3>1. x \in Trades /\ cursor' = h
      BY <1>1, <2>1, <2>8, FeedIs
    <3>2. Newer(x, watch.from)
      BY <2>3, <2>8, <3>1, NewerTrans
    <3>3. ~Ahead(x, Fetched)
      BY <2>2, <2>8, <3>1 DEF Ahead
    <3> QED
      BY <2>1, <2>8, <3>2, <3>3 DEF OrderInv, FetchOK
  <2>9. NothingSkipped'
    <3> SUFFICES ASSUME NEW x \in Happened, Newer(x, baseline), ~Newer(x, cursor'), ~OutOfOrder(x)
                 PROVE  x \in ledger \/ InHand(x)' \/ x \in missed
      BY <1>0, <2>1 DEF NothingSkipped, Happened, Newer, OutOfOrder
    <3>1. x \in Trades /\ lost \subseteq ledger
      BY <1>1, FeedIs DEF OnceInv, TradesOK
    <3>2. CASE Newer(x, cursor)
      BY <2>5, <2>8, <3>1, <3>2 DEF Cared
    <3>3. CASE ~Newer(x, cursor)
      BY <2>3, <2>5, <3>1, <3>3 DEF OrderInv, NothingSkipped
    <3> QED
      BY <3>2, <3>3
  <2>10. CoveredIsSignalled'
    <3> SUFFICES ASSUME NEW x \in ledger, Newer(x, baseline), ~Newer(x, cursor'), ~OutOfOrder(x)
                 PROVE  InHand(x)' \/ Queued(x) \/ outbox[x] # None \/ x \in lost
      BY <1>0, <2>1 DEF CoveredIsSignalled, Queued, Newer, OutOfOrder
    <3>1. x \in Trades /\ x \in Happened
      BY <1>1 DEF OnceInv, TradesOK
    <3>2. CASE Newer(x, cursor)
      BY <2>5, <2>8, <3>1, <3>2 DEF Cared
    <3>3. CASE ~Newer(x, cursor)
      BY <2>3, <2>5, <3>1, <3>3 DEF OrderInv, CoveredIsSignalled
    <3> QED
      BY <3>2, <3>3
  <2> QED
    BY <1>0, <2>6, <2>7, <2>9, <2>10 DEF OrderInv
<1>4. CASE WatchWritten
  <2>1. /\ UNCHANGED <<ledger, cursor, missed, lost>> /\ watch.pc = "writing" /\ watch.todo = {}
        /\ watch' = IF watch.out = {} THEN WatchIdle
                    ELSE [WatchIdle EXCEPT !.pc = "posting", !.out = watch.out]
    BY <1>4 DEF WatchWritten
  <2>2. watch.hand = None
    BY <2>1 DEF OnceInv, WatchOK
  <2>3. watch'.out = watch.out /\ watch'.pc \in {"idle", "posting"} /\ watch'.todo = {} /\ watch'.hand = None
    <3>1. CASE watch.out = {}
      BY <2>1, <3>1 DEF WatchIdle
    <3>2. CASE watch.out # {}
      <4> DEFINE o == watch.out
      <4>1. watch' = [WatchIdle EXCEPT !.pc = "posting", !.out = o]
        BY <2>1, <3>2
      <4> HIDE DEF o
      <4>2. watch'.out = o /\ watch'.pc = "posting" /\ watch'.todo = {} /\ watch'.hand = None
        BY <4>1 DEF WatchIdle
      <4> QED
        BY <4>2 DEF o
    <3> QED
      BY <3>1, <3>2
  <2>4. PagesOK' /\ FetchOK'
    BY <2>3 DEF PagesOK, FetchOK
  <2>5. NothingSkipped' /\ CoveredIsSignalled'
    <3>1. \A x \in Trades : InHand(x) => InHand(x)'
      BY <2>1, <2>2, <2>3 DEF InHand
    <3> QED
      BY <1>0, <1>1, <2>1, <3>1, PactKept DEF Queued
  <2> QED
    BY <1>0, <2>4, <2>5 DEF OrderInv
<1> QED
  BY <1>2, <1>3, <1>4

LEMMA OrderSending ==
  ASSUME OnceInv, OnceInv', OrderInv, Post \/ Store \/ StoreErr \/ Replay \/ ReplayErr
  PROVE  OrderInv'
<1>0. UNCHANGED <<feed, now, ledger, cursor, baseline, missed>> /\ FeedOK'
  <2>1. UNCHANGED <<feed, now, ledger, cursor, baseline, missed>>
    BY DEF Post, Store, StoreErr, Replay, ReplayPost, ReplayMark, ReplayBump, ReplayErr
  <2> QED
    BY <2>1 DEF OrderInv, FeedOK
<1>1. TypeOK /\ watch \in WatchTasks /\ ledger \subseteq Trades
  BY DEF OnceInv, TypeOK
<1>2. CASE Post
  <2>1. PICK t \in watch.out :
          \/ Accepted(t) /\ Emitted(t)
          \/ Refused(t) /\ watch' = [watch EXCEPT !.pc = "storing", !.hand = t]
    BY <1>2 DEF Post
  <2>2. UNCHANGED <<outbox, lost>> /\ watch.pc = "posting"
    BY <1>2 DEF Post
  <2>3. t \in Trades /\ watch.out \subseteq ledger /\ watch.todo = {} /\ watch.hand = None
    BY <1>1, <2>2, WatchIs DEF OnceInv, TradesOK, WatchOK
  <2>4. /\ watch'.pc \in {"idle", "posting", "storing"} /\ watch.out \subseteq watch'.out \cup {t}
        /\ Accepted(t) \/ watch'.hand = t
    <3>1. CASE Emitted(t) /\ Accepted(t)
      BY <1>1, <3>1, EmitStep
    <3>2. CASE watch' = [watch EXCEPT !.pc = "storing", !.hand = t]
      BY <1>1, <3>2 DEF WatchTasks
    <3> QED
      BY <2>1, <3>1, <3>2
  <2>5. /\ \A x \in Trades : Queued(x) => Queued(x)'
        /\ Queued(t)' \/ watch'.hand = t
    <3>1. /\ \A x \in Trades, r \in Relations : orders[x][r] > 0 => orders'[x][r] > 0
          /\ Accepted(t) => \A r \in Relations : orders'[t][r] > 0
      BY <1>1, <2>1, <2>3, QueueStep
    <3> QED
      BY <2>4, <3>1 DEF Queued
  <2>6. PagesOK' /\ FetchOK'
    BY <2>4 DEF PagesOK, FetchOK
  <2>7. NothingSkipped' /\ CoveredIsSignalled'
    <3>1. \A x \in Trades : InHand(x) => x \in ledger /\ (InHand(x)' \/ Queued(x)')
      BY <2>3, <2>4, <2>5, NoneAssumption DEF InHand
    <3> QED
      BY <1>0, <1>1, <2>2, <2>5, <3>1, PactKept
  <2> QED
    BY <1>0, <2>6, <2>7 DEF OrderInv
<1>3. CASE Store \/ StoreErr
  <2> DEFINE h == watch.hand
  <2>1. watch.pc = "storing" /\ Emitted(h) /\ UNCHANGED orders
    BY <1>3 DEF Store, StoreErr
  <2>2. h \in watch.out /\ h \in Trades /\ h # None /\ watch.out \subseteq ledger /\ watch.todo = {}
    BY <1>1, <2>1, WatchIs, NoneAssumption DEF OnceInv, WatchOK, TradesOK
  <2>3. watch'.pc \in {"idle", "posting"} /\ watch'.out = watch.out \ {h}
    BY <1>1, <2>1, <2>2, EmitStep
  <2>4. /\ lost \subseteq lost' /\ \A x \in Trades : outbox[x] # None => outbox'[x] # None
        /\ outbox'[h] # None \/ h \in lost'
    <3>1. CASE StoreErr
      BY <3>1 DEF StoreErr
    <3>2. CASE Store
      <4>1. outbox' = [outbox EXCEPT ![h] =
              IF outbox[h] = None THEN [attempts |-> 0, state |-> "pending"] ELSE outbox[h]]
        BY <3>2 DEF Store
      <4>2. [attempts |-> 0, state |-> "pending"] # None
        <5>1. [attempts |-> 0, state |-> "pending"] \in Rows
          BY SignalsAssumption DEF Rows
        <5> QED
          BY <5>1, NoneAssumption
      <4>3. outbox \in [Trades -> Rows \cup {None}] /\ UNCHANGED lost
        BY <1>1, <3>2 DEF TypeOK, Store
      <4> HIDE DEF h
      <4> QED
        BY <2>2, <4>1, <4>2, <4>3
    <3> QED
      BY <1>3, <3>1, <3>2
  <2>5. PagesOK' /\ FetchOK'
    BY <2>3 DEF PagesOK, FetchOK
  <2>6. NothingSkipped' /\ CoveredIsSignalled'
    <3>1. \A x \in Trades : InHand(x) => x \in ledger /\ (InHand(x)' \/ x = h)
      BY <2>2, <2>3 DEF InHand
    <3>2. \A x \in Trades : Queued(x) => Queued(x)'
      BY <2>1 DEF Queued
    <3> QED
      BY <1>0, <1>1, <2>4, <3>1, <3>2, PactKept
  <2> QED
    BY <1>0, <2>5, <2>6 DEF OrderInv
<1>4. CASE Replay \/ ReplayErr
  <2>1. UNCHANGED <<watch, lost>>
    BY <1>4 DEF Replay, ReplayPost, ReplayMark, ReplayBump, ReplayErr
  <2>2. \A x \in Trades : Queued(x) => Queued(x)'
    <3>1. CASE ReplayPost
      <4>1. PICK t \in Trades : Accepted(t) \/ Refused(t)
        BY <3>1 DEF ReplayPost, Pending
      <4>2. \A x \in Trades, r \in Relations : orders[x][r] > 0 => orders'[x][r] > 0
        BY <1>1, <4>1, QueueStep
      <4> QED
        BY <4>2 DEF Queued
    <3>2. CASE ~ReplayPost
      <4>1. UNCHANGED orders
        BY <1>4, <3>2 DEF Replay, ReplayMark, ReplayBump, ReplayErr
      <4> QED
        BY <4>1 DEF Queued
    <3> QED
      BY <3>1, <3>2
  <2>3. \A x \in Trades : outbox[x] # None => outbox'[x] # None
    <3> SUFFICES ASSUME NEW x \in Trades, outbox[x] # None PROVE outbox'[x] # None
      OBVIOUS
    <3>1. outbox \in [Trades -> Rows \cup {None}] /\ outbox' \in [Trades -> Rows \cup {None}]
      BY DEF OnceInv, TypeOK
    <3>2. CASE ReplayMark \/ ReplayBump
      <4> DEFINE hand == replay.hand
                 n    == outbox[hand].attempts + 1
                 row  == [attempts |-> n, state |-> IF n >= MaxAttempts THEN "dead" ELSE "pending"]
      <4>1. CASE x # hand
        BY <3>1, <3>2, <4>1 DEF ReplayMark, ReplayBump
      <4>2. CASE x = hand
        <5>1. replay.pc # "idle" /\ outbox[hand] \in Rows
          BY <3>1, <3>2, <4>2 DEF ReplayMark, ReplayBump
        <5>2. CASE ReplayMark
          <6> DEFINE done == [outbox[hand] EXCEPT !.state = "delivered"]
          <6>1. outbox' = [outbox EXCEPT ![hand] = done] /\ done \in Rows
            BY <5>1, <5>2 DEF ReplayMark, Rows
          <6> HIDE DEF done
          <6> QED
            BY <3>1, <4>2, <6>1, NoneAssumption
        <5>3. CASE ReplayBump
          <6>1. outbox' = [outbox EXCEPT ![hand] = row]
            BY <5>3 DEF ReplayBump
          <6>2. row \in Rows
            <7>1. outbox[hand].attempts \in Nat /\ MaxAttempts \in Nat /\ outbox[hand].attempts < MaxAttempts
              BY <3>1, <4>2, <5>1, SignalsAssumption DEF OnceInv, ReplayOK, Rows
            <7>2. n \in 0 .. MaxAttempts
              BY <7>1
            <7> QED
              BY <7>2 DEF Rows
          <6> HIDE DEF row
          <6> QED
            BY <3>1, <4>2, <6>1, <6>2, NoneAssumption
        <5> QED
          BY <3>2, <5>2, <5>3
      <4> QED
        BY <4>1, <4>2
    <3>3. CASE ~(ReplayMark \/ ReplayBump)
      BY <1>4, <3>3 DEF Replay, ReplayPost, ReplayErr
    <3> QED
      BY <3>2, <3>3
  <2>4. PagesOK' /\ FetchOK'
    BY <1>0, <2>1
       DEF OrderInv, PagesOK, FetchOK, Ahead, Newer, Cared, InHand, Fetched, Happened, OutOfOrder
  <2>5. NothingSkipped' /\ CoveredIsSignalled'
    <3>1. \A x \in Trades : InHand(x) => InHand(x)'
      BY <2>1 DEF InHand
    <3> QED
      BY <1>0, <1>1, <2>1, <2>2, <2>3, <3>1, PactKept
  <2> QED
    BY <1>0, <2>4, <2>5 DEF OrderInv
<1> QED
  BY <1>2, <1>3, <1>4

\* A new trade is the newest of all, or out of order.
LEMMA OrderTrade ==
  ASSUME OnceInv, OnceInv', OrderInv, Trade
  PROVE  OrderInv'
<1> DEFINE n == Len(feed)
<1>1. UNCHANGED <<now, ledger, cursor, watch, outbox, replay, orders, baseline, missed, lost>>
  BY DEF Trade
<1>2. TypeOK /\ TypeOK' /\ now \in Nat
  BY SignalsAssumption DEF OnceInv, TypeOK
<1>3. PICK t :
      /\ t = feed'[n + 1] /\ n \in Nat /\ Len(feed') = n + 1
      /\ \A i \in 1 .. n : feed'[i] = feed[i] /\ feed[i] \in Happened /\ feed[i] \in Trades
      /\ t \in Trades \ Happened /\ t.ts = now
      /\ Happened' = Happened \cup {t} /\ Happened \subseteq Trades
      /\ DOMAIN feed = 1 .. n /\ DOMAIN feed' = 1 .. n + 1
  BY <1>2, TradeStep, FeedIs, LenProperties
<1> HIDE DEF n
<1>4. FeedOK'
  <2> SUFFICES ASSUME NEW i \in 1 .. n + 1, NEW j \in 1 .. n + 1
               PROVE  /\ feed'[i].ts <= now
                      /\ i < j => feed'[i].ts <= feed'[j].ts /\ feed'[i].id # feed'[j].id
    BY <1>1, <1>3 DEF FeedOK
  <2>1. \A k, l \in 1 .. n :
          feed[k].ts <= now /\ (k < l => feed[k].ts <= feed[l].ts /\ feed[k].id # feed[l].id)
    BY DEF OrderInv, FeedOK, n
  <2>2. \A k \in 1 .. n + 1 : k \in 1 .. n \/ k = n + 1
    BY <1>3
  <2>3. feed'[i].ts <= now
    <3>1. CASE i \in 1 .. n
      BY <1>3, <2>1, <3>1
    <3>2. CASE i = n + 1
      BY <1>2, <1>3, <3>2
    <3> QED
      BY <2>2, <3>1, <3>2
  <2>4. ASSUME i < j PROVE feed'[i].ts <= feed'[j].ts /\ feed'[i].id # feed'[j].id
    <3>1. i \in 1 .. n
      BY <1>3, <2>4
    <3>2. CASE j \in 1 .. n
      BY <1>3, <2>1, <2>4, <3>1, <3>2
    <3>3. CASE j = n + 1
      <4>1. feed'[j] = t /\ feed'[i] \in Happened
        BY <1>3, <3>1, <3>3
      <4>2. feed'[i].id # t.id
        BY <1>3, <4>1, SignalsAssumption
      <4> QED
        BY <1>3, <2>3, <4>1, <4>2
    <3> QED
      BY <2>2, <3>2, <3>3
  <2> QED
    BY <2>3, <2>4
<1>5. ASSUME ~OutOfOrder(t)', NEW x \in Happened PROVE Newer(t, x)
  <2>1. PICK i \in 1 .. n : x = feed[i]
    BY <1>2, FeedIs DEF n
  <2>2. i \in 1 .. n + 1 /\ n + 1 \in 1 .. n + 1 /\ i < n + 1 /\ x = feed'[i] /\ t = feed'[n + 1]
    BY <1>3, <2>1
  <2>3. t.ts \in Nat /\ x.ts \in Nat /\ t.id \in Nat /\ x.id \in Nat
    BY <1>3, SignalsAssumption
  <2>4. x.ts <= t.ts /\ x.id # t.id
    BY <1>3, <1>4, <2>2 DEF FeedOK
  <2>5. x.ts = t.ts => ~(x.id > t.id)
    BY <1>3, <1>5, <2>2 DEF OutOfOrder
  <2> QED
    BY <2>3, <2>4, <2>5 DEF Newer
<1>0. ASSUME NEW x, OutOfOrder(x) PROVE OutOfOrder(x)'
  BY <1>0, <1>3 DEF OutOfOrder
<1>6. watch.todo \subseteq Happened /\ Fetched \subseteq Happened /\ (cursor # None => cursor \in Happened)
  BY DEF OnceInv, TradesOK, Fetched
<1>7. PagesOK'
  <2> SUFFICES ASSUME watch.pc = "paging", NEW i \in 1 .. n + 1,
                      n + 1 - i < watch.page * PageSize, Newer(feed'[i], watch.from)
               PROVE  \/ feed'[i] \in watch.todo \/ Ahead(feed'[i], watch.todo)
                      \/ OutOfOrder(feed[i])'
    BY <1>1, <1>3 DEF PagesOK, Ahead, Newer, OutOfOrder
  <2>1. CASE i = n + 1
    <3>1. feed'[i] = t
      BY <1>3, <2>1
    <3>2. CASE OutOfOrder(t)'
      BY <1>3, <3>1, <3>2 DEF OutOfOrder
    <3>3. CASE ~OutOfOrder(t)'
      BY <1>5, <1>6, <3>1, <3>3 DEF Ahead
    <3> QED
      BY <3>2, <3>3
  <2>2. CASE i # n + 1
    <3> DEFINE m == watch.page * PageSize
    <3>1. m \in Nat
      <4>1. watch.page \in Nat /\ PageSize \in Nat
        BY <1>2, WatchIs, SignalsAssumption
      <4> QED
        BY <4>1
    <3>2. n + 1 - i < m
      OBVIOUS
    <3> HIDE DEF m
    <3>3. i \in 1 .. n /\ n - i < m
      BY <1>3, <2>2, <3>1, <3>2
    <3>4. feed'[i] = feed[i]
      BY <1>3, <3>3
    <3>5. feed[i] \in watch.todo \/ Ahead(feed[i], watch.todo) \/ OutOfOrder(feed[i])
      BY <3>3, <3>4 DEF OrderInv, PagesOK, n, m
    <3>6. ASSUME OutOfOrder(feed[i]) PROVE OutOfOrder(feed[i])'
      BY <1>3, <3>3, <3>4, <3>6 DEF OutOfOrder
    <3> QED
      BY <3>4, <3>5, <3>6
  <2> QED
    BY <2>1, <2>2
<1>8. FetchOK'
  <2> SUFFICES ASSUME watch.pc \in {"writing", "marking"}, NEW x \in Happened', Newer(x, watch.from),
                      ~OutOfOrder(x)'
               PROVE  Cared(x) \/ Ahead(x, Fetched)
    BY <1>1 DEF FetchOK, Cared, InHand, Fetched, Ahead, Newer
  <2>1. CASE x = t
    BY <1>5, <1>6, <2>1 DEF Ahead
  <2>2. CASE x \in Happened
    BY <1>0, <2>2 DEF OrderInv, FetchOK
  <2> QED
    BY <1>3, <2>1, <2>2
<1>9. NothingSkipped'
  <2> SUFFICES ASSUME cursor # None, NEW x \in Happened', Newer(x, baseline), ~Newer(x, cursor),
                      ~OutOfOrder(x)'
               PROVE  x \in ledger \/ InHand(x) \/ x \in missed
    BY <1>1 DEF NothingSkipped, InHand, Newer
  <2>1. x \in Happened
    BY <1>3, <1>5, <1>6
  <2> QED
    BY <1>0, <2>1 DEF OrderInv, NothingSkipped
<1>10. CoveredIsSignalled'
  BY <1>0, <1>1 DEF OrderInv, CoveredIsSignalled, InHand, Queued, Newer
<1> QED
  BY <1>4, <1>7, <1>8, <1>9, <1>10 DEF OrderInv

LEMMA OrderElse ==
  ASSUME OnceInv, OnceInv', OrderInv, Tick \/ Crash \/ UNCHANGED vars
  PROVE  OrderInv'
<1>1. CASE Tick \/ UNCHANGED vars
  <2>1. /\ UNCHANGED <<feed, ledger, cursor, watch, outbox, orders, baseline, missed, lost>>
        /\ now' = now \/ now' = now + 1
    BY <1>1 DEF Tick, vars
  <2>2. FeedOK'
    <3>1. \A i \in 1 .. Len(feed) : feed[i].ts \in Nat /\ now \in Nat
      <4>1. \A i \in 1 .. Len(feed) : feed[i] \in Trades
        BY FeedIs DEF OnceInv
      <4> QED
        BY <4>1, SignalsAssumption DEF OnceInv, TypeOK
    <3>2. \A i \in 1 .. Len(feed) : feed[i].ts <= now'
      <4>1. \A i \in 1 .. Len(feed) : feed[i].ts <= now
        BY DEF OrderInv, FeedOK
      <4> QED
        BY <2>1, <3>1, <4>1
    <3> QED
      BY <2>1, <3>2 DEF OrderInv, FeedOK
  <2>3. PagesOK' /\ FetchOK'
    BY <2>1
       DEF OrderInv, PagesOK, FetchOK, Ahead, Newer, Cared, InHand, Fetched, Happened, OutOfOrder
  <2>4. NothingSkipped' /\ CoveredIsSignalled'
    BY <2>1
       DEF OrderInv, NothingSkipped, CoveredIsSignalled, InHand, Queued, Newer, Happened, OutOfOrder
  <2> QED
    BY <2>2, <2>3, <2>4 DEF OrderInv
<1>2. CASE Crash
  <2> DEFINE held == watch.todo \cup watch.out \cup ({watch.hand} \ {None})
             S    == IF cursor = None THEN {} ELSE {t \in held : ~Newer(t, cursor)}
  <2>1. /\ UNCHANGED <<feed, now, ledger, cursor, outbox, orders, baseline>>
        /\ watch' = WatchIdle /\ GiveUp(S)
    BY <1>2 DEF Crash
  <2>2. TypeOK /\ ledger \subseteq Trades /\ held \subseteq Trades
    BY WatchIs DEF OnceInv, TypeOK
  <2>3. FeedOK' /\ watch'.pc = "idle"
    BY <2>1 DEF OrderInv, FeedOK, WatchIdle
  <2>4. PagesOK' /\ FetchOK'
    BY <2>3 DEF PagesOK, FetchOK
  <2>5. /\ missed \subseteq missed' /\ lost \subseteq lost'
        /\ \A x \in S : x \in lost' \/ (x \in missed' /\ x \notin ledger)
    <3>1. S \in SUBSET Trades
      BY <2>2
    <3> QED
      BY <2>1, <2>2, <3>1, GiveUpStep
  <2>6. \A x \in Trades : cursor # None /\ InHand(x) /\ ~Newer(x, cursor) => x \in S
    BY NoneAssumption DEF InHand
  <2>7. lost' \subseteq ledger'
    BY DEF OnceInv, TradesOK
  <2>8. \A x \in Trades : Queued(x) => Queued(x)'
    BY <2>1 DEF Queued
  <2> HIDE DEF S
  <2>9. NothingSkipped' /\ CoveredIsSignalled'
    BY <2>1, <2>2, <2>5, <2>6, <2>7, <2>8, PactKept
  <2> QED
    BY <2>3, <2>4, <2>9 DEF OrderInv
<1> QED
  BY <1>1, <1>2

LEMMA OrderInit == Init => OrderInv
<1> SUFFICES ASSUME Init PROVE OrderInv
  OBVIOUS
<1>1. feed = <<>> /\ ledger = {} /\ cursor = None /\ watch = WatchIdle
  BY DEF Init
<1>2. Len(feed) = 0 /\ watch.pc = "idle"
  BY <1>1, EmptySeq DEF WatchIdle
<1>3. FeedOK /\ PagesOK /\ FetchOK
  BY <1>2 DEF FeedOK, PagesOK, FetchOK
<1>4. NothingSkipped /\ CoveredIsSignalled
  BY <1>1 DEF NothingSkipped, CoveredIsSignalled
<1> QED
  BY <1>3, <1>4 DEF OrderInv

LEMMA OrderStep == OnceInv /\ OrderInv /\ [Next]_vars => OrderInv'
<1> SUFFICES ASSUME OnceInv, OrderInv, [Next]_vars PROVE OrderInv'
  OBVIOUS
<1>1. OnceInv'
  BY OnceStep
<1> QED
  BY <1>1, OrderPaging, OrderWriting, OrderSending, OrderTrade, OrderElse DEF Next, Watch

LEMMA OrderAlways == Spec => [](OnceInv /\ OrderInv)
<1>1. Init => OnceInv /\ OrderInv
  BY OnceInit, OrderInit
<1>2. OnceInv /\ OrderInv /\ [Next]_vars => (OnceInv /\ OrderInv)'
  BY OnceStep, OrderStep
<1> QED
  BY <1>1, <1>2, PTL DEF Spec

\* The cursor never passes a trade by that is not in the ledger, in the
\* worker's hands, given up by a failed statement, a crash or a burst beyond
\* MaxPages, or out of order within its second: for any page size and however
\* the pages shift meanwhile.
THEOREM CursorSkipsNothing == Spec => []NothingSkipped
<1>1. OnceInv /\ OrderInv => NothingSkipped
  BY DEF OrderInv
<1> QED
  BY <1>1, OrderAlways, PTL

\* What is in the ledger, and so is hidden from hot, is signalled, on its way
\* or in the outbox, unless a named fault has lost it or its id is out of
\* order within its second.
THEOREM LedgerIsSignalled == Spec => []CoveredIsSignalled
<1>1. OnceInv /\ OrderInv => CoveredIsSignalled
  BY DEF OrderInv
<1> QED
  BY <1>1, OrderAlways, PTL
=============================================================================
