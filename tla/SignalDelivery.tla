--------------------------- MODULE SignalDelivery ---------------------------
(***************************************************************************)
(* From a trade of a watched trader to the copy orders of the followers:   *)
(*                                                                         *)
(*   trade_watch    polls the venue's trades page by page, writes each new *)
(*                  one to raw_trades ("the ledger"), advances a cursor,   *)
(*                  and posts one signal per trade to follow;              *)
(*   signal_replay  re-posts what could not be delivered, from the outbox, *)
(*                  until it is delivered or dead-lettered;                *)
(*   follow         turns a signal into one copy order per relation.       *)
(*                                                                         *)
(* The second detector, hot, compares positions with the ledger and takes  *)
(* a trade in the ledger for signalled.  So the ledger is a promise: what  *)
(* is missing there hot still finds, what is there and not signalled       *)
(* nobody ever finds.  The history variables missed and lost name the      *)
(* trades given up in the first and in the second way.                     *)
(*                                                                         *)
(* One trader, one venue-hub process.  Statements, requests and pages are  *)
(* steps of their own; the process may die between any two of them.        *)
(***************************************************************************)
EXTENDS Naturals, Sequences, FiniteSets

CONSTANTS
  Times,        \* the seconds of the clock
  Trades,       \* bound: the trades that may happen; their ids, hashes of
                \* transactions, are ordered like strings and not in time
  Relations,    \* the active follow relations of the trader
  PageSize,     \* TRADE_PAGE_LIMIT
  MaxPages,     \* MAX_PAGES
  MaxAttempts,  \* signal_outbox.max_attempts
  MaxFaults,    \* bound: failed statements and pages, crashes
  None

ASSUME SignalsAssumption ==
  /\ Times \subseteq Nat /\ Trades \subseteq [ts : Times, id : Nat]
  /\ \A t, u \in Trades : t.id = u.id => t = u
  /\ {PageSize, MaxPages, MaxAttempts} \subseteq Nat \ {0}
  /\ MaxFaults \in Nat

Rows == [attempts : 0 .. MaxAttempts, state : {"pending", "delivered", "dead"}]

ASSUME NoneAssumption == None \notin Trades /\ None \notin Rows

VARIABLES
  feed,      \* the venue's trades, oldest first
  now,       \* the clock
  ledger,    \* raw_trades
  cursor,    \* trade_watch_cursor, None before the bootstrap
  watch,     \* the trade_watch worker
  outbox,    \* signal_outbox: [attempts, state] by trade, None without a row
  replay,    \* the signal_replay worker
  orders,    \* how many copy orders a trade and a relation have
  baseline,  \* history: what the bootstrap set the cursor to
  missed,    \* history: given up before they were in the ledger
  lost,      \* history: in the ledger and given up before they were signalled
  faults

vars == <<feed, now, ledger, cursor, watch, outbox, replay, orders,
          baseline, missed, lost, faults>>

\* The locals of tick_once: where it is, the cursor it has read, the next
\* page, the new trades fetched or still to write, the one in hand, and the
\* signals still to post.
WatchTasks ==
  [pc : {"idle", "booting", "paging", "writing", "marking", "posting", "storing"},
   from : Trades \cup {None}, page : 0 .. MaxPages, todo : SUBSET Trades,
   hand : Trades \cup {None}, out : SUBSET Trades]
ReplayTasks ==
  [pc : {"idle", "marking", "bumping"}, hand : Trades \cup {None}]

WatchIdle  == [pc |-> "idle", from |-> None, page |-> 0, todo |-> {}, hand |-> None, out |-> {}]
ReplayIdle == [pc |-> "idle", hand |-> None]

Fault    == faults < MaxFaults /\ faults' = faults + 1
Happened == {feed[i] : i \in DOMAIN feed}

\* Trades that no later poll will fetch.
GiveUp(S) == missed' = missed \cup (S \ ledger) /\ lost' = lost \cup (S \cap ledger)

\* Mutant: the second alone.
NewerSecond(t, c) == t.ts > c.ts

\* The composite cursor: a later second, or the same one and a larger id.
Newer(t, c) == t.ts > c.ts \/ (t.ts = c.ts /\ t.id > c.id)

-----------------------------------------------------------------------------
\* follow: POST /internal/signals

\* Mutant: without the unique index a repeated signal is queued again.
QueueAgain(t, R) ==
  orders' = [orders EXCEPT ![t] = [r \in Relations |-> IF r \in R THEN @[r] + 1 ELSE @[r]]]

\* enqueue_copy_order, relation by relation: (signal_id, follow_relation_id)
\* is unique and a conflict is skipped.
Queue(t, R) ==
  orders' = [orders EXCEPT ![t] = [r \in Relations |-> IF r \in R THEN 1 ELSE @[r]]]

\* A request that is answered with success has queued every relation; one
\* that fails may have queued some, or all of them and lost the answer.
Accepted(t) == Queue(t, Relations)
Refused(t)  == \E R \in SUBSET Relations : Queue(t, R)

-----------------------------------------------------------------------------
\* trade_watch.rs tick_once

\* The newest trades come first; page p skips p * PageSize of them.
Page(p) ==
  {feed[i] : i \in {j \in DOMAIN feed :
     p * PageSize <= Len(feed) - j /\ Len(feed) - j < (p + 1) * PageSize}}

\* Without a cursor the newest trade becomes the baseline, nothing is
\* signalled.
WatchBoot ==
  /\ watch.pc = "idle" /\ cursor = None /\ feed # <<>>
  /\ ledger' = ledger \cup {feed[Len(feed)]}
  /\ watch'  = [watch EXCEPT !.pc = "booting", !.hand = feed[Len(feed)]]
  /\ UNCHANGED <<feed, now, cursor, outbox, replay, orders, baseline, missed, lost, faults>>

WatchBootMark ==
  /\ watch.pc = "booting"
  /\ cursor'   = watch.hand
  /\ baseline' = watch.hand
  /\ watch'    = WatchIdle
  /\ UNCHANGED <<feed, now, ledger, outbox, replay, orders, missed, lost, faults>>

WatchBootErr ==
  /\ watch.pc = "booting" /\ Fault
  /\ watch' = WatchIdle
  /\ UNCHANGED <<feed, now, ledger, cursor, outbox, replay, orders, baseline, missed, lost>>

WatchBegin ==
  /\ watch.pc = "idle" /\ cursor # None
  /\ \E t \in Happened : Newer(t, cursor)
  /\ watch' = [watch EXCEPT !.pc = "paging", !.from = cursor, !.page = 0]
  /\ UNCHANGED <<feed, now, ledger, cursor, outbox, replay, orders, baseline, missed, lost, faults>>

\* What a poll that stops paging early leaves behind: trades older than the
\* newest it has fetched.
LeftBehind(got) ==
  {t \in Happened \ got : Newer(t, watch.from) /\ \E g \in got : t.ts <= g.ts}

\* One page.  Paging ends with a page that has nothing new, an old trade or
\* less than PageSize trades, or after MaxPages.
WatchPage ==
  LET page == Page(watch.page)
      new  == {t \in page : Newer(t, watch.from)}
      got  == watch.todo \cup new
      last == \/ new = {} \/ Cardinality(page) < PageSize
              \/ \E t \in page : t.ts < watch.from.ts
      full == watch.page + 1 = MaxPages
  IN
  /\ watch.pc = "paging"
  /\ watch' = IF last \/ full
              THEN [watch EXCEPT !.pc = "writing", !.todo = got]
              ELSE [watch EXCEPT !.page = @ + 1, !.todo = got]
  /\ GiveUp(IF full /\ ~last THEN LeftBehind(got) ELSE {})
  /\ UNCHANGED <<feed, now, ledger, cursor, outbox, replay, orders, baseline, faults>>

\* A page cannot be fetched: the poll goes on with the newer pages it has.
WatchPageErr ==
  /\ watch.pc = "paging" /\ Fault
  /\ watch' = [watch EXCEPT !.pc = "writing"]
  /\ GiveUp(LeftBehind(watch.todo))
  /\ UNCHANGED <<feed, now, ledger, cursor, outbox, replay, orders, baseline>>

\* sort_by_key(ts): the oldest second first, in any order within a second.
Oldest(S) == {t \in S : \A u \in S : t.ts <= u.ts}

WatchWrite ==
  /\ watch.pc = "writing"
  /\ \E t \in Oldest(watch.todo) :
       /\ ledger' = ledger \cup {t}
       /\ watch'  = [watch EXCEPT !.pc = "marking", !.hand = t, !.todo = @ \ {t}]
  /\ UNCHANGED <<feed, now, cursor, outbox, replay, orders, baseline, missed, lost, faults>>

\* Mutant: a trade that could not be written is signalled all the same.
EmitUnwritten ==
  /\ watch.pc = "writing" /\ Fault
  /\ \E t \in Oldest(watch.todo) :
       watch' = [watch EXCEPT !.todo = @ \ {t}, !.out = @ \cup {t}]
  /\ UNCHANGED <<feed, now, ledger, cursor, outbox, replay, orders, baseline, missed, lost>>

\* upsert_raw_trade fails, or only its answer is lost: the trade is skipped
\* and the poll goes on with the next one.
WatchWriteErr ==
  /\ watch.pc = "writing" /\ Fault
  /\ \E t \in Oldest(watch.todo) :
       /\ watch' = [watch EXCEPT !.todo = @ \ {t}]
       /\ \/ GiveUp({t}) /\ UNCHANGED ledger
          \/ ledger' = ledger \cup {t} /\ lost' = lost \cup {t} /\ UNCHANGED missed
  /\ UNCHANGED <<feed, now, cursor, outbox, replay, orders, baseline>>

\* advance_trade_watch_cursor: forward only.
Advance(t) == cursor' = IF Newer(t, cursor) THEN t ELSE cursor

WatchMark ==
  /\ watch.pc = "marking"
  /\ Advance(watch.hand)
  /\ watch' = [watch EXCEPT !.pc = "writing", !.out = @ \cup {watch.hand}, !.hand = None]
  /\ UNCHANGED <<feed, now, ledger, outbox, replay, orders, baseline, missed, lost, faults>>

\* The cursor stays behind: the trade is signalled now and fetched again.
WatchMarkErr ==
  /\ watch.pc = "marking" /\ Fault
  /\ watch' = [watch EXCEPT !.pc = "writing", !.out = @ \cup {watch.hand}, !.hand = None]
  /\ UNCHANGED <<feed, now, ledger, cursor, outbox, replay, orders, baseline, missed, lost>>

WatchWritten ==
  /\ watch.pc = "writing" /\ watch.todo = {}
  /\ watch' = IF watch.out = {} THEN WatchIdle
              ELSE [WatchIdle EXCEPT !.pc = "posting", !.out = watch.out]
  /\ UNCHANGED <<feed, now, ledger, cursor, outbox, replay, orders, baseline, missed, lost, faults>>

-----------------------------------------------------------------------------
\* signal_emit.rs emit_signals

\* The signal t is dealt with.
Emitted(t) ==
  watch' = IF watch.out = {t} THEN WatchIdle
           ELSE [WatchIdle EXCEPT !.pc = "posting", !.out = watch.out \ {t}]

Post ==
  /\ watch.pc = "posting"
  /\ \E t \in watch.out :
       \/ Accepted(t) /\ Emitted(t)
       \/ Refused(t) /\ watch' = [watch EXCEPT !.pc = "storing", !.hand = t]
  /\ UNCHANGED <<feed, now, ledger, cursor, outbox, replay, baseline, missed, lost, faults>>

\* Mutant: an undelivered signal is dropped.
StoreNothing ==
  /\ watch.pc = "storing"
  /\ Emitted(watch.hand)
  /\ UNCHANGED <<feed, now, ledger, cursor, outbox, replay, orders, baseline, missed, lost, faults>>

\* enqueue_signal_outbox: ON CONFLICT (signal_id) DO NOTHING.
Store ==
  /\ watch.pc = "storing"
  /\ outbox' = [outbox EXCEPT ![watch.hand] =
       IF @ = None THEN [attempts |-> 0, state |-> "pending"] ELSE @]
  /\ Emitted(watch.hand)
  /\ UNCHANGED <<feed, now, ledger, cursor, replay, orders, baseline, missed, lost, faults>>

StoreErr ==
  /\ watch.pc = "storing" /\ Fault
  /\ lost' = lost \cup {watch.hand}
  /\ Emitted(watch.hand)
  /\ UNCHANGED <<feed, now, ledger, cursor, outbox, replay, orders, baseline, missed>>

Watch ==
  \/ WatchBoot \/ WatchBootMark \/ WatchBegin \/ WatchPage
  \/ WatchWrite \/ WatchMark \/ WatchWritten \/ Post \/ Store

-----------------------------------------------------------------------------
\* signal_replay.rs

Pending == {t \in Trades : outbox[t] # None /\ outbox[t].state = "pending"}

\* list_due_outbox, and the post of one of its rows; which rows are past their
\* backoff is up to the clock.  Only this worker changes a row, so a batch is
\* as good as its rows one by one.
ReplayPost ==
  /\ replay.pc = "idle"
  /\ \E t \in Pending, ok \in BOOLEAN :
       /\ IF ok THEN Accepted(t) ELSE Refused(t)
       /\ replay' = [pc |-> IF ok THEN "marking" ELSE "bumping", hand |-> t]
  /\ UNCHANGED <<feed, now, ledger, cursor, watch, outbox, baseline, missed, lost, faults>>

ReplayMark ==
  /\ replay.pc = "marking"
  /\ outbox' = [outbox EXCEPT ![replay.hand].state = "delivered"]
  /\ replay' = ReplayIdle
  /\ UNCHANGED <<feed, now, ledger, cursor, watch, orders, baseline, missed, lost, faults>>

\* Mutant: attempts are not counted.
BumpNothing ==
  /\ replay.pc = "bumping"
  /\ replay' = ReplayIdle
  /\ UNCHANGED <<feed, now, ledger, cursor, watch, outbox, orders, baseline, missed, lost, faults>>

\* Mutant: no last attempt.
BumpForEver ==
  /\ replay.pc = "bumping"
  /\ outbox' = [outbox EXCEPT ![replay.hand].attempts = @ + 1]
  /\ replay' = ReplayIdle
  /\ UNCHANGED <<feed, now, ledger, cursor, watch, orders, baseline, missed, lost, faults>>

\* bump_outbox_attempt
ReplayBump ==
  LET n == outbox[replay.hand].attempts + 1 IN
  /\ replay.pc = "bumping"
  /\ outbox' = [outbox EXCEPT ![replay.hand] =
       [attempts |-> n, state |-> IF n >= MaxAttempts THEN "dead" ELSE "pending"]]
  /\ replay' = ReplayIdle
  /\ UNCHANGED <<feed, now, ledger, cursor, watch, orders, baseline, missed, lost, faults>>

\* The statement fails: the row is due again.
ReplayErr ==
  /\ replay.pc \in {"marking", "bumping"} /\ Fault
  /\ replay' = ReplayIdle
  /\ UNCHANGED <<feed, now, ledger, cursor, watch, outbox, orders, baseline, missed, lost>>

Replay == ReplayPost \/ ReplayMark \/ ReplayBump

-----------------------------------------------------------------------------
\* The trader, the clock and the operating system

Trade ==
  /\ \E t \in Trades \ Happened : t.ts = now /\ feed' = Append(feed, t)
  /\ UNCHANGED <<now, ledger, cursor, watch, outbox, replay, orders, baseline, missed, lost, faults>>

Tick ==
  /\ now + 1 \in Times
  /\ now' = now + 1
  /\ UNCHANGED <<feed, ledger, cursor, watch, outbox, replay, orders, baseline, missed, lost, faults>>

\* The trades in the process's hands are fetched again, unless the cursor has
\* passed them already.
Crash ==
  LET held == watch.todo \cup watch.out \cup ({watch.hand} \ {None})
  IN
  /\ Fault
  /\ watch'  = WatchIdle
  /\ replay' = ReplayIdle
  /\ GiveUp(IF cursor = None THEN {} ELSE {t \in held : ~Newer(t, cursor)})
  /\ UNCHANGED <<feed, now, ledger, cursor, outbox, orders, baseline>>

-----------------------------------------------------------------------------
Init ==
  /\ feed     = <<>>
  /\ now      \in {t \in Times : \A u \in Times : t <= u}
  /\ ledger   = {}
  /\ cursor   = None
  /\ watch    = WatchIdle
  /\ outbox   = [t \in Trades |-> None]
  /\ replay   = ReplayIdle
  /\ orders   = [t \in Trades |-> [r \in Relations |-> 0]]
  /\ baseline = None
  /\ missed   = {}
  /\ lost     = {}
  /\ faults   = 0

Next ==
  \/ Watch \/ WatchBootErr \/ WatchPageErr \/ WatchWriteErr \/ WatchMarkErr \/ StoreErr
  \/ Replay \/ ReplayErr
  \/ Trade \/ Tick \/ Crash

\* Both workers are endless loops over an interval.
Fairness == WF_vars(Watch) /\ WF_vars(Replay)

Spec     == Init /\ [][Next]_vars
FairSpec == Spec /\ Fairness

-----------------------------------------------------------------------------
\* Properties

\* Every variable keeps its type; the cursor and the history sets only name
\* trades that happened.
TypeOK ==
  /\ feed \in Seq(Trades) /\ now \in Times
  /\ ledger \subseteq Trades
  /\ cursor \in Trades \cup {None} /\ baseline \in Trades \cup {None}
  /\ watch \in WatchTasks /\ replay \in ReplayTasks
  /\ outbox \in [Trades -> Rows \cup {None}]
  /\ orders \in [Trades -> [Relations -> Nat]]
  /\ missed \subseteq Trades /\ lost \subseteq Trades
  /\ faults \in 0 .. MaxFaults

Queued(t) == \A r \in Relations : orders[t][r] > 0
InHand(t) == t \in watch.todo \cup watch.out \/ t = watch.hand

\* However often a signal is posted (a retry after a lost answer, a trade
\* fetched again, an outbox row that could not be marked), a relation gets
\* one copy order for it; and "a trade that is not written is not signalled":
\* hot would count it as not covered and signal it a second time.
SignalledOnce == \A t \in Trades :
  /\ \A r \in Relations : orders[t][r] <= 1
  /\ outbox[t] # None \/ (\E r \in Relations : orders[t][r] > 0) => t \in ledger

\* What the composite cursor cannot tell: the trade t and another one of its
\* second have ids in the opposite order of time.
OutOfOrder(t) == \E i, j \in DOMAIN feed :
  /\ i < j /\ t \in {feed[i], feed[j]}
  /\ feed[i].ts = feed[j].ts /\ feed[i].id > feed[j].id

\* The other half of the pact with hot: a trade in the ledger, which hot takes
\* for signalled, is on its way to follow, queued for every relation, or in
\* the outbox, unless a named fault has lost it or its id is out of order
\* within its second.
CoveredIsSignalled == \A t \in ledger :
  \/ cursor = None \/ ~Newer(t, baseline) \/ OutOfOrder(t)
  \/ InHand(t) \/ Queued(t) \/ outbox[t] # None
  \/ t \in lost \/ Newer(t, cursor)

\* The cursor never passes a trade by: whatever happened after the bootstrap
\* and is not newer than the cursor has been taken up, unless a named fault or
\* a burst beyond MaxPages left it behind, or its id is out of order within its
\* second.
NothingSkipped == cursor # None => \A t \in Happened :
  Newer(t, baseline) /\ ~Newer(t, cursor) =>
    t \in ledger \/ InHand(t) \/ t \in missed \/ OutOfOrder(t)

\* Violated: "the composite cursor removes the trades missed within a second"
\* (raw.rs): a trade of the cursor's second that happens after it is taken up
\* or will still be fetched.  Its id is a hash, and a smaller one is old.
SameSecondSeen == cursor # None => \A i, j \in DOMAIN feed :
  feed[i] = cursor /\ i < j /\ feed[j].ts = cursor.ts =>
    \/ Newer(feed[j], cursor)
    \/ feed[j] \in ledger \/ InHand(feed[j]) \/ feed[j] \in missed

\* Once no new signal comes, the outbox drains: every row is delivered or
\* dead-lettered in the end, also when follow stays down.
OutboxDrains == <>[](Pending = {})
=============================================================================
