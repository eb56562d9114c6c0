--------------------------- MODULE TradeBackfill ---------------------------
(***************************************************************************)
(* How the past trades of one trader come into raw_trades: an import by a  *)
(* user or an operator, and the backfill worker that comes back to every   *)
(* trader it has not visited for the refresh window.  Both take the newest *)
(* page, insert row by row and mark the trader as visited.                 *)
(*                                                                         *)
(* A transaction has at most one row (uq_raw_trades_tx), whoever the row   *)
(* belongs to: another leg of it, a wallet on its other side, or the same  *)
(* trader imported under another spelling of the address.                  *)
(***************************************************************************)
EXTENDS Integers, Sequences

CONSTANTS
  Txs,        \* transactions
  Page,       \* trades that a fetch returns
  Refresh,    \* time after which a visited trader is visited again
  MaxTrades, MaxNow, MaxFaults  \* bounds: trades, time, failures and crashes

VARIABLES
  venue,   \* the transaction of each trade of the trader, in order
  rows,    \* raw_trades: the trade that the row of a transaction records
  trader,  \* its row in traders: if there is one, and when it was marked as visited
  job,     \* one import, of one address or of a batch, and the worker
  now, faults,
  visits,  \* history: how many trades there were at each fetch that was marked
  failed   \* history: trades whose insertion failed

vars == <<venue, rows, trader, job, now, faults, visits, failed>>

Never == -1
NoRow == 0
Other == -1   \* the row belongs to another address
Jobs  == {"import", "worker"}
Idle  == [pc |-> "idle", todo |-> <<>>, seen |-> 0, own |-> TRUE, rest |-> <<>>]

Init ==
  /\ venue = <<>> /\ rows = [tx \in Txs |-> NoRow]
  /\ trader = [seen |-> "absent", marked |-> Never]
  /\ job = [j \in Jobs |-> Idle]
  /\ now = 0 /\ faults = MaxFaults /\ visits = {} /\ failed = {}

----------------------------------------------------------------------------
(* The venue, and the rows that others write. *)

Happens(tx) ==
  /\ Len(venue) < MaxTrades
  /\ \A i \in 1..Len(venue) - 1 : venue[i] # tx   \* legs of a transaction come together
  /\ venue' = Append(venue, tx)
  /\ UNCHANGED <<rows, trader, job, now, faults, visits, failed>>

Record(tx, i) == rows' = [rows EXCEPT ![tx] = IF @ = NoRow THEN i ELSE @]

\* trade_watch records a trade of the trader, or of the wallet on the other side.
Watched(i, owner) ==
  /\ rows[venue[i]] = NoRow
  /\ Record(venue[i], owner)
  /\ UNCHANGED <<venue, trader, job, now, faults, visits, failed>>

Passes ==
  /\ now < MaxNow
  /\ now' = now + 1
  /\ UNCHANGED <<venue, rows, trader, job, faults, visits, failed>>

----------------------------------------------------------------------------
(* Import and worker. *)

Step(j, to) == job' = [job EXCEPT ![j] = to]
Fault == faults > 0 /\ faults' = faults - 1

\* An import upserts the trader and goes on with the address as it was written (own: as the
\* other workers spell it).  An upsert that changes nothing returns no row and ends the import.
StartImport(own) ==
  /\ job["import"].pc = "idle"
  /\ trader' = [trader EXCEPT !.seen = IF @ = "absent" THEN "visible" ELSE @]
  /\ Step("import", [Idle EXCEPT !.pc = "fetch", !.own = own])
  /\ UNCHANGED <<venue, rows, now, faults, visits, failed>>

\* A batch takes its items one after the other; one whose upsert fails is passed over.
Item(items) == [Idle EXCEPT !.pc = "fetch", !.own = Head(items), !.rest = Tail(items)]
NextItem(rest) == {Idle} \cup {Item(SubSeq(rest, i, Len(rest))) : i \in DOMAIN rest}

StartBatch(items) ==
  /\ job["import"].pc = "idle"
  /\ trader' = [trader EXCEPT !.seen = IF @ = "absent" THEN "visible" ELSE @]
  /\ Step("import", Item(items))
  /\ UNCHANGED <<venue, rows, now, faults, visits, failed>>

Due == trader.marked = Never \/ trader.marked < now - Refresh

\* Of a trader that operators hide no visit starts; at any time none may start.
StartVisit ==
  /\ job["worker"].pc = "idle"
  /\ trader.seen = "visible" /\ Due
  /\ Step("worker", [Idle EXCEPT !.pc = "fetch"])
  /\ UNCHANGED <<venue, rows, trader, now, faults, visits, failed>>

\* The newest trades of the first n, the newest first.
Newest(n) == LET size == IF n < Page THEN n ELSE Page IN [i \in 1..size |-> n + 1 - i]

\* Mutant: the trader is marked before its trades are inserted.
FetchAndMark(j) ==
  /\ job[j].pc = "fetch"
  /\ Step(j, [job[j] EXCEPT !.pc = "insert", !.todo = Newest(Len(venue)), !.seen = Len(venue)])
  /\ trader' = [trader EXCEPT !.marked = now]
  /\ visits' = visits \cup {Len(venue)}
  /\ UNCHANGED <<venue, rows, now, faults, failed>>

Fetch(j) ==
  /\ job[j].pc = "fetch"
  /\ Step(j, [job[j] EXCEPT !.pc = "insert", !.todo = Newest(Len(venue)), !.seen = Len(venue)])
  /\ UNCHANGED <<venue, rows, trader, now, faults, visits, failed>>

\* The worker leaves the trader unmarked for its next tick; the import marks it all the same.
FetchFails(j) ==
  /\ job[j].pc = "fetch" /\ Fault
  /\ Step(j, IF j = "import" THEN [job[j] EXCEPT !.pc = "insert"] ELSE Idle)
  /\ UNCHANGED <<venue, rows, trader, now, visits, failed>>

Insert(j) ==
  /\ job[j].pc = "insert" /\ job[j].todo # <<>>
  /\ LET i == Head(job[j].todo) IN Record(venue[i], IF job[j].own THEN i ELSE Other)
  /\ Step(j, [job[j] EXCEPT !.todo = Tail(@)])
  /\ UNCHANGED <<venue, trader, now, faults, visits, failed>>

\* A failed insertion is left out of the count and forgotten.
InsertFails(j) ==
  /\ job[j].pc = "insert" /\ job[j].todo # <<>> /\ Fault
  /\ failed' = failed \cup {Head(job[j].todo)}
  /\ Step(j, [job[j] EXCEPT !.todo = Tail(@)])
  /\ UNCHANGED <<venue, rows, trader, now, visits>>

Mark(j) ==
  /\ job[j].pc = "insert" /\ job[j].todo = <<>>
  /\ trader' = [trader EXCEPT !.marked = now]
  /\ visits' = visits \cup {job[j].seen}
  /\ \E next \in NextItem(job[j].rest) : Step(j, next)
  /\ UNCHANGED <<venue, rows, now, faults, failed>>

MarkFails(j) ==
  /\ job[j].pc = "insert" /\ job[j].todo = <<>> /\ Fault
  /\ \E next \in NextItem(job[j].rest) : Step(j, next)
  /\ UNCHANGED <<venue, rows, trader, now, visits, failed>>

Crash ==
  /\ \E j \in Jobs : job[j].pc # "idle"
  /\ Fault
  /\ job' = [j \in Jobs |-> Idle]
  /\ UNCHANGED <<venue, rows, trader, now, visits, failed>>

Next ==
  \/ \E tx \in Txs : Happens(tx)
  \/ \E i \in DOMAIN venue : Watched(i, i) \/ Watched(i, Other)
  \/ Passes
  \/ \E own \in BOOLEAN : StartImport(own) \/ StartBatch(<<own, ~own>>)
  \/ StartVisit
  \/ \E j \in Jobs : Fetch(j) \/ FetchFails(j) \/ Insert(j) \/ InsertFails(j) \/ Mark(j) \/ MarkFails(j)
  \/ Crash

----------------------------------------------------------------------------
\* Rows name trades that happened, and jobs and marks have their types.
TypeOK ==
  /\ Len(venue) <= MaxTrades
  /\ \A tx \in Txs : rows[tx] \in {Other, NoRow} \/ venue[rows[tx]] = tx
  /\ trader.seen \in {"absent", "visible"} /\ trader.marked \in Never..now
  /\ \A j \in Jobs : job[j].pc \in {"idle", "fetch", "insert"} /\ job[j].seen \in 0..Len(venue)

\* A trader that is marked as visited has been: each trade on the newest page of a fetch that
\* was marked has a row for its transaction, unless inserting it failed, whatever crashed
\* or ran beside it (backfill.rs:67, 134).
BackfilledIsWhole ==
  \A n \in visits : \A k \in DOMAIN Newest(n) :
    LET i == Newest(n)[k] IN rows[venue[i]] # NoRow \/ i \in failed
=============================================================================
