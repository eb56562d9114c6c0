----------------------------- MODULE TraderRows -----------------------------
(***************************************************************************)
(* The rows that the page of one trader is made of, and who writes them:   *)
(* ingest and the official_pnl worker from the venue's leaderboards and    *)
(* portfolio values, the perf worker from the recorded trades.  None takes *)
(* a lock, each write is a statement of its own, and a failed write is     *)
(* logged and passed over.                                                 *)
(*                                                                         *)
(* Two periods stand for the six, "1m" for those with a cutoff and "all";  *)
(* "C" stands for the categories beside OVERALL.  A figure is the set of   *)
(* trades it is computed from.                                             *)
(***************************************************************************)
EXTENDS Integers, Sequences, FiniteSetsExt

CONSTANTS
  Days,       \* length of the period with a cutoff
  Interval,   \* least time between two portfolio snapshots
  MaxTrades, MaxNow, MaxRounds, MaxFaults  \* bounds: trades, time, rounds of the workers and imports, faults

VARIABLES
  raw,      \* raw_trades of the trader, in the order of insertion: day and category
  seen,     \* the trader's row: absent or visible
  rows,     \* trader_performance by period and category
  pages,    \* equity curve, position timeline and tags
  snaps,    \* times of the portfolio snapshots
  perf, official, ingest,  \* the workers' locals
  now,
  rounds, faults,
  whole,    \* history: the last pass of the perf worker, if it wrote all it should
  boarded   \* history: periods the trader was seen on the board of

hubVars == <<raw, seen, rows, pages, snaps, perf, official, ingest, now, rounds, faults, whole, boarded>>

Periods == {"1m", "all"}
Keys    == Periods \X {"OVERALL", "C"}
NoRow   == [self |-> "none", of |-> {}, official |-> "none"]
NoPass  == [done |-> FALSE, of |-> {}, at |-> 0, mapped |-> FALSE]
Resting == [pc |-> "idle", todo |-> <<>>, of |-> {}, at |-> 0, mapped |-> FALSE, ok |-> TRUE]
Off     == [todo |-> <<>>, at |-> 0, hit |-> {}]

Init ==
  /\ raw = <<>> /\ seen = "absent"
  /\ rows = [k \in Keys |-> NoRow] /\ pages = [p \in {"curve", "timeline", "tags"} |-> {}] /\ snaps = {}
  /\ perf = Resting /\ official = Off /\ ingest = <<>>
  /\ now = 0 /\ rounds = MaxRounds /\ faults = MaxFaults /\ whole = NoPass /\ boarded = {}

Round == rounds > 0 /\ rounds' = rounds - 1

----------------------------------------------------------------------------
(* What others write: trades by backfill and trade_watch, the trader's row  *)
(* by imports.                                                              *)

Recorded(day, cat) ==
  /\ Len(raw) < MaxTrades
  /\ raw' = Append(raw, [day |-> day, cat |-> cat])
  /\ UNCHANGED <<seen, rows, pages, snaps, perf, official, ingest, now, rounds, faults, whole, boarded>>

\* An import.  Of a trader that operators hide no pass starts; at any time none may start.
Appears ==
  /\ seen = "absent"
  /\ seen' = "visible"
  /\ UNCHANGED <<raw, rows, pages, snaps, perf, official, ingest, now, rounds, faults, whole, boarded>>

\* An import ends with a snapshot of the portfolio.
SnapPortfolio ==
  /\ seen # "absent" /\ now \notin snaps /\ Round
  /\ snaps' = snaps \cup {now}
  /\ UNCHANGED <<raw, seen, rows, pages, perf, official, ingest, now, faults, whole, boarded>>

Passes ==
  /\ now < MaxNow
  /\ now' = now + 1
  /\ UNCHANGED <<raw, seen, rows, pages, snaps, perf, official, ingest, rounds, faults, whole, boarded>>

----------------------------------------------------------------------------
(* ingest: a category's board, one period at a time. *)

\* The figures of the board show until the perf worker has computed the row.
SeedCategory(k) ==
  rows' = [rows EXCEPT ![k] = [rows[k] EXCEPT !.self = IF @ = "worker" THEN @ ELSE "seed", !.official = "board"]]

StartIngest(p) ==
  /\ ingest = <<>> /\ Round
  /\ ingest' = <<[do |-> "category", p |-> p], [do |-> "trader", p |-> p]>>
  /\ UNCHANGED <<raw, seen, rows, pages, snaps, perf, official, now, faults, whole, boarded>>

\* Only where there is no row.
SeedTrader ==
  rows' = [rows EXCEPT ![<<"all", "OVERALL">>] = IF @ = NoRow THEN [NoRow EXCEPT !.self = "seed"] ELSE @]

\* A trader new to the table gets a figure for "all" at once; never again if that write is lost.
Ingest(ok) ==
  /\ ingest # <<>>
  /\ LET task == Head(ingest) IN
     /\ IF task.do = "category" /\ ok THEN SeedCategory(<<task.p, "C">>)
        ELSE IF task.do = "seed" /\ ok THEN SeedTrader
        ELSE UNCHANGED rows
     /\ seen' = IF task.do = "trader" /\ ok /\ seen = "absent" THEN "visible" ELSE seen
     /\ ingest' = IF task.do = "trader" /\ seen' # seen THEN <<[do |-> "seed", p |-> task.p]>> ELSE Tail(ingest)
  /\ UNCHANGED <<raw, pages, snaps, perf, official, now, rounds, faults, whole, boarded>>

----------------------------------------------------------------------------
(* perf: all trades read once; curve, then each period with its categories. *)

Window(p, at, S) == IF p = "all" THEN S ELSE {i \in S : raw[i].day >= at - Days}
InC(S) == {i \in S : raw[i].cat = "C"}

Page(name, S) == [page |-> name, key |-> <<>>, of |-> S]
RowOf(k, S)   == [page |-> "row", key |-> k, of |-> S]

ForPeriod(p, S, mapped) ==
  IF S = {} THEN <<>>
  ELSE <<Page("timeline", S), RowOf(<<p, "OVERALL">>, S)>>
       \o (IF p = "all" THEN <<Page("tags", S)>> ELSE <<>>)
       \o (IF mapped /\ InC(S) # {} THEN <<RowOf(<<p, "C">>, InC(S))>> ELSE <<>>)

\* Mutant: the periods the other way round.
PlanReversed(S, at, mapped) == ForPeriod("all", S, mapped) \o ForPeriod("1m", Window("1m", at, S), mapped)

\* "all" is last: the timeline is replaced for each period and keeps the last.
Plan(S, at, mapped) == ForPeriod("1m", Window("1m", at, S), mapped) \o ForPeriod("all", S, mapped)

\* A tick lists the visible traders and fixes the time for all of them.
StartPerf ==
  /\ perf.pc = "idle" /\ seen = "visible" /\ Round
  /\ perf' = [Resting EXCEPT !.pc = "read", !.at = now]
  /\ UNCHANGED <<raw, seen, rows, pages, snaps, official, ingest, now, faults, whole, boarded>>

ReadTrades ==
  /\ perf.pc = "read"
  /\ perf' = IF raw = <<>> THEN Resting
             ELSE [perf EXCEPT !.pc = "curve", !.of = DOMAIN raw, !.todo = <<Page("curve", DOMAIN raw)>>]
  /\ whole' = NoPass
  /\ UNCHANGED <<raw, seen, rows, pages, snaps, official, ingest, now, rounds, faults, boarded>>

\* raw_markets may not know the category of C's markets yet, or not answer; then only OVERALL
\* is computed.
MapCategories(mapped) ==
  /\ perf.pc = "curve" /\ perf.todo = <<>>
  /\ perf' = [perf EXCEPT !.pc = "rows", !.mapped = mapped, !.todo = Plan(perf.of, perf.at, mapped)]
  /\ UNCHANGED <<raw, seen, rows, pages, snaps, official, ingest, now, rounds, faults, whole, boarded>>

\* A row keeps what the other workers wrote of it.
WriteNext ==
  /\ perf.todo # <<>>
  /\ LET w == Head(perf.todo) IN
     IF w.page = "row"
     THEN rows' = [rows EXCEPT ![w.key] = [@ EXCEPT !.self = "worker", !.of = w.of]] /\ UNCHANGED pages
     ELSE pages' = [pages EXCEPT ![w.page] = w.of] /\ UNCHANGED rows
  /\ perf' = [perf EXCEPT !.todo = Tail(@)]
  /\ UNCHANGED <<raw, seen, snaps, official, ingest, now, rounds, faults, whole, boarded>>

WriteFails ==
  /\ perf.todo # <<>> /\ faults > 0
  /\ faults' = faults - 1
  /\ perf' = [perf EXCEPT !.todo = Tail(@), !.ok = FALSE]
  /\ UNCHANGED <<raw, seen, rows, pages, snaps, official, ingest, now, rounds, whole, boarded>>

EndPerf ==
  /\ perf.pc = "rows" /\ perf.todo = <<>>
  /\ whole' = IF perf.ok THEN [done |-> TRUE, of |-> perf.of, at |-> perf.at, mapped |-> perf.mapped] ELSE NoPass
  /\ perf' = Resting
  /\ UNCHANGED <<raw, seen, rows, pages, snaps, official, ingest, now, rounds, faults, boarded>>

----------------------------------------------------------------------------
(* official_pnl: boards of OVERALL, boards of categories, a snapshot, deltas. *)

Task(do, p) == [do |-> do, p |-> p]
Rounds == <<Task("board", "1m"), Task("board", "all"), Task("category", "1m"), Task("category", "all"),
            Task("snap", ""), Task("delta", "1m"), Task("delta", "all")>>

StartOfficial ==
  /\ official.todo = <<>> /\ seen = "visible" /\ Round
  /\ official' = [todo |-> Rounds, at |-> now, hit |-> {}]
  /\ UNCHANGED <<raw, seen, rows, pages, snaps, perf, ingest, now, faults, whole, boarded>>

\* A row that only carries the official figure has zeroes for its own.
SetOfficial(k, source) ==
  rows' = [rows EXCEPT ![k] = [rows[k] EXCEPT !.self = IF @ = "none" THEN "empty" ELSE @, !.official = source]]

\* Two points that span enough of the period: half of it, anything for "all".
HasDelta(p, at) ==
  LET since  == IF p = "all" THEN 0 ELSE at - Days
      before == {s \in snaps : s <= since}
      base   == IF before # {} THEN Max(before) ELSE Min(snaps)
  IN /\ snaps # {} /\ base # Max(snaps)
     /\ p = "1m" => 2 * (Max(snaps) - Max({base, since})) >= Days

\* A snapshot is taken of those without a recent one.
SnapDue(at) == \A s \in snaps : s < at - Interval

\* Only for a period whose board does not have the trader, and never over a board's figure.
SetDelta(p) ==
  IF p \notin official.hit /\ HasDelta(p, official.at) /\ rows[<<p, "OVERALL">>].official # "board"
  THEN SetOfficial(<<p, "OVERALL">>, "delta") ELSE UNCHANGED rows

\* done: the trader is on the board, its write succeeds; the request for its value succeeds.
Official(done) ==
  /\ official.todo # <<>>
  /\ LET task == Head(official.todo)
         hits == task.do = "board" /\ done
     IN /\ IF hits THEN SetOfficial(<<task.p, "OVERALL">>, "board")
           ELSE IF task.do = "category" /\ done THEN SeedCategory(<<task.p, "C">>)
           ELSE IF task.do = "delta" /\ done THEN SetDelta(task.p)
           ELSE UNCHANGED rows
        /\ snaps' = IF task.do = "snap" /\ done /\ SnapDue(official.at)
                    THEN snaps \cup {official.at} ELSE snaps
        /\ boarded' = IF hits THEN boarded \cup {task.p} ELSE boarded
        /\ official' = [official EXCEPT !.todo = Tail(@), !.hit = IF hits THEN @ \cup {task.p} ELSE @]
  /\ UNCHANGED <<raw, seen, pages, perf, ingest, now, rounds, faults, whole>>

Crash ==
  /\ faults > 0 /\ faults' = faults - 1
  /\ perf.pc # "idle" \/ official.todo # <<>> \/ ingest # <<>>
  /\ perf' = Resting /\ official' = Off /\ ingest' = <<>>
  /\ UNCHANGED <<raw, seen, rows, pages, snaps, now, rounds, whole, boarded>>

Next ==
  \/ \E day \in 0..now, cat \in {"C", "other"} : Recorded(day, cat)
  \/ Appears \/ SnapPortfolio \/ Passes
  \/ \E p \in Periods : StartIngest(p)
  \/ StartPerf \/ ReadTrades \/ WriteNext \/ WriteFails \/ EndPerf
  \/ StartOfficial \/ Crash
  \/ \E b \in BOOLEAN : Ingest(b) \/ MapCategories(b) \/ Official(b)

----------------------------------------------------------------------------
\* Rows, pages and the workers' locals have their types.
TypeOK ==
  /\ \A k \in Keys : /\ rows[k].self \in {"none", "empty", "seed", "worker"}
                     /\ rows[k].of \subseteq DOMAIN raw
                     /\ rows[k].official \in {"none", "board", "delta"}
  /\ \A p \in DOMAIN pages : pages[p] \subseteq DOMAIN raw
  /\ perf.pc \in {"idle", "read", "curve", "rows"} /\ official.hit \subseteq boarded
  /\ snaps \subseteq 0..now /\ rounds \in 0..MaxRounds /\ faults \in 0..MaxFaults

\* list_leaderboard: without a row of the period, the row of "all" shows.
Displayed(p, c) ==
  LET r == IF rows[<<p, c>>] # NoRow THEN rows[<<p, c>>] ELSE rows[<<"all", c>>] IN [self |-> r.self, of |-> r.of]

\* After a pass of the perf worker that wrote all it should, the curve, the timeline and the
\* tags are of all its trades, and each period with trades shows the worker's own figures of
\* that period, whatever ingest and official_pnl write before or after (perf.rs:296, 301; queries/perf.rs:373).
FiguresAreWhole ==
  whole.done =>
    /\ \A p \in DOMAIN pages : pages[p] = whole.of
    /\ \A p \in Periods :
         LET S == Window(p, whole.at, whole.of) IN
         /\ S # {} => Displayed(p, "OVERALL") = [self |-> "worker", of |-> S]
         /\ whole.mapped /\ InC(S) # {} => Displayed(p, "C") = [self |-> "worker", of |-> InC(S)]

\* A figure of the venue's board is never replaced by an estimate from portfolio values, in
\* whichever rounds the two are written (queries/perf.rs:467).
BoardsStay == \A p \in boarded : rows[<<p, "OVERALL">>].official = "board"

RowsAreTrue == FiguresAreWhole /\ BoardsStay
=============================================================================
