--------------------------- MODULE PositionLedger ---------------------------
(***************************************************************************)
(* What crates/perf makes of the trades of one trader: positions replayed  *)
(* from the trades (timeline.rs), an equity curve sampled from the         *)
(* positions (equity.rs) and performance figures (metrics.rs).             *)
(*                                                                         *)
(* The worker replays all trades of the trader each time; replaying one    *)
(* more trade is one more step of the same fold, so the state is what the  *)
(* replay has made of the trades so far ("book"), beside what a bookkeeper *)
(* notes of them ("notes").  The figures are functions of the book.        *)
(* Settlements are left out: the worker passes none (workers/perf.rs:209). *)
(* Money is counted in whole units; what an average cost loses by it is    *)
(* noted.                                                                  *)
(***************************************************************************)
EXTENDS Integers, Sequences, SequencesExt, FiniteSetsExt, Functions

CONSTANTS
  Tokens, Sizes, Prices,
  Steps,          \* sampling steps of the curve: an hour, a day
  MaxTrades, MaxNow \* bounds: trades, time

VARIABLES
  book,   \* the accumulator of each token, Fresh before its first trade
  notes,  \* history of each token: what is held, paid, earned, and lost by averages
  first,  \* time of the first trade of all
  now,
  left    \* bound: trades that may still happen

Never == -1

----------------------------------------------------------------------------
(* timeline.rs: one position per token, replayed trade by trade. *)

Fresh == [opened |-> Never, closed |-> Never, segment |-> Never, held |-> <<>>, isClosed |-> FALSE,
          bought |-> 0, sold |-> 0, avg |-> 0, realized |-> 0, running |-> 0]

\* A trade after the close starts a new segment; closed keeps the time of the old one.
Reopen(p, t) ==
  IF p.isClosed
  THEN [p EXCEPT !.isClosed = FALSE, !.opened = t.ts, !.segment = t.ts, !.running = 0, !.avg = 0]
  ELSE IF t.side = "BUY"
  THEN [p EXCEPT !.opened = IF @ = Never THEN t.ts ELSE @, !.segment = IF @ = Never THEN t.ts ELSE @]
  ELSE p

Buy(p, t) ==
  LET size == p.running + t.size
  IN [p EXCEPT !.running = size, !.bought = @ + t.size,
               !.avg = (@ * p.running + t.price * t.size) \div size]

CloseSegment(p, at) ==
  [p EXCEPT !.held = IF p.segment # Never /\ at > p.segment THEN Append(@, at - p.segment) ELSE @,
            !.segment = Never, !.isClosed = TRUE, !.closed = at]

\* Mutant: what is not held is sold all the same.
SellAll(p, t) ==
  LET less == [p EXCEPT !.realized = @ + (t.price - p.avg) * t.size, !.running = @ - t.size, !.sold = @ + t.size]
  IN IF less.running <= 0 THEN CloseSegment([less EXCEPT !.running = 0], t.ts) ELSE less

\* What is not held cannot be sold: the rest of the size is dropped.
Sell(p, t) ==
  LET size == Min({t.size, p.running})
      less == [p EXCEPT !.realized = @ + (t.price - p.avg) * size, !.running = @ - size, !.sold = @ + size]
  IN IF less.running = 0 THEN CloseSegment(less, t.ts) ELSE less

Replay(p, t) == LET q == Reopen(p, t) IN IF t.side = "BUY" THEN Buy(q, t) ELSE Sell(q, t)

\* What the average of a purchase loses as a whole number.
Rounded(p, t) ==
  IF t.side = "BUY" THEN (p.avg * p.running + t.price * t.size) % (p.running + t.size) ELSE 0

\* What a bookkeeper notes of a trade; only what is held can be sold.
Unnoted == [held |-> 0, cash |-> 0, paid |-> 0, rounded |-> 0, last |-> 0, since |-> Never, sales |-> 0,
            resumed |-> FALSE]
Note(n, t, loss) ==
  LET held == IF t.side = "BUY" THEN n.held + t.size ELSE Max({0, n.held - t.size})
  IN [held    |-> held,
      cash    |-> n.cash + (n.held - held) * t.price,
      paid    |-> n.paid + (IF t.side = "BUY" THEN t.size * t.price ELSE 0),
      rounded |-> n.rounded + loss,
      last    |-> t.price,
      since   |-> IF n.since = Never THEN t.ts ELSE n.since,
      sales   |-> n.sales + (IF t.side = "SELL" THEN 1 ELSE 0),
      resumed |-> n.resumed \/ (n.sales > 0 /\ (t.side = "BUY" \/ n.held = 0))]

Trade(k, side, size, price) ==
  LET t == [side |-> side, size |-> size, price |-> price, ts |-> now] IN
  /\ left > 0 /\ left' = left - 1
  /\ book'  = [book EXCEPT ![k] = Replay(@, t)]
  /\ notes' = [notes EXCEPT ![k] = Note(@, t, Rounded(Reopen(book[k], t), t))]
  /\ first' = IF first = Never THEN now ELSE first
  /\ UNCHANGED now

TimePasses ==
  /\ first # Never /\ now < MaxNow
  /\ now' = now + 1
  /\ UNCHANGED <<book, notes, first, left>>

Init ==
  /\ book = [k \in Tokens |-> Fresh] /\ notes = [k \in Tokens |-> Unnoted]
  /\ first = Never /\ now = 0 /\ left = MaxTrades

Next ==
  \/ \E k \in Tokens, side \in {"BUY", "SELL"}, size \in Sizes, price \in Prices : Trade(k, side, size, price)
  \/ TimePasses

Traded == {k \in Tokens : notes[k].since # Never}

----------------------------------------------------------------------------
(* equity.rs: the curve from the first trade to now; without marks, a      *)
(* position is worth its cost.                                             *)

Earned == [k \in Tokens |-> book[k].realized]
Cost   == [k \in Tokens |-> book[k].running * book[k].avg]

Truncate(at, step) == first + ((at - first) \div step) * step

Realized(ts, step) ==
  SumFunctionOnSet(Earned, {k \in Traded : book[k].closed # Never /\ Truncate(book[k].closed, step) <= ts})
OpenValue(ts) ==
  SumFunctionOnSet(Cost, {k \in Traded : /\ book[k].opened # Never /\ book[k].opened <= ts
                                         /\ book[k].closed = Never \/ book[k].closed > ts})

Equity(step) == [i \in 1..((now - first) \div step + 1) |->
                   LET ts == first + (i - 1) * step IN Realized(ts, step) + OpenValue(ts)]

\* What each point adds to the one before.
DailyPnl(curve) == [i \in DOMAIN curve |-> curve[i] - (IF i = 1 THEN 0 ELSE curve[i - 1])]

\* Drawdowns are pairs <<loss, peak>>: of a point of the curve below the peak so far, and the
\* worse of two.
Drawdown(curve, i) ==
  LET peak == Max({0} \cup {curve[j] : j \in 1..i}) IN <<peak - curve[i], peak>>
Worse(d, e) == IF e[2] > 0 /\ e[1] * d[2] > d[1] * e[2] THEN e ELSE d

\* What the pages show of a stored curve: one point of each day, stamped with the day's begin, or
\* days before a time and points from it on.  The sparklines take the last of a day; the curve's
\* ORDER BY ts means the stamp, not the point's time, so any point may stand for its day.
Ascending(S) == CHOOSE s \in [1..Cardinality(S) -> S] : \A i, j \in DOMAIN s : i < j => s[i] < s[j]
Days(points, day) == {p.ts \div day : p \in ToSet(points)}
Picks(points, day) ==
  {pick \in [Days(points, day) -> ToSet(points)] : \A d \in Days(points, day) : pick[d].ts \div day = d}
LastOfDay(points, day) ==
  CHOOSE pick \in Picks(points, day) : \A p \in ToSet(points) : p.ts <= pick[p.ts \div day].ts
ByDay(points, day, pick) ==
  LET days == Ascending(Days(points, day))
  IN [i \in DOMAIN days |-> [ts |-> days[i] * day, equity |-> pick[days[i]].equity]]

Kept(points, S) == LET at == Ascending(S) IN [i \in DOMAIN at |-> points[at[i]]]
Before(points, from) == Kept(points, {i \in DOMAIN points : points[i].ts < from})
Auto(points, day, from, pick) ==
  ByDay(Before(points, from), day, pick) \o Kept(points, {i \in DOMAIN points : points[i].ts >= from})

\* A sparkline of n points takes every n / max-th and the last.
Sparkline(n, max) ==
  IF n <= max THEN [i \in 1..n |-> i] ELSE Append([i \in 1..max |-> ((i - 1) * n) \div max + 1], n)

----------------------------------------------------------------------------
(* metrics.rs: the figures of a period, from its positions and its curve. *)

Performance ==
  [realized   |-> SumFunctionOnSet(Earned, Traded),
   unrealized |-> SumFunctionOnSet([k \in Tokens |-> book[k].running * (notes[k].last - book[k].avg)],
                                   {k \in Traded : ~book[k].isClosed}),
   cost       |-> SumFunctionOnSet([k \in Tokens |-> book[k].bought * book[k].avg], Traded)]

\* The greatest drawdown, from the daily results: they are added up again.
MaxDrawdown(pnls) ==
  LET run[i \in 0..Len(pnls)] ==
        IF i = 0 THEN [equity |-> 0, peak |-> 0, worst |-> <<0, 1>>]
        ELSE LET last   == run[i - 1]
                 equity == last.equity + pnls[i]
                 peak   == Max({last.peak, equity})
             IN [equity |-> equity, peak |-> peak, worst |-> Worse(last.worst, <<peak - equity, peak>>)]
  IN run[Len(pnls)].worst

----------------------------------------------------------------------------
SoldInPart == \E k \in Traded : book[k].running > 0 /\ notes[k].sales > 0
Resumed    == \E k \in Traded : notes[k].resumed

\* Columns and counters have their types.
TypeOK ==
  /\ now \in 0..MaxNow /\ first \in Never..now /\ left \in 0..MaxTrades
  /\ \A k \in Tokens : book[k].closed \in Never..now /\ book[k].bought \in Nat /\ book[k].avg \in Nat

\* The open size is what the trades leave, whatever was sold short of the history that was
\* fetched, and a position is closed exactly when nothing is held (timeline.rs:86, 120).
PositionsAreHeld ==
  \A k \in Traded : /\ book[k].running = notes[k].held
                    /\ book[k].isClosed <=> book[k].running = 0
                    /\ book[k].bought - book[k].sold = book[k].running

\* Realised and unrealised profit are the cash that came in plus what the holdings would bring
\* at the last price, through closes, reopenings and averages, but for what the averages lost
\* (metrics.rs:5).
MoneyAddsUp ==
  Performance.realized + Performance.unrealized =
    SumFunctionOnSet([k \in Tokens |-> notes[k].cash + notes[k].held * notes[k].last + notes[k].rounded], Traded)

\* The cost basis is what was paid, as metrics.rs:6 has it, unless a token was bought again
\* after a sale or traded after its close: bought counts every segment, the average only the
\* present one.
BasisIsPaid ==
  ~Resumed => Performance.cost = SumFunctionOnSet([k \in Tokens |-> notes[k].paid - notes[k].rounded], Traded)

\* Both samplings of the curve end at the same worth once every closing falls on both: realised
\* profit plus the cost of what is held, but for a token that is held after a sale
\* (equity.rs:53, 74).
EquityIsWhole ==
  \A step \in Steps :
    first # Never /\ (now - first) % step = 0 /\ ~SoldInPart
      => Equity(step)[Len(Equity(step))] = Performance.realized + SumFunctionOnSet(Cost, Traded)

\* The drawdown of the figures, which knows the daily results only, is the deepest drawdown of
\* the curve's points (equity.rs:90, metrics.rs:145).
DrawdownsAgree ==
  \A step \in Steps : first # Never =>
    LET curve == Equity(step)
        worst == MaxDrawdown(DailyPnl(curve))
    IN /\ \A i \in DOMAIN curve : Worse(worst, Drawdown(curve, i)) = worst
       /\ worst = <<0, 1>> \/ \E i \in DOMAIN curve : worst = Drawdown(curve, i)

\* Segments held do not overlap: together they fit between the first trade and the last close.
SegmentsFit ==
  \A k \in Traded : LET p == book[k] IN
    p.held # <<>> => SumFunction(p.held) <= p.closed - notes[k].since

\* However a curve is thinned out, it goes forward in time; it ends at the same worth where the
\* last points are kept, and a sparkline keeps both ends and shows no point twice
\* (queries/perf.rs:726, 772, traders.rs:238).
CurvesAreKept ==
  first # Never /\ now = MaxNow =>
    \A day \in Steps :
      LET curve   == [i \in DOMAIN Equity(1) |-> [ts |-> first + i - 1, equity |-> Equity(1)[i]]]
          worth   == curve[Len(curve)].equity
          Forward(shown) == \A i \in 1..Len(shown) - 1 : shown[i].ts < shown[i + 1].ts
      IN /\ \A pick \in Picks(curve, day) : Forward(ByDay(curve, day, pick))
         /\ LET shown == ByDay(curve, day, LastOfDay(curve, day))
            IN shown[Len(shown)].equity = worth
         /\ \A from \in first..now : \A pick \in Picks(Before(curve, from), day) :
              LET shown == Auto(curve, day, from, pick)
              IN Forward(shown) /\ shown[Len(shown)].equity = worth
SamplesAreKept ==
  \A n \in 1..2 * MaxTrades, max \in 1..MaxTrades :
    LET s == Sparkline(n, max)
    IN s[1] = 1 /\ s[Len(s)] = n /\ \A i \in 1..Len(s) - 1 : s[i] < s[i + 1]

LedgerAddsUp ==
  /\ PositionsAreHeld /\ SegmentsFit
  /\ MoneyAddsUp /\ BasisIsPaid
  /\ EquityIsWhole /\ DrawdownsAgree
  /\ CurvesAreKept /\ SamplesAreKept
=============================================================================
