------------------------------ MODULE Portfolio ------------------------------
(***************************************************************************)
(* What GET /me/portfolio of the copier makes of a user's executions: lots *)
(* first in, first out, realised profit by follow and by day, the open     *)
(* positions, and the cash of the wallet from whichever source answers.    *)
(*                                                                         *)
(* The page is computed anew for each request: it is a function of the     *)
(* rows of copy_execution, which CopyOrders writes, and of the period.     *)
(***************************************************************************)
EXTENDS Integers, Sequences, FiniteSetsExt, Functions

CONSTANTS
  Tokens, Follows, Sizes, Prices, Fees,
  PeriodDays,          \* length of the period with a cutoff
  MaxExecs, MaxDay     \* bounds: executions, days

VARIABLES
  execs,   \* copy_execution with the follow of its order, by executed_at
  today

portfolioVars == <<execs, today>>

Init == execs = <<>> /\ today = 0

\* What the books take (record_fill, report_result); the column admits "buy" and "sell".
Executed(e) ==
  /\ Len(execs) < MaxExecs
  /\ execs' = Append(execs, e)
  /\ UNCHANGED today

DayPasses ==
  /\ today < MaxDay
  /\ today' = today + 1
  /\ UNCHANGED execs

Next ==
  \/ \E k \in Tokens, f \in Follows, side \in {"buy", "sell"}, size \in Sizes, price \in Prices, fee \in Fees :
       Executed([token |-> k, follow |-> f, side |-> side, size |-> size, price |-> price, fee |-> fee,
                 day |-> today])
  \/ DayPasses

Spec == Init /\ [][Next]_portfolioVars

----------------------------------------------------------------------------
(* The page of a period, "cut" or "all". *)

Periods == {"cut", "all"}
Since(period) == IF period = "all" THEN 0 ELSE today - PeriodDays
InRange(period) == {i \in DOMAIN execs : execs[i].day >= Since(period)}

IsBuy(e)  == e.side = "BUY"
IsSell(e) == e.side = "SELL"

\* The oldest lots first; what no lot covers costs nothing.
Take(a, lot) ==
  LET take == Min({a.remain, lot.size})
  IN [remain |-> a.remain - take, cost |-> a.cost + take * lot.cost,
      queue |-> IF lot.size = take THEN a.queue ELSE Append(a.queue, [lot EXCEPT !.size = @ - take])]
Consume(queue, size) ==
  LET taken[i \in 0..Len(queue)] ==
        IF i = 0 THEN [remain |-> size, cost |-> 0, queue |-> <<>>] ELSE Take(taken[i - 1], queue[i])
  IN taken[Len(queue)]

NoLots == [lots |-> [k \in Tokens |-> <<>>], closed |-> <<>>]
Apply(a, e) ==
  IF IsBuy(e)
  THEN [a EXCEPT !.lots[e.token] = Append(@, [size |-> e.size, cost |-> e.price])]
  ELSE LET c == Consume(a.lots[e.token], e.size)
       IN [a EXCEPT !.lots[e.token] = c.queue,
                    !.closed = Append(@, [pnl |-> e.price * e.size - c.cost - e.fee, follow |-> e.follow, day |-> e.day])]
Rebuilt(period) ==
  LET built[i \in 0..Len(execs)] ==
        IF i = 0 THEN NoLots ELSE IF i \in InRange(period) THEN Apply(built[i - 1], execs[i]) ELSE built[i - 1]
  IN built[Len(execs)]

\* The profit of some of the closings.
Pnl(closed, S) == SumFunctionOnSet([i \in DOMAIN closed |-> closed[i].pnl], S)

TotalPnl(period) == LET closed == Rebuilt(period).closed IN Pnl(closed, DOMAIN closed)
ByFollow(period, f) ==
  LET closed == Rebuilt(period).closed IN Pnl(closed, {i \in DOMAIN closed : closed[i].follow = f})
Held(period, k) ==
  LET lots == Rebuilt(period).lots[k] IN SumFunction([i \in DOMAIN lots |-> lots[i].size])
SellNotional(period) ==
  SumFunctionOnSet([i \in DOMAIN execs |-> execs[i].size * execs[i].price],
                   {i \in InRange(period) : IsSell(execs[i])})

\* The lots are rebuilt a second time for the curve, which has a point for each day with a close.
CurveDays(period) == LET closed == Rebuilt(period).closed IN {closed[i].day : i \in DOMAIN closed}
EquityOn(period, d) ==
  LET closed == Rebuilt(period).closed IN Pnl(closed, {i \in DOMAIN closed : closed[i].day <= d})

----------------------------------------------------------------------------
(* The wallet: the venue's balance, or the chain's with a note. *)

NoCash == [cash |-> "none", note |-> TRUE]
Fallback(chain) == [cash |-> IF chain = "answers" THEN "chain" ELSE "none", note |-> TRUE]

\* An offline credential's keys are placeholders: the venue is not asked.
WalletView(credential, clob, chain) ==
  IF credential = "offline" THEN Fallback(chain)
  ELSE IF credential = "unreadable" THEN NoCash
  ELSE IF clob = "answers" THEN [cash |-> "clob", note |-> FALSE]
  ELSE Fallback(chain)

----------------------------------------------------------------------------
\* Executions have the sides that their column admits.
TypeOK ==
  /\ today \in 0..MaxDay /\ Len(execs) <= MaxExecs
  /\ \A i \in DOMAIN execs : execs[i].side \in {"buy", "sell"} /\ execs[i].day \in 0..today

\* The figures of one page agree: the curve ends at the total, the follows add up to it, and cash
\* that is not what can be spent at the venue carries a note (routes.rs:519, 568, 685).
ViewsAgree ==
  /\ \A p \in Periods :
       /\ CurveDays(p) # {} => EquityOn(p, Max(CurveDays(p))) = TotalPnl(p)
       /\ TotalPnl(p) = SumFunction([f \in Follows |-> ByFollow(p, f)])
  /\ \A credential \in {"offline", "unreadable", "live"}, clob, chain \in {"answers", "fails"} :
       LET w == WalletView(credential, clob, chain)
       IN ~w.note <=> w.cash = "clob" /\ credential = "live"
=============================================================================
