------------------------------ MODULE RiskGate ------------------------------
(***************************************************************************)
(* The gates a pending order passes before it is claimed                   *)
(* (services/copier/src/exec.rs process_one, risk.rs): the user's daily    *)
(* notional, open positions, rapid-flip guard and circuit breaker, the     *)
(* limits of its follow relation, and the cap on the copied net position   *)
(* (R1-C).                                                                 *)
(*                                                                         *)
(* Every gate is a statement over rows that other tasks keep changing: new *)
(* orders are queued, reconcile settles submitted ones, the time windows   *)
(* slide.  The orders are those of one user, the process is one copier     *)
(* (what several do to one row is in CopyOrders), and the price is 1, so   *)
(* that a size is a notional.  A limit of 0 is no limit, as in the code.   *)
(***************************************************************************)
EXTENDS Integers, Sequences, FiniteSets, FiniteSetsExt, Functions

CONSTANTS
  Regimes,     \* what the copier and the users may be set to, by name, records of
               \*   dryRun: COPIER_DRY_RUN
               \*   daily, open, flip, losses: effective_limits
               \*   followDaily, followOpen, ratio: FollowConfig
               \*   offers: the orders that may be queued, orders: bound, how many
               \*   positions: those the source trader is seen with
  Tokens, Follows,
  MaxFaults,   \* bound: database errors and crashes
  None

ASSUME LimitsAssumption ==
  /\ MaxFaults \in Nat /\ None \notin Int
  /\ \A name \in DOMAIN Regimes : LET r == Regimes[name] IN
       /\ {r.daily, r.open, r.flip, r.losses, r.followDaily, r.followOpen, r.ratio,
           r.orders} \subseteq Nat
       /\ r.offers \subseteq [token : Tokens, follow : Follows, side : {"buy", "sell"},
                              size : Nat \ {0}]
       /\ r.positions \subseteq Int /\ r.dryRun \in BOOLEAN

\* A user-level gate reads the whole user, a follow-level one the follow
\* relation; "follow" loads its FollowConfig.  The order is that of the code.
Gates == <<"daily", "open", "recent", "breaker", "follow", "followDaily", "followOpen", "cap">>

VARIABLES
  regime,      \* the name of the setting; it does not change
  rows,        \* copy_order of the user, in the order of enqueued_at
  execution,   \* copy_execution.filled_size by order, None without a row
  today,       \* the orders executed in the last 24 hours
  window,      \* the first order inside the rapid-flip window
  snapshot,    \* the source trader's latest position snapshot, by token
  peak,        \* history: the largest snapshot ever, by token
  unread,      \* history: orders that passed a follow gate it could not read
  exec,        \* the exec worker
  faults

vars == <<regime, rows, execution, today, window, snapshot, peak, unread, exec, faults>>

Setting        == Regimes[regime]
DailyMax       == Setting.daily
OpenMax        == Setting.open
FlipMax        == Setting.flip
LossLimit      == Setting.losses
FollowDailyMax == Setting.followDaily
FollowOpenMax  == Setting.followOpen
Ratio          == Setting.ratio
DryRun         == Setting.dryRun

Orders  == 1 .. Len(rows)
Idle(b) == [pc |-> "idle", batch |-> b, order |-> None]

Fault  == faults < MaxFaults /\ faults' = faults + 1
Done   == exec' = Idle(exec.batch)
WriteStatus(o, s) == rows' = [rows EXCEPT ![o].status = s]

-----------------------------------------------------------------------------
\* The statistics

Executed      == {o \in Orders : execution[o] # None}
OfFollow(f)   == {o \in Orders : rows[o].follow = f}
Signed(o, n)  == IF rows[o].side = "buy" THEN n ELSE -n
Ordered       == [o \in Orders |-> Signed(o, rows[o].size)]
Bought        == [o \in Executed |-> Signed(o, execution[o])]

\* sum_daily_notional, sum_daily_notional_for_follow
DailyNotional(S) == SumFunctionOnSet(execution, S \cap today)

\* count_active_copy_orders[_for_follow]: tokens with a net position.
OpenTokens(S) ==
  {t \in Tokens : SumFunctionOnSet(Bought, {o \in S \cap Executed : rows[o].token = t}) # 0}

\* Mutant: only what has been filled counts.
CountFilled ==
  Cardinality({o \in Orders : o >= window /\ rows[o].status = "filled"})

\* count_recent_copy_orders: every row that is in the order flow, the one
\* under the gate included.
CountRecent ==
  Cardinality({o \in Orders : o >= window /\
    rows[o].status \in {"pending", "dispatched", "submitted", "filled"}})

\* recent_copy_order_statuses and count_trailing_failures: the length of the
\* run of failed orders at the end of the queue, up to the newest row.
TrailingFailures ==
  Cardinality({o \in Orders : \A p \in o .. Len(rows) : rows[p].status = "failed"})

\* Mutant: orders at the venue that are not filled yet do not count.
NetOfPending(f, t) ==
  LET mine(S) == {o \in OfFollow(f) : rows[o].token = t /\ rows[o].status \in S} IN
  SumFunctionOnSet(Ordered, mine({"pending"}))
    + SumFunctionOnSet(Bought, mine({"filled"}))

\* follow_inflight_net_for_token: orders in flight with their size, filled
\* ones with their fill.
InflightNet(f, t) ==
  LET mine(S) == {o \in OfFollow(f) : rows[o].token = t /\ rows[o].status \in S} IN
  SumFunctionOnSet(Ordered, mine({"pending", "dispatched", "submitted"}))
    + SumFunctionOnSet(Bought, mine({"filled"}))

\* decide_re_follow_cap: the copied position may not pass ratio times the
\* source's, in the direction of the source.
OverCap(current, o) ==
  LET source == snapshot[rows[o].token]
      after  == current + Signed(o, rows[o].size)
  IN \/ rows[o].side = "buy"  /\ source > 0 /\ after > Ratio * source
     \/ rows[o].side = "sell" /\ source < 0 /\ after < Ratio * source

-----------------------------------------------------------------------------
\* check_risk and check_follow_risk, gate by gate

WithinDaily(limit, S, o) == limit = 0 \/ DailyNotional(S) + rows[o].size <= limit

\* Mutant: off by one.
MayOpenOneMore(limit, S) == limit = 0 \/ Cardinality(OpenTokens(S)) <= limit

MayOpen(limit, S)        == limit = 0 \/ Cardinality(OpenTokens(S)) < limit

\* check_re_follow_cap
WithinCap(f, o) == ~OverCap(InflightNet(f, rows[o].token), o)

Passes(gate, o) ==
  LET f == rows[o].follow IN
  CASE gate = "daily"       -> WithinDaily(DailyMax, Orders, o)
    [] gate = "open"        -> MayOpen(OpenMax, Orders)
    [] gate = "recent"      -> FlipMax = 0 \/ CountRecent < FlipMax
    [] gate = "breaker"     -> LossLimit = 0 \/ TrailingFailures < LossLimit
    [] gate = "follow"      -> TRUE
    [] gate = "followDaily" -> WithinDaily(FollowDailyMax, OfFollow(f), o)
    [] gate = "followOpen"  -> MayOpen(FollowOpenMax, OfFollow(f))
    [] gate = "cap"         -> WithinCap(f, o)

InGates     == exec.pc \in {Gates[i] : i \in DOMAIN Gates}
After(gate) == LET i == CHOOSE j \in DOMAIN Gates : Gates[j] = gate
               IN IF i = Len(Gates) THEN "through" ELSE Gates[i + 1]

-----------------------------------------------------------------------------
\* The exec worker

Pull ==
  LET pending == {o \in Orders : rows[o].status = "pending"} IN
  /\ exec.pc = "idle" /\ exec.batch = {} /\ pending # {}
  /\ exec' = Idle(pending)
  /\ UNCHANGED <<regime, rows, execution, today, window, snapshot, peak, unread, faults>>

\* ORDER BY enqueued_at: the oldest first.
Take ==
  /\ exec.pc = "idle" /\ exec.batch # {}
  /\ LET o == Min(exec.batch) IN
     exec' = [pc |-> Gates[1], batch |-> exec.batch \ {o}, order |-> o]
  /\ UNCHANGED <<regime, rows, execution, today, window, snapshot, peak, unread, faults>>

Gate ==
  /\ InGates
  /\ exec' = [exec EXCEPT !.pc = IF Passes(@, exec.order) THEN After(@) ELSE "refused"]
  /\ UNCHANGED <<regime, rows, execution, today, window, snapshot, peak, unread, faults>>

\* The statement of a gate fails.  The statistics fail closed; without the
\* FollowConfig (get_follow(..).ok()?) both follow gates are passed over; the
\* cap fails open.
GateError ==
  /\ InGates /\ Fault
  /\ exec' = [exec EXCEPT !.pc = IF @ \in {"follow", "cap"}
                                 THEN IF @ = "follow" THEN "cap" ELSE "through"
                                 ELSE "refused"]
  /\ unread' = IF exec.pc \in {"follow", "cap"} THEN unread \cup {exec.order} ELSE unread
  /\ UNCHANGED <<regime, rows, execution, today, window, snapshot, peak>>

\* The later checks (credential, book, slippage, balances) may refuse as well.
Refuse ==
  /\ exec.pc = "refused" \/ (exec.pc = "through" /\ ~DryRun)
  /\ WriteStatus(exec.order, "skipped") /\ Done
  /\ UNCHANGED <<regime, execution, today, window, snapshot, peak, unread, faults>>

\* Mutant: a second fill of the same order is added to the first.
DryBookAgain ==
  /\ exec.pc = "through" /\ DryRun
  /\ execution' = [execution EXCEPT ![exec.order] =
       IF @ = None THEN rows[exec.order].size ELSE @ + rows[exec.order].size]
  /\ today' = today \cup {exec.order}
  /\ exec'  = [exec EXCEPT !.pc = "closing"]
  /\ UNCHANGED <<regime, rows, window, snapshot, peak, unread, faults>>

\* dry_run: the synthetic fill of the whole order, then the status.
DryBook ==
  /\ exec.pc = "through" /\ DryRun
  /\ IF execution[exec.order] = None
     THEN /\ execution' = [execution EXCEPT ![exec.order] = rows[exec.order].size]
          /\ today' = today \cup {exec.order}
     ELSE UNCHANGED <<execution, today>>
  /\ exec' = [exec EXCEPT !.pc = "closing"]
  /\ UNCHANGED <<regime, rows, window, snapshot, peak, unread, faults>>

DryClose ==
  /\ exec.pc = "closing"
  /\ WriteStatus(exec.order, "filled") /\ Done
  /\ UNCHANGED <<regime, execution, today, window, snapshot, peak, unread, faults>>

Claim ==
  /\ exec.pc = "through" /\ ~DryRun
  /\ rows[exec.order].status = "pending"
  /\ WriteStatus(exec.order, "dispatched")
  /\ exec' = [exec EXCEPT !.pc = "posting"]
  /\ UNCHANGED <<regime, execution, today, window, snapshot, peak, unread, faults>>

\* place_order: accepted by the venue, or an error.
Post ==
  /\ exec.pc = "posting"
  /\ \E s \in {"submitted", "failed"} : WriteStatus(exec.order, s)
  /\ Done
  /\ UNCHANGED <<regime, execution, today, window, snapshot, peak, unread, faults>>

\* A statement fails: tick logs it and turns to the next order; or the whole
\* process dies and starts again.
Abandon ==
  /\ exec.pc # "idle" /\ Fault
  /\ Done \/ exec' = Idle({})
  /\ UNCHANGED <<regime, rows, execution, today, window, snapshot, peak, unread>>

-----------------------------------------------------------------------------
\* The other workers, the source trader and the clock

\* follow's ingest queues an order; two signals of one trade (R1) are two.
Enqueue ==
  /\ Len(rows) < Setting.orders
  /\ \E offer \in Setting.offers :
       /\ rows' = Append(rows, [token |-> offer.token, follow |-> offer.follow,
            side |-> offer.side, size |-> offer.size, status |-> "pending"])
       /\ execution' = Append(execution, None)
  /\ UNCHANGED <<regime, today, window, snapshot, peak, unread, exec, faults>>

\* reclaim_worker: an order left in 'dispatched' by a dead process.
Reclaim(o) ==
  /\ rows[o].status = "dispatched" /\ exec.order # o
  /\ \E s \in {"submitted", "failed"} : WriteStatus(o, s)
  /\ UNCHANGED <<regime, execution, today, window, snapshot, peak, unread, exec, faults>>

\* reconcile_worker: the fill of a settled order and its status; without a
\* fill there is no execution.
Reconcile(o) ==
  /\ rows[o].status = "submitted"
  /\ \/ \E n \in 1 .. rows[o].size :
          /\ execution' = [execution EXCEPT ![o] = n]
          /\ today' = today \cup {o}
          /\ \E s \in {"filled", "cancelled"} : WriteStatus(o, s)
     \/ WriteStatus(o, "cancelled") /\ UNCHANGED <<execution, today>>
  /\ UNCHANGED <<regime, window, snapshot, peak, unread, exec, faults>>

\* hot: a new position snapshot of the source trader.
Snapshot(t) ==
  /\ \E o \in Setting.offers : o.token = t
  /\ \E p \in Setting.positions \ {snapshot[t]} :
       /\ snapshot' = [snapshot EXCEPT ![t] = p]
       /\ peak' = [peak EXCEPT ![t] = Max({@, p})]
  /\ UNCHANGED <<regime, rows, execution, today, window, unread, exec, faults>>

\* The windows slide; one that no limit looks at need not.
WindowSlides ==
  /\ window <= Len(rows) /\ FlipMax > 0
  /\ window' = window + 1
  /\ UNCHANGED <<regime, rows, execution, today, snapshot, peak, unread, exec, faults>>

\* An execution is 24 hours old.
DayPasses(o) ==
  /\ o \in today /\ DailyMax + FollowDailyMax > 0
  /\ today' = today \ {o}
  /\ UNCHANGED <<regime, rows, execution, window, snapshot, peak, unread, exec, faults>>

-----------------------------------------------------------------------------
Init ==
  /\ regime    \in DOMAIN Regimes
  /\ rows      = <<>>
  /\ execution = <<>>
  /\ today     = {}
  /\ window    = 1
  /\ \E p \in Setting.positions : snapshot = [t \in Tokens |-> p]
  /\ peak      = snapshot
  /\ unread    = {}
  /\ exec      = Idle({})
  /\ faults    = 0

Next ==
  \/ Pull \/ Take \/ Gate \/ GateError \/ Refuse \/ DryBook \/ DryClose
  \/ Claim \/ Post \/ Abandon
  \/ Enqueue \/ WindowSlides
  \/ \E o \in Orders : Reclaim(o) \/ Reconcile(o) \/ DayPasses(o)
  \/ \E t \in Tokens : Snapshot(t)

Spec == Init /\ [][Next]_vars

-----------------------------------------------------------------------------
\* Properties

\* Rows, executions and the worker keep their types; an execution is never
\* larger than its order.
TypeOK ==
  /\ regime \in DOMAIN Regimes
  /\ Len(rows) <= Setting.orders /\ Len(execution) = Len(rows)
  /\ \A o \in Orders :
       /\ [token |-> rows[o].token, follow |-> rows[o].follow, side |-> rows[o].side,
           size |-> rows[o].size] \in Setting.offers
       /\ rows[o].status \in {"pending", "dispatched", "submitted",
                              "filled", "skipped", "failed", "cancelled"}
       /\ execution[o] \in (1 .. rows[o].size) \cup {None}
  /\ today \subseteq Executed
  /\ window \in 1 .. Len(rows) + 1
  /\ snapshot \in [Tokens -> Setting.positions] /\ peak \in [Tokens -> Setting.positions]
  /\ unread \subseteq Orders
  /\ exec.batch \subseteq Orders /\ exec.order \in Orders \cup {None}
  /\ InGates \/ exec.pc \in {"idle", "refused", "through", "closing", "posting"}
  /\ faults \in 0 .. MaxFaults

\* risk.daily_max_notional and max_open_positions: what is executed within 24
\* hours, and the tokens with an open position, stay within the limit of the
\* user.
DailyCapHolds == DailyMax > 0 => DailyNotional(Orders) <= DailyMax

OpenCapHolds == OpenMax > 0 => Cardinality(OpenTokens(Orders)) <= OpenMax

\* check_follow_risk: the same for each follow relation on its own, as long as
\* its limits could be read for each of its orders (see GateError).
FollowCapsHold == \A f \in Follows : OfFollow(f) \cap unread = {} =>
  /\ FollowDailyMax > 0 => DailyNotional(OfFollow(f)) <= FollowDailyMax
  /\ FollowOpenMax > 0 => Cardinality(OpenTokens(OfFollow(f))) <= FollowOpenMax

\* All the limits on what has been executed, however the gates interleave with
\* new orders, crashes, failed reads and the sliding day.
CapsHold == DailyCapHolds /\ OpenCapHolds /\ FollowCapsHold

\* The rapid-flip guard: of the orders of one window, never more than the
\* limit are at the venue or filled, though the gate looks at one order long
\* before it is claimed and others are queued and settled meanwhile.
RapidFlipHolds == FlipMax > 0 =>
  Cardinality({o \in Orders : o >= window /\
    rows[o].status \in {"dispatched", "submitted", "filled"}}) <= FlipMax

\* Where R1-C is blind: fills booked on rows that ended otherwise than 'filled',
\* such as what a FAK order filled before its rest was cancelled.
\* follow_inflight_net_for_token (account.rs:1258) counts them neither as in
\* flight nor as filled.
Closed == {"filled", "skipped", "failed", "cancelled"}
OfToken(f, t, S) == {o \in OfFollow(f) : rows[o].token = t /\ rows[o].status \in S}
Overlooked(f, t) == OfToken(f, t, Closed \ {"filled"}) \cap Executed

\* R1-C (exec.rs:484): all that one follow relation has bought of a token, at
\* the venue or booked on a row however it was closed, passes ratio times the
\* largest position its source has had by no more than the fills R1-C
\* overlooks, as long as the relation could be read for each of its orders.
\* For buys: a sell in flight makes room at once and may be cancelled later.
NetWithinCap ==
  (\A o \in Setting.offers : o.side = "buy") =>
  \A f \in Follows, t \in Tokens : OfFollow(f) \cap unread = {} =>
    SumFunctionOnSet(Ordered, OfToken(f, t, {"dispatched", "submitted"}))
      + SumFunctionOnSet(Bought, OfToken(f, t, Closed) \cap Executed)
    <= Ratio * peak[t] + SumFunctionOnSet(Bought, Overlooked(f, t))

\* The circuit breaker: an order that follows LossLimit failures in a row is
\* not sent.
BreakerTrips == [][
  \A o \in Orders : rows[o].status = "pending" /\ rows'[o].status = "dispatched" =>
    \/ LossLimit = 0 \/ o <= LossLimit
    \/ \E p \in o - LossLimit .. o - 1 : rows[p].status # "failed"]_vars
=============================================================================
