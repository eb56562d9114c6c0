----------------------------- MODULE HotReconcile -----------------------------
(***************************************************************************)
(* The residual detector (venue-hub, hot worker) for one trader: it        *)
(* snapshots the trader's positions, compares the last two finished rounds *)
(* with the ledger of trades that trade_watch keeps (SignalDelivery), and  *)
(* signals the difference.                                                 *)
(*                                                                         *)
(* Time is counted in seconds.  A trade carries its second; a round is     *)
(* stamped within a second, later than every trade timestamp of it.        *)
(***************************************************************************)
EXTENDS Integers, Sequences, FiniteSets, FiniteSetsExt

CONSTANTS
  Tokens,
  MaxTime,     \* bound: seconds
  MaxTrades,   \* bound: trades of the trader
  MaxFaults    \* bound: failed statements, missed or late ledger entries

VARIABLES
  now,
  trades,      \* what the trader did
  ledger,      \* raw_trades: the trades that trade_watch has written (and signalled)
  missed,      \* the trades it will not write
  snaps,       \* trader_positions_snapshot
  hot,         \* the locals of the worker
  residuals,   \* signalled so far, per token
  compared,    \* history: the windows compared so far, as seconds
  disturbed,   \* history: tokens whose comparison is known to go wrong
  faults

vars == <<now, trades, ledger, missed, snaps, hot, residuals, compared, disturbed, faults>>

Rounds    == 0 .. MaxTime
Trades    == [token : Tokens, size : {1, -1}, ts : Rounds]
Snapshots == [token : Tokens, size : Nat, at : Rounds]
Locals    == [pc : {"idle", "fetched", "stored"}, positions : [Tokens -> Nat],
              had : SUBSET Nat, at : Rounds]

NoPositions == [k \in Tokens |-> 0]
Idle        == [pc |-> "idle", positions |-> NoPositions, had |-> {}, at |-> 0]
Fault       == faults < MaxFaults /\ faults' = faults + 1

Sizes(S)        == SumFunctionOnSet([i \in DOMAIN trades |-> trades[i].size], S)
TradesOf(k)     == {i \in DOMAIN trades : trades[i].token = k}
Position(k)     == Sizes(TradesOf(k))
Within(from, to) == {i \in DOMAIN trades : from < trades[i].ts /\ trades[i].ts <= to}

-----------------------------------------------------------------------------
\* What the worker reads

\* latest_snapshots_before: per token the newest row before t, however old.
Before(t)  == {s \in snaps : s.at < t}
Latest(t)  == {s \in Before(t) : \A r \in Before(t) : r.token = s.token => r.at <= s.at}
NewestOf(S) == Max({s.at : s \in S})
SizeIn(S, k) == IF \E s \in S : s.token = k THEN (CHOOSE s \in S : s.token = k).size ELSE 0

\* sum_signed_trade_size
Covered(k, from, to) == Sizes(Within(from, to) \cap TradesOf(k) \cap ledger)

\* The residual of a token, zero where its size has not changed.  A token that
\* has a row in the older round and none in the newer counts as closed; there is
\* no such token, since the older rows are among the newer.
Residual(k, prev, prevPrev) ==
  LET delta == SizeIn(prev, k) - SizeIn(prevPrev, k) IN
  IF delta = 0 THEN 0 ELSE delta - Covered(k, NewestOf(prevPrev), NewestOf(prev))

\* A missed trade beside recorded ones that take it back: the size has not
\* changed, and the ledger is not asked.
Unmoved(k, prev, prevPrev) ==
  /\ SizeIn(prev, k) = SizeIn(prevPrev, k)
  /\ Covered(k, NewestOf(prevPrev), NewestOf(prev)) # 0

-----------------------------------------------------------------------------
\* The worker

\* Mutant: the positions are added up from the ledger.
FetchLedger ==
  /\ hot.pc = "idle" /\ (\A s \in snaps : s.at < now) /\ hot.at < now
  /\ hot' = [hot EXCEPT !.pc = "fetched", !.had = DOMAIN trades,
                        !.positions = [k \in Tokens |-> Sizes(TradesOf(k) \cap ledger)]]
  /\ UNCHANGED <<now, trades, ledger, missed, snaps, residuals, compared, disturbed, faults>>

\* venue.positions: the open positions.
Fetch ==
  /\ hot.pc = "idle" /\ (\A s \in snaps : s.at < now) /\ hot.at < now
  /\ hot' = [hot EXCEPT !.pc = "fetched", !.positions = [k \in Tokens |-> Position(k)],
                        !.had = DOMAIN trades]
  /\ UNCHANGED <<now, trades, ledger, missed, snaps, residuals, compared, disturbed, faults>>

\* Trades that carry a second of this round and are not in its positions.
Straddling == {i \in DOMAIN trades \ hot.had : trades[i].ts <= now}

\* Tokens that were in a snapshot and are not in this one.
Gone == {k \in Tokens : hot.positions[k] = 0 /\ \E s \in snaps : s.token = k}

\* A round that leaves no row does not move the windows on.
Stamps(S) == Cardinality({s.at : s \in S})

Rows(S) == {[token |-> k, size |-> hot.positions[k], at |-> now] : k \in S}
Open    == {k \in Tokens : hot.positions[k] > 0}

\* t_now, and insert_position_snapshot for each position; errors are ignored.
Store ==
  /\ hot.pc = "fetched"
  /\ \E failed \in SUBSET Open :
       /\ IF failed = {} THEN UNCHANGED faults ELSE Fault
       /\ snaps'     = snaps \cup Rows(Open \ failed)
       /\ disturbed' = disturbed \cup Gone \cup failed \cup {trades[i].token : i \in Straddling}
                       \cup (IF Open = failed /\ Stamps(snaps) > 1 THEN Tokens ELSE {})
  /\ hot' = [hot EXCEPT !.pc = "stored", !.at = now]
  /\ UNCHANGED <<now, trades, ledger, missed, residuals, compared>>

\* Mutant: the round that was just stored is compared too.
ReconcilePresent ==
  /\ hot.pc = "stored"
  /\ LET prev == Latest(hot.at + 1)
         prevPrev == IF prev = {} THEN {} ELSE Latest(NewestOf(prev)) IN
     IF prevPrev = {} THEN UNCHANGED <<residuals, compared>>
     ELSE /\ residuals' = [k \in Tokens |-> residuals[k] + Residual(k, prev, prevPrev)]
          /\ compared'  = compared \cup (NewestOf(prevPrev) + 1) .. NewestOf(prev)
  /\ hot' = [Idle EXCEPT !.at = hot.at]
  /\ UNCHANGED <<now, trades, ledger, missed, snaps, disturbed, faults>>

\* reconcile_positions and emit_signals: the two rounds before this one.  A
\* query that fails skips a token, or the round.
Reconcile ==
  /\ hot.pc = "stored"
  /\ LET prev     == Latest(hot.at)
         prevPrev == IF prev = {} THEN {} ELSE Latest(NewestOf(prev)) IN
     IF prevPrev = {} THEN UNCHANGED <<residuals, compared, disturbed, faults>>
     ELSE \E failed \in SUBSET Tokens :
       /\ IF failed = {} THEN UNCHANGED faults ELSE Fault
       /\ residuals' = [k \in Tokens |->
            IF k \in failed THEN residuals[k] ELSE residuals[k] + Residual(k, prev, prevPrev)]
       /\ compared'  = compared \cup (NewestOf(prevPrev) + 1) .. NewestOf(prev)
       /\ disturbed' = disturbed \cup failed \cup {k \in Tokens : Unmoved(k, prev, prevPrev)}
  /\ hot' = [Idle EXCEPT !.at = hot.at]
  /\ UNCHANGED <<now, trades, ledger, missed, snaps>>

\* positions cannot be fetched, or the process is restarted: no round.
NoRound ==
  /\ hot.pc # "idle" /\ Fault
  /\ hot' = [Idle EXCEPT !.at = hot.at]
  /\ disturbed' = IF hot.pc = "stored" THEN Tokens ELSE disturbed
  /\ UNCHANGED <<now, trades, ledger, missed, snaps, residuals, compared>>

-----------------------------------------------------------------------------
\* The trader, the clock, and trade_watch

Trade(k, size) ==
  /\ Len(trades) < MaxTrades
  /\ Position(k) + size >= 0
  /\ trades' = Append(trades, [token |-> k, size |-> size, ts |-> now])
  /\ disturbed' = IF \E s \in snaps : s.at = now THEN disturbed \cup {k} ELSE disturbed
  /\ UNCHANGED <<now, ledger, missed, snaps, hot, residuals, compared, faults>>

\* trade_watch has polled every second that a round compares: what it gets to
\* see in time is written before the clock moves on.
Tick ==
  /\ now < MaxTime
  /\ DOMAIN trades \subseteq ledger \cup missed
  /\ now' = now + 1
  /\ UNCHANGED <<trades, ledger, missed, snaps, hot, residuals, compared, disturbed, faults>>

Record(i) ==
  /\ i \in DOMAIN trades \ (ledger \cup missed)
  /\ ledger' = ledger \cup {i}
  /\ UNCHANGED <<now, trades, missed, snaps, hot, residuals, compared, disturbed, faults>>

Miss(i) ==
  /\ i \in DOMAIN trades \ (ledger \cup missed) /\ Fault
  /\ missed' = missed \cup {i}
  /\ UNCHANGED <<now, trades, ledger, snaps, hot, residuals, compared, disturbed>>

\* trade_watch was down and catches up.
CatchUp(i) ==
  /\ i \in missed
  /\ ledger'    = ledger \cup {i}
  /\ missed'    = missed \ {i}
  /\ disturbed' = IF trades[i].ts \in compared THEN disturbed \cup {trades[i].token} ELSE disturbed
  /\ UNCHANGED <<now, trades, snaps, hot, residuals, compared, faults>>

Init ==
  /\ now = 0 /\ trades = <<>>
  /\ ledger = {} /\ missed = {} /\ snaps = {}
  /\ hot = Idle
  /\ residuals = NoPositions
  /\ compared = {} /\ disturbed = {} /\ faults = 0

Next ==
  \/ Fetch \/ Store \/ Reconcile \/ NoRound
  \/ Tick
  \/ \E k \in Tokens, size \in {1, -1} : Trade(k, size)
  \/ \E i \in DOMAIN trades : Record(i) \/ Miss(i) \/ CatchUp(i)

Spec == Init /\ [][Next]_vars

-----------------------------------------------------------------------------
\* Properties

TypeOK ==
  /\ now \in Rounds /\ trades \in Seq(Trades)
  /\ ledger \subseteq DOMAIN trades /\ missed \subseteq DOMAIN trades \ ledger
  /\ snaps \subseteq Snapshots
  /\ hot \in Locals
  /\ residuals \in [Tokens -> Int]
  /\ compared \subseteq Rounds /\ disturbed \subseteq Tokens
  /\ faults \in 0 .. MaxFaults

\* For a token whose rounds are undisturbed, what has been signalled as its
\* residual is what trade_watch has missed in the windows compared so far:
\* every missed trade once, with its sign, and nothing that the ledger has.
ResidualIsTheMissed == \A k \in Tokens \ disturbed :
  residuals[k] = Sizes({i \in TradesOf(k) \cap missed : trades[i].ts \in compared})

\* The windows of the rounds are adjacent: no second between the first and the
\* last of them is left out, and the present round is not yet compared.
WindowsAreAdjacent ==
  /\ disturbed # Tokens /\ compared # {} => compared = Min(compared) .. Max(compared)
  /\ \A s \in compared : s < hot.at

\* "No race, no double count": what is in the ledger is not signalled again.
NoDoubleCount == \A k \in Tokens : TradesOf(k) \subseteq ledger => residuals[k] = 0
=============================================================================
