------------------------------ MODULE Workers ------------------------------
(***************************************************************************)
(* The periodic work beside the path of a signal: the hub's residual       *)
(* detector (HotReconcile), the import and backfill of past trades         *)
(* (TradeBackfill), the figures on the traders' pages (TraderRows, and     *)
(* PositionLedger for the arithmetic), what operators curate               *)
(* (IdentityLinks, MarketMappings), the copier's pricing of one order       *)
(* (OrderPricing), and the page it makes of a user's executions            *)
(* (Portfolio).                                                            *)
(*                                                                         *)
(* They meet in tables only: raw_trades is all that one writes and another *)
(* reads, and each module that reads it admits every row and every order   *)
(* of insertion.  Their steps commute, and each invariant speaks of one of *)
(* them; so a behaviour picks one part and the others stand still.         *)
(***************************************************************************)
EXTENDS Integers, Sequences, FiniteSets

CONSTANTS
  Tokens,
  \* HotReconcile
  MaxTime, HotTrades, HotFaults,
  \* PositionLedger
  TradeSizes, TradePrices, Steps, LedgerTrades, LedgerNow,
  \* TradeBackfill
  Txs, FetchPage, Refresh, FillTrades, FillNow, FillFaults,
  \* TraderRows
  CutoffDays, Interval, PageTrades, PageNow, MaxRounds, PageFaults,
  \* IdentityLinks
  People, VenueOf(_), Alike, ListLimit, MaxTicks, MaxIds, MaxSlips,
  \* MarketMappings
  From, To, Likeness, MaxRulings,
  \* OrderPricing
  Asks, Books, Minimums, Slip, MinNotional, MaxMoves, MaxFails,
  \* Portfolio
  Follows, CopySizes, CopyPrices, Fees, PeriodDays, MaxExecs, MaxDay

ASSUME HotAssumption == IsFiniteSet(Tokens) /\ MaxTime \in Nat /\ HotTrades \in Nat /\ HotFaults \in Nat
ASSUME LedgerAssumption ==
  /\ TradeSizes \subseteq Nat \ {0} /\ TradePrices \subseteq Nat /\ Steps \subseteq Nat \ {0}
  /\ LedgerTrades \in Nat /\ LedgerNow \in Nat
ASSUME FillAssumption ==
  FetchPage \in Nat /\ FillTrades \in Nat /\ FillNow \in Nat /\ FillFaults \in Nat
ASSUME PagesAssumption ==
  PageTrades \in Nat /\ PageNow \in Nat /\ MaxRounds \in Nat /\ PageFaults \in Nat /\ CutoffDays \in Nat
ASSUME IdentityAssumption ==
  Alike \subseteq SUBSET People /\ ListLimit \in Nat /\ MaxTicks \in Nat /\ MaxIds \in Nat /\ MaxSlips \in Nat
ASSUME MappingAssumption == "none" \notin To /\ MaxRulings \in Nat
\* Levels come as the venue sends them; a price is below a dollar, the least notional at least half.
ASSUME PricingAssumption ==
  /\ Asks \subseteq [side : {"buy", "sell"}, price : Nat, size : Nat]
  /\ \A a \in Asks : a.price < 2 * MinNotional
  /\ Books \subseteq [bids : Seq(Nat), asks : Seq(Nat)]
  /\ \A b \in Books : /\ \A i, j \in DOMAIN b.bids : i <= j => b.bids[i] <= b.bids[j]
                      /\ \A i, j \in DOMAIN b.asks : i <= j => b.asks[i] >= b.asks[j]
  /\ Minimums \subseteq Nat /\ Slip \in Nat /\ MinNotional \in Nat
  /\ MaxMoves \in Nat /\ MaxFails \in Nat
ASSUME PortfolioAssumption ==
  /\ IsFiniteSet(Follows) /\ CopySizes \subseteq Nat \ {0} /\ CopyPrices \subseteq Nat /\ Fees \subseteq Nat
  /\ PeriodDays \in Nat /\ MaxExecs \in Nat /\ MaxDay \in Nat

VARIABLES
  part,
  hotNow, trades, ledger, missed, positions, hot, residuals, compared, disturbed, hotFaults,
  book, notes, first, ledgerNow, left,
  venue, known, trader, job, fillNow, fillFaults, visits, failed,
  raw, seen, rows, pages, snaps, perf, official, ingest, pageNow, rounds, pageFaults, whole, boarded,
  link, hidden, ids, listed, tick, ticks, slips, clean,
  mapping, ruled, rulings, copied,
  ask, row, pc, read, market, moves, fails, clock, posted, shown,
  execs, today

hotVars == <<hotNow, trades, ledger, missed, positions, hot, residuals, compared, disturbed, hotFaults>>
ledgerVars == <<book, notes, first, ledgerNow, left>>
fillVars == <<venue, known, trader, job, fillNow, fillFaults, visits, failed>>
pageVars == <<raw, seen, rows, pages, snaps, perf, official, ingest, pageNow, rounds, pageFaults,
              whole, boarded>>
identityVars == <<link, hidden, ids, listed, tick, ticks, slips, clean>>
mappingVars == <<mapping, ruled, rulings, copied>>
pricingVars == <<ask, row, pc, read, market, moves, fails, clock, posted, shown>>
portfolioVars == <<execs, today>>

Hot  == INSTANCE HotReconcile
          WITH MaxTrades <- HotTrades, MaxFaults <- HotFaults,
               now <- hotNow, snaps <- positions, faults <- hotFaults
Led  == INSTANCE PositionLedger
          WITH Sizes <- TradeSizes, Prices <- TradePrices,
               MaxTrades <- LedgerTrades, MaxNow <- LedgerNow, now <- ledgerNow
Fill == INSTANCE TradeBackfill
          WITH Page <- FetchPage, MaxTrades <- FillTrades, MaxNow <- FillNow,
               MaxFaults <- FillFaults,
               rows <- known, now <- fillNow, faults <- fillFaults
Rows == INSTANCE TraderRows
          WITH Days <- CutoffDays, MaxTrades <- PageTrades, MaxNow <- PageNow,
               MaxFaults <- PageFaults,
               now <- pageNow, faults <- pageFaults
Ids  == INSTANCE IdentityLinks
Map  == INSTANCE MarketMappings
Pri  == INSTANCE OrderPricing
Por  == INSTANCE Portfolio WITH Sizes <- CopySizes, Prices <- CopyPrices

Parts == {"hot", "ledger", "backfill", "pages", "identities", "mappings", "pricing", "portfolio"}

\* A part that stands still has one initial state.
Init ==
  /\ part \in Parts
  /\ Hot!Init /\ Led!Init /\ Fill!Init /\ Rows!Init /\ Ids!Init /\ Map!Init /\ Pri!Init /\ Por!Init
  /\ part # "pricing" =>
       LET a == CHOOSE a \in Asks : TRUE IN
       /\ ask = [side |-> a.side, price |-> a.price, size |-> a.size, cross |-> TRUE]
       /\ market = [book |-> CHOOSE b \in Books : TRUE, min |-> CHOOSE m \in Minimums : TRUE,
                    open |-> TRUE, negRisk |-> FALSE]

Next ==
  /\ UNCHANGED part
  /\ \/ /\ part = "hot" /\ Hot!Next
        /\ UNCHANGED <<ledgerVars, fillVars, pageVars, identityVars, mappingVars, pricingVars,
                       portfolioVars>>
     \/ /\ part = "ledger" /\ Led!Next
        /\ UNCHANGED <<hotVars, fillVars, pageVars, identityVars, mappingVars, pricingVars,
                       portfolioVars>>
     \/ /\ part = "backfill" /\ Fill!Next
        /\ UNCHANGED <<hotVars, ledgerVars, pageVars, identityVars, mappingVars, pricingVars,
                       portfolioVars>>
     \/ /\ part = "pages" /\ Rows!Next
        /\ UNCHANGED <<hotVars, ledgerVars, fillVars, identityVars, mappingVars, pricingVars,
                       portfolioVars>>
     \/ /\ part = "identities" /\ Ids!Next
        /\ UNCHANGED <<hotVars, ledgerVars, fillVars, pageVars, mappingVars, pricingVars,
                       portfolioVars>>
     \/ /\ part = "mappings" /\ Map!Next
        /\ UNCHANGED <<hotVars, ledgerVars, fillVars, pageVars, identityVars, pricingVars,
                       portfolioVars>>
     \/ /\ part = "pricing" /\ Pri!Next
        /\ UNCHANGED <<hotVars, ledgerVars, fillVars, pageVars, identityVars, mappingVars,
                       portfolioVars>>
     \/ /\ part = "portfolio" /\ Por!Next
        /\ UNCHANGED <<hotVars, ledgerVars, fillVars, pageVars, identityVars, mappingVars,
                       pricingVars>>

Spec ==
  Init /\ [][Next]_<<part, hotVars, ledgerVars, fillVars, pageVars, identityVars, mappingVars,
                     pricingVars, portfolioVars>>

----------------------------------------------------------------------------
\* Rows, locals and histories have the types that their tables and workers give them.
TypeOK ==
  CASE part = "hot" -> Hot!TypeOK
    [] part = "ledger" -> Led!TypeOK
    [] part = "backfill" -> Fill!TypeOK
    [] part = "pages" -> Rows!TypeOK
    [] part = "identities" -> Ids!TypeOK
    [] part = "mappings" -> Map!TypeOK
    [] part = "pricing" -> Pri!TypeOK
    [] part = "portfolio" -> Por!TypeOK

\* HotReconcile: what undisturbed rounds signal as residual is what trade_watch has missed, once,
\* and their windows leave no second between them out (hot.rs:87, 150).
ResidualIsTheMissed ==
  part = "hot" => Hot!ResidualIsTheMissed /\ Hot!WindowsAreAdjacent

\* PositionLedger: however a token is bought, sold out and bought again, its segments hold what was
\* bought less what was sold, and profit, equity, drawdown and curves add up (timeline.rs:85).
\* Portfolio: the figures of a user's page agree with each other (routes.rs:568).
LedgerAddsUp ==
  /\ part = "ledger" => Led!LedgerAddsUp
  /\ part = "portfolio" => Por!ViewsAgree

\* TradeBackfill: a trader that is marked as visited has the newest page of her trades, but for
\* what the code is known to drop (backfill.rs:134).
BackfilledIsWhole == part = "backfill" => Fill!BackfilledIsWhole

\* TraderRows: the figures of a pass are those of one set of trades, and the boards keep the
\* traders that they had (perf.rs:248, official_pnl.rs:145).
RowsAreTrue == part = "pages" => Rows!RowsAreTrue

\* IdentityLinks, MarketMappings: nobody joins an identity that operators verified, and orders cross
\* venues only as they decided, whatever the workers find again (identities.rs:17, mappings.rs:183).
CuratedHolds ==
  /\ part = "identities" => Ids!IdentitiesHold
  /\ part = "mappings" => Map!DecisionsStand

\* OrderPricing: every order that is sent keeps within the signal's price and near the market's,
\* and the venue takes one at most (exec.rs:644, clob.rs:117).
SentIsSafe == part = "pricing" => Pri!SentIsSafe
=============================================================================
