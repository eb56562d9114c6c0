---------------------------- MODULE OrderPricing ----------------------------
(***************************************************************************)
(* What one copy order is worth when it reaches Polymarket: the worker     *)
(* reads the market's minimum, whether it trades and its book, prices the  *)
(* order, checks it, keeps price and size with the order and signs whole   *)
(* cents; after a crash the reclaim worker signs again from what was kept. *)
(* Book and state move all the while; the minimum is the market's own and  *)
(* is read once.  CopyOrders has the same order's statuses, RiskGate the   *)
(* caps.                                                                   *)
(*                                                                         *)
(* A signal's price is in cents and its size in halves of a lot, the       *)
(* smallest part that can be signed; order prices are in hundredths of a   *)
(* cent.                                                                   *)
(***************************************************************************)
EXTENDS Integers, Sequences, FiniteSetsExt

CONSTANTS
  Asks,         \* signals: [side, price, size]
  Books,        \* books as the venue sends them: bids ascending, asks descending
  Minimums,     \* minimum_order_size of the market, one for the run of an order
  Slip,         \* max_slippage_bps, in per cent
  MinNotional,  \* in cents
  MaxMoves, MaxFails  \* bounds: moves of the market; crashes and failed reads

VARIABLES
  ask,      \* the order's signal, and whether the copier crosses the book
  row,      \* its status, and the price, size and time kept with it
  pc,       \* where the worker is
  read,     \* what it read: minimum, book, and the price it computed
  market, moves, fails,
  clock,    \* 0, then 1
  posted,   \* every order that was signed and sent
  shown     \* history: books since the order was taken

pricingVars == <<ask, row, pc, read, market, moves, fails, clock, posted, shown>>

Blank   == [bids |-> <<>>, asks |-> <<>>]
NoKept  == [price |-> 0, size |-> 0, stamp |-> 0]
NoRead  == [min |-> 0, book |-> Blank, price |-> 0]

Init ==
  /\ \E a \in Asks, cross \in BOOLEAN :
       ask = [side |-> a.side, price |-> a.price, size |-> a.size, cross |-> cross]
  /\ row = [status |-> "pending", kept |-> NoKept]
  /\ pc = "take" /\ read = NoRead
  /\ \E b \in Books, min \in Minimums, negRisk \in BOOLEAN :
       market = [book |-> b, min |-> min, open |-> TRUE, negRisk |-> negRisk]
  /\ moves = MaxMoves /\ fails = MaxFails /\ clock = 0
  /\ posted = <<>> /\ shown = {market.book}

----------------------------------------------------------------------------
(* The market, and time. *)

Moves(b) ==
  /\ moves > 0 /\ b # market.book
  /\ moves' = moves - 1
  /\ market' = [market EXCEPT !.book = b] /\ shown' = shown \cup {b}
  /\ UNCHANGED <<ask, row, pc, read, fails, clock, posted>>

Closes ==
  /\ moves > 0 /\ market.open
  /\ moves' = moves - 1 /\ market' = [market EXCEPT !.open = FALSE]
  /\ UNCHANGED <<ask, row, pc, read, fails, clock, posted, shown>>

Passes ==
  /\ clock = 0 /\ clock' = 1
  /\ UNCHANGED <<ask, row, pc, read, market, moves, fails, posted, shown>>

----------------------------------------------------------------------------
(* Prices and amounts. *)

\* Mutant: the levels are left in the venue's order.
AsSent(book) ==
  IF book.bids = <<>> \/ book.asks = <<>> THEN <<0, 0>> ELSE <<Head(book.bids), Head(book.asks)>>

\* Best first: the highest bid and the lowest ask.
Best(book) ==
  IF book.bids = <<>> \/ book.asks = <<>> THEN <<0, 0>>
  ELSE <<Max({book.bids[i] : i \in DOMAIN book.bids}), Min({book.asks[i] : i \in DOMAIN book.asks})>>

\* The far side of the book, as far as the signal's price and the slippage let it go.
Limit(side, price, bid, offer) ==
  IF side = "buy" THEN Min({100 * offer, price * (100 + Slip)})
  ELSE Max({100 * bid, price * (100 - Slip)})

OffMid(p, bid, offer) == LET d == 2 * p - 100 * (bid + offer) IN
  (IF d < 0 THEN -d ELSE d) > Slip * (bid + offer)

Lots(size) == size \div 2
Ceil(n) == -((-n) \div 100)
\* A buyer pays cents rounded up, a seller asks for cents rounded down.
Cents(side, p, size) == IF side = "buy" THEN Ceil(p * Lots(size)) ELSE (p * Lots(size)) \div 100

----------------------------------------------------------------------------
(* The worker. *)

Goes(next) == pc' = next
End(status) == row' = [row EXCEPT !.status = status] /\ pc' = "end"
Fail == fails > 0 /\ fails' = fails - 1

\* A row that does not parse, a gate, a credential, a balance or a failed read that is fatal.
Skip ==
  /\ pc \in {"take", "gates", "book", "claim"}
  /\ End("skipped")
  /\ UNCHANGED <<ask, read, market, moves, fails, clock, posted, shown>>

Parses == ask.price > 0 /\ ask.size > 0
\* A minimum, or a state of the market, that cannot be read does not stop an order.
Minimum(fail)  == IF fail THEN 0 ELSE market.min
Tradable(fail) == fail \/ market.open

Take(minFails, stateFails) ==
  /\ pc = "take" /\ Parses
  /\ LET missed == Cardinality({f \in {"min", "state"} : IF f = "min" THEN minFails ELSE stateFails})
     IN missed <= fails /\ fails' = fails - missed
  /\ read' = [read EXCEPT !.min = Minimum(minFails)]
  /\ Tradable(stateFails)
  /\ Goes("gates")
  /\ UNCHANGED <<ask, row, market, moves, clock, posted, shown>>

Gates ==
  /\ pc = "gates"
  /\ ask.price * ask.size >= 2 * MinNotional /\ ask.size >= read.min
  /\ Goes("book")
  /\ UNCHANGED <<ask, row, read, market, moves, fails, clock, posted, shown>>

\* Without a counter offer an order that crosses has no price, and without a mid none is checked.
Price ==
  /\ pc = "book"
  /\ LET best == Best(market.book)
         p == IF ask.cross THEN Limit(ask.side, ask.price, best[1], best[2]) ELSE 100 * ask.price
     IN /\ best[1] > 0 /\ best[2] > 0 /\ ~OffMid(p, best[1], best[2])
        /\ read' = [read EXCEPT !.book = market.book, !.price = p]
  /\ Goes("claim")
  /\ UNCHANGED <<ask, row, market, moves, fails, clock, posted, shown>>

Claim ==
  /\ pc = "claim"
  /\ row' = [status |-> "dispatched",
             kept |-> [price |-> read.price, size |-> ask.size, stamp |-> clock]]
  /\ Goes("post")
  /\ UNCHANGED <<ask, read, market, moves, fails, clock, posted, shown>>

\* The exchange contract is looked up for each signature; when that fails it is the standard one.
Contract(looked) == looked /\ market.negRisk

SignedOrder(looked) ==
  [cents   |-> Cents(ask.side, row.kept.price, row.kept.size),
   lots    |-> Lots(row.kept.size),
   stamp   |-> row.kept.stamp,
   negRisk |-> Contract(looked)]

\* The venue takes no order signed for the other contract and none that it has.
Takes(order) ==
  /\ market.open /\ order.negRisk = market.negRisk
  /\ \A i \in DOMAIN posted : posted[i].order = order => ~posted[i].taken

Post(looked) ==
  /\ pc = "post"
  /\ IF looked THEN UNCHANGED fails ELSE Fail
  /\ LET order == SignedOrder(looked)
     IN posted' = Append(posted, [order |-> order, taken |-> Takes(order)])
  /\ Goes("answer")
  /\ UNCHANGED <<ask, row, read, market, moves, clock, shown>>

Answered == IF posted[Len(posted)].taken THEN "submitted" ELSE "failed"

\* An answer that is lost makes the order failed, whatever became of it.
Answer(lost) ==
  /\ pc = "answer"
  /\ IF lost THEN Fail ELSE UNCHANGED fails
  /\ End(IF lost THEN "failed" ELSE Answered)
  /\ UNCHANGED <<ask, read, market, moves, clock, posted, shown>>

\* Before the claim the row stays pending and is taken anew; after it, it waits for the reclaim
\* worker, which reads the row and posts.
Crash ==
  /\ pc # "end" /\ Fail
  /\ pc' = IF row.status = "pending" THEN "take" ELSE "post"
  /\ read' = NoRead
  /\ UNCHANGED <<ask, row, market, moves, clock, posted, shown>>

Next ==
  \/ \E b \in Books : Moves(b)
  \/ Closes
  \/ Passes
  \/ Skip
  \/ \E minFails, stateFails \in BOOLEAN : Take(minFails, stateFails)
  \/ Gates
  \/ Price
  \/ Claim
  \/ \E looked \in BOOLEAN : Post(looked)
  \/ \E lost \in BOOLEAN : Answer(lost)
  \/ Crash

Spec == Init /\ [][Next]_pricingVars

----------------------------------------------------------------------------
\* Row, reads and history have their types.
TypeOK ==
  /\ row.status \in {"pending", "dispatched", "submitted", "skipped", "failed"}
  /\ row.kept.price \in Nat /\ row.kept.size \in Nat /\ row.kept.stamp \in 0..1
  /\ pc \in {"take", "gates", "book", "claim", "post", "answer", "end"}
  /\ read.min \in {0} \cup Minimums /\ read.book \in {Blank} \cup Books /\ read.price \in Nat
  /\ market.book \in Books /\ moves \in 0..MaxMoves /\ fails \in 0..MaxFails /\ clock \in 0..1
  /\ shown \subseteq Books

\* What a sent order may cost: less than a cent beyond the signal's price and the slippage.
WithinSignal(o) ==
  IF ask.side = "buy" THEN 100 * o.cents < ask.price * (100 + Slip) * o.lots + 100
  ELSE 100 * o.cents > ask.price * (100 - Slip) * o.lots - 100

\* The kept price was within the slippage of the middle of a book that the market had.
NearSomeBook ==
  \E b \in shown : /\ b.bids # <<>> /\ b.asks # <<>>
                   /\ ~OffMid(row.kept.price, b.bids[Len(b.bids)], b.asks[Len(b.asks)])

\* An order that crosses meets the far side of such a book, or stands at its limit.
Crosses(o) ==
  ask.cross =>
    IF ask.side = "buy"
    THEN \/ 100 * o.cents >= ask.price * (100 + Slip) * o.lots
         \/ \E b \in shown : b.asks # <<>> /\ o.cents >= b.asks[Len(b.asks)] * o.lots
    ELSE \/ 100 * o.cents <= ask.price * (100 - Slip) * o.lots
         \/ \E b \in shown : b.bids # <<>> /\ o.cents <= b.bids[Len(b.bids)] * o.lots

\* However the market moves and the worker restarts, every order that is sent keeps within the
\* signal's price and near the market's, is worth something on both sides, and the venue takes
\* one at most (exec.rs:644, clob.rs:117, client.rs:779).
SentIsSafe ==
  /\ \A i \in DOMAIN posted :
       LET o == posted[i].order IN
       WithinSignal(o) /\ Crosses(o) /\ NearSomeBook /\ o.cents > 0 /\ o.lots > 0
  /\ \A i, j \in DOMAIN posted : posted[i].taken /\ posted[j].taken => i = j
=============================================================================
