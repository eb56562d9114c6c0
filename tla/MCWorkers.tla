------------------------------ MODULE MCWorkers ------------------------------
(* Workers with small constants for TLC.                                     *)
EXTENDS Workers, TLC

CONSTANTS p1, p2, p3, p4

\* One trader on the first venue, three on the second, of whom one resembles nobody and takes
\* another one's place in the list.
Venue(t) == IF t = p1 THEN 1 ELSE 2
Likenesses == {{p1, p2}, {p1, p3}, {p2, p3}}

\* Sizes about the market's minimum and the least notional, one that leaves half a lot, and a row
\* that does not parse.
Signals ==
  [side : {"buy", "sell"}, price : {40, 50}, size : {5, 12}]
    \cup {[side |-> "buy", price |-> 0, size |-> 5]}

\* Near the signals' prices, beyond the slippage, with dust in front, and empty on one side.
SmallBooks ==
  {[bids |-> <<1, 39>>, asks |-> <<99, 40>>], [bids |-> <<38, 40>>, asks |-> <<60, 41>>],
   [bids |-> <<49>>, asks |-> <<99, 50>>], [bids |-> <<>>, asks |-> <<41>>]}

Symmetry == Permutations(Tokens) \cup Permutations(Txs)
=============================================================================
