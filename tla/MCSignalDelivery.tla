-------------------------- MODULE MCSignalDelivery --------------------------
(* SignalDelivery with small constants for TLC.                             *)
EXTENDS SignalDelivery

TwoSeconds == {1, 2}

\* With pages of one trade: the baseline, two full pages and one trade too
\* many.  Two trades of one second may happen in the order of their ids or in
\* the other one.
FourTrades == {[ts |-> 1, id |-> 1], [ts |-> 1, id |-> 2],
               [ts |-> 2, id |-> 3], [ts |-> 2, id |-> 4]}
=============================================================================
