----------------------------- MODULE MCRiskGate -----------------------------
(* RiskGate with small constants for TLC.                                   *)
EXTENDS RiskGate, TLC

CONSTANTS LiveToken, LiveFollow

Unlimited == [dryRun |-> FALSE, daily |-> 0, open |-> 0, flip |-> 0, losses |-> 0,
              followDaily |-> 0, followOpen |-> 0, ratio |-> 1]

\* Dry run, where a fill is booked at once: limits on notional and positions.
Caps == [offers |-> [token : Tokens \ {LiveToken}, follow : Follows \ {LiveFollow},
                     side : {"buy", "sell"}, size : {1, 2}],
         orders |-> 3, positions |-> {4}]
        @@ [Unlimited EXCEPT !.dryRun = TRUE, !.daily = 5, !.open = 2,
                             !.followDaily = 4, !.followOpen = 2]

\* Live: the rapid-flip guard, the breaker and the cap on the net position.
Live == [offers |-> [token : {LiveToken}, follow : {LiveFollow}, side : {"buy"}, size : {2}],
         orders |-> 4, positions |-> {4, 6}]
        @@ [Unlimited EXCEPT !.flip = 2, !.losses = 2]

\* Live with the breaker alone.
Failing == [Live EXCEPT !.flip = 0, !.orders = 3]

Both     == [caps |-> Caps, live |-> Live]
OnlyLoss == [failing |-> Failing]

\* Tokens and follow relations are only compared with each other.
NameSymmetry == Permutations(Tokens \ {LiveToken}) \cup Permutations(Follows \ {LiveFollow})
=============================================================================
