---------------------------- MODULE MCCopyOrders ----------------------------
(* CopyOrders with small constants for TLC.                                 *)
EXTENDS CopyOrders, TLC

FirstUser == [o \in Orders |-> CHOOSE u \in Users : TRUE]

\* The ids of the orders that one of the signed bodies yields hold a "404".
HalfOfKeys == LET s == CHOOSE t \in Stamps : TRUE IN {k \in Keys : k.stamp = s}

\* Every process trades.
Live    == [dry |-> FALSE, post |-> TRUE]
Trading == {[c \in Copiers |-> Live]}

\* A fleet in which one process is set up in one way and the others in another.
Fleet(one, others) == {[c \in Copiers |-> IF c = d THEN one ELSE others] : d \in Copiers}

\* Every process trades; one signs without posting and the others, under
\* COPIER_DRY_RUN, post or do not; all are under COPIER_DRY_RUN and post.
TradingOrRehearsing ==
  LET signs    == [dry |-> FALSE, post |-> FALSE]
      dryQuiet == [dry |-> TRUE,  post |-> FALSE]
      dryPosts == [dry |-> TRUE,  post |-> TRUE]
  IN  Trading \cup Fleet(signs, dryQuiet) \cup Fleet(signs, dryPosts)
              \cup Fleet(dryPosts, dryPosts)

\* Orders, signed bodies and processes are only compared with each other.
OrderSymmetry == Permutations(Orders) \cup Permutations(Stamps) \cup Permutations(Copiers)
=============================================================================
