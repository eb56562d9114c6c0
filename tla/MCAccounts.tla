----------------------------- MODULE MCAccounts -----------------------------
(* Accounts with small constants for TLC.                                    *)
EXTENDS Accounts, TLC

CONSTANTS T1, I1

OneTrade(s) == [trader |-> T1, identity |-> I1]

\* A fixed stake, the same with a stake of nothing, and the whole size with a ceiling it exceeds.
ThreeConfigs ==
  {[venue |-> "polymarket", same |-> FALSE, mode |-> "fixed", value |-> 4, max |-> 0],
   [venue |-> "polymarket", same |-> FALSE, mode |-> "fixed", value |-> 0, max |-> 0],
   [venue |-> "zeitgeist", same |-> TRUE, mode |-> "proportional", value |-> 100, max |-> 5]}

Symmetry == Permutations(Users) \cup Permutations(Requests)
=============================================================================
