------------------------------ MODULE MCMoneyOut ------------------------------
(* MoneyOut with small constants for TLC.                                   *)
EXTENDS MoneyOut

OneAmount == {1}
=============================================================================
