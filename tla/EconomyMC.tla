----------------------------- MODULE EconomyMC -----------------------------
(* Two players with two kinds of coins, one of which is worth two of the   *)
(* other, and one good, whose price is one of the lower kind.              *)
EXTENDS Economy

CoinKinds == <<"silver", "copper">>
CoinValue == [t \in Types |-> IF t = "silver" THEN 2 ELSE 1]
GoodPrice == [g \in Goods |-> [type |-> "copper", num |-> 1]]
OneSilver == [u \in Users |-> IF u = "ann" THEN Only("silver", 1) ELSE NoCoins]
=============================================================================
