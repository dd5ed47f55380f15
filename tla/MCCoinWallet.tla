---------------------------- MODULE MCCoinWallet ----------------------------
(* Two users; both jobs belong to the first, so that settling one job wrongly *)
(* can reach the coins of the other; one operation key that both users send.  *)
EXTENDS CoinWallet, TLC

CONSTANTS u1

MCOwnerOf == [j \in Job |-> u1]
=============================================================================
