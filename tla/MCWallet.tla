---------------------------- MODULE MCWallet ----------------------------
(* Three wallets: a client, a provider, and an admin who may be both.     *)
EXTENDS Wallet, TLC

CONSTANTS ana, bob, c1, c2, c3, t1, l1

MCUser   == {ana, bob}
MCCharge == {c1, c2, c3}
MCOwner  == c1 :> ana @@ c2 :> ana @@ c3 :> bob @@ t1 :> ana @@ l1 :> ana
MCPayee  == c1 :> bob @@ c2 :> bob @@ c3 :> ana
MCAmount == c1 :> 2 @@ c2 :> 3 @@ c3 :> 1 @@ t1 :> 2
MCOpening == ana :> 2 @@ bob :> 0
MCLimit  == {-2, -1}
MCFloor  == -2
==========================================================================
