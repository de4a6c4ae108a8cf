----------------------------- MODULE MC_Wallet -----------------------------
(* Five transactions: 3 and 4 spend 1, 4 also spends 2, and 5 spends 4; the *)
(* wallet has the keys of 1, 2 and 4, and the key of 3 may be imported.     *)
EXTENDS Wallet, TLC

MCWSpends == 1 :> {} @@ 2 :> {} @@ 3 :> {1} @@ 4 :> {1, 2} @@ 5 :> {4}
=============================================================================
