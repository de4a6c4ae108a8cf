----------------------------- MODULE MC_Ledger -----------------------------
(***************************************************************************)
(* The transactions of a small ledger: pay splits the coinbase of height   *)
(* 1, child spends its first output and rival the same coinbase; deposit   *)
(* locks the coinbase of height 2 for a block and claims interest;         *)
(* withdraw spends the deposit together with pay's other output; open      *)
(* spends the genesis coin; twice names the coinbase of height 1 two times. *)
(***************************************************************************)
EXTENDS Ledger, TLC

CONSTANTS pay, child, rival, deposit, withdraw, open, twice

Plain(v) == [value |-> v, principal |-> 0, lock |-> 0]
Cb(h) == <<CoinbaseId(h, 2), 1>>

MCTxs == {pay, child, rival, deposit, withdraw, open, twice}

MCInputs ==
    pay :> <<Cb(1)>> @@ child :> <<<<pay, 1>>>> @@ rival :> <<Cb(1)>> @@
    deposit :> <<Cb(2)>> @@ withdraw :> <<<<deposit, 1>>, <<pay, 2>>>> @@
    open :> <<<<CoinbaseId(0, 4), 1>>>> @@ twice :> <<Cb(1), Cb(1)>>

MCOutputs ==
    pay :> <<Plain(1), Plain(1)>> @@ child :> <<Plain(0)>> @@
    rival :> <<Plain(1)>> @@
    deposit :> <<[value |-> 4, principal |-> 2, lock |-> 1]>> @@
    withdraw :> <<Plain(5)>> @@
    open :> <<[value |-> 4, principal |-> 3, lock |-> 2]>> @@
    twice :> <<Plain(3)>>

MCBodies ==
    {<<>>, <<pay>>, <<rival>>, <<child>>, <<pay, child>>, <<deposit>>,
     <<pay, deposit>>, <<withdraw>>, <<child, withdraw>>, <<open>>,
     <<child, deposit>>, <<twice>>}

MCLockRate == 1 :> 1 @@ 2 :> 1
=============================================================================
