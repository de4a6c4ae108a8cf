------------------------------ MODULE MC_Money ------------------------------
(* The parts that keep account of money, each on an instance of its own:    *)
(* the ledger with the pool (MC_TxPool), the packages and the fee estimates *)
(* of the pool, the wallet (MC_Wallet) and the making of a payment.         *)
EXTENDS MC_TxPool, MC_Wallet, PoolPackages, FeeEstimator, CreateTx

VARIABLE part

\* A diamond with a tail, and a rival of one of its members.
MCPSpends == 1 :> {} @@ 2 :> {1} @@ 3 :> {1, 2} @@ 4 :> {3} @@ 5 :> {1}
MCPRivals == 1 :> {} @@ 2 :> {5} @@ 3 :> {} @@ 4 :> {} @@ 5 :> {2}
MCPFee == 1 :> 1 @@ 2 :> 2 @@ 3 :> 4 @@ 4 :> 8 @@ 5 :> 16
MCFeeDeltas == {-1, 1}

MCFeeRate == 1 :> 4 @@ 2 :> 6

\* Coins above and below the amounts, confirmed and not, and payments of every
\* kind: to one and two recipients, with the fee on top or deducted, as a
\* deposit, from coins and with a fee rate that the caller has chosen.
CoinOf(v, d, m, ch) == [value |-> v, depth |-> d, fromMe |-> m, chain |-> ch]
MCCoinInfo ==
    1 :> CoinOf(3, 6, FALSE, 0) @@ 2 :> CoinOf(5, 0, TRUE, 1) @@ 3 :> CoinOf(8, 1, TRUE, 0)
    @@ 4 :> CoinOf(14, 6, TRUE, 0) @@ 5 :> CoinOf(4, 0, TRUE, 3)
MCPayments ==
    {p \in [amounts : {<<1>>, <<2>>, <<5>>, <<7>>, <<3, 4>>}, subtract : SUBSET {1, 2},
            deposit : BOOLEAN, preset : {{}, {3}}, others : BOOLEAN, ownKey : BOOLEAN,
            feeRate : {0, 3}] :
        /\ p.subtract \subseteq DOMAIN p.amounts
        /\ p.deposit => p.subtract = {} /\ p.preset = {} /\ p.ownKey /\ Len(p.amounts) = 1
        /\ p.preset = {} => p.others /\ p.feeRate = 0}

CreateIdle ==
    /\ payment = NoPayment /\ available = {} /\ payRate = 0 /\ nFeeRet = 0 /\ made = NoTx
    /\ keysLeft = 0 /\ keyHeld = FALSE /\ outcome = "failed"

MoneyInit ==
    /\ PoolInit /\ PackagesInit /\ FeeInit /\ WalletInit
    /\ \/ part \in {"ledger", "packages", "fees", "wallet"} /\ CreateIdle
       \/ part = "payment" /\ CreateInit

MoneyNext ==
    /\ UNCHANGED part
    /\ \/ /\ part = "ledger" /\ PoolNext
          /\ UNCHANGED <<packageVars, feeVars, walletVars, createVars>>
       \/ /\ part = "packages" /\ PackagesNext
          /\ UNCHANGED <<allVars, feeVars, walletVars, createVars>>
       \/ /\ part = "fees" /\ FeeNext
          /\ UNCHANGED <<allVars, packageVars, walletVars, createVars>>
       \/ /\ part = "wallet" /\ WalletNext
          /\ UNCHANGED <<allVars, packageVars, feeVars, createVars>>
       \/ /\ part = "payment" /\ CreateNext
          /\ UNCHANGED <<allVars, packageVars, feeVars, walletVars>>

MoneySpec ==
    MoneyInit /\ [][MoneyNext]_<<part, allVars, packageVars, feeVars, walletVars, createVars>>
=============================================================================
