------------------------------ MODULE CreateTx ------------------------------
(***************************************************************************)
(* CWallet::CreateTransaction (wallet/wallet.cpp): the coins that pay for a *)
(* transaction are selected (SelectCoins, SelectCoinsMinConf), the change  *)
(* comes back to a key of the key pool, and all of it is done again with a *)
(* higher fee until the fee is enough for the size.                        *)
(*                                                                         *)
(* cs_main and cs_wallet are held throughout; one action is one round of   *)
(* the loop.  Amounts and sizes are small numbers.  The two random choices, *)
(* the shuffle and the subset, are choices over all their outcomes.        *)
(***************************************************************************)
EXTENDS Integers, Sequences, FiniteSets, FiniteSetsExt

CONSTANTS
    OwnCoins,      \* the outputs that the wallet may own
    CoinInfo,      \* value, depth, fromMe and chain (its relatives in the pool) of each
    Payments,      \* what may be asked for, records like NoPayment
    PayRates,      \* payTxFee and the estimates that may be in force, 0: none
    FallbackRate, MinTxRate, RelayRate,
    MaxFee,        \* maxTxFee
    DustLimit,     \* GetDustThreshold
    MinChange,     \* MIN_CHANGE
    MaxChainLength,
    RejectLongChains, SendFree, SpendZeroConfChange,
    MaxTxSize,     \* MAX_STANDARD_TX_SIZE
    Gain           \* GetInterest of a deposit

NoChange == -1

VARIABLES
    payment,     \* the arguments of the call
    available,   \* vAvailableCoins
    payRate,
    nFeeRet,
    made,        \* txNew: its coins, its outputs, and its change
    keysLeft,    \* the size of the key pool
    keyHeld,     \* whether the reserve key holds a key of the pool
    outcome      \* "looping", "created", "failed", or "idle"

createVars ==
    <<payment, available, payRate, nFeeRet, made, keysLeft, keyHeld, outcome>>

NoTx == [vin |-> {}, vout |-> <<>>, change |-> NoChange, free |-> FALSE]

\* The amounts of the recipients and which of them pay the fee; the coins that
\* the caller has chosen (CCoinControl) and whether others may be added; whether
\* the change goes to a key of the pool; and the fee rate, if the caller sets it.
NoPayment == [amounts |-> <<>>, subtract |-> {}, deposit |-> FALSE, preset |-> {},
              others |-> TRUE, ownKey |-> TRUE, feeRate |-> 0]

CreateInit ==
    /\ payment = NoPayment /\ available = {} /\ payRate = 0
    /\ nFeeRet = 0 /\ made = NoTx
    /\ keysLeft \in {0, 2} /\ keyHeld = FALSE /\ outcome = "idle"

Worth(S) == MapThenSumSet(LAMBDA c : CoinInfo[c].value, S)

SumOf(s) == MapThenSumSet(LAMBDA i : s[i], DOMAIN s)

-----------------------------------------------------------------------------
(* Coin selection.                                                         *)

\* ApproximateBestSubset: what the random search may end with, all of the
\* coins, or a cheaper set that reaches the target with its last coin only.
ApproximateBestSubset(V, target) ==
    {V} \cup {S \in SUBSET V : /\ Worth(S) >= target /\ Worth(S) < Worth(V)
                               /\ \E c \in S : Worth(S \ {c}) < target}

\* The search for a set that leaves a useful change follows the one for any
\* set, unless that found the exact amount.
BestSubsets(V, target) ==
    UNION {IF Worth(S) # target /\ Worth(V) >= target + MinChange
             THEN ApproximateBestSubset(V, target + MinChange) ELSE {S}
           : S \in ApproximateBestSubset(V, target)}

\* "the stochastic approximation didn't find a good solution, or the next
\* bigger coin is closer".
PreferLarger(S, larger, target) ==
    \/ Worth(S) # target /\ Worth(S) < target + MinChange
    \/ CoinInfo[larger].value <= Worth(S)

\* SelectCoinsMinConf among the coins E that are deep enough: the sets it may
\* return, none when it fails.
SelectFrom(E, target) ==
    LET exact == {c \in E : CoinInfo[c].value = target}
        lower == {c \in E : CoinInfo[c].value < target + MinChange}
        above == E \ lower
        lowest == {c \in above : \A d \in above : CoinInfo[c].value <= CoinInfo[d].value}
    IN  IF exact # {} THEN {{c} : c \in exact}
        ELSE IF Worth(lower) = target THEN {lower}
        ELSE IF Worth(lower) < target THEN {{c} : c \in lowest}
        ELSE IF lowest = {} THEN BestSubsets(lower, target)
        ELSE {IF PreferLarger(S, c, target) THEN {c} ELSE S
              : <<S, c>> \in BestSubsets(lower, target) \X lowest}

\* A coin's depth decides by who made it, and its chain in the pool.
DeepEnough(c, mine, theirs, limit) ==
    /\ CoinInfo[c].depth >= (IF CoinInfo[c].fromMe THEN mine ELSE theirs)
    /\ CoinInfo[c].depth > 0 \/ CoinInfo[c].chain < limit

\* The attempts of SelectCoins, from the best coins to any coin.
Attempts ==
    << [mine |-> 1, theirs |-> 6, limit |-> 0], [mine |-> 1, theirs |-> 1, limit |-> 0] >>
    \o (IF ~ SpendZeroConfChange THEN <<>> ELSE
        << [mine |-> 0, theirs |-> 1, limit |-> 2],
           [mine |-> 0, theirs |-> 1, limit |-> Min({4, MaxChainLength \div 3})],
           [mine |-> 0, theirs |-> 1, limit |-> MaxChainLength \div 2],
           [mine |-> 0, theirs |-> 1, limit |-> MaxChainLength] >>
        \o (IF RejectLongChains THEN <<>> ELSE
            << [mine |-> 0, theirs |-> 1, limit |-> 1000000] >>))

AttemptOn(C, a, target) ==
    SelectFrom({c \in C : DeepEnough(c, a.mine, a.theirs, a.limit)}, target)

\* "Remove preset inputs from vCoins".
Others(preset) == available \ preset

\* SelectCoins: the sets it may return, none when it fails.
SelectCoins(target) ==
    LET preset == payment.preset
        wanted == target - Worth(preset)
        from == Others(preset)
        tried[i \in 1..Len(Attempts) + 1] ==
            IF i > Len(Attempts) THEN {}
            ELSE LET found == AttemptOn(from, Attempts[i], wanted)
                 IN  IF found # {} THEN found ELSE tried[i + 1]
    IN  IF preset # {} /\ ~ payment.others
          THEN IF Worth(available \cap preset) >= target THEN {available \cap preset} ELSE {}
        ELSE IF wanted <= 0 THEN {preset}
        ELSE {S \cup preset : S \in tried[1]}

-----------------------------------------------------------------------------
(* The loop.                                                               *)

\* The bytes of a transaction, and the fee of so many bytes.
TxSize(vin, outs) == Cardinality(vin) + outs

\* GetMinimumFee.
GetMinimumFee(size) ==
    LET wanted == (IF payRate = 0 THEN FallbackRate ELSE payRate) * size
        required == Max({wanted, MinTxRate * size, RelayRate * size})
    IN  Min({required, MaxFee})

\* The caller's own fee rate, if there is one, comes before all that.
FeeNeeded(size) ==
    IF payment.feeRate > 0 THEN payment.feeRate * size ELSE GetMinimumFee(size)

\* What the recipient i is paid when the fee is nFeeRet: those who pay the fee
\* pay it equally, the first of them the remainder too.
ShareOfFee(i) ==
    IF i \notin payment.subtract THEN 0
    ELSE (nFeeRet \div Cardinality(payment.subtract))
         + (IF i = Min(payment.subtract) THEN nFeeRet % Cardinality(payment.subtract) ELSE 0)

PaidTo(i) == payment.amounts[i] - ShareOfFee(i)

Recipients == [i \in DOMAIN payment.amounts |-> PaidTo(i)]

\* nValue of the output, with the interest of a deposit; what the transaction
\* spends on it is its nPrincipal, which is PaidTo.
OutputValue(i) == PaidTo(i) + (IF payment.deposit THEN Gain ELSE 0)

\* The recipients' amounts, and the fee unless they pay it.
ValueToSelect ==
    SumOf(payment.amounts) + (IF payment.subtract = {} THEN nFeeRet ELSE 0)

Fail ==
    /\ outcome' = "failed"
    /\ keysLeft' = keysLeft + (IF keyHeld THEN 1 ELSE 0)
    /\ keyHeld' = FALSE
    /\ UNCHANGED <<payment, available, payRate, nFeeRet, made>>

\* GetReservedKey, when there is change, and ReturnKey, when there is none.
HoldsKey(change) == payment.ownKey /\ change # NoChange

\* The dust is left out of the fee that is returned.
DustForgotten(dust) == nFeeRet

\* "Never create dust outputs; if we would, just add the dust to the fee."
DustToFee(dust) == nFeeRet + dust

\* Fill vin, and decide on the fee: done, done with the missing fee taken from
\* the change, or once more with the fee that this size needs.  A free
\* transaction is done at once.
Settle(vin, outs, change, fee, free) ==
    LET size == TxSize(vin, Len(outs) + (IF change = NoChange THEN 0 ELSE 1))
        needed == FeeNeeded(size)
        fixed == change # NoChange /\ payment.subtract = {}
        tx == [vin |-> vin, vout |-> outs, change |-> change, free |-> free]
        Finish(c, f) ==
            IF size >= MaxTxSize THEN Fail
            ELSE /\ made' = [tx EXCEPT !.change = c] /\ nFeeRet' = f
                 /\ outcome' = "created"
                 /\ keyHeld' = HoldsKey(change)
                 /\ keysLeft' = keysLeft + (IF keyHeld THEN 1 ELSE 0)
                                         - (IF keyHeld' THEN 1 ELSE 0)
                 /\ UNCHANGED <<payment, available, payRate>>
    IN  IF free THEN Finish(change, fee)
        ELSE IF needed < RelayRate * size THEN Fail
        ELSE IF fee >= needed
               THEN IF fixed THEN Finish(change + (fee - needed), needed) ELSE Finish(change, fee)
        ELSE IF fixed /\ change >= (MinChange \div 2) + (needed - fee)
               THEN Finish(change - (needed - fee), needed)
        ELSE /\ nFeeRet' = needed /\ made' = tx
             /\ keyHeld' = HoldsKey(change)
             /\ keysLeft' = keysLeft + (IF keyHeld THEN 1 ELSE 0)
                                     - (IF keyHeld' THEN 1 ELSE 0)
             /\ UNCHANGED <<payment, available, payRate, outcome>>

\* The round with the coins S selected.  Dust change goes to the fee; when the
\* recipients pay the fee it is raised to the limit instead, at the expense of
\* the first of them.
WithCoins(S, free) ==
    LET change == Worth(S) - ValueToSelect
        first == Min(payment.subtract)
        raised == DustLimit - change
        lowered == [Recipients EXCEPT ![first] = @ - raised]
    IN  IF change > 0 /\ payment.ownKey /\ keysLeft = 0 /\ ~ keyHeld THEN Fail
        ELSE IF change <= 0 THEN Settle(S, Recipients, NoChange, nFeeRet, free)
        ELSE IF change >= DustLimit THEN Settle(S, Recipients, change, nFeeRet, free)
        ELSE IF payment.subtract = {}
               THEN Settle(S, Recipients, NoChange, DustToFee(change), free)
        ELSE IF lowered[first] < DustLimit THEN Fail
        ELSE Settle(S, lowered, DustLimit, nFeeRet, free)

CreateRound ==
    /\ outcome = "looping"
    /\ IF \E i \in DOMAIN payment.amounts : OutputValue(i) < DustLimit THEN Fail
       ELSE \E selections \in {SelectCoins(ValueToSelect)} :
               IF selections = {} THEN Fail
               ELSE \E S \in selections, free \in {FALSE, SendFree} : WithCoins(S, free)

\* The call, with some coins available: coins chosen by the caller are spent
\* from the wallet even when they are not among those.
CreateTransaction(p, C, rate) ==
    /\ payment' = p /\ available' = C /\ payRate' = rate
    /\ nFeeRet' = 0 /\ outcome' = "looping"
    /\ UNCHANGED <<made, keysLeft, keyHeld>>

CreateNext ==
    \/ CreateRound
    \/ /\ outcome = "idle"
       /\ \E p \in Payments, C \in SUBSET OwnCoins, rate \in PayRates :
             CreateTransaction(p, C, rate)

CreateSpec == CreateInit /\ [][CreateNext]_createVars

-----------------------------------------------------------------------------
\* A created transaction pays what was asked for: what the coins are worth is
\* what the recipients get, the change and the fee that is reported, to the
\* last unit; the fee is enough for the final size, unless it was allowed to be
\* free; every recipient who does not pay the fee gets the amount; the coins
\* the caller chose are spent; the change is not dust; and a key has left the
\* pool exactly when there is change to receive with it.  Each round starts
\* from other coins, and changes what earlier rounds had reserved.
CreatedTxBalances ==
    outcome = "created" =>
        LET extra == IF made.change = NoChange THEN 0 ELSE 1
            change == IF made.change = NoChange THEN 0 ELSE made.change
        IN  /\ Worth(made.vin) = SumOf(made.vout) + change + nFeeRet
            /\ made.free \/ nFeeRet >= RelayRate * TxSize(made.vin, Len(made.vout) + extra)
            /\ \A i \in DOMAIN made.vout :
                  /\ i \notin payment.subtract => made.vout[i] = payment.amounts[i]
                  /\ made.vout[i] <= payment.amounts[i]
            /\ payment.others => payment.preset \subseteq made.vin
            /\ made.change = NoChange \/ made.change >= DustLimit
            /\ keyHeld <=> payment.ownKey /\ made.change # NoChange
=============================================================================
